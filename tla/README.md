# TLA+ specifications of aeneas

aeneas stores workflows (ordered lists of container steps), lets clients trigger
executions of them over HTTP or gRPC, and runs the steps one after the other in
containers. Three models, sharing modules, look at the one process of
`cmd/aeneas/main.go`:

* **Orchestrator**: the tables, the handlers of the two services and the engine's
  goroutine, interleaved at the statements they issue, with failed and lost
  statements, an interrupt, kills and restarts.
* **Process**: the goroutines of `run`, the engine's Start and Stop, and the call of
  either runner request by request, over Docker or a cluster.
* **Api**: what a client of either protocol is told, request by request.

## The system

| Component | State | Operations | What is hard | What makes it correct |
|---|---|---|---|---|
| domain (`domain/status.go`, `entities.go`) | none; three transition tables | `TransitionWorkflow`, `TransitionExecution`, `TransitionStepExecution` | nothing in the engine consults them | the stored statuses follow the tables |
| repositories (`db/*.go`) | tables `workflows`, `executions`, `step_executions` | Create, Get, List, Update, UpdateStatus | every call is one statement outside a transaction; an UPDATE's WHERE clause names only the id; a lost acknowledgement looks like an error | callers keep the tables consistent without transactions |
| workflow service (`service/workflow_service.go`) | none of its own | Create, Get, List, Update, Activate, Archive | read, check, write the whole row back: two statements | an active workflow has steps, and they are frozen |
| execution service (`service/execution_service.go`) | none of its own | Trigger, GetWithSteps, ListByWorkflow, Cancel | Trigger is 2+n statements, Cancel and GetWithSteps are two | replies are consistent; a cancellation has its effect |
| engine (`engine/engine.go`) | `running`, `stopCh`, `doneCh`; the goroutine's locals | Start, Stop, poll loop, `processExecution`, `processStep`, `skipRemainingSteps` | works from stale lists, writes without conditions, runs for minutes between two statements, cancellation of its context | each step run once, in order, only after its predecessors; every pending execution taken up |
| process (`cmd/aeneas/main.go`) | the context, goroutines waited for | start, interrupt, stop | server, database, health checker and engine stop in any order, each by a return or a panic; no recovery at start | Stop returns with nothing at work; shutdown completes; a restart repeats nothing |
| local runner (`runner/local`) | a Docker container | Execute | five requests under a context with a deadline of its own; a start applied but reported failed; clean-up after the context has ended | an answer for each call, success only for exit code 0, no started container left |
| Kubernetes runner (`runner/k8s`) | a Job, its Pod and a watch | Execute | the Job ends before, during or after the watch, the watch closes, the pod is gone when its exit code is read | success only for exit code 0; a finished Job ends the wait; a Job with a deadline goes in the end |
| service errors, HTTP and gRPC transports (`service/errors.go`, `transport`) | none | every handler and method | an error becomes one of two sets of codes; a row stored over one protocol cannot be converted for the other | a refusal has changed nothing |
| config, generated code | none | | | not modelled |

The transports call the services, the services and the engine call the
repositories, the engine calls the runner. The services and the engine
communicate only through the tables: Trigger stores a pending execution that the
engine finds at its next poll, Cancel stores a status that the engine reads
before its next step. The engine receives the process context, which an
interrupt cancels.

## The modules

    Domain, Database <- WorkflowRepo <- WorkflowService ---------.----.
                             ^                                   |    |
                             '-- ExecutionRepo <- ExecutionService ---+- Api
                                       ^                         |
                                       '-------- Engine ---------+- Orchestrator
                                                                        |
    Database <- Runner <- LocalRunner --.          ExecutionLifecycle <-'
                   ^                    +- Process -> RunnerContract
                   '---- K8sRunner -----'

(`<-` is EXTENDS, `->` a refinement.)

* **Domain**: the statuses and the three transition tables.
* **Database**: what a statement may come back with. `ok`: applied and
  acknowledged; `error`: not applied; `lost`: applied, but an error is reported.
  A statement under a cancelled context is never sent and always fails.
* **WorkflowRepo, ExecutionRepo**: the tables and the statements on them. A row
  keeps the columns that steer something: status and steps of a workflow; workflow,
  status and `finished_at` set or not of an execution; step, status and exit code of
  a step row. An id without a row has status `none`. The step rows of one
  execution form a sequence in order of creation.
* **WorkflowService**: Update, Activate and Archive as a read with its checks
  (`StartEdit`) and a write of the copy (`WriteBack`). The module also has a
  specification of its own, `WorkflowServiceSpec`, on an empty table. `FreshWritesLegal`
  says that a row changes against `workflowTransitions`, or an active one's steps
  change, only by the write of a copy that is stale.
* **ExecutionService**: Trigger as `TriggerRead`, `TriggerInsert`, one
  `TriggerRow` per step; Cancel as `CancelRead`, `CancelWrite`; GetWithSteps as
  `GetRead`, `GetSteps`, `GetReply`.
* **Engine**: the poll loop's goroutine. `pc` names the next statement;
  `wfs`, `snap`, `exs` are the lists it made, `cur`, `wf`, `idx`, `row`,
  `result` its position. One action per statement or call of the runner, with
  the control flow up to the next one. Two history variables record what no
  column holds: `plan[e]`, the steps of the snapshot with which e was
  claimed, and `runs[e]`, the calls of `runner.Execute`.
* **Orchestrator**: their composition, with `Shutdown` (os.Interrupt cancels the
  context), `Crash` (the process is killed, SIGTERM included, which
  `signal.NotifyContext` is not asked to catch) and `Start` (the supervisor
  starts a new process; only the tables survive). A third history variable,
  `canceled[e]`, holds one mark for each Cancel of e that was stored: whether the
  engine had e listed or was claiming it by then (`queued`), was in the loop over its
  steps (`loop`) or did not hold it (`idle`), and how often it had called the runner
  for it. Marks stay when the cancellation is overwritten. The module states the
  properties.
* **ExecutionLifecycle**: the abstract specification: an execution is created
  pending and its status follows `executionTransitions`. `Orchestrator` maps to it
  by its stored statuses (`ImplementsLifecycle`).
* **RunnerContract**: what the engine relies on: calls of `Execute` are answered once,
  in their order, and with success only if the call's container ended with exit
  code 0.
* **Runner**: the state of a call that both runners share: `at`, the request it
  is at; `call`, its number; `result` and `answer`; `ended`, the history of how
  each container ended. `Request` is what becomes of one that creates or starts
  something: it is done, not done, or done without its reply arriving, which takes a
  fault or a context that ends while the request is in flight.
* **LocalRunner**: `EnsureImage`, `CreateContainer`, `StartContainer`, the wait
  (`WaitStatus`, `WaitError`) and the deferred `RemoveContainer`, each a request; `containers[c]` is what the daemon holds. `LocalDeadline`
  is the timeout of the call's own context.
* **K8sRunner**: `CreateJob`, `OpenWatch`, the `select` (`SelectDone`,
  `ReceiveEvent`), `GetExitCode`, `GetLogs`. `jobs[c]`, `watching` and `events` are
  the cluster's; its controllers (pods start, end, are lost; a Job finishes, meets
  its deadline, expires; the watch closes) are external actions.
* **Process**: `run` in `main` (`MainStart`, `MainStop`, `MainStopped`), the goroutines
  it waits for (`WorkerReturns`, `HealthReturns`), the engine's channels
  (`StartEngine`, `StopEnter`, `StopClose`, `StopWait`, `StopReturn`), the polling
  loops and the runner they call. A panic of any goroutine ends the process;
  containers and Jobs go on. `Others` are further callers of Start and Stop, which
  are exported and guarded by a mutex.
* **Api**: every handler of `transport/http` and every method of `transport/rpc` over the
  two services: the checks of a request in their order, the class of the error and
  its code in either protocol, and whether the request had written anything by then.
* **MCWorkflowService, MCOrchestrator, MCProcess, MCApi**: values for TLC.
* **ServiceProofs, OrchestratorProofs, DispatchProofs, OutcomeProofs,
  LifecycleProofs, ApiProofs, RunnerProofs, StopProofs**: theorems.

Some definitions are marked as faulty variants. No action uses them: each is
what a definition would be with a plausible mistake, kept to see that the
properties notice it.

### Modelling decisions

* A statement is atomic; everything between two statements of one goroutine is
  invisible to the others and belongs to the action of the statement.
* `skipRemainingSteps` inserts a row with status `skipped` and then updates it to
  `skipped`: the second statement changes nothing that is modelled, so the two
  are one action. Both may fail, and a failure of either only goes on to the next
  step.
* Go's `select` in the poll loop chooses among ready cases at random, so a
  poll under a cancelled context is possible: `PollTick` then fails and stays
  idle, and `PollStop` is enabled all along.
* Handlers run under the context of their request, not of the engine, so their
  statements are not affected by `ctxDone`, and those in flight may finish after the
  engine has returned. Requests that are refused change nothing: they have no
  action in Orchestrator and an answer in Api.
* Api lets the engine write any status at any time (`EngineWrite`), which is
  more than Engine does: what it says of answers does not depend on the engine.
* A statement that is in flight when the context ends is a `lost` or an `error` that
  is counted as a fault; a request of a runner in the same place is not (`Request`),
  since there the end of the context is what the code has to deal with.
* A pod that is being terminated for its Job's deadline may be killed, or end in time
  with an exit code of its own.
* The contract says nothing of a step reported as failed: its container may
  still run (a lost request, a kill, a cancelled wait for a Job).
* A closed Kubernetes watch delivers empty events without end. Each is received
  and skipped, which changes nothing: the wait stays at `select` until the context ends.
* The Docker client never closes its error channel without an error, so the branch
  of `WaitStatus` for a nil error (`errCh` first) is not taken.
* Lists are ordered by `created_at DESC`. Ids number the rows in the order of
  creation, as PostgreSQL's timestamps do. (A database with timestamps of one
  second, such as the SQLite of the tests, leaves ties open.)
* The workflow a list returned is used for all its executions, as `snap` shows:
  an edit after the poll does not change the steps that are run.

## Runs

| Run | Instance | Shows |
|---|---|---|
| `core` | 1 execution of 2 steps, a canceler, 1 fault, 1 shutdown, 1 kill | each step run at most once, in order, after the stored success of the one before; succeeded means all steps succeeded; a Cancel that meets the loop lets at most one more step start and one of an execution that the engine does not hold lets none, whatever is written over it later; an execution is left running by nobody but a statement that fails or is not sent, or a kill; outcomes and step rows change as they may; a stored status leaves `executionTransitions` only in the two races with Cancel; `DispatchInv`, the inductive invariant of the proofs |
| `edits` | from an empty database: an editor, a trigger, a reader, 1 fault | the workflow changes under the engine; a GetWithSteps reply saying succeeded holds the success of every step |
| `failures` | 2 executions of 1 step, no Cancel, 1 fault, 1 shutdown, 1 kill, fair | every pending execution is taken up and every execution ends unless the process or its statements fail; a shutdown completes; refinement of ExecutionLifecycle |
| `api` | an HTTP and a gRPC client in all roles, 1 workflow, 1 execution, 1 fault | a refusal has changed nothing (with one exception, which the property names); no race leaves an active workflow without steps; only a stale copy breaks the workflow lifecycle |
| `process` | either runner, 1 call, 1 fault, main and one other caller of Start or Stop, fair | one loop at a time; nothing at work when Stop returns; channels closed once unless another caller interferes; a call that no request failed leaves no container that was started, wherever its context ends; a Kubernetes exit code is that of a Job that has ended; both runners implement RunnerContract; an interrupt ends the loop and the call, a timeout ends the call, a finished Job the wait, a deadline the Job |
| `workflow_lost_update` | 2 handlers | violated: Update puts an active workflow back to draft |
| `cancel_race` | a canceler | violated: with Cancel the refinement fails |
| `shutdown` | 1 shutdown | violated: an execution that is interrupted before a step stays running |
| `rows` | nothing fails | violated: a succeeded execution has two rows per step |
| `starvation` | 2 executions, list of 1, fair | violated: an older pending execution is never seen |
| `notfound` | the clients of `api`, nothing fails | violated: a missing row is an internal error |
| `graceful` | main alone, the local runner | violated: after an interrupt, while main waits in eng.Stop, the process ends by a panic |

### Bounds

Every cfg gives the bounds by name. Two steps are the fewest for an order, a
predecessor and a step skipped after a failure. One execution is enough for what is
said of a single execution, since the engine processes one at a time;
`failures` has two, so that one waits in a list while the other is run
or is created while the engine is busy. One fault, one shutdown and one kill
each strike at every point, alone and combined in `core`. A handler serves any
number of requests one after the other. `ExecutionListLimit` is 10 as in the
code, above `MaxExecutions`; `starvation` scales it to 1, so that two
executions do what eleven do. `WorkflowListLimit` is 100 throughout.

In `api` two clients are the fewest that race, one of each protocol, and both take
every role; one step's timeout is beyond an int32. In `process` a call is
independent of the calls before it, which have ended; one fault strikes every
request. One other caller with one call is enough to close a channel twice or to
start a second loop. (`process` and `graceful` do not check for deadlock: a
process that has panicked is at its end, and main may wait for goroutines that
need never return.) In the proofs all of these bounds are arbitrary.

### Fairness

`FairSpec` has weak fairness of `EngineStep`, for the Go scheduler runs
a goroutine that can go on, the ticker fires for ever, and a step's container is assumed to
end (an external assumption: the code sets no timeout on steps); and of `Start`, for
a supervisor restarts the process. Handlers have none: a request
may be cut off anywhere. With a cancelled context an engine step other than a stutter
leads to `PollStop`, so weak fairness is enough for `ShutdownCompletes`.
Faults, shutdowns and kills are finitely many, so `PendingTakenUp` says that the
engine goes on once they have stopped.

In Process weak fairness stands for the scheduler: of main, of the callers of Stop,
of the end of a poll, of a request's answer (without a fault), of the timer of a deadline,
and of the cluster's controllers. The return of the loop has strong fairness:
a tick may be taken although `ctx.Done()` or `stopCh` is ready, but `select`
chooses at random and does not pass over a ready case for ever. Nothing says that a
container ends, that an interrupt or a tick comes, that a watch stays open
or that a fault happens.

### What the code does and its documents do not say

1. `workflow_lost_update`: Update reads a draft, Activate stores active, Update
   writes back `draft` with `workflow_service.go:137`. The transition tables are
   checked against the copy, not the row.
2. `cancel_race`: Cancel stores `canceled` after the engine has listed the
   execution, and the claim (`engine.go:162`, or the Update after it, `engine.go:171`)
   overwrites it with `running`: the look before each step finds no cancellation, and all
   steps are run. Outside of this window a Cancel has its effect (`CancelLatency` in
   `core`, and proved). The last Update
   does the same with a Cancel during the last step, and a Cancel that read
   `running` overwrites `succeeded`. `OnlyCancelRaces` (`core`, and proved) says that
   there is no other way out of the table, whatever fails.
3. `shutdown`: in the run the interrupt comes after the claim is recorded and before
   the first step. The loop takes its `<-ctx.Done()` branch, and the statement that
   marks the execution canceled (`engine.go:182`) is issued under the cancelled context.
   The execution stays `running` and no later process looks at it. An interrupt within a
   step ends the same way, by the Update to failed (`engine.go:216`), which is not sent
   either. The test that expects `canceled` uses a fake repository that ignores the
   context.
4. `rows`: Trigger and `processStep` both insert a row per step; those of
   Trigger stay pending.
5. `starvation`: the engine looks only at the ten newest executions of a
   workflow, of any status, so with ten newer ones an older pending execution waits for
   ever. (The same holds of the hundred newest workflows, which no run shows.)
6. `notfound`: the repositories return an error for a missing row
   (`workflow_repo.go:123`), the services wrap it as internal before they check for nil,
   and the client gets 500, Internal or Unknown where the tests of the handlers, on
   mocks, expect 404.
7. `graceful`: `err != nil || err != context.Canceled` (`main.go:112`) holds of every
   value, so the health checker's goroutine panics when `hc.Start` returns at an
   interrupt; in the run that is while main waits in `eng.Stop`.

More that no document contradicts:

* An edit over gRPC of a workflow with a timeout beyond an int32, stored over HTTP, is
  stored and answered with InvalidArgument (the exception in `RefusalsLeaveNoTrace`).
* A Job whose watch was closed, or that was gone before its watch was opened (its TTL had
  passed), is waited for until the context ends (the exceptions in
  `FinishedJobEndsWait`).
* A container whose creation was in flight when the context ended stays: its id never
  arrives (the exception in `LocalCleanup`).
* No active workflow is without steps, but the engine lists workflows of any status:
  where a stale draft without steps is written over an active workflow (finding 1), or
  an archived one is edited, a pending execution may be claimed with an empty plan and
  is stored as succeeded, having run nothing.

## Proofs

All theorems hold for every value of the constants that satisfies the named
assumptions (`MaxFaultsAssumption`, `MaxCallsAssumption`, `WorkflowRepoAssumption`,
`ExecutionRepoAssumption`, `StepListsAssumption`, `OrchestratorAssumption`,
`ApiAssumption`, `ProcessAssumption`): bounds are natural numbers, main is not one of the other
callers of Start and Stop, no client speaks both protocols, requests carry lists of step names, and the first
contents of the table have no active workflow without steps (`SeedWorkflows`, an
extension of the empty table; Activate never makes one).

* **ServiceProofs**: the two services, as whatever process contains them needs them.
  `ActiveHasSteps` is not inductive: a handler may
  hold an active copy. With `CopiesHaveSteps`, the same of the copies in flight,
  it is (`StepsInv`). `FreshWritesLegal` needs `LegalInv`: every copy on its way to the
  table is a legal successor of the row it was read from, so that an illegal change
  can only come from a row that has moved on since. With one editor there is no such
  row (`CopiesFresh`), so `OneEditorKeepsLifecycle` proves the property that two
  editors violate in `workflow_lost_update`.
* **OrchestratorProofs**: `TypeCorrect`. `TypeInv` adds to the types `StepsInv`
  and `EngineShape`, where the engine stands: without it nothing says that
  `cur` and `idx` name an execution and a step when a statement uses them.
  `ActiveWorkflowsKeepSteps` and `ProcessKeepsWorkflowsLegal` carry what
  ServiceProofs says of the handlers alone over to the process with its engine, faults,
  kills and restarts (a restart drops the copies: `DropRequests`).
  `NothingHiddenWithinTheLimit` is the converse of `starvation`: where a workflow has no more
  executions than its list may hold, `Newest` drops none (`NewestIsAll`), and an
  answered list takes in every pending one.
* **DispatchProofs**: `DispatchInv` is inductive and gives
  `StepsDispatchedOnce`, `FinishedStaysEnded` and, with
  `RowWrites`, `OutcomesStay`; `IdleCancelStays` needs only `TypeInv`. Its parts beyond the
  properties are what the code relies on without saying so:
  `UntouchedUntilClaimed` (whatever is stored as pending or still in the
  engine's list has never been run or finished; this is why a stale list does no
  harm and why a claim that overwrites a cancellation repeats nothing),
  `LoopInv` (in the loop over the steps the number of calls of the runner agrees with
  the loop's index, and the row has left pending), and `OutcomeFinished` (an outcome is stored together with
  `finished_at`). One lemma per group of actions shows that a step keeps it:
  `DispatchReturn` for what leaves `processExecution`, `DispatchLoop` for what
  stays in it, `DispatchOther` for the writes of other handlers.
  `CancelBounded` needs `CancelInv` besides: a Cancel that was stored in the loop is still
  stored when the loop looks (in the loop only the last statement of an execution
  writes its row), and from the look to the call of the runner no further call was made; one
  that was stored while the engine did not hold the execution keeps it out of every
  later list.

* **OutcomeProofs**: `OutcomeInv` extends `DispatchInv` by the rows of the steps. Of
  itself `SequentialSteps` says nothing of the step in hand; `RowInv` says that
  the loop's row is the one it made for the step at `idx`, that its status is that of
  the engine's place, and that no earlier step failed. `SucceededMeansAllStepsRan`
  follows at the last statement, and `ReadsInv` carries it into a reader between its two
  reads, which gives `RepliesConsistent`. `StepTransitions` follows from `RowInv`: the
  engine's unguarded writes hit a row whose status it knows.
* **LifecycleProofs**: what becomes of the stored status. `AbandonedOnlyByFailure`
  goes through every statement after which the engine lets go of an execution or
  writes `running`: one that is answered `ok` has stored an outcome, or follows a look
  that saw the cancellation, which `OwnerInv` says is still stored; all others fail, are
  not sent, or come with the kill. `HeldInv` for `OnlyCancelRaces` and for the
  refinement: what the engine has listed is still stored as pending, and what it works
  on as running, unless a Cancel came in between; without it an
  unconditional write could hit any status. `OnlyCancelRacesBreakLifecycle` needs no
  assumption on the number of faults, shutdowns, kills or cancelers;
  `LifecycleWithoutCancel`, the refinement of ExecutionLifecycle, is the case of no canceler
  (`cancel_race` shows that it needs one).
* **ApiProofs**: `ApiInv` is inductive: the types, `StepsInv` and `LegalInv` of the
  handlers, and what the last answer says. `RefusedRequestsAreHarmless` rests on the order of a
  handler's checks and writes: everything that is refused by the service is refused
  at its read, an answer after the write blames the client only from `toPbWorkflow`, and
  that one fails only on the row it has just written.
* **RunnerProofs**: `RunnersKeepContract`, the refinement of RunnerContract by both
  runners, from `CallInv`: calls are answered in their order (`AnswersInOrder`), what was not
  called has no container or Job and what has not ended no ending (`WorldInv`), and
  a success settled before the clean-up or the logs rests on an ending with exit
  code 0 (`PlaceInv`).
  `NothingLeftBehind` follows from `CallInv` and `DeadlineKnown` (a deadline that has
  passed is one of a step with a timeout): an error before the container exists
  leaves none, one after it goes through the removal, whose context is its own, and
  the reply of a creation gets lost without a fault only when the context ends.
  `ExitCodesAreFinal` needs `ExitInv`: an event that tells of an end is one of the
  current call's Job (the watch is closed before the next call), and a condition,
  which is never taken back, comes only to a Job without a running pod.
* **StopProofs**: `LoopsExclude`, `StopIsQuiet` and `MainIsSafe`, from `StopInv`.
  None of these is inductive: a Start after a Stop does start a second loop, and
  that there is no third rests on the order in which channels are closed.
  `ChannelInv` says that of all Stops one gets past `close(stopCh)`, that `doneCh`
  is closed exactly when the first loop has ended, and that a loop started after it
  is the second and last, because `running` stays true until the process panics.
  `CallInPoll` ties the runner to the loop, and `MainAlone` says what main finds
  when nobody else calls. `ProcessTypeCorrect` puts `StopInv`, `ExitInv` and
  `PlaceTypes` together.

`core` checks `DispatchInv` itself, and the other invariants (`HeldInv` and `ApiInv`
as they stand, the rest part by part) were checked by TLC on the instances of the
runs before they were proved. Every invariant and every action property of a
passing run is proved, and both refinements; that of ExecutionLifecycle under
its condition, no canceler. Only model-checked are the liveness
properties, which are out of the prover's reach (fairness and ENABLED):
`PendingTakenUp`, `EveryExecutionSettles`, `ShutdownCompletes`, `EngineStops`,
`CancelEndsCall`, `TimeoutEndsCall`, `FinishedJobEndsWait` and `TimedJobsGo`.
Nothing here is proved by induction over data, and no module declares a RECURSIVE
operator.

## Not modelled

* `config/config.go` reads settings once, and the generated code under `src/pb` and
  the mocks have no behaviour of their own.
* Telemetry: logs, metrics, traces.
* Texts, bodies, timestamps, the environment of a container, the names of Jobs
  (fresh by a uuid's prefix), the captured logs and the pull's progress.
* Pagination by offset. (A limit of 0 with an offset makes a statement that SQLite
  rejects; the engine never asks for one.)
* What main does before `run`: it fails only by ending the process.
* Several processes on one database. Nothing in the repository deploys aeneas so;
  two engines would claim the same execution, since the claim has no condition.

## Plan

In the order of what they would add:

1. **Replicas**: two engines on one database, as an instance of Engine with a
   claim that names the status it expects.
2. **Composition** of Engine with RunnerContract in place of its own
   `Execute`, so that Orchestrator and Process meet in one module.
3. **Lists**: offsets and limits against the table's order.
