---------------------------- MODULE Orchestrator ----------------------------
(***************************************************************************)
(* One aeneas process (cmd/aeneas/main.go) on its database: the handlers of *)
(* both services and the engine's goroutine, interleaved at statements.     *)
(* The process may be told to shut down, may be killed, and is started      *)
(* again; the tables survive, handlers and locals do not.                   *)
(***************************************************************************)
EXTENDS WorkflowService, ExecutionService, Engine

CONSTANTS
  SeedWorkflows,   \* contents of the workflows table at the first start
  MaxShutdowns,    \* bound on cancellations of the process context
  MaxCrashes       \* bound on kills

ASSUME OrchestratorAssumption ==
  /\ MaxShutdowns \in Nat
  /\ MaxCrashes \in Nat
  /\ \A t \in SeedWorkflows :
       /\ t \in [Workflow -> WorkflowRow]
       /\ \A w \in Workflow : t[w].status = "active" => t[w].steps # <<>>

VARIABLES
  shutdowns, crashes,
  canceled    \* history: the Cancels of an execution that were stored, where
              \* the engine was with it then and how often it had called the
              \* runner for it

processVars == <<shutdowns, crashes>>
tables == <<workflows, executions, stepExecs>>
vars == <<faults, tables, edit, serviceVars, ctxDone, engineVars, processVars,
          canceled>>

-----------------------------------------------------------------------------

Init ==
  /\ workflows \in SeedWorkflows
  /\ executions = [e \in Execution |-> NoExecution]
  /\ stepExecs = [e \in Execution |-> <<>>]
  /\ faults = 0
  /\ EditInit
  /\ ServiceInit
  /\ EngineInit
  /\ shutdowns = 0 /\ crashes = 0
  /\ canceled = [e \in Execution |-> {}]

Up == pc # "off"

\* A handler of the workflow service.  A process that is down starts none;
\* those in flight while the engine has already returned may still finish.
WorkflowRequest ==
  /\ \E c \in Editors : (Up /\ StartEdit(c)) \/ WriteBack(c)
  /\ UNCHANGED <<executions, stepExecs, serviceVars, ctxDone, engineVars,
                 processVars, canceled>>

\* Listed as pending, and the claim not yet recorded.
Queued(e) == e \in exs \/ (e = cur /\ pc \in {"claim", "record"})

Standing(e) ==
  IF Queued(e) THEN "queued" ELSE IF e = cur THEN "loop" ELSE "idle"

CancelMark == [at : {"queued", "loop", "idle"}, calls : Nat]

\* A Cancel of e ends, and e is stored as canceled.
CancelStored(e) ==
  /\ executions'[e].status = "canceled"
  /\ \E c \in Cancelers : cancels[c] = e /\ cancels'[c] = 0

RecordCancels ==
  canceled' = [e \in Execution |-> canceled[e] \cup
    {m \in {[at |-> Standing(e), calls |-> Len(runs[e])]} : CancelStored(e)}]

\* A handler of the execution service.
ExecutionRequest ==
  /\ (Up /\ StartRequest) \/ ContinueRequest
  /\ RecordCancels
  /\ UNCHANGED <<workflows, edit, ctxDone, engineVars, processVars>>

EngineStep ==
  EngineNext /\ UNCHANGED <<edit, serviceVars, processVars, canceled>>

\* os.Interrupt cancels the context given to the engine.  (No other signal is
\* caught: SIGTERM is a Crash.)
Shutdown ==
  /\ Up /\ ~ctxDone
  /\ shutdowns < MaxShutdowns
  /\ shutdowns' = shutdowns + 1
  /\ ctxDone' = TRUE
  /\ UNCHANGED <<faults, tables, edit, serviceVars, engineVars, crashes,
                 canceled>>

\* The handlers of a process that is gone are gone with it.
DropRequests ==
  /\ edit' = [c \in Editors |-> NoEdit]
  /\ triggers' = [c \in Triggerers |-> NoTrigger]
  /\ cancels' = [c \in Cancelers |-> 0]
  /\ reads' = [c \in Readers |-> NoRead]

\* The process is killed.
Crash ==
  /\ Up
  /\ crashes < MaxCrashes
  /\ crashes' = crashes + 1
  /\ ctxDone' = FALSE
  /\ ResetAt("off")
  /\ DropRequests
  /\ UNCHANGED <<faults, tables, history, shutdowns, canceled>>

\* main: eng.Start of a new process.  There is no recovery of what an earlier
\* process left behind.
Start ==
  /\ pc = "off"
  /\ ctxDone' = FALSE
  /\ ResetAt("idle")
  /\ DropRequests
  /\ UNCHANGED <<faults, tables, history, processVars, canceled>>

Next ==
  \/ WorkflowRequest \/ ExecutionRequest \/ EngineStep
  \/ Shutdown \/ Crash \/ Start

Spec == Init /\ [][Next]_vars

\* The goroutine is scheduled, steps come to an end, and a process that is
\* down is started again.
Fairness == WF_vars(EngineStep) /\ WF_vars(Start)

FairSpec == Spec /\ Fairness

-----------------------------------------------------------------------------
(* Safety                                                                    *)

\* Every table, request and local of the engine has its shape.
TypeOK ==
  /\ EditTypeOK /\ ExecutionTypeOK /\ ServiceTypeOK /\ EngineTypeOK
  /\ shutdowns \in 0..MaxShutdowns /\ crashes \in 0..MaxCrashes
  /\ canceled \in [Execution -> SUBSET CancelMark]

\* The runner is called for the steps the execution was claimed with, in
\* their order, none twice: across polls, failed and lost statements,
\* cancellations, kills and restarts, a prefix of plan[e] has been run.
RunsFollowPlan ==
  \A e \in Execution :
    /\ Len(runs[e]) <= Len(plan[e])
    /\ \A i \in 1..Len(runs[e]) : runs[e][i].step = plan[e][i]

RunSucceeded(e, i) ==
  LET r == runs[e][i] IN
    /\ r.row \in DOMAIN stepExecs[e]
    /\ stepExecs[e][r.row] =
         [step |-> r.step, status |-> "succeeded", exit |-> "zero"]

\* The runner is called for a step only after the success of every earlier
\* step of the execution has been stored.
SequentialSteps ==
  \A e \in Execution : \A i \in 1..Len(runs[e]) :
    i < Len(runs[e]) => RunSucceeded(e, i)

AllStepsRan(e) ==
  /\ Len(runs[e]) = Len(plan[e])
  /\ \A i \in 1..Len(runs[e]) : RunSucceeded(e, i)

\* An execution stored as succeeded has run every step it was claimed with,
\* and the success of each is stored.
SucceededMeansAllStepsRan ==
  \A e \in Execution : executions[e].status = "succeeded" => AllStepsRan(e)

\* An execution with finished_at set is not pending or running: the
\* unconditional writes of running come only before the one of finished_at.
FinishedNeverRuns ==
  \A e \in Execution :
    executions[e].finished => executions[e].status \notin {"pending", "running"}

\* However a Cancel interleaves with the loop over the steps, it lets the
\* runner be called for at most one more step, whatever is written after it;
\* one that is stored while the engine does not hold the execution lets it be
\* called for none.  The exception is a Cancel between the list and the record
\* of the claim: it is overwritten with running, and all steps may run.
CancelLatency ==
  \A e \in Execution : \A m \in canceled[e] :
    /\ m.at = "idle" => Len(runs[e]) = m.calls
    /\ m.at = "loop" => Len(runs[e]) <= m.calls + 1

InHand(e) == e \in exs \/ e = cur

\* A cancellation that is stored while the engine does not hold the execution
\* is final: the execution stays canceled and is never taken up.
IdleCancelFinal ==
  [][\A e \in Execution :
       executions[e].status = "canceled" /\ ~InHand(e)
         => executions'[e].status = "canceled" /\ ~InHand(e)']_vars

\* An execution that finished keeps its outcome, except that a Cancel that
\* read it before it finished may still mark it canceled.
OutcomeStable ==
  [][\A e \in Execution :
       executions[e].status \in {"succeeded", "failed"}
         => executions'[e].status \in {executions[e].status, "canceled"}]_vars

\* The stored status of an execution leaves executionTransitions only where a
\* Cancel races: the engine writes over a cancellation of the execution it is
\* working on, or a Cancel that read the execution before it finished writes
\* over its outcome.
OnlyCancelRaces ==
  [][\A e \in Execution :
       executions'[e].status # executions[e].status =>
         \/ executions[e].status = "none" /\ executions'[e].status = "pending"
         \/ TransitionExecution(executions[e].status, executions'[e].status)
         \/ executions[e].status = "canceled" /\ e = cur
         \/ /\ executions'[e].status = "canceled"
            /\ \E c \in Cancelers : cancels[c] = e /\ cancels'[c] = 0]_vars

\* A step row keeps its step and moves only along stepExecutionTransitions,
\* although nothing in the code consults that table.
StepTransitions ==
  [][\A e \in Execution : \A r \in DOMAIN stepExecs[e] :
       /\ r \in DOMAIN stepExecs'[e]
       /\ stepExecs'[e][r].step = stepExecs[e][r].step
       /\ \/ stepExecs'[e][r].status = stepExecs[e][r].status
          \/ TransitionStepExecution(stepExecs[e][r].status,
                                     stepExecs'[e][r].status)]_vars

\* Nothing has failed or ended so far.
Calm == faults = 0 /\ crashes = 0 /\ shutdowns = 0

Abandoned(e) == executions[e].status = "running" /\ e # cur

\* An execution becomes one that is stored as running and that nobody works
\* on only in the very step in which a statement fails, or is not sent because
\* the context is cancelled, or in which the process is killed: no path
\* through processExecution returns and leaves running behind, whatever had
\* failed before and whatever a Cancel writes.
AbandonedByFailureOnly ==
  [][\A e \in Execution :
       Abandoned(e)' /\ ~Abandoned(e) =>
         faults' > faults \/ ctxDone \/ crashes' > crashes]_vars

\* A GetWithSteps reply that says succeeded lists the success of every step,
\* although its two reads are not one transaction.
RepliesConsistent ==
  \A c \in Readers :
    reads[c].at = "reply" /\ reads[c].status = "succeeded" =>
      LET e == reads[c].id IN
        /\ Len(runs[e]) = Len(plan[e])
        /\ \A i \in 1..Len(plan[e]) :
             /\ runs[e][i].row \in DOMAIN reads[c].rows
             /\ reads[c].rows[runs[e][i].row].step = plan[e][i]
             /\ reads[c].rows[runs[e][i].row].status = "succeeded"

Lifecycle == INSTANCE ExecutionLifecycle
               WITH status <- [e \in Execution |-> executions[e].status]

\* The stored status of every execution follows executionTransitions.
ImplementsLifecycle == Lifecycle!Spec

-----------------------------------------------------------------------------
(* Liveness, of FairSpec                                                     *)

\* Every pending execution is taken up (or canceled), through finitely many
\* failed statements, shutdowns and kills, as long as the lists the engine
\* asks for hold every row.
PendingTakenUp ==
  \A e \in Execution :
    executions[e].status = "pending" ~> executions[e].status # "pending"

Settled(e) == executions[e].status \in {"succeeded", "failed", "canceled"}

\* Every execution comes to an end as long as nothing fails: one that a fault,
\* a shutdown or a kill has met may stay running for ever.
EveryExecutionSettles ==
  \A e \in Execution : ExecutionExists(e) ~> Settled(e) \/ ~Calm

\* A cancelled context brings the engine's goroutine to its return.
ShutdownCompletes == ctxDone ~> pc = "off"

-----------------------------------------------------------------------------
(* What tests and comments say and the code does not do                      *)

\* engine_test.go, "Verify execution was canceled": an execution whose steps
\* the loop had begun with is not left running when the loop has returned.
InterruptedIsCanceled ==
  pc = "off" =>
    \A e \in Execution : plan[e] # <<>> => executions[e].status # "running"

\* engine_test.go, HaveLen(3): a succeeded execution has one row per step.
OneRowPerStep ==
  \A e \in Execution :
    executions[e].status = "succeeded" => Len(stepExecs[e]) = Len(plan[e])

-----------------------------------------------------------------------------
(* The inductive invariants behind the theorems                              *)

InStep == {"create", "start", "execute", "running", "finish"}
InLoop == InStep \cup {"check", "skipCanceled", "skipFailed"}
Working == InLoop \cup {"claim", "record"}

\* Where the engine stands, it holds an execution, a workflow and a step.
EngineShape ==
  /\ exs # {} => wf \in Workflow
  /\ pc \in Working => cur \in Execution \ exs /\ wf \in Workflow
  /\ pc \notin Working => cur = 0
  /\ pc \in InLoop => idx >= 1
  /\ pc \in InStep => StepsLeft

\* Nothing was run for e so far, and it has not finished.
Untouched(e) ==
  /\ plan[e] = <<>> /\ runs[e] = <<>>
  /\ ~executions[e].finished

\* What the engine may still take up is untouched: stored as pending, or
\* listed as such and canceled since.
UntouchedUntilClaimed ==
  /\ \A e \in Execution :
       executions[e].status \in {"none", "pending"} \/ e \in exs => Untouched(e)
  /\ pc \in {"claim", "record"} => Untouched(cur)

\* What the loop over the steps knows of the execution it works on.
LoopInv ==
  /\ pc \in InLoop \cup {"record"} =>
       executions[cur].status \notin {"none", "pending"}
  /\ pc \in InLoop => plan[cur] = snap[wf] /\ ~executions[cur].finished
  /\ pc \in {"check", "create", "start", "execute"} => Len(runs[cur]) = idx - 1
  /\ pc \in {"running", "finish"} => Len(runs[cur]) = idx

\* The statuses of an outcome are stored together with finished_at.
OutcomeFinished ==
  \A e \in Execution :
    executions[e].status \in {"succeeded", "failed"} => executions[e].finished

TypeInv == TypeOK /\ StepsInv /\ EngineShape

\* What the engine has listed or works on has the status it had when the
\* engine last wrote or read it, unless a Cancel came in between.
HeldInv ==
  /\ \A e \in exs : executions[e].status \in {"pending", "canceled"}
  /\ pc = "claim" => executions[cur].status \in {"pending", "canceled"}
  /\ pc \in InLoop \cup {"record"} =>
       executions[cur].status \in {"running", "canceled"}
  /\ Cancelers = {} =>
       \A e \in Execution : InHand(e) => executions[e].status # "canceled"

\* What the engine finds pending or has listed is untouched, and in the loop
\* over the steps its locals agree with the row it works on: together with
\* the properties above this is kept by every step.
DispatchInv ==
  /\ TypeInv
  /\ OutcomeFinished
  /\ UntouchedUntilClaimed
  /\ LoopInv
  /\ RunsFollowPlan
  /\ FinishedNeverRuns

\* A Cancel that is stored before the list or after the record of the claim
\* keeps the execution out of the engine's list, and one that meets the loop
\* is still stored when the loop looks.
CancelInv ==
  \A e \in Execution : \A m \in canceled[e] : m.at # "queued" =>
    /\ executions[e].status \notin {"none", "pending"}
    /\ ~Queued(e)
    /\ m.at = "idle" => e # cur /\ Len(runs[e]) = m.calls
    /\ m.at = "loop" => Len(runs[e]) <= m.calls + 1
    /\ e = cur => executions[e].status = "canceled"
    /\ e = cur /\ pc \in {"create", "start", "execute"} =>
         Len(runs[e]) = m.calls

\* The row of the step in hand is the one the loop has made for it, and no
\* step is missing before it.
RowInv ==
  /\ pc \in {"start", "execute", "running", "finish"} =>
       /\ row \in DOMAIN stepExecs[cur]
       /\ stepExecs[cur][row].step = snap[wf][idx]
       /\ stepExecs[cur][row].status =
            IF pc = "start" THEN "pending" ELSE "running"
  /\ pc \in {"running", "finish"} => runs[cur][idx].row = row
  /\ pc \in {"check", "create", "start", "execute"} =>
       \A i \in 1..Len(runs[cur]) : RunSucceeded(cur, i)

\* Who has read a success may count on it until the reply.
ReadsInv ==
  \A c \in Readers :
    reads[c].status = "succeeded" =>
      /\ reads[c].id \in Execution
      /\ executions[reads[c].id].finished
      /\ AllStepsRan(reads[c].id)

\* What is stored of the steps agrees with what has been run.
OutcomeInv ==
  /\ DispatchInv
  /\ RowInv
  /\ SequentialSteps
  /\ SucceededMeansAllStepsRan
  /\ ReadsInv
  /\ RepliesConsistent

\* A cancellation that the loop has seen is still stored.
OwnerInv ==
  /\ TypeInv
  /\ pc = "skipCanceled" => executions[cur].status = "canceled"

=============================================================================
