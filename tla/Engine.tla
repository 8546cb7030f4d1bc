------------------------------- MODULE Engine -------------------------------
(***************************************************************************)
(* engine/engine.go: the poll loop's goroutine, one action per statement it *)
(* issues and per call of the runner.                                       *)
(*                                                                          *)
(*   pc        where the goroutine is:                                      *)
(*     off, idle        before Start or after return; waiting in select     *)
(*     next             at the head of the two loops over listed rows       *)
(*     claim, record    UpdateStatus(Running), Update of the row as running *)
(*     check            head of the loop over steps                         *)
(*     create, start    the step's row, its transition to Running           *)
(*     execute, running before and inside runner.Execute                    *)
(*     finish           the result is to be recorded                        *)
(*     skipCanceled, skipFailed   skipRemainingSteps after a cancellation   *)
(*                      and after a failure, the latter then fails the      *)
(*                      execution                                           *)
(*                                                                          *)
(* The rest are the goroutine's locals and two history variables.           *)
(***************************************************************************)
EXTENDS ExecutionRepo

VARIABLES
  pc,
  ctxDone,    \* the process context is cancelled
  wfs,        \* listed workflows still to visit
  snap,       \* steps of the workflows, as listed
  exs,        \* listed pending executions of wf still to process
  wf, cur,    \* workflow and execution being processed, or 0
  idx,        \* position in snap[wf]
  row,        \* the current step's row in stepExecs[cur]
  result      \* what runner.Execute returned

VARIABLES
  plan,       \* history: the steps the execution was claimed with
  runs        \* history: the calls of runner.Execute, step and row

locals == <<wfs, snap, exs, wf, cur, idx, row, result>>
history == <<plan, runs>>
engineVars == <<pc, locals, history>>

PC == {"off", "idle", "next", "claim", "record", "check", "create", "start",
       "execute", "running", "finish", "skipCanceled", "skipFailed"}

Results == {"success", "nonzero", "error"}

Run == [step : StepNames, row : Nat]

EngineTypeOK ==
  /\ pc \in PC
  /\ ctxDone \in BOOLEAN
  /\ wfs \subseteq Workflow
  /\ snap \in [Workflow -> Seq(StepNames)]
  /\ exs \subseteq Execution
  /\ wf \in Workflow \cup {0}
  /\ cur \in Execution \cup {0}
  /\ idx \in Nat
  /\ row \in Nat
  /\ result \in Results \cup {"none"}
  /\ plan \in [Execution -> Seq(StepNames)]
  /\ runs \in [Execution -> Seq(Run)]

NoSnap == [w \in Workflow |-> <<>>]

EngineInit ==
  /\ pc = "off"
  /\ ctxDone = FALSE
  /\ wfs = {} /\ snap = NoSnap /\ exs = {}
  /\ wf = 0 /\ cur = 0 /\ idx = 0 /\ row = 0 /\ result = "none"
  /\ plan = [e \in Execution |-> <<>>]
  /\ runs = [e \in Execution |-> <<>>]

\* The goroutine is at p with no work in hand.
ResetAt(p) ==
  /\ pc' = p
  /\ wfs' = {} /\ snap' = NoSnap /\ exs' = {}
  /\ wf' = 0 /\ cur' = 0 /\ idx' = 0 /\ row' = 0 /\ result' = "none"

\* processExecution returns to the loop over the listed executions.
Return ==
  /\ pc' = "next"
  /\ cur' = 0 /\ idx' = 0 /\ row' = 0 /\ result' = "none"
  /\ UNCHANGED <<wfs, snap, exs, wf>>

Goto(p) == pc' = p /\ UNCHANGED locals

-----------------------------------------------------------------------------
(* pollLoop and processPendingExecutions                                     *)

\* Faulty variant: the loop returns only once nothing is pending.
PollDrain ==
  /\ pc = "idle"
  /\ ctxDone
  /\ \A e \in Execution : executions[e].status # "pending"
  /\ ResetAt("off")
  /\ UNCHANGED <<faults, workflows, executions, stepExecs, ctxDone, history>>

PollStop ==
  /\ pc = "idle"
  /\ ctxDone
  /\ ResetAt("off")
  /\ UNCHANGED <<faults, workflows, executions, stepExecs, ctxDone, history>>

\* A tick of the ticker; a failed List ends the poll.
PollTick ==
  /\ pc = "idle"
  /\ \E out \in Outcomes :
       /\ Query(out, ctxDone)
       /\ IF out = "ok"
          THEN /\ pc' = "next"
               /\ wfs' = WorkflowList
               /\ snap' = [w \in Workflow |-> workflows[w].steps]
          ELSE UNCHANGED <<pc, wfs, snap>>
  /\ UNCHANGED <<workflows, executions, stepExecs, ctxDone, exs, wf, cur, idx,
                 row, result, history>>

\* The rows of w with a status in Wanted; a failed query moves on to the next
\* workflow.
ListWith(w, Wanted) ==
  /\ pc = "next" /\ exs = {}
  /\ IsNewest(w, wfs)
  /\ \E out \in Outcomes :
       /\ Query(out, ctxDone)
       /\ exs' = IF out = "ok"
                 THEN {e \in ExecutionList(w) : executions[e].status \in Wanted}
                 ELSE {}
  /\ wfs' = wfs \ {w}
  /\ wf' = w
  /\ UNCHANGED <<workflows, executions, stepExecs, pc, ctxDone, snap, cur, idx,
                 row, result, history>>

\* Faulty variants: the status is not looked at; only finished executions are
\* passed over; failed ones are taken up again.
ListAnyStatus(w) == ListWith(w, ExecutionStatus)

ListUnfinished(w) == ListWith(w, {"pending", "canceled"})

ListRetryFailed(w) == ListWith(w, {"pending", "failed"})

\* ListByWorkflow for the next workflow, and the test of each listed row.
ListExecutions(w) == ListWith(w, {"pending"})

\* Faulty variant: the execution stays in the list.
StartAgain(e) ==
  /\ pc = "next"
  /\ IsNewest(e, exs)
  /\ pc' = "claim"
  /\ cur' = e
  /\ UNCHANGED <<faults, workflows, executions, stepExecs, ctxDone, wfs, snap,
                 exs, wf, idx, row, result, history>>

\* The next execution that was pending when it was listed.
StartExecution(e) ==
  /\ pc = "next"
  /\ IsNewest(e, exs)
  /\ pc' = "claim"
  /\ exs' = exs \ {e}
  /\ cur' = e
  /\ UNCHANGED <<faults, workflows, executions, stepExecs, ctxDone, wfs, snap,
                 wf, idx, row, result, history>>

EndPoll ==
  /\ pc = "next" /\ exs = {} /\ wfs = {}
  /\ ResetAt("idle")
  /\ UNCHANGED <<faults, workflows, executions, stepExecs, ctxDone, history>>

-----------------------------------------------------------------------------
(* processExecution                                                          *)

\* UpdateStatus(Running), without a look at what the row holds by now.
ClaimExecution ==
  /\ pc = "claim"
  /\ \E out \in Outcomes :
       /\ Statement(out, ctxDone)
       /\ ExecutionUpdateStatus(out, cur, "running")
       /\ IF out = "ok" THEN Goto("record") ELSE Return
  /\ UNCHANGED <<workflows, stepExecs, ctxDone, history>>

\* Update with the listed copy of the row, which has no finished_at.
RecordRunning ==
  /\ pc = "record"
  /\ \E out \in Outcomes :
       /\ Statement(out, ctxDone)
       /\ ExecutionUpdate(out, cur, "running", FALSE)
       /\ IF out = "ok"
          THEN /\ pc' = "check"
               /\ idx' = 1
               /\ plan' = [plan EXCEPT ![cur] = snap[wf]]
               /\ UNCHANGED <<wfs, snap, exs, wf, cur, row, result>>
          ELSE Return /\ UNCHANGED plan
  /\ UNCHANGED <<workflows, stepExecs, ctxDone, runs>>

\* Faulty variant: the loop ends one step early.
StepsLeftButOne == idx < Len(snap[wf])

StepsLeft == idx <= Len(snap[wf])

\* <-ctx.Done(): the statement that marks the execution canceled is issued
\* under the cancelled context itself.
ContextDone ==
  /\ pc = "check" /\ StepsLeft
  /\ ctxDone
  /\ \E out \in Outcomes :
       /\ Statement(out, ctxDone)
       /\ ExecutionUpdateStatus(out, cur, "canceled")
  /\ Return
  /\ UNCHANGED <<workflows, stepExecs, ctxDone, history>>

\* Faulty variant: the status is not looked at.
CheckNothing ==
  /\ pc = "check" /\ StepsLeft
  /\ ~ctxDone
  /\ \E out \in Outcomes :
       /\ Query(out, ctxDone)
       /\ CASE out # "ok" -> Return
            [] OTHER -> Goto("create")
  /\ UNCHANGED <<workflows, executions, stepExecs, ctxDone, history>>

\* Get before a step: was the execution canceled by someone else?
CheckExecution ==
  /\ pc = "check" /\ StepsLeft
  /\ ~ctxDone
  /\ \E out \in Outcomes :
       /\ Query(out, ctxDone)
       /\ CASE out # "ok" -> Return
            [] out = "ok" /\ executions[cur].status = "canceled" ->
                 Goto("skipCanceled")
            [] OTHER -> Goto("create")
  /\ UNCHANGED <<workflows, executions, stepExecs, ctxDone, history>>

\* Faulty variant: finished_at is set, the status is forgotten.
SucceedStale ==
  /\ pc = "check" /\ ~StepsLeft
  /\ ExecutionUpdate("ok", cur, "running", TRUE)
  /\ Return
  /\ UNCHANGED <<faults, workflows, stepExecs, ctxDone, history>>

\* All steps succeeded: Update with finished_at, whatever the row holds.
SucceedExecution ==
  /\ pc = "check" /\ ~StepsLeft
  /\ \E out \in Outcomes :
       /\ Statement(out, ctxDone)
       /\ ExecutionUpdate(out, cur, "succeeded", TRUE)
  /\ Return
  /\ UNCHANGED <<workflows, stepExecs, ctxDone, history>>

-----------------------------------------------------------------------------
(* processStep                                                               *)

\* processStep returned an error: skip the steps after this one.
StepError ==
  /\ pc' = "skipFailed"
  /\ idx' = idx + 1
  /\ row' = 0 /\ result' = "none"
  /\ UNCHANGED <<wfs, snap, exs, wf, cur>>

CreateStep ==
  /\ pc = "create"
  /\ \E out \in Outcomes :
       /\ Statement(out, ctxDone)
       /\ StepCreate(out, cur, snap[wf][idx], "pending")
       /\ IF out = "ok"
          THEN /\ pc' = "start"
               /\ row' = Len(stepExecs'[cur])
               /\ UNCHANGED <<wfs, snap, exs, wf, cur, idx, result>>
          ELSE StepError
  /\ UNCHANGED <<workflows, executions, ctxDone, history>>

\* Faulty variant: the row is not marked as running.
StartUnrecorded ==
  /\ pc = "start"
  /\ Goto("execute")
  /\ UNCHANGED <<faults, workflows, executions, stepExecs, ctxDone, history>>

StartStep ==
  /\ pc = "start"
  /\ \E out \in Outcomes :
       /\ Statement(out, ctxDone)
       /\ StepUpdateStatus(out, cur, row, "running", "null")
       /\ IF out = "ok" THEN Goto("execute") ELSE StepError
  /\ UNCHANGED <<workflows, executions, ctxDone, history>>

\* Faulty variant: the step is taken from the workflow as it is now.
ExecuteCurrent ==
  /\ pc = "execute"
  /\ idx <= Len(workflows[wf].steps)
  /\ Goto("running")
  /\ runs' = [runs EXCEPT ![cur] =
       Append(@, [step |-> workflows[wf].steps[idx], row |-> row])]
  /\ UNCHANGED <<faults, workflows, executions, stepExecs, ctxDone, plan>>

\* The call of runner.Execute.
ExecuteStep ==
  /\ pc = "execute"
  /\ Goto("running")
  /\ runs' = [runs EXCEPT ![cur] =
       Append(@, [step |-> snap[wf][idx], row |-> row])]
  /\ UNCHANGED <<faults, workflows, executions, stepExecs, ctxDone, plan>>

\* External: the runner comes back with exit code 0, another exit code, or an
\* error.
RunnerReturn ==
  /\ pc = "running"
  /\ pc' = "finish"
  /\ result' \in Results
  /\ UNCHANGED <<faults, workflows, executions, stepExecs, ctxDone, wfs, snap,
                 exs, wf, cur, idx, row, history>>

\* processStep returned no error: the next turn of the loop over the steps.
NextStep ==
  /\ pc' = "check"
  /\ idx' = idx + 1
  /\ row' = 0 /\ result' = "none"
  /\ UNCHANGED <<wfs, snap, exs, wf, cur>>

\* Faulty variant: the loop over steps goes on after a failed step.
FailAndGoOn ==
  /\ pc = "finish" /\ result # "success"
  /\ StepUpdateStatus("ok", cur, row, "failed", "nonzero")
  /\ NextStep
  /\ UNCHANGED <<faults, workflows, executions, ctxDone, history>>

\* The failed step's row; that this statement fails is only logged.  A Result
\* with an Error carries the zero exit code.
FailStep ==
  /\ pc = "finish" /\ result # "success"
  /\ \E out \in Outcomes :
       /\ Statement(out, ctxDone)
       /\ StepUpdateStatus(out, cur, row, "failed",
            IF result = "nonzero" THEN "nonzero" ELSE "zero")
  /\ StepError
  /\ UNCHANGED <<workflows, executions, ctxDone, history>>

\* Faulty variant: a failed statement is ignored.
SucceedUnchecked ==
  /\ pc = "finish" /\ result = "success"
  /\ \E out \in Outcomes :
       /\ Statement(out, ctxDone)
       /\ StepUpdateStatus(out, cur, row, "succeeded", "zero")
  /\ NextStep
  /\ UNCHANGED <<workflows, executions, ctxDone, history>>

\* The step's row, then the next turn of the loop over the steps.
SucceedStep ==
  /\ pc = "finish" /\ result = "success"
  /\ \E out \in Outcomes :
       /\ Statement(out, ctxDone)
       /\ StepUpdateStatus(out, cur, row, "succeeded", "zero")
       /\ IF out = "ok" THEN NextStep ELSE StepError
  /\ UNCHANGED <<workflows, executions, ctxDone, history>>

-----------------------------------------------------------------------------
(* skipRemainingSteps and what follows it                                    *)

\* The row of the next remaining step.  The UpdateStatus that follows Create
\* writes the status just inserted, so it is part of the same step; an error
\* of either statement moves on to the next step.
SkipStep ==
  /\ pc \in {"skipCanceled", "skipFailed"} /\ StepsLeft
  /\ \E out \in Outcomes :
       /\ Statement(out, ctxDone)
       /\ StepCreate(out, cur, snap[wf][idx], "skipped")
  /\ idx' = idx + 1
  /\ UNCHANGED <<workflows, executions, ctxDone, pc, wfs, snap, exs, wf, cur,
                 row, result, history>>

ReturnCanceled ==
  /\ pc = "skipCanceled" /\ ~StepsLeft
  /\ Return
  /\ UNCHANGED <<faults, workflows, executions, stepExecs, ctxDone, history>>

\* Faulty variant: the execution is left as it is.
FailUnrecorded ==
  /\ pc = "skipFailed" /\ ~StepsLeft
  /\ Return
  /\ UNCHANGED <<faults, workflows, executions, stepExecs, ctxDone, history>>

\* Faulty variant: the execution is put back to be tried again.
FailRequeue ==
  /\ pc = "skipFailed" /\ ~StepsLeft
  /\ ExecutionUpdate("ok", cur, "pending", FALSE)
  /\ Return
  /\ UNCHANGED <<faults, workflows, stepExecs, ctxDone, history>>

\* The failing step ends the execution as failed; that the row cannot be
\* written is only logged.
FailExecution ==
  /\ pc = "skipFailed" /\ ~StepsLeft
  /\ \E out \in Outcomes :
       /\ Statement(out, ctxDone)
       /\ ExecutionUpdate(out, cur, "failed", TRUE)
  /\ Return
  /\ UNCHANGED <<workflows, stepExecs, ctxDone, history>>

-----------------------------------------------------------------------------

EngineNext ==
  \/ PollStop \/ PollTick \/ EndPoll
  \/ \E w \in wfs : ListExecutions(w)
  \/ \E e \in exs : StartExecution(e)
  \/ ClaimExecution \/ RecordRunning \/ ContextDone
  \/ CheckExecution \/ SucceedExecution
  \/ CreateStep \/ StartStep \/ ExecuteStep \/ RunnerReturn
  \/ FailStep \/ SucceedStep
  \/ SkipStep \/ ReturnCanceled \/ FailExecution

=============================================================================
