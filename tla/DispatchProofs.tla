--------------------------- MODULE DispatchProofs ---------------------------
(***************************************************************************)
(* The engine dispatches every step at most once and in order, and takes up *)
(* no execution that has finished: DispatchInv of Orchestrator is           *)
(* inductive.                                                               *)
(***************************************************************************)
EXTENDS OrchestratorProofs

\* DispatchInv without its types.
Dispatch ==
  /\ OutcomeFinished /\ UntouchedUntilClaimed /\ LoopInv
  /\ RunsFollowPlan /\ FinishedNeverRuns

LEMMA DispatchParts == DispatchInv <=> TypeInv /\ Dispatch
BY DEF DispatchInv, Dispatch

LEMMA DispatchInit == Init => Dispatch
<1> SUFFICES ASSUME Init PROVE Dispatch
  OBVIOUS
<1>1. /\ \A e \in Execution : executions[e] = NoExecution /\ Untouched(e)
      /\ pc = "off"
  BY DEF Init, EngineInit, NoExecution, Untouched
<1>2. OutcomeFinished /\ UntouchedUntilClaimed /\ FinishedNeverRuns
  BY <1>1 DEF OutcomeFinished, UntouchedUntilClaimed, FinishedNeverRuns,
              NoExecution
<1>3. LoopInv
  BY <1>1 DEF LoopInv, InLoop, InStep
<1>4. RunsFollowPlan
  BY <1>1 DEF Untouched, RunsFollowPlan
<1> QED BY <1>2, <1>3, <1>4 DEF Dispatch

-----------------------------------------------------------------------------
(* Steps that leave the engine where it is                                   *)

LEMMA DispatchFrame ==
  ASSUME Dispatch, UNCHANGED <<executions, engineVars>>
  PROVE  Dispatch'
BY DEF Dispatch, engineVars, locals, history, OutcomeFinished,
       UntouchedUntilClaimed, Untouched, LoopInv, RunsFollowPlan,
       FinishedNeverRuns

\* What a write of another handler on one row may do to the engine's picture.
LEMMA DispatchOther ==
  ASSUME TypeInv, Dispatch, UNCHANGED engineVars,
         NEW e \in Execution,
         \A d \in Execution : d # e => executions'[d] = executions[d],
         \/ /\ executions[e].status = "none"
            /\ executions'[e].status = "pending"
            /\ executions'[e].finished = FALSE
         \/ /\ executions'[e].status = "canceled"
            /\ executions'[e].finished = executions[e].finished
  PROVE  Dispatch'
<1> USE DEF engineVars, locals, history
<1>1. pc \in Working => cur \in Execution
  BY DEF TypeInv, EngineShape
<1>2. OutcomeFinished' /\ FinishedNeverRuns'
  BY DEF Dispatch, OutcomeFinished, FinishedNeverRuns
<1>3. UntouchedUntilClaimed'
  <2>1. ASSUME NEW d \in Execution,
               executions'[d].status \in {"none", "pending"} \/ d \in exs
        PROVE  Untouched(d)'
    BY <2>1 DEF Dispatch, UntouchedUntilClaimed, Untouched
  <2>2. pc \in {"claim", "record"} => Untouched(cur)'
    BY <1>1 DEF Dispatch, UntouchedUntilClaimed, Untouched, Working
  <2> QED BY <2>1, <2>2 DEF UntouchedUntilClaimed
<1>4. LoopInv'
  <2>1. pc \in InLoop \cup {"record"} => cur \in Execution
    BY <1>1 DEF Working
  <2>2. pc \in InLoop \cup {"record"} =>
          /\ executions'[cur].status \notin {"none", "pending"}
          /\ executions'[cur].finished = executions[cur].finished
    BY <2>1 DEF Dispatch, LoopInv
  <2> QED BY <2>2 DEF Dispatch, LoopInv, InLoop, InStep
<1>5. RunsFollowPlan'
  BY DEF Dispatch, RunsFollowPlan
<1> QED BY <1>2, <1>3, <1>4, <1>5 DEF Dispatch

LEMMA DispatchRequest ==
  ASSUME TypeInv, Dispatch, ExecutionRequest
  PROVE  Dispatch'
<1>0. executions \in [Execution -> ExecutionRow]
  BY DEF TypeInv, TypeOK, ExecutionTypeOK
<1>1. ASSUME NEW c \in Triggerers, NEW e \in Execution, TriggerInsert(c, e)
      PROVE  Dispatch'
  <2>1. PICK out \in Outcomes : ExecutionCreate(out, e, triggers[c].workflow)
    BY <1>1 DEF TriggerInsert
  <2>2. executions[e].status = "none"
    BY <1>1 DEF TriggerInsert, FreshExecution, ExecutionExists
  <2>3. CASE Applied(out)
    BY <1>0, <2>1, <2>2, <2>3, DispatchOther
       DEF ExecutionCreate, ExecutionRequest
  <2>4. CASE ~Applied(out)
    BY <2>1, <2>4, DispatchFrame DEF ExecutionCreate, ExecutionRequest
  <2> QED BY <2>3, <2>4
<1>2. ASSUME NEW c \in Cancelers, CancelWrite(c)
      PROVE  Dispatch'
  <2>1. PICK out \in Outcomes : ExecutionUpdateStatus(out, cancels[c], "canceled")
    BY <1>2 DEF CancelWrite
  <2>2. cancels[c] \in Execution
    BY <1>2 DEF CancelWrite, TypeInv, TypeOK, ServiceTypeOK
  <2>3. CASE Applied(out)
    <3>1. /\ \A d \in Execution : d # cancels[c] => executions'[d] = executions[d]
          /\ executions'[cancels[c]].status = "canceled"
          /\ executions'[cancels[c]].finished = executions[cancels[c]].finished
      BY <1>0, <2>1, <2>2, <2>3 DEF ExecutionUpdateStatus, ExecutionRow
    <3> QED BY <2>2, <3>1, DispatchOther DEF ExecutionRequest
  <2>4. CASE ~Applied(out)
    BY <2>1, <2>4, DispatchFrame DEF ExecutionUpdateStatus, ExecutionRequest
  <2> QED BY <2>3, <2>4
<1>3. CASE UNCHANGED executions
  BY <1>3, DispatchFrame DEF ExecutionRequest
<1>4. \/ UNCHANGED executions
      \/ \E c \in Triggerers, e \in Execution : TriggerInsert(c, e)
      \/ \E c \in Cancelers : CancelWrite(c)
  BY DEF ExecutionRequest, StartRequest, ContinueRequest, TriggerRead,
         TriggerRow, CancelRead, GetRead, GetSteps, GetReply
<1> QED BY <1>1, <1>2, <1>3, <1>4

\* The goroutine drops what it holds.
LEMMA DispatchReset ==
  ASSUME Dispatch, NEW p \in {"off", "idle"}, ResetAt(p),
         UNCHANGED <<executions, history>>
  PROVE  Dispatch'
<1>1. UntouchedUntilClaimed' /\ LoopInv'
  BY DEF Dispatch, UntouchedUntilClaimed, Untouched, LoopInv, InLoop, InStep,
         ResetAt, history
<1> QED
  BY <1>1 DEF Dispatch, history, OutcomeFinished, RunsFollowPlan,
              FinishedNeverRuns

-----------------------------------------------------------------------------
(* Steps of the engine                                                       *)

LEMMA DispatchPoll ==
  ASSUME TypeInv, Dispatch,
         \/ PollStop \/ PollTick \/ EndPoll
         \/ \E w \in wfs : ListExecutions(w)
         \/ \E e \in exs : StartExecution(e)
  PROVE  Dispatch'
<1>1. CASE PollStop \/ EndPoll
  BY <1>1, DispatchReset DEF PollStop, EndPoll
<1>2. CASE PollTick
  <2>1. pc = "idle" /\ pc' \in {"idle", "next"}
    BY <1>2 DEF PollTick
  <2>2. UNCHANGED <<executions, exs, cur, plan, runs>>
    BY <1>2 DEF PollTick, history
  <2> QED
    BY <2>1, <2>2 DEF Dispatch, OutcomeFinished, UntouchedUntilClaimed,
       Untouched, LoopInv, InLoop, InStep, RunsFollowPlan, FinishedNeverRuns
<1>3. ASSUME NEW w \in wfs, ListExecutions(w) PROVE Dispatch'
  <2>1. \A e \in exs' : executions[e].status = "pending"
    BY <1>3 DEF ListExecutions, ListWith
  <2>2. /\ pc = "next" /\ pc' = "next"
        /\ UNCHANGED <<executions, cur, plan, runs>>
    BY <1>3 DEF ListExecutions, ListWith, history
  <2> QED
    BY <2>1, <2>2 DEF Dispatch, OutcomeFinished, UntouchedUntilClaimed,
       Untouched, LoopInv, InLoop, InStep, RunsFollowPlan, FinishedNeverRuns
<1>4. ASSUME NEW e \in exs, StartExecution(e) PROVE Dispatch'
  <2>1. /\ pc' = "claim" /\ cur' = e /\ exs' \subseteq exs
        /\ UNCHANGED <<executions, plan, runs>>
    BY <1>4 DEF StartExecution, history
  <2>2. e \in Execution
    BY DEF TypeInv, TypeOK, EngineTypeOK
  <2>3. UntouchedUntilClaimed'
    BY <2>1, <2>2 DEF Dispatch, UntouchedUntilClaimed, Untouched
  <2> QED
    BY <2>1, <2>3 DEF Dispatch, OutcomeFinished, LoopInv, InLoop, InStep,
       RunsFollowPlan, FinishedNeverRuns
<1> QED BY <1>1, <1>2, <1>3, <1>4

\* The two writes of processExecution on the row it works on.
LEMMA CurUpdateStatus ==
  ASSUME TypeInv, cur \in Execution, NEW s, NEW out,
         ExecutionUpdateStatus(out, cur, s)
  PROVE  /\ \A d \in Execution : d # cur => executions'[d] = executions[d]
         /\ executions'[cur].finished = executions[cur].finished
         /\ executions'[cur].status = IF Applied(out) THEN s
                                      ELSE executions[cur].status
<1>1. executions \in [Execution -> ExecutionRow]
  BY DEF TypeInv, TypeOK, ExecutionTypeOK
<1> QED BY <1>1 DEF ExecutionUpdateStatus, ExecutionRow

LEMMA CurUpdate ==
  ASSUME TypeInv, cur \in Execution, NEW s, NEW f, NEW out,
         ExecutionUpdate(out, cur, s, f)
  PROVE  /\ \A d \in Execution : d # cur => executions'[d] = executions[d]
         /\ executions'[cur].finished = IF Applied(out) THEN f
                                        ELSE executions[cur].finished
         /\ executions'[cur].status = IF Applied(out) THEN s
                                      ELSE executions[cur].status
<1>1. executions \in [Execution -> ExecutionRow]
  BY DEF TypeInv, TypeOK, ExecutionTypeOK
<1> QED BY <1>1 DEF ExecutionUpdate, ExecutionRow

\* processExecution returns after a write, or none, on its row.
LEMMA DispatchReturn ==
  ASSUME TypeInv, Dispatch, pc \in Working, Return, UNCHANGED history,
         \A d \in Execution : d # cur => executions'[d] = executions[d],
         executions'[cur].status \in {"none", "pending"} =>
           Untouched(cur) /\ ~executions'[cur].finished,
         executions'[cur].finished =>
           executions'[cur].status \notin {"pending", "running"},
         executions'[cur].status \in {"succeeded", "failed"} =>
           executions'[cur].finished
  PROVE  Dispatch'
<1>1. cur \in Execution \ exs
  BY DEF TypeInv, EngineShape
<1>2. pc' = "next" /\ exs' = exs /\ UNCHANGED <<plan, runs>>
  BY DEF Return, history
<1>3. UntouchedUntilClaimed'
  BY <1>1, <1>2 DEF Dispatch, UntouchedUntilClaimed, Untouched
<1>4. LoopInv'
  BY <1>2 DEF LoopInv, InLoop, InStep
<1>5. OutcomeFinished' /\ FinishedNeverRuns'
  BY DEF Dispatch, OutcomeFinished, FinishedNeverRuns
<1>6. RunsFollowPlan'
  BY <1>2 DEF Dispatch, RunsFollowPlan
<1> QED BY <1>3, <1>4, <1>5, <1>6 DEF Dispatch

LEMMA DispatchClaim ==
  ASSUME TypeInv, Dispatch, ClaimExecution
  PROVE  Dispatch'
<1>1. pc = "claim" /\ cur \in Execution \ exs /\ Untouched(cur)
  BY DEF ClaimExecution, TypeInv, EngineShape, Working, Dispatch,
         UntouchedUntilClaimed
<1>2. PICK out \in Outcomes :
        /\ ExecutionUpdateStatus(out, cur, "running")
        /\ IF out = "ok" THEN Goto("record") ELSE Return
  BY DEF ClaimExecution
<1>3. UNCHANGED history
  BY DEF ClaimExecution
<1>4. /\ \A d \in Execution : d # cur => executions'[d] = executions[d]
      /\ executions'[cur].finished = executions[cur].finished
      /\ executions'[cur].status = IF Applied(out) THEN "running"
                                   ELSE executions[cur].status
  BY <1>1, <1>2, CurUpdateStatus
<1>5. CASE out # "ok"
  BY <1>1, <1>2, <1>3, <1>4, <1>5, DispatchReturn
     DEF Working, Untouched, Dispatch, OutcomeFinished
<1>6. CASE out = "ok"
  <2>1. /\ pc' = "record" /\ cur' = cur /\ exs' = exs
        /\ executions'[cur].status = "running"
        /\ UNCHANGED <<plan, runs>>
    BY <1>2, <1>3, <1>4, <1>6 DEF Goto, locals, history, Applied
  <2>2. UntouchedUntilClaimed'
    BY <1>1, <1>4, <2>1 DEF Dispatch, UntouchedUntilClaimed, Untouched
  <2>3. LoopInv'
    BY <2>1 DEF LoopInv, InLoop, InStep
  <2>4. OutcomeFinished' /\ FinishedNeverRuns'
    BY <1>1, <1>4, <2>1 DEF Dispatch, OutcomeFinished, FinishedNeverRuns, Untouched
  <2>5. RunsFollowPlan'
    BY <2>1 DEF Dispatch, RunsFollowPlan
  <2> QED BY <2>2, <2>3, <2>4, <2>5 DEF Dispatch
<1> QED BY <1>5, <1>6

LEMMA DispatchRecord ==
  ASSUME TypeInv, Dispatch, RecordRunning
  PROVE  Dispatch'
<1>1. /\ pc = "record" /\ cur \in Execution \ exs /\ Untouched(cur)
      /\ executions[cur].status \notin {"none", "pending"}
  BY DEF RecordRunning, TypeInv, EngineShape, Working, Dispatch, LoopInv,
         UntouchedUntilClaimed
<1>2. PICK out \in Outcomes :
        /\ ExecutionUpdate(out, cur, "running", FALSE)
        /\ IF out = "ok"
           THEN /\ pc' = "check"
                /\ idx' = 1
                /\ plan' = [plan EXCEPT ![cur] = snap[wf]]
                /\ UNCHANGED <<wfs, snap, exs, wf, cur, row, result>>
           ELSE Return /\ UNCHANGED plan
  BY DEF RecordRunning
<1>3. UNCHANGED runs
  BY DEF RecordRunning
<1>4. /\ \A d \in Execution : d # cur => executions'[d] = executions[d]
      /\ executions'[cur].finished = IF Applied(out) THEN FALSE
                                     ELSE executions[cur].finished
      /\ executions'[cur].status = IF Applied(out) THEN "running"
                                   ELSE executions[cur].status
  BY <1>1, <1>2, CurUpdate
<1>5. CASE out # "ok"
  BY <1>1, <1>2, <1>3, <1>4, <1>5, DispatchReturn
     DEF Working, Untouched, Dispatch, OutcomeFinished, history
<1>6. CASE out = "ok"
  <2>1. /\ pc' = "check" /\ idx' = 1 /\ UNCHANGED <<cur, exs, wf, snap>>
        /\ plan' = [plan EXCEPT ![cur] = snap[wf]]
        /\ executions'[cur].status = "running"
        /\ executions'[cur].finished = FALSE
    BY <1>2, <1>4, <1>6 DEF Applied
  <2>2. /\ plan'[cur] = snap[wf]
        /\ \A d \in Execution : d # cur => plan'[d] = plan[d]
    BY <1>1, <2>1 DEF TypeInv, TypeOK, EngineTypeOK
  <2>3. UntouchedUntilClaimed'
    BY <1>1, <1>3, <1>4, <2>1, <2>2 DEF Dispatch, UntouchedUntilClaimed, Untouched
  <2>4. LoopInv'
    BY <1>1, <1>3, <2>1, <2>2 DEF LoopInv, InLoop, InStep, Untouched
  <2>5. OutcomeFinished' /\ FinishedNeverRuns'
    BY <1>4, <2>1 DEF Dispatch, OutcomeFinished, FinishedNeverRuns
  <2>6. RunsFollowPlan'
    <3>1. ASSUME NEW e \in Execution
          PROVE  /\ Len(runs'[e]) <= Len(plan'[e])
                 /\ \A i \in 1..Len(runs'[e]) : runs'[e][i].step = plan'[e][i]
      <4>1. CASE e = cur
        <5>1. runs'[e] = <<>> /\ plan'[e] \in Seq(StepNames)
          BY <1>1, <1>3, <2>2, <4>1
             DEF Untouched, TypeInv, TypeOK, EngineTypeOK, EngineShape, Working
        <5> QED BY <5>1
      <4>2. CASE e # cur
        BY <1>3, <2>2, <4>2 DEF Dispatch, RunsFollowPlan
      <4> QED BY <4>1, <4>2
    <3> QED BY <3>1 DEF RunsFollowPlan
  <2> QED BY <2>3, <2>4, <2>5, <2>6 DEF Dispatch
<1> QED BY <1>5, <1>6

\* The goroutine stays in the loop over the steps of one execution.
LEMMA DispatchLoop ==
  ASSUME TypeInv, Dispatch, pc \in InLoop, pc' \in InLoop,
         UNCHANGED <<executions, history, snap, exs, wf, cur>>,
         pc' \in {"check", "create", "start", "execute"} =>
           Len(runs[cur]) = idx' - 1,
         pc' \in {"running", "finish"} => Len(runs[cur]) = idx'
  PROVE  Dispatch'
<1>1. UntouchedUntilClaimed'
  BY DEF Dispatch, UntouchedUntilClaimed, Untouched, history, InLoop, InStep
<1>2. LoopInv'
  BY DEF Dispatch, LoopInv, history, InLoop, InStep
<1> QED
  BY <1>1, <1>2 DEF Dispatch, history, OutcomeFinished, RunsFollowPlan,
                    FinishedNeverRuns

\* The ends of processExecution, and the look at the row before a step.
LEMMA DispatchExecution ==
  ASSUME TypeInv, Dispatch,
         \/ ContextDone \/ CheckExecution \/ SucceedExecution
         \/ ReturnCanceled \/ FailExecution
  PROVE  Dispatch'
<1>1. /\ pc \in {"check", "skipCanceled", "skipFailed"}
      /\ cur \in Execution \ exs
      /\ executions[cur].status \notin {"none", "pending"}
      /\ ~executions[cur].finished
      /\ UNCHANGED history
  BY DEF ContextDone, CheckExecution, SucceedExecution, ReturnCanceled,
         FailExecution, TypeInv, EngineShape, Working, InLoop, Dispatch, LoopInv
<1>2. executions[cur].status \notin {"succeeded", "failed"}
  BY <1>1 DEF Dispatch, OutcomeFinished
<1>3. ASSUME Return, UNCHANGED executions PROVE Dispatch'
  BY <1>1, <1>2, <1>3, DispatchReturn DEF Working, InLoop
<1>4. CASE ContextDone
  <2>1. PICK out \in Outcomes : ExecutionUpdateStatus(out, cur, "canceled")
    BY <1>4 DEF ContextDone
  <2>2. Return
    BY <1>4 DEF ContextDone
  <2> QED BY <1>1, <1>2, <2>1, <2>2, CurUpdateStatus, DispatchReturn
          DEF Working, InLoop
<1>5. CASE CheckExecution
  <2>1. UNCHANGED executions /\ pc = "check"
    BY <1>5 DEF CheckExecution
  <2>2. Return \/ Goto("skipCanceled") \/ Goto("create")
    BY <1>5 DEF CheckExecution, Outcomes
  <2>3. ASSUME NEW p \in {"skipCanceled", "create"}, Goto(p)
        PROVE  Dispatch'
    <3>1. pc' = p /\ UNCHANGED <<snap, exs, wf, cur, idx>>
      BY <2>3 DEF Goto, locals
    <3>2. Len(runs[cur]) = idx - 1
      BY <2>1 DEF Dispatch, LoopInv
    <3> QED BY <1>1, <2>1, <2>3, <3>1, <3>2, DispatchLoop DEF InLoop, InStep
  <2> QED BY <1>3, <2>1, <2>2, <2>3
<1>6. CASE SucceedExecution
  <2>1. PICK out \in Outcomes : ExecutionUpdate(out, cur, "succeeded", TRUE)
    BY <1>6 DEF SucceedExecution
  <2>2. Return
    BY <1>6 DEF SucceedExecution
  <2>3. \A d \in Execution : d # cur => executions'[d] = executions[d]
    BY <1>1, <2>1, CurUpdate
  <2>4. \/ executions'[cur].status = "succeeded" /\ executions'[cur].finished
        \/ /\ executions'[cur].status = executions[cur].status
           /\ executions'[cur].finished = executions[cur].finished
    BY <1>1, <2>1, CurUpdate
  <2> QED BY <1>1, <1>2, <2>2, <2>3, <2>4, DispatchReturn DEF Working, InLoop
<1>7. CASE ReturnCanceled
  BY <1>3, <1>7 DEF ReturnCanceled
<1>8. CASE FailExecution
  <2>1. PICK out \in Outcomes : ExecutionUpdate(out, cur, "failed", TRUE)
    BY <1>8 DEF FailExecution
  <2>2. Return
    BY <1>8 DEF FailExecution
  <2>3. \A d \in Execution : d # cur => executions'[d] = executions[d]
    BY <1>1, <2>1, CurUpdate
  <2>4. \/ executions'[cur].status = "failed" /\ executions'[cur].finished
        \/ /\ executions'[cur].status = executions[cur].status
           /\ executions'[cur].finished = executions[cur].finished
    BY <1>1, <2>1, CurUpdate
  <2> QED BY <1>1, <1>2, <2>2, <2>3, <2>4, DispatchReturn DEF Working, InLoop
<1> QED BY <1>4, <1>5, <1>6, <1>7, <1>8

\* processStep moves on to its next statement.
LEMMA DispatchGoto ==
  ASSUME TypeInv, Dispatch, NEW p \in InStep, pc \in InStep, Goto(p),
         UNCHANGED <<executions, history>>,
         pc \in {"create", "start"} /\ p \in {"start", "execute"}
  PROVE  Dispatch'
<1>1. pc' = p /\ UNCHANGED <<snap, exs, wf, cur, idx>>
  BY DEF Goto, locals
<1>2. Len(runs[cur]) = idx - 1
  BY DEF Dispatch, LoopInv
<1> QED BY <1>1, <1>2, DispatchLoop DEF InLoop, InStep

\* processStep returns, with an error or without one.
LEMMA DispatchStepError ==
  ASSUME TypeInv, Dispatch, pc \in InStep, StepError,
         UNCHANGED <<executions, history>>
  PROVE  Dispatch'
BY DispatchLoop DEF StepError, InLoop, InStep

LEMMA DispatchNextStep ==
  ASSUME TypeInv, Dispatch, pc = "finish", NextStep,
         UNCHANGED <<executions, history>>
  PROVE  Dispatch'
<1>1. Len(runs[cur]) = idx
  BY DEF Dispatch, LoopInv
<1>2. idx \in Nat /\ idx' = idx + 1 /\ pc' = "check"
  BY DEF NextStep, TypeInv, TypeOK, EngineTypeOK
<1>3. Len(runs[cur]) = idx' - 1
  BY <1>1, <1>2
<1> QED BY <1>1, <1>2, <1>3, DispatchLoop DEF NextStep, InLoop, InStep

\* The statements of processStep and of skipRemainingSteps.
LEMMA DispatchStep ==
  ASSUME TypeInv, Dispatch,
         \/ CreateStep \/ StartStep \/ RunnerReturn
         \/ FailStep \/ SucceedStep \/ SkipStep
  PROVE  Dispatch'
<1>1. UNCHANGED <<executions, history>>
  BY DEF CreateStep, StartStep, RunnerReturn, FailStep, SucceedStep, SkipStep
<1>2. CASE CreateStep
  <2>1. pc = "create"
    BY <1>2 DEF CreateStep
  <2>2. CASE StepError
    BY <1>1, <2>1, <2>2, DispatchStepError DEF InStep
  <2>3. CASE pc' = "start" /\ UNCHANGED <<wfs, snap, exs, wf, cur, idx, result>>
    <3>1. Len(runs[cur]) = idx - 1
      BY <2>1 DEF Dispatch, LoopInv
    <3> QED BY <1>1, <2>1, <2>3, <3>1, DispatchLoop DEF InLoop, InStep
  <2> QED BY <1>2, <2>2, <2>3 DEF CreateStep
<1>3. CASE StartStep
  <2>1. pc = "start" /\ (StepError \/ Goto("execute"))
    BY <1>3 DEF StartStep
  <2>2. CASE StepError
    BY <1>1, <2>1, <2>2, DispatchStepError DEF InStep
  <2>3. CASE Goto("execute")
    BY <1>1, <2>1, <2>3, DispatchGoto DEF InStep
  <2> QED BY <2>1, <2>2, <2>3
<1>4. CASE RunnerReturn
  <2>1. /\ pc = "running" /\ pc' = "finish"
        /\ UNCHANGED <<snap, exs, wf, cur, idx>>
    BY <1>4 DEF RunnerReturn
  <2>2. Len(runs[cur]) = idx
    BY <2>1 DEF Dispatch, LoopInv
  <2> QED BY <1>1, <2>1, <2>2, DispatchLoop DEF InLoop, InStep
<1>5. CASE FailStep
  BY <1>1, <1>5, DispatchStepError DEF FailStep, InStep
<1>6. CASE SucceedStep
  <2>1. pc = "finish" /\ (StepError \/ NextStep)
    BY <1>6 DEF SucceedStep
  <2> QED BY <1>1, <2>1, DispatchStepError, DispatchNextStep DEF InStep
<1>7. CASE SkipStep
  <2>1. /\ pc \in {"skipCanceled", "skipFailed"} /\ pc' = pc
        /\ UNCHANGED <<snap, exs, wf, cur>>
    BY <1>7 DEF SkipStep
  <2> QED BY <1>1, <2>1, DispatchLoop DEF InLoop, InStep
<1> QED BY <1>2, <1>3, <1>4, <1>5, <1>6, <1>7

\* The call of the runner: the step is the next one of the plan.
LEMMA DispatchExecute ==
  ASSUME TypeInv, Dispatch, ExecuteStep
  PROVE  Dispatch'
<1> DEFINE run == [step |-> snap[wf][idx], row |-> row]
<1>1. /\ pc = "execute" /\ pc' = "running"
      /\ UNCHANGED <<executions, plan, snap, exs, wf, cur, idx>>
  BY DEF ExecuteStep, Goto, locals
<1>2. /\ cur \in Execution \ exs /\ wf \in Workflow
      /\ idx \in 1..Len(snap[wf])
      /\ plan[cur] = snap[wf] /\ plan[cur] \in Seq(StepNames)
      /\ Len(runs[cur]) = idx - 1 /\ runs[cur] \in Seq(Run)
      /\ run \in Run
  <2>1. cur \in Execution \ exs /\ wf \in Workflow /\ idx <= Len(snap[wf])
    BY <1>1 DEF TypeInv, EngineShape, Working, InLoop, InStep, StepsLeft
  <2>2. idx >= 1 /\ idx \in Nat /\ row \in Nat
    BY <1>1 DEF TypeInv, EngineShape, InLoop, InStep, TypeOK, EngineTypeOK
  <2>3. snap[wf] \in Seq(StepNames) /\ runs[cur] \in Seq(Run)
    BY <2>1 DEF TypeInv, TypeOK, EngineTypeOK
  <2>4. idx \in 1..Len(snap[wf])
    BY <2>1, <2>2, <2>3
  <2>5. snap[wf][idx] \in StepNames
    BY <2>3, <2>4
  <2>6. plan[cur] = snap[wf] /\ Len(runs[cur]) = idx - 1
    BY <1>1 DEF Dispatch, LoopInv, InLoop, InStep
  <2> QED BY <2>1, <2>2, <2>3, <2>4, <2>5, <2>6 DEF Run
<1>3. /\ runs'[cur] = Append(runs[cur], run)
      /\ \A d \in Execution : d # cur => runs'[d] = runs[d]
  <2>1. runs \in [Execution -> Seq(Run)] /\ cur \in Execution
    BY <1>2 DEF TypeInv, TypeOK, EngineTypeOK
  <2> QED BY <2>1 DEF ExecuteStep
<1>4. /\ Len(runs'[cur]) = idx
      /\ \A i \in 1..(idx - 1) : runs'[cur][i] = runs[cur][i]
      /\ runs'[cur][idx] = run
  BY <1>2, <1>3
<1>5. UntouchedUntilClaimed'
  <2>1. executions[cur].status \notin {"none", "pending"}
    BY <1>1 DEF Dispatch, LoopInv, InLoop, InStep
  <2> QED BY <1>1, <1>2, <1>3, <2>1 DEF Dispatch, UntouchedUntilClaimed, Untouched
<1>6. LoopInv'
  BY <1>1, <1>4 DEF Dispatch, LoopInv, InLoop, InStep
<1>7. RunsFollowPlan'
  <2>1. ASSUME NEW e \in Execution
        PROVE  /\ Len(runs'[e]) <= Len(plan'[e])
               /\ \A i \in 1..Len(runs'[e]) : runs'[e][i].step = plan'[e][i]
    <3>1. CASE e # cur
      BY <1>1, <1>3, <3>1 DEF Dispatch, RunsFollowPlan
    <3>2. CASE e = cur
      <4>1. \A i \in 1..(idx - 1) : runs[cur][i].step = plan[cur][i]
        BY <1>2 DEF Dispatch, RunsFollowPlan
      <4>2. run.step = plan[cur][idx]
        BY <1>2
      <4> HIDE DEF run
      <4>3. \A i \in 1..idx : runs'[cur][i].step = plan[cur][i]
        BY <1>2, <1>4, <4>1, <4>2
      <4>4. idx <= Len(plan[cur])
        BY <1>2
      <4> QED BY <1>1, <1>4, <3>2, <4>3, <4>4
    <3> QED BY <3>1, <3>2
  <2> QED BY <2>1 DEF RunsFollowPlan
<1> QED
  BY <1>1, <1>5, <1>6, <1>7
     DEF Dispatch, OutcomeFinished, FinishedNeverRuns

-----------------------------------------------------------------------------
(* The theorems                                                              *)

LEMMA DispatchNext == DispatchInv /\ [Next]_vars => DispatchInv'
<1> SUFFICES ASSUME TypeInv, Dispatch, [Next]_vars PROVE Dispatch'
  BY TypeNext, DispatchParts DEF DispatchInv, Dispatch
<1>1. CASE WorkflowRequest
  BY <1>1, DispatchFrame DEF WorkflowRequest
<1>2. CASE ExecutionRequest
  BY <1>2, DispatchRequest
<1>3. CASE EngineStep
  BY <1>3, DispatchPoll, DispatchClaim, DispatchRecord, DispatchExecution,
     DispatchStep, DispatchExecute DEF EngineStep, EngineNext
<1>4. CASE Shutdown
  BY <1>4, DispatchFrame DEF Shutdown, tables
<1>5. CASE Crash \/ Start
  BY <1>5, DispatchReset DEF Crash, Start, tables
<1>6. CASE UNCHANGED vars
  BY <1>6, DispatchFrame DEF vars, tables
<1> QED BY <1>1, <1>2, <1>3, <1>4, <1>5, <1>6 DEF Next

\* The engine never takes up what has been run or finished, and its locals
\* agree with the row it works on (engine.go, processPendingExecutions and
\* processExecution).
THEOREM DispatchInvariant == Spec => []DispatchInv
<1>1. Init => DispatchInv
  BY TypeInit, DispatchInit, DispatchParts
<1> QED BY <1>1, DispatchNext, PTL DEF Spec

\* The runner is called for the steps an execution was claimed with, in their
\* order and none twice: polls, lost statements, cancellations, kills and
\* restarts never make the engine repeat a step (engine.go, processExecution).
THEOREM StepsDispatchedOnce == Spec => []RunsFollowPlan
<1>1. DispatchInv => RunsFollowPlan
  BY DEF DispatchInv
<1> QED BY DispatchInvariant, <1>1, PTL

\* No execution with finished_at is stored as pending or running, so the
\* unguarded writes of "running" never reopen one that has ended.
THEOREM FinishedStaysEnded == Spec => []FinishedNeverRuns
<1>1. DispatchInv => FinishedNeverRuns
  BY DEF DispatchInv
<1> QED BY DispatchInvariant, <1>1, PTL

-----------------------------------------------------------------------------
(* What a step may do to a stored status                                     *)

\* A request inserts a pending row or cancels one.
LEMMA RequestWrites ==
  ASSUME TypeInv, ExecutionRequest, NEW e \in Execution
  PROVE  \/ executions'[e] = executions[e]
         \/ executions[e].status = "none" /\ executions'[e].status = "pending"
         \/ /\ executions'[e].status = "canceled"
            /\ executions'[e].finished = executions[e].finished
<1>0. executions \in [Execution -> ExecutionRow]
  BY DEF TypeInv, TypeOK, ExecutionTypeOK
<1>1. ASSUME NEW c \in Triggerers, NEW d \in Execution, TriggerInsert(c, d)
      PROVE  \/ executions'[e] = executions[e]
             \/ executions[e].status = "none" /\ executions'[e].status = "pending"
  BY <1>0, <1>1 DEF TriggerInsert, FreshExecution, ExecutionExists,
                    ExecutionCreate
<1>2. ASSUME NEW c \in Cancelers, CancelWrite(c)
      PROVE  \/ executions'[e] = executions[e]
             \/ /\ executions'[e].status = "canceled"
                /\ executions'[e].finished = executions[e].finished
  BY <1>0, <1>2 DEF CancelWrite, ExecutionUpdateStatus, ExecutionRow
<1>3. \/ UNCHANGED executions
      \/ \E c \in Triggerers, d \in Execution : TriggerInsert(c, d)
      \/ \E c \in Cancelers : CancelWrite(c)
  BY DEF ExecutionRequest, StartRequest, ContinueRequest, TriggerRead,
         TriggerRow, CancelRead, GetRead, GetSteps, GetReply
<1> QED BY <1>1, <1>2, <1>3

\* The engine writes the row it works on and no other.
LEMMA EngineWrites ==
  ASSUME TypeInv, EngineNext, NEW e \in Execution
  PROVE  executions'[e] = executions[e] \/ (pc \in Working /\ e = cur)
<1>0. executions \in [Execution -> ExecutionRow]
  BY DEF TypeInv, TypeOK, ExecutionTypeOK
<1>1. ASSUME pc \in Working, NEW s, NEW f, NEW out,
             \/ ExecutionUpdateStatus(out, cur, s)
             \/ ExecutionUpdate(out, cur, s, f)
      PROVE  executions'[e] = executions[e] \/ e = cur
  BY <1>0, <1>1 DEF ExecutionUpdateStatus, ExecutionUpdate
<1>2. CASE ClaimExecution \/ RecordRunning
  BY <1>1, <1>2 DEF ClaimExecution, RecordRunning, Working
<1>3. CASE ContextDone \/ SucceedExecution \/ FailExecution
  BY <1>1, <1>3 DEF ContextDone, SucceedExecution, FailExecution, Working,
                    InLoop
<1>4. CASE UNCHANGED executions
  BY <1>4
<1> QED
  BY <1>2, <1>3, <1>4 DEF EngineNext, PollStop, PollTick, EndPoll,
     ListExecutions, ListWith, StartExecution, CheckExecution, CreateStep,
     StartStep, ExecuteStep, RunnerReturn, FailStep, SucceedStep, SkipStep,
     ReturnCanceled

\* A row's status is changed by the engine for the row it works on, by an
\* insert, or to canceled.
LEMMA RowWrites ==
  ASSUME TypeInv, [Next]_vars, NEW e \in Execution
  PROVE  \/ executions'[e].status = executions[e].status
         \/ executions[e].status = "none" /\ executions'[e].status = "pending"
         \/ executions'[e].status = "canceled"
         \/ pc \in Working /\ e = cur
<1>1. UNCHANGED executions \/ ExecutionRequest \/ EngineNext
  BY DEF Next, vars, tables, WorkflowRequest, EngineStep, Shutdown, Crash, Start
<1> QED BY <1>1, RequestWrites, EngineWrites

\* The engine takes an execution in hand only if it is stored as pending.
LEMMA TakenFromPending ==
  ASSUME TypeInv, [Next]_vars, NEW e \in Execution, ~InHand(e)
  PROVE  ~InHand(e)' \/ executions[e].status = "pending"
<1>1. e # 0
  BY ExecutionRepoAssumption DEF Execution
<1>2. CASE UNCHANGED engineVars
  BY <1>2 DEF InHand, engineVars, locals
<1>3. CASE EngineNext
  <2>1. ASSUME NEW w \in wfs, ListExecutions(w) PROVE
          ~InHand(e)' \/ executions[e].status = "pending"
    BY <2>1 DEF ListExecutions, ListWith, InHand
  <2>2. ASSUME NEW d \in exs, StartExecution(d) PROVE ~InHand(e)'
    BY <2>2 DEF StartExecution, InHand
  <2>3. CASE exs' = exs /\ cur' = cur
    BY <2>3 DEF InHand
  <2>4. CASE cur' = 0 /\ exs' \in {exs, {}}
    BY <1>1, <2>4 DEF InHand
  <2>5. CASE PollStop \/ PollTick \/ EndPoll
    BY <2>3, <2>4, <2>5 DEF PollStop, PollTick, EndPoll, ResetAt
  <2>6. CASE \/ ClaimExecution \/ RecordRunning \/ ContextDone
             \/ CheckExecution \/ SucceedExecution \/ ReturnCanceled
             \/ FailExecution
    BY <2>3, <2>4, <2>6 DEF ClaimExecution, RecordRunning, ContextDone,
       CheckExecution, SucceedExecution, ReturnCanceled, FailExecution, Return,
       Goto, locals
  <2>7. CASE \/ CreateStep \/ StartStep \/ ExecuteStep \/ RunnerReturn
             \/ FailStep \/ SucceedStep \/ SkipStep
    BY <2>3, <2>7 DEF CreateStep, StartStep, ExecuteStep, RunnerReturn,
       FailStep, SucceedStep, SkipStep, StepError, NextStep, Goto, locals
  <2> QED BY <1>3, <2>1, <2>2, <2>5, <2>6, <2>7 DEF EngineNext
<1>4. CASE Crash \/ Start
  BY <1>1, <1>4 DEF Crash, Start, ResetAt, InHand
<1> QED
  BY <1>2, <1>3, <1>4 DEF Next, vars, WorkflowRequest, ExecutionRequest,
                          EngineStep, Shutdown

\* A cancellation stored while the engine does not hold the execution is
\* final: no later write of a handler or of the engine undoes it.
THEOREM IdleCancelStays == Spec => IdleCancelFinal
<1>1. TypeInv /\ [Next]_vars =>
        [\A e \in Execution :
           executions[e].status = "canceled" /\ ~InHand(e)
             => executions'[e].status = "canceled" /\ ~InHand(e)']_vars
  <2> SUFFICES ASSUME TypeInv, [Next]_vars, NEW e \in Execution,
                      executions[e].status = "canceled", ~InHand(e)
               PROVE  executions'[e].status = "canceled" /\ ~InHand(e)'
    OBVIOUS
  <2>1. ~(pc \in Working /\ e = cur)
    BY DEF InHand
  <2> QED BY <2>1, RowWrites, TakenFromPending
<1> QED BY TypeInit, TypeNext, <1>1, PTL DEF Spec, IdleCancelFinal

\* An execution that succeeded or failed keeps its outcome, except that a
\* Cancel that read it earlier may still mark it canceled.
THEOREM OutcomesStay == Spec => OutcomeStable
<1>1. DispatchInv /\ [Next]_vars =>
        [\A e \in Execution :
           executions[e].status \in {"succeeded", "failed"}
             => executions'[e].status \in {executions[e].status, "canceled"}]_vars
  <2> SUFFICES ASSUME DispatchInv, [Next]_vars, NEW e \in Execution,
                      executions[e].status \in {"succeeded", "failed"}
               PROVE  executions'[e].status \in {executions[e].status, "canceled"}
    OBVIOUS
  <2>1. ~(pc \in Working /\ e = cur)
    BY DEF DispatchInv, OutcomeFinished, UntouchedUntilClaimed, Untouched,
           LoopInv, Working
  <2> QED BY <2>1, RowWrites DEF DispatchInv
<1> QED BY DispatchInvariant, <1>1, PTL DEF Spec, OutcomeStable

-----------------------------------------------------------------------------
(* How much a Cancel lets be run                                             *)

LEMMA CancelInit == Init => CancelInv
BY DEF Init, CancelInv

LEMMA CancelFrame ==
  ASSUME CancelInv, UNCHANGED <<executions, engineVars, canceled>>
  PROVE  CancelInv'
BY DEF CancelInv, Queued, engineVars, locals, history

\* A handler leaves the engine alone, and a Cancel that ends leaves the mark
\* of where the engine was.
LEMMA CancelRequest ==
  ASSUME TypeInv, CancelInv, ExecutionRequest
  PROVE  CancelInv'
<1> SUFFICES ASSUME NEW e \in Execution, NEW m \in canceled'[e],
                    m.at # "queued"
             PROVE  /\ executions'[e].status \notin {"none", "pending"}
                    /\ ~Queued(e)'
                    /\ m.at = "idle" => e # cur' /\ Len(runs'[e]) = m.calls
                    /\ m.at = "loop" => Len(runs'[e]) <= m.calls + 1
                    /\ e = cur' => executions'[e].status = "canceled"
                    /\ e = cur' /\ pc' \in {"create", "start", "execute"} =>
                         Len(runs'[e]) = m.calls
  BY DEF CancelInv
<1>1. UNCHANGED <<pc, exs, cur, runs>> /\ (Queued(e)' <=> Queued(e))
  BY DEF ExecutionRequest, engineVars, locals, history, Queued
<1>2. CASE m \in canceled[e]
  <2>1. /\ executions[e].status \notin {"none", "pending"}
        /\ ~Queued(e)
        /\ m.at = "idle" => e # cur /\ Len(runs[e]) = m.calls
        /\ m.at = "loop" => Len(runs[e]) <= m.calls + 1
        /\ e = cur => executions[e].status = "canceled"
        /\ e = cur /\ pc \in {"create", "start", "execute"} =>
             Len(runs[e]) = m.calls
    BY <1>2 DEF CancelInv
  <2>2. executions'[e].status \in {executions[e].status, "canceled"}
    BY <2>1, RequestWrites
  <2> QED BY <1>1, <2>1, <2>2
<1>3. CASE m \notin canceled[e]
  <2>1. /\ executions'[e].status = "canceled"
        /\ m = [at |-> Standing(e), calls |-> Len(runs[e])]
    BY <1>3 DEF ExecutionRequest, RecordCancels, CancelStored
  <2>2. ~Queued(e) /\ (m.at = "idle" => e # cur) /\ m.calls = Len(runs[e])
    BY <2>1 DEF Standing
  <2>3. Len(runs[e]) \in Nat
    BY DEF TypeInv, TypeOK, EngineTypeOK
  <2> QED BY <1>1, <2>1, <2>2, <2>3
<1> QED BY <1>2, <1>3

\* The runner is called only for what the engine works on.
LEMMA RunsElsewhere ==
  ASSUME TypeInv, [Next]_vars, NEW e \in Execution, e # cur
  PROVE  runs'[e] = runs[e]
<1>1. runs \in [Execution -> Seq(Run)]
  BY DEF TypeInv, TypeOK, EngineTypeOK
<1>2. CASE ExecuteStep
  BY <1>1, <1>2 DEF ExecuteStep
<1>3. CASE UNCHANGED runs
  BY <1>3
<1> QED
  BY <1>2, <1>3 DEF Next, vars, engineVars, history, WorkflowRequest,
     ExecutionRequest, EngineStep, Shutdown, Crash, Start, EngineNext, PollStop,
     PollTick, EndPoll, ListExecutions, ListWith, StartExecution,
     ClaimExecution, RecordRunning, ContextDone, CheckExecution,
     SucceedExecution, CreateStep, StartStep, RunnerReturn, FailStep,
     SucceedStep, SkipStep, ReturnCanceled, FailExecution

\* The loop over the steps, once the execution it works on is stored as
\* canceled: it may call the runner where it has already looked, then it stops.
LEMMA CancelHeld ==
  ASSUME TypeInv, EngineNext, cur \in Execution, ~Queued(cur),
         executions[cur].status = "canceled"
  PROVE  \/ /\ cur' = 0 /\ exs' = exs /\ runs' = runs
            /\ executions'[cur].status \notin {"none", "pending"}
         \/ /\ UNCHANGED <<executions, cur, exs>>
            /\ pc' \notin {"claim", "record"}
            /\ \/ /\ runs' = runs
                  /\ pc' \in {"create", "start", "execute"} =>
                       pc \in {"create", "start", "execute"}
               \/ /\ pc = "execute" /\ pc' = "running"
                  /\ Len(runs'[cur]) = Len(runs[cur]) + 1
<1>1. pc \in InLoop /\ cur # 0
  BY DEF TypeInv, EngineShape, Working, Queued, Execution
<1>2. CASE ContextDone \/ SucceedExecution \/ FailExecution
  <2>1. cur' = 0 /\ exs' = exs /\ runs' = runs
    BY <1>2 DEF ContextDone, SucceedExecution, FailExecution, Return, history
  <2>2. executions'[cur].status \notin {"none", "pending"}
    <3>1. ASSUME NEW out, ExecutionUpdateStatus(out, cur, "canceled")
          PROVE  executions'[cur].status \notin {"none", "pending"}
      BY <3>1, CurUpdateStatus
    <3>2. ASSUME NEW out, NEW to \in {"succeeded", "failed"},
                 ExecutionUpdate(out, cur, to, TRUE)
          PROVE  executions'[cur].status \notin {"none", "pending"}
      <4>1. executions'[cur].status = IF Applied(out) THEN to
                                      ELSE executions[cur].status
        BY <3>2, CurUpdate
      <4> QED BY <4>1
    <3> QED BY <1>2, <3>1, <3>2 DEF ContextDone, SucceedExecution, FailExecution
  <2> QED BY <2>1, <2>2
<1>3. CASE CheckExecution
  <2>1. UNCHANGED <<executions, runs>> /\ (Return \/ Goto("skipCanceled"))
    BY <1>3 DEF CheckExecution, Outcomes, history
  <2> QED BY <2>1 DEF Return, Goto, locals
<1>4. CASE ReturnCanceled
  BY <1>4 DEF ReturnCanceled, Return, history
<1>5. CASE ExecuteStep
  <2>1. runs[cur] \in Seq(Run) /\ runs \in [Execution -> Seq(Run)]
    BY DEF TypeInv, TypeOK, EngineTypeOK
  <2> QED BY <1>5, <2>1 DEF ExecuteStep, Goto, locals
<1>6. CASE CreateStep \/ StartStep \/ RunnerReturn \/ FailStep \/ SucceedStep
           \/ SkipStep
  BY <1>1, <1>6 DEF CreateStep, StartStep, RunnerReturn, FailStep, SucceedStep,
     SkipStep, StepError, NextStep, Goto, locals, history
<1>7. pc \notin {"idle", "next", "claim", "record"}
  BY <1>1 DEF InLoop, InStep
<1> QED
  BY <1>2, <1>3, <1>4, <1>5, <1>6, <1>7 DEF EngineNext, PollStop, PollTick,
     EndPoll, ListExecutions, ListWith, StartExecution, ClaimExecution,
     RecordRunning

LEMMA CancelNext == TypeInv /\ CancelInv /\ [Next]_vars => CancelInv'
<1> SUFFICES ASSUME TypeInv, CancelInv, [Next]_vars PROVE CancelInv'
  OBVIOUS
<1>1. CASE ExecutionRequest
  BY <1>1, CancelRequest
<1>2. CASE UNCHANGED <<executions, engineVars, canceled>>
  BY <1>2, CancelFrame
<1>3. ASSUME EngineNext \/ Crash \/ Start, canceled' = canceled
      PROVE  CancelInv'
  <2> SUFFICES ASSUME NEW e \in Execution, NEW m \in canceled[e],
                      m.at # "queued"
               PROVE  /\ executions'[e].status \notin {"none", "pending"}
                      /\ ~Queued(e)'
                      /\ m.at = "idle" => e # cur' /\ Len(runs'[e]) = m.calls
                      /\ m.at = "loop" => Len(runs'[e]) <= m.calls + 1
                      /\ e = cur' => executions'[e].status = "canceled"
                      /\ e = cur' /\ pc' \in {"create", "start", "execute"} =>
                           Len(runs'[e]) = m.calls
    BY <1>3 DEF CancelInv
  <2>1. /\ executions[e].status \notin {"none", "pending"}
        /\ ~Queued(e)
        /\ m.at = "idle" => e # cur /\ Len(runs[e]) = m.calls
        /\ m.at = "loop" => Len(runs[e]) <= m.calls + 1
        /\ e = cur => executions[e].status = "canceled"
        /\ e = cur /\ pc \in {"create", "start", "execute"} =>
             Len(runs[e]) = m.calls
    BY DEF CancelInv
  <2>2. CASE e # cur
    <3>1. ~InHand(e)
      BY <2>1, <2>2 DEF Queued, InHand
    <3>2. ~InHand(e)'
      BY <2>1, <3>1, TakenFromPending
    <3>3. executions'[e].status \in {executions[e].status, "canceled"}
      BY <2>1, <2>2, RowWrites
    <3> QED BY <2>1, <2>2, <3>2, <3>3, RunsElsewhere DEF InHand, Queued
  <2>3. CASE e = cur /\ EngineNext
    <3>1. m.at # "idle" /\ e # 0 /\ e \notin exs
      BY <2>1, <2>3 DEF Execution, Queued
    <3>2. CASE /\ cur' = 0 /\ exs' = exs /\ runs' = runs
               /\ executions'[cur].status \notin {"none", "pending"}
      BY <2>1, <2>3, <3>1, <3>2 DEF Queued
    <3>3. CASE /\ UNCHANGED <<executions, cur, exs, runs>>
               /\ pc' \notin {"claim", "record"}
               /\ pc' \in {"create", "start", "execute"} =>
                    pc \in {"create", "start", "execute"}
      BY <2>1, <2>3, <3>1, <3>3 DEF Queued
    <3>4. CASE /\ UNCHANGED <<executions, cur, exs>>
               /\ pc = "execute" /\ pc' = "running"
               /\ Len(runs'[cur]) = Len(runs[cur]) + 1
      <4>1. Len(runs[e]) = m.calls
        BY <2>1, <2>3, <3>4
      <4>2. Len(runs[e]) \in Nat
        BY DEF TypeInv, TypeOK, EngineTypeOK
      <4>3. Len(runs'[e]) <= m.calls + 1
        BY <2>3, <3>4, <4>1, <4>2
      <4> QED BY <2>1, <2>3, <3>1, <3>4, <4>3 DEF Queued
    <3> QED BY <2>1, <2>3, <3>2, <3>3, <3>4, CancelHeld
  <2>4. CASE Crash \/ Start
    <3>1. cur' = 0 /\ exs' = {} /\ UNCHANGED <<executions, runs>> /\ e # 0
      BY <2>4 DEF Crash, Start, ResetAt, tables, history, Execution
    <3> QED BY <2>1, <3>1 DEF Queued
  <2> QED BY <1>3, <2>2, <2>3, <2>4
<1> QED
  BY <1>1, <1>2, <1>3 DEF Next, vars, tables, WorkflowRequest, EngineStep,
     Shutdown, Crash, Start

\* A Cancel that is stored before an execution is listed, or after it has
\* ended, lets no further step of it be started; one that meets the loop over
\* the steps lets at most one be started, whatever is written over it later.
\* Only between the list and the record of the claim is it lost (engine.go,
\* the Get before every step).
THEOREM CancelBounded == Spec => []CancelLatency
<1>1. TypeInv /\ CancelInv => CancelLatency
  BY DEF CancelInv, CancelLatency
<1> QED BY TypeInit, TypeNext, CancelInit, CancelNext, <1>1, PTL DEF Spec

=============================================================================
