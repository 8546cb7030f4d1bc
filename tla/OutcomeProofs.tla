---------------------------- MODULE OutcomeProofs ---------------------------
(***************************************************************************)
(* What is stored of an execution's outcome and of its steps agrees with    *)
(* what the engine has run: OutcomeInv of Orchestrator is inductive.        *)
(***************************************************************************)
EXTENDS DispatchProofs

LEMMA OutcomeInit == Init => OutcomeInv
<1> SUFFICES ASSUME Init PROVE OutcomeInv
  OBVIOUS
<1>1. DispatchInv
  BY TypeInit, DispatchInit, DispatchParts
<1>2. /\ \A e \in Execution : executions[e] = NoExecution /\ runs[e] = <<>>
      /\ \A c \in Readers : reads[c] = NoRead
      /\ pc = "off"
  BY DEF Init, EngineInit, ServiceInit
<1>3. RowInv
  BY <1>2 DEF RowInv
<1>4. SequentialSteps /\ SucceededMeansAllStepsRan
  BY <1>2 DEF SequentialSteps, SucceededMeansAllStepsRan, NoExecution
<1>5. ReadsInv /\ RepliesConsistent
  BY <1>2 DEF ReadsInv, RepliesConsistent, NoRead
<1> QED BY <1>1, <1>3, <1>4, <1>5 DEF OutcomeInv

\* The engine's locals and history where it works on an execution.
LEMMA InStepTypes ==
  ASSUME DispatchInv, pc \in InStep
  PROVE  /\ cur \in Execution \ exs /\ wf \in Workflow
         /\ idx \in 1..Len(snap[wf])
         /\ snap[wf] \in Seq(StepNames) /\ snap[wf][idx] \in StepNames
         /\ runs[cur] \in Seq(Run) /\ stepExecs[cur] \in Seq(StepRow)
         /\ row \in Nat
         /\ plan[cur] = snap[wf]
<1>1. /\ cur \in Execution \ exs /\ wf \in Workflow /\ idx >= 1
      /\ idx <= Len(snap[wf])
  BY DEF DispatchInv, TypeInv, EngineShape, Working, InLoop, StepsLeft
<1>2. /\ idx \in Nat /\ row \in Nat /\ snap[wf] \in Seq(StepNames)
      /\ runs[cur] \in Seq(Run)
  BY <1>1 DEF DispatchInv, TypeInv, TypeOK, EngineTypeOK
<1>3. stepExecs[cur] \in Seq(StepRow)
  BY <1>1 DEF DispatchInv, TypeInv, TypeOK, ExecutionTypeOK
<1>4. plan[cur] = snap[wf]
  BY DEF DispatchInv, LoopInv, InLoop
<1>5. idx \in 1..Len(snap[wf])
  BY <1>1, <1>2
<1> QED BY <1>1, <1>2, <1>3, <1>4, <1>5

-----------------------------------------------------------------------------
(* What a step may do to the step rows                                       *)

RowKept(e, r) ==
  /\ r \in DOMAIN stepExecs'[e]
  /\ stepExecs'[e][r] = stepExecs[e][r]

\* Row r of execution e is left alone, or it is the row in hand and moves on.
RowMoves(e, r) ==
  /\ r \in DOMAIN stepExecs'[e]
  /\ stepExecs'[e][r].step = stepExecs[e][r].step
  /\ \/ stepExecs'[e][r] = stepExecs[e][r]
     \/ /\ pc = "start" /\ e = cur /\ r = row
        /\ stepExecs[e][r].status = "pending"
        /\ stepExecs'[e][r].status = "running"
     \/ /\ pc = "finish" /\ e = cur /\ r = row
        /\ stepExecs[e][r].status = "running"
        /\ stepExecs'[e][r].status \in {"failed", "succeeded"}

\* An insert leaves every row alone.
LEMMA CreateKeeps ==
  ASSUME TypeInv, NEW d, NEW out, NEW step, NEW status,
         StepCreate(out, d, step, status),
         NEW e \in Execution, NEW r \in DOMAIN stepExecs[e]
  PROVE  RowKept(e, r)
<1>1. stepExecs \in [Execution -> Seq(StepRow)]
  BY DEF TypeInv, TypeOK, ExecutionTypeOK
<1>2. CASE Applied(out) /\ e = d
  <2> DEFINE new == [step |-> step, status |-> status, exit |-> "null"]
  <2>1. stepExecs'[e] = Append(stepExecs[e], new)
    BY <1>1, <1>2 DEF StepCreate
  <2>2. stepExecs[e] \in Seq(StepRow) /\ r \in 1..Len(stepExecs[e])
    BY <1>1
  <2> HIDE DEF new
  <2>3. r \in DOMAIN stepExecs'[e] /\ stepExecs'[e][r] = stepExecs[e][r]
    BY <2>1, <2>2
  <2> QED BY <2>3 DEF RowKept
<1>3. CASE ~(Applied(out) /\ e = d)
  <2>1. stepExecs'[e] = stepExecs[e]
    BY <1>1, <1>3 DEF StepCreate
  <2> QED BY <2>1 DEF RowKept
<1> QED BY <1>2, <1>3

\* An update changes the row it names.
LEMMA UpdateMoves ==
  ASSUME TypeInv, NEW d \in Execution, NEW q \in DOMAIN stepExecs[d],
         NEW out, NEW status, NEW exit,
         StepUpdateStatus(out, d, q, status, exit)
  PROVE  /\ \A e \in Execution : DOMAIN stepExecs'[e] = DOMAIN stepExecs[e]
         /\ \A e \in Execution : \A r \in DOMAIN stepExecs[e] :
              stepExecs'[e][r] = IF Applied(out) /\ e = d /\ r = q
                                 THEN WithStatus(stepExecs[e][r], status, exit)
                                 ELSE stepExecs[e][r]
<1>1. stepExecs \in [Execution -> Seq(StepRow)]
  BY DEF TypeInv, TypeOK, ExecutionTypeOK
<1> DEFINE new == WithStatus(stepExecs[d][q], status, exit)
<1>2. stepExecs' = IF Applied(out) THEN [stepExecs EXCEPT ![d][q] = new]
                                   ELSE stepExecs
  BY DEF StepUpdateStatus
<1> HIDE DEF new
<1>3. ASSUME NEW e \in Execution
      PROVE  /\ DOMAIN stepExecs'[e] = DOMAIN stepExecs[e]
             /\ \A r \in DOMAIN stepExecs[e] :
                  stepExecs'[e][r] = IF Applied(out) /\ e = d /\ r = q
                                     THEN new ELSE stepExecs[e][r]
  <2>1. stepExecs[e] \in Seq(StepRow)
    BY <1>1
  <2>2. stepExecs'[e] = IF Applied(out) /\ e = d
                        THEN [stepExecs[e] EXCEPT ![q] = new] ELSE stepExecs[e]
    BY <1>1, <1>2
  <2> QED BY <2>1, <2>2
<1> QED BY <1>3 DEF new

\* The statements that write step rows, and where they stand.
StepWrite ==
  \/ \E out, status : pc \in Working /\ StepCreate(out, cur, snap[wf][idx], status)
  \/ \E c \in Triggerers : TriggerRow(c)
  \/ StartStep \/ FailStep \/ SucceedStep

LEMMA WritesOfRows == [Next]_vars => StepWrite \/ UNCHANGED stepExecs
<1> SUFFICES ASSUME [Next]_vars PROVE StepWrite \/ UNCHANGED stepExecs
  OBVIOUS
<1>1. CASE EngineNext
  <2>1. CASE CreateStep \/ SkipStep
    BY <2>1 DEF CreateStep, SkipStep, StepWrite, Working, InLoop, InStep
  <2>2. CASE StartStep \/ FailStep \/ SucceedStep
    BY <2>2 DEF StepWrite
  <2> QED
    BY <1>1, <2>1, <2>2 DEF EngineNext, PollStop, PollTick, EndPoll,
       ListExecutions, ListWith, StartExecution, ClaimExecution, RecordRunning,
       ContextDone, CheckExecution, SucceedExecution, ExecuteStep,
       RunnerReturn, ReturnCanceled, FailExecution
<1>2. CASE ExecutionRequest
  BY <1>2 DEF ExecutionRequest, StartRequest, ContinueRequest, TriggerRead,
     TriggerInsert, CancelRead, CancelWrite, GetRead, GetSteps, GetReply,
     StepWrite
<1> QED
  BY <1>1, <1>2 DEF Next, vars, tables, WorkflowRequest, EngineStep, Shutdown,
     Crash, Start

LEMMA RowsMove ==
  ASSUME DispatchInv, RowInv, [Next]_vars,
         NEW e \in Execution, NEW r \in DOMAIN stepExecs[e]
  PROVE  RowMoves(e, r)
<1> USE DEF DispatchInv
<1>1. CASE UNCHANGED stepExecs
  BY <1>1 DEF RowMoves
<1>2. ASSUME NEW out, NEW status, pc \in Working,
             StepCreate(out, cur, snap[wf][idx], status)
      PROVE  RowMoves(e, r)
  BY <1>2, CreateKeeps DEF RowKept, RowMoves
<1>3. ASSUME NEW c \in Triggerers, TriggerRow(c) PROVE RowMoves(e, r)
  <2>1. PICK out \in Outcomes :
          StepCreate(out, triggers[c].execution, Head(triggers[c].steps),
                     "pending")
    BY <1>3 DEF TriggerRow
  <2> QED BY <2>1, CreateKeeps DEF RowKept, RowMoves
<1>4. ASSUME pc \in {"start", "finish"}, NEW out, NEW status, NEW exit,
             StepUpdateStatus(out, cur, row, status, exit),
             IF pc = "start" THEN status = "running"
                             ELSE status \in {"failed", "succeeded"}
      PROVE  RowMoves(e, r)
  <2>1. cur \in Execution /\ row \in DOMAIN stepExecs[cur]
    BY <1>4, InStepTypes DEF RowInv, InStep
  <2>2. stepExecs[cur][row].status = IF pc = "start" THEN "pending"
                                                     ELSE "running"
    BY <1>4 DEF RowInv
  <2>3. /\ DOMAIN stepExecs'[e] = DOMAIN stepExecs[e]
        /\ stepExecs'[e][r] = IF Applied(out) /\ e = cur /\ r = row
                              THEN WithStatus(stepExecs[e][r], status, exit)
                              ELSE stepExecs[e][r]
    BY <1>4, <2>1, UpdateMoves
  <2> QED BY <1>4, <2>2, <2>3 DEF RowMoves, WithStatus
<1>5. CASE StartStep \/ FailStep \/ SucceedStep
  BY <1>4, <1>5 DEF StartStep, FailStep, SucceedStep
<1> QED BY <1>1, <1>2, <1>3, <1>5, WritesOfRows DEF StepWrite

\* A stored success of a step stays.
LEMMA SuccessStays ==
  ASSUME DispatchInv, RowInv, [Next]_vars,
         NEW e \in Execution, NEW i, RunSucceeded(e, i),
         runs'[e][i] = runs[e][i]
  PROVE  RunSucceeded(e, i)'
<1>1. runs[e][i].row \in DOMAIN stepExecs[e]
  BY DEF RunSucceeded
<1>2. RowMoves(e, runs[e][i].row)
  BY <1>1, RowsMove
<1> QED BY <1>2 DEF RunSucceeded, RowMoves

-----------------------------------------------------------------------------
(* The row in hand and the order of the steps                                *)

\* A request never touches a row that is there.
LEMMA RequestKeeps ==
  ASSUME TypeInv, ExecutionRequest,
         NEW e \in Execution, NEW r \in DOMAIN stepExecs[e]
  PROVE  RowKept(e, r)
<1>1. CASE UNCHANGED stepExecs
  BY <1>1 DEF RowKept
<1>2. ASSUME NEW c \in Triggerers, TriggerRow(c) PROVE RowKept(e, r)
  <2>1. PICK out \in Outcomes :
          StepCreate(out, triggers[c].execution, Head(triggers[c].steps),
                     "pending")
    BY <1>2 DEF TriggerRow
  <2> QED BY <2>1, CreateKeeps
<1> QED
  BY <1>1, <1>2 DEF ExecutionRequest, StartRequest, ContinueRequest,
     TriggerRead, TriggerInsert, CancelRead, CancelWrite, GetRead, GetSteps,
     GetReply

\* The steps keep their order while the runner is not called.
LEMMA OrderKept ==
  ASSUME DispatchInv, RowInv, SequentialSteps, [Next]_vars, UNCHANGED runs
  PROVE  SequentialSteps'
BY SuccessStays DEF SequentialSteps

\* Nothing the goroutine knows has changed, nor the rows it knows.
LEMMA RowFrame ==
  ASSUME DispatchInv, RowInv, UNCHANGED <<engineVars>>,
         \A e \in Execution : \A r \in DOMAIN stepExecs[e] : RowKept(e, r)
  PROVE  RowInv'
<1>1. UNCHANGED <<pc, snap, wf, cur, idx, row, runs>>
  BY DEF engineVars, locals, history
<1>2. pc \in Working => cur \in Execution
  BY DEF DispatchInv, TypeInv, EngineShape
<1>3. ASSUME NEW i, pc \in Working, RunSucceeded(cur, i)
      PROVE  RunSucceeded(cur, i)'
  BY <1>1, <1>2, <1>3 DEF RunSucceeded, RowKept
<1> QED
  BY <1>1, <1>2, <1>3 DEF RowInv, RowKept, Working, InLoop, InStep

\* The goroutine leaves the places where it has a row or a history in hand.
LEMMA RowOutside ==
  ASSUME pc' \notin {"check", "create", "start", "execute", "running", "finish"}
  PROVE  RowInv'
BY DEF RowInv

LEMMA RowPoll ==
  ASSUME \/ PollStop \/ PollTick \/ EndPoll
         \/ \E w \in wfs : ListExecutions(w)
         \/ \E e \in exs : StartExecution(e)
         \/ ClaimExecution \/ ContextDone \/ SucceedExecution
         \/ ReturnCanceled \/ FailExecution \/ FailStep \/ SkipStep
  PROVE  RowInv' /\ UNCHANGED runs
<1>1. pc' \notin {"check", "create", "start", "execute", "running", "finish"}
  BY DEF PollStop, PollTick, EndPoll, ListExecutions, ListWith,
         StartExecution, ClaimExecution, ContextDone, SucceedExecution,
         ReturnCanceled, FailExecution, FailStep, SkipStep, ResetAt, Return,
         Goto, StepError
<1>2. UNCHANGED runs
  BY DEF PollStop, PollTick, EndPoll, ListExecutions, ListWith,
         StartExecution, ClaimExecution, ContextDone, SucceedExecution,
         ReturnCanceled, FailExecution, FailStep, SkipStep, history
<1> QED BY <1>1, <1>2, RowOutside

LEMMA RowRecord ==
  ASSUME DispatchInv, RecordRunning
  PROVE  RowInv' /\ UNCHANGED runs
<1>1. UNCHANGED runs
  BY DEF RecordRunning
<1>2. CASE pc' = "next"
  BY <1>1, <1>2, RowOutside
<1>3. CASE pc' = "check" /\ cur' = cur
  <2>1. runs[cur] = <<>>
    BY DEF RecordRunning, DispatchInv, UntouchedUntilClaimed, Untouched
  <2> QED BY <1>1, <1>3, <2>1 DEF RowInv
<1>4. pc' = "next" \/ (pc' = "check" /\ cur' = cur)
  BY DEF RecordRunning, Return
<1> QED BY <1>1, <1>2, <1>3, <1>4

LEMMA RowCheck ==
  ASSUME DispatchInv, RowInv, CheckExecution
  PROVE  RowInv' /\ UNCHANGED runs
<1>1. UNCHANGED <<runs, stepExecs>> /\ pc = "check"
  BY DEF CheckExecution, history
<1>2. CASE pc' \in {"next", "skipCanceled"}
  BY <1>1, <1>2, RowOutside
<1>3. CASE pc' = "create" /\ cur' = cur
  BY <1>1, <1>3 DEF RowInv, RunSucceeded
<1>4. pc' \in {"next", "skipCanceled"} \/ (pc' = "create" /\ cur' = cur)
  BY DEF CheckExecution, Return, Goto, locals, Outcomes
<1> QED BY <1>1, <1>2, <1>3, <1>4

LEMMA RowCreate ==
  ASSUME DispatchInv, RowInv, [Next]_vars, CreateStep
  PROVE  RowInv' /\ UNCHANGED runs
<1>1. UNCHANGED runs /\ pc = "create"
  BY DEF CreateStep, history
<1>2. CASE pc' = "skipFailed"
  BY <1>1, <1>2, RowOutside
<1>3. CASE pc' # "skipFailed"
  <2>1. PICK out \in Outcomes : StepCreate(out, cur, snap[wf][idx], "pending")
                                /\ out = "ok"
    BY <1>3 DEF CreateStep, StepError
  <2>2. /\ pc' = "start" /\ row' = Len(stepExecs'[cur])
        /\ UNCHANGED <<snap, wf, cur, idx>>
    BY <1>3 DEF CreateStep, StepError
  <2>3. /\ cur \in Execution /\ stepExecs[cur] \in Seq(StepRow)
        /\ stepExecs \in [Execution -> Seq(StepRow)]
    BY <1>1, InStepTypes DEF InStep, DispatchInv, TypeInv, TypeOK, ExecutionTypeOK
  <2> DEFINE new == [step |-> snap[wf][idx], status |-> "pending",
                     exit |-> "null"]
  <2>4. stepExecs'[cur] = Append(stepExecs[cur], new)
    BY <2>1, <2>3 DEF StepCreate, Applied
  <2>5. new.step = snap[wf][idx] /\ new.status = "pending"
    OBVIOUS
  <2> HIDE DEF new
  <2>6. row' \in DOMAIN stepExecs'[cur] /\ stepExecs'[cur][row'] = new
    BY <2>2, <2>3, <2>4
  <2>7. PICK e \in Execution : e = cur
    BY <2>3
  <2>8. \A i \in 1..Len(runs[e]) : RunSucceeded(e, i)'
    BY <1>1, <2>7, SuccessStays DEF RowInv
  <2> QED BY <1>1, <2>2, <2>5, <2>6, <2>7, <2>8 DEF RowInv
<1> QED BY <1>1, <1>2, <1>3

\* The update of the row in hand.
LEMMA RowInHand ==
  ASSUME DispatchInv, RowInv, pc \in {"start", "finish"},
         NEW status, NEW exit,
         StepUpdateStatus("ok", cur, row, status, exit)
  PROVE  /\ row \in DOMAIN stepExecs'[cur]
         /\ stepExecs'[cur][row] = WithStatus(stepExecs[cur][row], status, exit)
<1>1. cur \in Execution /\ row \in DOMAIN stepExecs[cur]
  BY InStepTypes DEF RowInv, InStep
<1> QED BY <1>1, UpdateMoves DEF DispatchInv, Applied

LEMMA RowStart ==
  ASSUME DispatchInv, RowInv, [Next]_vars, StartStep
  PROVE  RowInv' /\ UNCHANGED runs
<1>1. UNCHANGED runs /\ pc = "start"
  BY DEF StartStep, history
<1>2. CASE pc' = "skipFailed"
  BY <1>1, <1>2, RowOutside
<1>3. CASE pc' # "skipFailed"
  <2>1. /\ StepUpdateStatus("ok", cur, row, "running", "null")
        /\ pc' = "execute" /\ UNCHANGED <<snap, wf, cur, idx, row>>
    BY <1>3 DEF StartStep, StepError, Goto, locals
  <2>2. /\ row \in DOMAIN stepExecs'[cur]
        /\ stepExecs'[cur][row] =
             WithStatus(stepExecs[cur][row], "running", "null")
    BY <1>1, <2>1, RowInHand
  <2>3. stepExecs[cur][row].step = snap[wf][idx]
    BY <1>1 DEF RowInv
  <2>4. PICK e \in Execution : e = cur
    BY <1>1, InStepTypes DEF InStep
  <2>5. \A i \in 1..Len(runs[e]) : RunSucceeded(e, i)'
    BY <1>1, <2>4, SuccessStays DEF RowInv
  <2> QED BY <1>1, <2>1, <2>2, <2>3, <2>4, <2>5 DEF RowInv, WithStatus
<1> QED BY <1>1, <1>2, <1>3

LEMMA RowExecute ==
  ASSUME DispatchInv, RowInv, SequentialSteps, [Next]_vars, ExecuteStep
  PROVE  RowInv' /\ SequentialSteps'
<1> DEFINE run == [step |-> snap[wf][idx], row |-> row]
<1>1. /\ pc = "execute" /\ pc' = "running"
      /\ UNCHANGED <<stepExecs, snap, wf, cur, idx, row>>
  BY DEF ExecuteStep, Goto, locals
<1>2. /\ cur \in Execution /\ runs[cur] \in Seq(Run)
      /\ Len(runs[cur]) = idx - 1 /\ idx \in Nat
      /\ runs \in [Execution -> Seq(Run)]
  BY <1>1, InStepTypes
     DEF InStep, DispatchInv, LoopInv, TypeInv, TypeOK, EngineTypeOK
<1>3. /\ runs'[cur] = Append(runs[cur], run)
      /\ \A d \in Execution : d # cur => runs'[d] = runs[d]
  BY <1>2 DEF ExecuteStep
<1>4. run.row = row
  OBVIOUS
<1> HIDE DEF run
<1>5. /\ Len(runs'[cur]) = idx /\ runs'[cur][idx] = run
      /\ \A i \in 1..(idx - 1) : runs'[cur][i] = runs[cur][i]
  BY <1>2, <1>3
<1>6. RowInv'
  BY <1>1, <1>4, <1>5 DEF RowInv
<1>7. ASSUME NEW e \in Execution, NEW i \in 1..Len(runs'[e]), i < Len(runs'[e])
      PROVE  RunSucceeded(e, i)'
  <2>1. CASE e # cur
    BY <1>3, <1>7, <2>1, SuccessStays DEF SequentialSteps
  <2>2. CASE e = cur
    <3>1. i \in 1..(idx - 1)
      BY <1>2, <1>5, <1>7, <2>2
    <3>2. RunSucceeded(e, i)
      BY <1>1, <1>2, <2>2, <3>1 DEF RowInv
    <3> QED BY <1>5, <2>2, <3>1, <3>2, SuccessStays
  <2> QED BY <2>1, <2>2
<1> QED BY <1>6, <1>7 DEF SequentialSteps

LEMMA RowReturn ==
  ASSUME DispatchInv, RowInv, RunnerReturn
  PROVE  RowInv' /\ UNCHANGED runs
BY DEF RowInv, RunnerReturn, history

LEMMA RowSucceed ==
  ASSUME DispatchInv, RowInv, SequentialSteps, [Next]_vars, SucceedStep
  PROVE  RowInv' /\ UNCHANGED runs
<1>1. UNCHANGED runs /\ pc = "finish"
  BY DEF SucceedStep, history
<1>2. CASE pc' = "skipFailed"
  BY <1>1, <1>2, RowOutside
<1>3. CASE pc' # "skipFailed"
  <2>1. /\ StepUpdateStatus("ok", cur, row, "succeeded", "zero")
        /\ pc' = "check" /\ cur' = cur
    BY <1>3 DEF SucceedStep, StepError, NextStep
  <2>2. /\ row \in DOMAIN stepExecs'[cur]
        /\ stepExecs'[cur][row] =
             WithStatus(stepExecs[cur][row], "succeeded", "zero")
    BY <1>1, <2>1, RowInHand
  <2>3. /\ cur \in Execution /\ idx \in 1..Len(runs[cur])
        /\ Len(runs[cur]) = idx /\ plan[cur] = snap[wf]
    BY <1>1, InStepTypes DEF InStep, InLoop, DispatchInv, LoopInv
  <2>4. /\ stepExecs[cur][row].step = snap[wf][idx]
        /\ runs[cur][idx].row = row /\ runs[cur][idx].step = snap[wf][idx]
    BY <1>1, <2>3 DEF RowInv, DispatchInv, RunsFollowPlan
  <2>5. PICK e \in Execution, k \in Nat : e = cur /\ k = idx
    BY <2>3
  <2>7. RunSucceeded(e, k)'
    BY <1>1, <2>1, <2>2, <2>4, <2>5 DEF RunSucceeded, WithStatus
  <2>8. ASSUME NEW i \in 1..Len(runs[e]) PROVE RunSucceeded(e, i)'
    <3>1. CASE i < Len(runs[e])
      BY <1>1, <3>1, SuccessStays DEF SequentialSteps
    <3>2. CASE i = k
      BY <2>7, <3>2
    <3>3. i < Len(runs[e]) \/ i = k
      BY <2>3, <2>5
    <3> QED BY <3>1, <3>2, <3>3
  <2> QED BY <1>1, <2>1, <2>5, <2>8 DEF RowInv
<1> QED BY <1>1, <1>2, <1>3

LEMMA RowNext ==
  ASSUME DispatchInv, RowInv, SequentialSteps, [Next]_vars
  PROVE  RowInv' /\ SequentialSteps'
<1>1. CASE EngineNext
  BY <1>1, RowPoll, RowRecord, RowCheck, RowCreate, RowStart, RowExecute,
     RowReturn, RowSucceed, OrderKept DEF EngineNext
<1>2. CASE ExecutionRequest
  <2>1. UNCHANGED engineVars
    BY <1>2 DEF ExecutionRequest
  <2>2. UNCHANGED runs
    BY <2>1 DEF engineVars, history
  <2> QED BY <1>2, <2>1, <2>2, RequestKeeps, RowFrame, OrderKept DEF DispatchInv
<1>3. CASE UNCHANGED <<engineVars, stepExecs>>
  <2>1. UNCHANGED runs
    BY <1>3 DEF engineVars, history
  <2> QED BY <1>3, <2>1, RowFrame, OrderKept DEF RowKept
<1>4. CASE Crash \/ Start
  <2>1. UNCHANGED runs /\ pc' \in {"off", "idle"}
    BY <1>4 DEF Crash, Start, ResetAt, history
  <2> QED BY <2>1, RowOutside, OrderKept
<1> QED
  BY <1>1, <1>2, <1>3, <1>4 DEF Next, vars, tables, WorkflowRequest,
     EngineStep, Shutdown

-----------------------------------------------------------------------------
(* Outcomes and replies                                                      *)

\* What has finished is out of the engine's hands.
LEMMA FinishedStays ==
  ASSUME DispatchInv, [Next]_vars, NEW e \in Execution, executions[e].finished
  PROVE  /\ executions'[e].finished
         /\ plan'[e] = plan[e] /\ runs'[e] = runs[e]
<1>0. /\ executions \in [Execution -> ExecutionRow]
      /\ plan \in [Execution -> Seq(StepNames)]
      /\ runs \in [Execution -> Seq(Run)]
  BY DEF DispatchInv, TypeInv, TypeOK, ExecutionTypeOK, EngineTypeOK
<1>1. /\ e = cur => pc \notin Working
      /\ executions[e].status # "none"
  BY DEF DispatchInv, UntouchedUntilClaimed, Untouched, LoopInv, Working
<1>2. executions'[e].finished
  <2>1. CASE EngineNext
    <3>1. CASE UNCHANGED executions
      BY <3>1
    <3>2. CASE pc \in Working
      BY <1>0, <1>1, <2>1, <3>2
         DEF EngineNext, PollStop, PollTick, EndPoll, ListExecutions, ListWith,
             StartExecution, ClaimExecution, RecordRunning, ContextDone,
             CheckExecution, SucceedExecution, CreateStep, StartStep,
             ExecuteStep, RunnerReturn, FailStep, SucceedStep, SkipStep,
             ReturnCanceled, FailExecution, ExecutionUpdate,
             ExecutionUpdateStatus
    <3>3. CASE pc \notin Working
      BY <2>1, <3>3
         DEF EngineNext, PollStop, PollTick, EndPoll, ListExecutions, ListWith,
             StartExecution, ClaimExecution, RecordRunning, ContextDone,
             CheckExecution, SucceedExecution, CreateStep, StartStep,
             ExecuteStep, RunnerReturn, FailStep, SucceedStep, SkipStep,
             ReturnCanceled, FailExecution, Working, InLoop, InStep
    <3> QED BY <3>2, <3>3
  <2>2. CASE ExecutionRequest
    BY <1>1, <2>2, RequestWrites DEF DispatchInv
  <2> QED
    BY <2>1, <2>2 DEF Next, vars, tables, WorkflowRequest, EngineStep,
       Shutdown, Crash, Start
<1>3. plan'[e] = plan[e] /\ runs'[e] = runs[e]
  <2>1. CASE EngineNext
    <3>1. CASE RecordRunning \/ ExecuteStep
      BY <1>0, <1>1, <3>1
         DEF RecordRunning, ExecuteStep, Working, InLoop, InStep
    <3> QED
      BY <2>1, <3>1
         DEF EngineNext, PollStop, PollTick, EndPoll, ListExecutions, ListWith,
             StartExecution, ClaimExecution, ContextDone, CheckExecution,
             SucceedExecution, CreateStep, StartStep, RunnerReturn, FailStep,
             SucceedStep, SkipStep, ReturnCanceled, FailExecution, history
  <2> QED
    BY <2>1 DEF Next, vars, WorkflowRequest, ExecutionRequest, EngineStep,
       Shutdown, Crash, Start, engineVars, history
<1> QED BY <1>2, <1>3

\* A success comes from the end of the loop over the steps.
LEMMA SuccessOrigin ==
  ASSUME DispatchInv, [Next]_vars, NEW e \in Execution,
         executions'[e].status = "succeeded"
  PROVE  \/ executions[e].status = "succeeded"
         \/ SucceedExecution /\ e = cur
<1>0. executions \in [Execution -> ExecutionRow]
  BY DEF DispatchInv, TypeInv, TypeOK, ExecutionTypeOK
<1>1. CASE EngineNext
  <2>1. CASE \/ ClaimExecution \/ RecordRunning \/ ContextDone
             \/ SucceedExecution \/ FailExecution
    <3>1. cur \in Execution
      BY <2>1 DEF ClaimExecution, RecordRunning, ContextDone, SucceedExecution,
                  FailExecution, DispatchInv, TypeInv, EngineShape, Working,
                  InLoop
    <3>2. ASSUME NEW out, NEW st \in {"running", "canceled"},
                 ExecutionUpdateStatus(out, cur, st)
          PROVE  executions[e].status = "succeeded"
      BY <3>1, <3>2, CurUpdateStatus DEF DispatchInv
    <3>3. ASSUME NEW out, NEW st \in {"running", "failed"}, NEW f,
                 ExecutionUpdate(out, cur, st, f)
          PROVE  executions[e].status = "succeeded"
      BY <3>1, <3>3, CurUpdate DEF DispatchInv
    <3>4. CASE SucceedExecution
      <4>1. PICK out : ExecutionUpdate(out, cur, "succeeded", TRUE)
        BY <3>4 DEF SucceedExecution
      <4> QED BY <3>1, <3>4, <4>1, CurUpdate DEF DispatchInv
    <3>5. CASE ClaimExecution \/ ContextDone
      BY <3>2, <3>5 DEF ClaimExecution, ContextDone
    <3>6. CASE RecordRunning \/ FailExecution
      BY <3>3, <3>6 DEF RecordRunning, FailExecution
    <3> QED BY <2>1, <3>4, <3>5, <3>6
  <2> QED
    BY <1>1, <2>1
       DEF EngineNext, PollStop, PollTick, EndPoll, ListExecutions, ListWith,
           StartExecution, CheckExecution, CreateStep, StartStep, ExecuteStep,
           RunnerReturn, FailStep, SucceedStep, SkipStep, ReturnCanceled
<1>2. CASE ExecutionRequest
  BY <1>2, RequestWrites DEF DispatchInv
<1> QED
  BY <1>1, <1>2 DEF Next, vars, tables, WorkflowRequest, EngineStep,
     Shutdown, Crash, Start

LEMMA AllStepsStay ==
  ASSUME DispatchInv, RowInv, [Next]_vars, NEW e \in Execution,
         executions[e].finished, AllStepsRan(e)
  PROVE  AllStepsRan(e)'
<1>1. plan'[e] = plan[e] /\ runs'[e] = runs[e]
  BY FinishedStays
<1>2. \A i \in 1..Len(runs[e]) : RunSucceeded(e, i)'
  BY <1>1, SuccessStays DEF AllStepsRan
<1> QED BY <1>1, <1>2 DEF AllStepsRan

\* A success is stored when the runner has come back from every step.
LEMMA SucceededNext ==
  ASSUME DispatchInv, RowInv, SucceededMeansAllStepsRan, [Next]_vars
  PROVE  SucceededMeansAllStepsRan'
<1> SUFFICES ASSUME NEW e \in Execution, executions'[e].status = "succeeded"
             PROVE  AllStepsRan(e)'
  BY DEF SucceededMeansAllStepsRan
<1>1. CASE executions[e].status = "succeeded"
  BY <1>1, AllStepsStay
     DEF SucceededMeansAllStepsRan, DispatchInv, OutcomeFinished
<1>2. CASE SucceedExecution /\ e = cur
  <2>1. /\ pc = "check" /\ ~StepsLeft
        /\ UNCHANGED <<plan, runs, stepExecs>>
    BY <1>2 DEF SucceedExecution, history
  <2>2. /\ wf \in Workflow /\ idx \in Nat /\ plan[e] = snap[wf]
        /\ Len(runs[e]) = idx - 1 /\ idx > Len(snap[wf])
    BY <1>2, <2>1
       DEF DispatchInv, TypeInv, TypeOK, EngineShape, EngineTypeOK, Working,
           InLoop, LoopInv, StepsLeft
  <2>3. Len(snap[wf]) \in Nat /\ Len(runs[e]) <= Len(plan[e])
    BY <2>2 DEF DispatchInv, RunsFollowPlan, TypeInv, TypeOK, EngineTypeOK
  <2>4. Len(runs[e]) = Len(plan[e])
    BY <2>2, <2>3
  <2>5. \A i \in 1..Len(runs[e]) : RunSucceeded(e, i)
    BY <1>2, <2>1 DEF RowInv
  <2> QED BY <2>1, <2>4, <2>5 DEF AllStepsRan, RunSucceeded
<1> QED BY <1>1, <1>2, SuccessOrigin

\* Where a reader's picture of an execution comes from.
LEMMA ReadOrigin ==
  ASSUME TypeInv, [Next]_vars, NEW c \in Readers, reads'[c].status = "succeeded"
  PROVE  \/ reads'[c] = reads[c]
         \/ \E e \in Execution : /\ reads'[c].id = e /\ reads'[c].at = "steps"
                                 /\ executions[e].status = "succeeded"
         \/ /\ UNCHANGED <<executions, stepExecs, plan, runs>>
            /\ reads[c].at = "steps" /\ reads[c].status = "succeeded"
            /\ reads'[c].id = reads[c].id
            /\ reads'[c].rows = stepExecs[reads[c].id]
<1>0. reads \in [Readers -> Read]
  BY DEF TypeInv, TypeOK, ServiceTypeOK
<1>1. CASE UNCHANGED reads
  BY <1>1
<1>2. CASE DropRequests
  BY <1>2 DEF DropRequests, NoRead
<1>3. ASSUME NEW d \in Readers, NEW e \in Execution, GetRead(d, e)
      PROVE  \/ reads'[c] = reads[c]
             \/ /\ reads'[c].id = e /\ reads'[c].at = "steps"
                /\ executions[e].status = "succeeded"
  BY <1>0, <1>3 DEF GetRead
<1>4. ASSUME NEW d \in Readers, GetSteps(d),
             UNCHANGED <<executions, stepExecs, plan, runs>>
      PROVE  \/ reads'[c] = reads[c]
             \/ /\ UNCHANGED <<executions, stepExecs, plan, runs>>
                /\ reads[c].at = "steps" /\ reads[c].status = "succeeded"
                /\ reads'[c].id = reads[c].id
                /\ reads'[c].rows = stepExecs[reads[c].id]
  <2>1. CASE c # d
    BY <1>0, <1>4, <2>1 DEF GetSteps
  <2>2. CASE c = d
    <3>1. reads'[c] = NoRead \/
          reads'[c] = [reads[c] EXCEPT !.at = "reply",
                                       !.rows = stepExecs[reads[c].id]]
      BY <1>0, <1>4, <2>2 DEF GetSteps, ListByExecution
    <3>2. reads[c] \in Read /\ reads[c].at = "steps"
      BY <1>0, <1>4, <2>2 DEF GetSteps
    <3>3. reads'[c] = [reads[c] EXCEPT !.at = "reply",
                                       !.rows = stepExecs[reads[c].id]]
      BY <3>1 DEF NoRead
    <3>4. /\ reads'[c].status = reads[c].status /\ reads'[c].id = reads[c].id
          /\ reads'[c].rows = stepExecs[reads[c].id]
      BY <3>2, <3>3 DEF Read
    <3> QED BY <1>4, <3>2, <3>4
  <2> QED BY <2>1, <2>2
<1>5. ASSUME NEW d \in Readers, GetReply(d) PROVE reads'[c] = reads[c]
  BY <1>0, <1>5 DEF GetReply, NoRead
<1>6. CASE ExecutionRequest
  <2>1. UNCHANGED <<plan, runs>>
    BY <1>6 DEF ExecutionRequest, engineVars, history
  <2>2. ASSUME NEW d \in Readers, GetSteps(d)
        PROVE  UNCHANGED <<executions, stepExecs, plan, runs>>
    BY <2>1, <2>2 DEF GetSteps
  <2> QED
    BY <1>1, <1>3, <1>4, <1>5, <1>6, <2>2
       DEF ExecutionRequest, StartRequest, ContinueRequest, TriggerRead,
           TriggerInsert, TriggerRow, CancelRead, CancelWrite
<1> QED
  BY <1>1, <1>2, <1>6 DEF Next, vars, serviceVars, WorkflowRequest,
     EngineStep, Shutdown, Crash, Start

LEMMA ReadsNext ==
  ASSUME DispatchInv, RowInv, SucceededMeansAllStepsRan, ReadsInv, [Next]_vars
  PROVE  ReadsInv'
<1> SUFFICES ASSUME NEW c \in Readers, reads'[c].status = "succeeded"
             PROVE  /\ reads'[c].id \in Execution
                    /\ executions'[reads'[c].id].finished
                    /\ AllStepsRan(reads[c].id)'
  BY DEF ReadsInv
<1>1. PICK e \in Execution : /\ reads'[c].id = e
                             /\ executions[e].finished /\ AllStepsRan(e)
  BY ReadOrigin DEF ReadsInv, SucceededMeansAllStepsRan, DispatchInv,
                    OutcomeFinished
<1>2. executions'[e].finished /\ AllStepsRan(e)'
  BY <1>1, FinishedStays, AllStepsStay
<1> QED BY <1>1, <1>2 DEF AllStepsRan, RunSucceeded

LEMMA RepliesNext ==
  ASSUME DispatchInv, ReadsInv, RepliesConsistent, [Next]_vars
  PROVE  RepliesConsistent'
<1> SUFFICES ASSUME NEW c \in Readers, NEW e, e = reads'[c].id,
                    reads'[c].at = "reply", reads'[c].status = "succeeded"
             PROVE  /\ Len(runs'[e]) = Len(plan'[e])
                    /\ \A i \in 1..Len(plan'[e]) :
                         /\ runs'[e][i].row \in DOMAIN reads'[c].rows
                         /\ reads'[c].rows[runs'[e][i].row].step = plan'[e][i]
                         /\ reads'[c].rows[runs'[e][i].row].status = "succeeded"
  BY DEF RepliesConsistent
<1>1. CASE reads'[c] = reads[c]
  <2>1. e \in Execution /\ executions[e].finished
    BY <1>1 DEF ReadsInv
  <2>2. plan'[e] = plan[e] /\ runs'[e] = runs[e]
    BY <2>1, FinishedStays
  <2>3. /\ Len(runs[e]) = Len(plan[e])
        /\ \A i \in 1..Len(plan[e]) :
             /\ runs[e][i].row \in DOMAIN reads[c].rows
             /\ reads[c].rows[runs[e][i].row].step = plan[e][i]
             /\ reads[c].rows[runs[e][i].row].status = "succeeded"
    BY <1>1 DEF RepliesConsistent
  <2> QED BY <1>1, <2>2, <2>3
<1>2. CASE /\ UNCHANGED <<executions, stepExecs, plan, runs>>
           /\ reads[c].at = "steps" /\ reads[c].status = "succeeded"
           /\ reads'[c].id = reads[c].id
           /\ reads'[c].rows = stepExecs[reads[c].id]
  <2>1. e \in Execution /\ AllStepsRan(e)
    BY <1>2 DEF ReadsInv
  <2>2. \A i \in 1..Len(runs[e]) : runs[e][i].step = plan[e][i]
    BY <2>1 DEF DispatchInv, RunsFollowPlan
  <2>3. Len(runs[e]) = Len(plan[e])
    BY <2>1 DEF AllStepsRan
  <2>4. ASSUME NEW i \in 1..Len(plan[e])
        PROVE  /\ runs[e][i].row \in DOMAIN stepExecs[e]
               /\ stepExecs[e][runs[e][i].row].step = plan[e][i]
               /\ stepExecs[e][runs[e][i].row].status = "succeeded"
    <3>1. RunSucceeded(e, i) /\ runs[e][i].step = plan[e][i]
      BY <2>1, <2>2, <2>3 DEF AllStepsRan
    <3> QED BY <3>1 DEF RunSucceeded
  <2>5. /\ plan' = plan /\ runs' = runs
        /\ reads'[c].rows = stepExecs[e]
    BY <1>2
  <2> QED BY <2>3, <2>4, <2>5
<1> QED BY <1>1, <1>2, ReadOrigin DEF DispatchInv

LEMMA OutcomeNext == OutcomeInv /\ [Next]_vars => OutcomeInv'
BY DispatchNext, RowNext, SucceededNext, ReadsNext, RepliesNext DEF OutcomeInv

-----------------------------------------------------------------------------
(* The theorems                                                              *)

\* What is stored of outcomes and steps agrees with the calls of the runner.
THEOREM OutcomeInvariant == Spec => []OutcomeInv
BY OutcomeInit, OutcomeNext, PTL DEF Spec

\* The runner is called for a step only once the success of every earlier
\* step of the execution is stored (engine.go, processExecution).
THEOREM StepsInOrder == Spec => []SequentialSteps
<1>1. OutcomeInv => SequentialSteps
  BY DEF OutcomeInv
<1> QED BY OutcomeInvariant, <1>1, PTL

\* An execution stored as succeeded has run every step of its plan, each with
\* its success stored, whatever statements failed and processes died.
THEOREM SuccessIsEarned == Spec => []SucceededMeansAllStepsRan
<1>1. OutcomeInv => SucceededMeansAllStepsRan
  BY DEF OutcomeInv
<1> QED BY OutcomeInvariant, <1>1, PTL

\* A GetWithSteps reply of a succeeded execution holds the success of every
\* step, although its two reads are not one transaction
\* (execution_service.go, GetWithSteps).
THEOREM RepliesTellTheTruth == Spec => []RepliesConsistent
<1>1. OutcomeInv => RepliesConsistent
  BY DEF OutcomeInv
<1> QED BY OutcomeInvariant, <1>1, PTL

\* Step rows move only along the table of the domain, which nothing in the
\* engine consults (domain/status.go, stepExecutionTransitions).
THEOREM StepsMoveLegally == Spec => StepTransitions
<1>1. OutcomeInv /\ [Next]_vars =>
        [\A e \in Execution : \A r \in DOMAIN stepExecs[e] :
           /\ r \in DOMAIN stepExecs'[e]
           /\ stepExecs'[e][r].step = stepExecs[e][r].step
           /\ \/ stepExecs'[e][r].status = stepExecs[e][r].status
              \/ TransitionStepExecution(stepExecs[e][r].status,
                                         stepExecs'[e][r].status)]_vars
  <2> SUFFICES ASSUME DispatchInv, RowInv, [Next]_vars, NEW e \in Execution,
                      NEW r \in DOMAIN stepExecs[e]
               PROVE  /\ r \in DOMAIN stepExecs'[e]
                      /\ stepExecs'[e][r].step = stepExecs[e][r].step
                      /\ \/ stepExecs'[e][r].status = stepExecs[e][r].status
                         \/ TransitionStepExecution(stepExecs[e][r].status,
                                                    stepExecs'[e][r].status)
    BY DEF OutcomeInv
  <2>1. RowMoves(e, r)
    BY RowsMove
  <2>2. /\ TransitionStepExecution("pending", "running")
        /\ TransitionStepExecution("running", "succeeded")
        /\ TransitionStepExecution("running", "failed")
    BY DEF TransitionStepExecution, stepExecutionTransitions
  <2> QED BY <2>1, <2>2 DEF RowMoves
<1> QED BY OutcomeInvariant, <1>1, PTL DEF Spec, StepTransitions

=============================================================================
