------------------------- MODULE OrchestratorProofs -------------------------
(***************************************************************************)
(* Theorems of Orchestrator, for every number of workflows, executions,     *)
(* handlers, failed statements, shutdowns and kills.                        *)
(***************************************************************************)
EXTENDS Orchestrator, ServiceProofs, FiniteSetTheorems

-----------------------------------------------------------------------------
(* Types                                                                     *)

LEMMA EngineFrame ==
  ASSUME EngineTypeOK, EngineShape, UNCHANGED <<ctxDone, engineVars>>
  PROVE  EngineTypeOK' /\ EngineShape'
BY DEF EngineTypeOK, EngineShape, engineVars, locals, history, StepsLeft,
       InLoop, InStep, Working

LEMMA TypeInit == Init => TypeInv
<1> SUFFICES ASSUME Init PROVE TypeInv
  OBVIOUS
<1>1. StepsInv
  BY OrchestratorAssumption, MaxFaultsAssumption
     DEF Init, EditInit, StepsInv, EditTypeOK, WorkflowTypeOK, ActiveHasSteps,
         CopiesHaveSteps, NoEdit, NoWorkflow, Edit, WorkflowRow
<1>2. ExecutionTypeOK
  BY DEF Init, ExecutionTypeOK, NoExecution, ExecutionRow
<1>3. ServiceTypeOK
  BY DEF Init, ServiceInit, ServiceTypeOK, NoTrigger, NoRead, Trigger, Read
<1>4. EngineTypeOK
  <2>1. snap \in [Workflow -> Seq(StepNames)]
    BY DEF Init, EngineInit, NoSnap
  <2>2. /\ plan \in [Execution -> Seq(StepNames)]
        /\ runs \in [Execution -> Seq(Run)]
    BY DEF Init, EngineInit
  <2> QED BY <2>1, <2>2 DEF Init, EngineInit, EngineTypeOK, PC
<1>5. EngineShape
  BY DEF Init, EngineInit, EngineShape, Working, InLoop, InStep
<1>6. canceled \in [Execution -> SUBSET CancelMark]
  BY DEF Init
<1> QED
  BY <1>1, <1>2, <1>3, <1>4, <1>5, <1>6, OrchestratorAssumption
     DEF TypeInv, TypeOK, StepsInv, Init

LEMMA TypeWorkflowRequest ==
  ASSUME TypeInv, WorkflowRequest
  PROVE  TypeInv'
<1>1. StepsInv'
  BY StartEditStep, WriteBackStep DEF TypeInv, WorkflowRequest
<1>2. EngineTypeOK' /\ EngineShape'
  BY EngineFrame DEF TypeInv, TypeOK, WorkflowRequest
<1>3. ExecutionTypeOK' /\ ServiceTypeOK'
  BY DEF TypeInv, TypeOK, WorkflowRequest, ExecutionTypeOK, ServiceTypeOK,
         serviceVars
<1> QED
  BY <1>1, <1>2, <1>3
     DEF TypeInv, TypeOK, StepsInv, WorkflowRequest, processVars

-----------------------------------------------------------------------------
(* The moves of the engine's goroutine                                       *)

LEMMA ResetType ==
  ASSUME NEW p \in {"off", "idle"}, EngineTypeOK, ResetAt(p),
         ctxDone' \in BOOLEAN, UNCHANGED history
  PROVE  EngineTypeOK' /\ EngineShape'
<1>1. snap' \in [Workflow -> Seq(StepNames)]
  BY DEF ResetAt, NoSnap
<1>2. EngineTypeOK'
  BY <1>1 DEF ResetAt, EngineTypeOK, history, PC
<1>3. EngineShape'
  BY DEF ResetAt, EngineShape, Working, InLoop, InStep
<1> QED BY <1>2, <1>3

LEMMA ReturnType ==
  ASSUME EngineTypeOK, EngineShape, Return, UNCHANGED <<ctxDone, history>>
  PROVE  EngineTypeOK' /\ EngineShape'
<1>1. EngineTypeOK'
  BY DEF Return, EngineTypeOK, history, PC
<1>2. EngineShape'
  BY DEF Return, EngineShape, Working, InLoop, InStep
<1> QED BY <1>1, <1>2

LEMMA StepErrorType ==
  ASSUME EngineTypeOK, EngineShape, pc \in InStep, StepError,
         UNCHANGED <<ctxDone, history>>
  PROVE  EngineTypeOK' /\ EngineShape'
<1>1. EngineTypeOK'
  BY DEF StepError, EngineTypeOK, history, PC
<1>2. EngineShape'
  BY DEF StepError, EngineTypeOK, EngineShape, Working, InLoop, InStep
<1> QED BY <1>1, <1>2

LEMMA NextStepType ==
  ASSUME EngineTypeOK, EngineShape, pc \in InStep, NextStep,
         UNCHANGED <<ctxDone, history>>
  PROVE  EngineTypeOK' /\ EngineShape'
<1>1. EngineTypeOK'
  BY DEF NextStep, EngineTypeOK, history, PC
<1>2. EngineShape'
  BY DEF NextStep, EngineTypeOK, EngineShape, Working, InLoop, InStep
<1> QED BY <1>1, <1>2

\* A move inside processExecution, not back before the loop over the steps.
LEMMA GotoType ==
  ASSUME EngineTypeOK, EngineShape, pc \in Working,
         NEW p \in {"record", "create", "execute", "skipCanceled"}, Goto(p),
         p # "record" => pc \in InLoop,
         p \in InStep => StepsLeft,
         UNCHANGED <<ctxDone, history>>
  PROVE  EngineTypeOK' /\ EngineShape'
<1>1. EngineTypeOK'
  BY DEF Goto, locals, EngineTypeOK, history, PC
<1>2. EngineShape'
  BY DEF Goto, locals, EngineShape, Working, InLoop, InStep, StepsLeft
<1> QED BY <1>1, <1>2

-----------------------------------------------------------------------------
(* Types, the engine                                                         *)

\* What an action of the engine keeps, in the lemmas that follow.
EngineTypes ==
  faults \in 0..MaxFaults /\ ExecutionTypeOK /\ EngineTypeOK /\ EngineShape

LEMMA TypePoll ==
  ASSUME EngineTypes, workflows \in [Workflow -> WorkflowRow],
         \/ PollStop \/ PollTick \/ EndPoll
         \/ \E w \in wfs : ListExecutions(w)
         \/ \E e \in exs : StartExecution(e)
  PROVE  EngineTypes'
<1> USE DEF EngineTypes
<1>1. CASE PollStop
  BY <1>1, ResetType DEF PollStop, ExecutionTypeOK, EngineTypeOK, EngineTypes
<1>2. CASE PollTick
  <2>1. faults' \in 0..MaxFaults /\ ExecutionTypeOK'
    BY <1>2, QueryFaults DEF PollTick, ExecutionTypeOK
  <2>2. CASE UNCHANGED <<pc, wfs, snap>>
    BY <1>2, <2>1, <2>2, EngineFrame DEF PollTick, engineVars, locals
  <2>3. CASE /\ pc' = "next"
             /\ wfs' = WorkflowList
             /\ snap' = [w \in Workflow |-> workflows[w].steps]
    <3>1. wfs' \subseteq Workflow /\ snap' \in [Workflow -> Seq(StepNames)]
      BY <2>3 DEF WorkflowList, Newest, WorkflowRow
    <3>2. EngineTypeOK'
      BY <1>2, <2>3, <3>1 DEF PollTick, EngineTypeOK, history, PC
    <3>3. EngineShape'
      BY <1>2, <2>3 DEF PollTick, EngineShape, Working, InLoop, InStep
    <3> QED BY <2>1, <3>2, <3>3
  <2> QED BY <1>2, <2>2, <2>3 DEF PollTick
<1>3. CASE EndPoll
  BY <1>3, ResetType DEF EndPoll, ExecutionTypeOK, EngineTypeOK, EngineTypes
<1>4. ASSUME NEW w \in wfs, ListExecutions(w) PROVE EngineTypes'
  <2>1. faults' \in 0..MaxFaults /\ ExecutionTypeOK'
    BY <1>4, QueryFaults DEF ListExecutions, ListWith, ExecutionTypeOK
  <2>2. w \in Workflow /\ exs' \subseteq Execution
    BY <1>4 DEF ListExecutions, ListWith, ExecutionList, Newest, ExecutionsOf,
                EngineTypeOK
  <2>3. EngineTypeOK'
    BY <1>4, <2>2 DEF ListExecutions, ListWith, EngineTypeOK, history
  <2>4. EngineShape'
    BY <1>4, <2>2 DEF ListExecutions, ListWith, EngineShape, Working, InLoop,
                      InStep
  <2> QED BY <2>1, <2>3, <2>4
<1>5. ASSUME NEW e \in exs, StartExecution(e) PROVE EngineTypes'
  <2>1. e \in Execution /\ wf \in Workflow
    BY DEF EngineTypeOK, EngineShape
  <2>2. EngineTypeOK'
    BY <1>5, <2>1 DEF StartExecution, EngineTypeOK, history, PC
  <2>3. EngineShape'
    BY <1>5, <2>1 DEF StartExecution, EngineShape, Working, InLoop, InStep
  <2> QED BY <1>5, <2>2, <2>3 DEF StartExecution, ExecutionTypeOK
<1> QED BY <1>1, <1>2, <1>3, <1>4, <1>5

LEMMA TypeExecution ==
  ASSUME EngineTypes,
         \/ ClaimExecution \/ RecordRunning \/ ContextDone
         \/ CheckExecution \/ SucceedExecution
         \/ ReturnCanceled \/ FailExecution
  PROVE  EngineTypes'
<1> USE DEF EngineTypes
<1>1. CASE ClaimExecution
  <2>1. faults' \in 0..MaxFaults
    BY <1>1, StatementFaults DEF ClaimExecution
  <2>2. ExecutionTypeOK'
    BY <1>1, ExecutionUpdateStatusType
       DEF ClaimExecution, ExecutionTypeOK, ExecutionStatus
  <2>3. EngineTypeOK' /\ EngineShape'
    BY <1>1, GotoType, ReturnType DEF ClaimExecution, Working, InStep
  <2> QED BY <2>1, <2>2, <2>3
<1>2. CASE RecordRunning
  <2>1. faults' \in 0..MaxFaults
    BY <1>2, StatementFaults DEF RecordRunning
  <2>2. ExecutionTypeOK'
    BY <1>2, ExecutionUpdateType
       DEF RecordRunning, ExecutionTypeOK, ExecutionStatus
  <2>3. cur \in Execution \ exs /\ wf \in Workflow
    BY <1>2 DEF RecordRunning, EngineShape, Working
  <2>4. CASE /\ pc' = "check"
             /\ idx' = 1
             /\ plan' = [plan EXCEPT ![cur] = snap[wf]]
             /\ UNCHANGED <<wfs, snap, exs, wf, cur, row, result>>
    <3>1. EngineTypeOK'
      BY <1>2, <2>3, <2>4 DEF RecordRunning, EngineTypeOK, PC
    <3>2. EngineShape'
      BY <2>3, <2>4 DEF EngineShape, Working, InLoop, InStep
    <3> QED BY <2>1, <2>2, <3>1, <3>2
  <2>5. CASE Return /\ UNCHANGED plan
    BY <1>2, <2>1, <2>2, <2>5, ReturnType DEF RecordRunning, history
  <2> QED BY <1>2, <2>4, <2>5 DEF RecordRunning
<1>3. CASE ContextDone
  <2>1. faults' \in 0..MaxFaults
    BY <1>3, StatementFaults DEF ContextDone
  <2>2. ExecutionTypeOK'
    BY <1>3, ExecutionUpdateStatusType
       DEF ContextDone, ExecutionTypeOK, ExecutionStatus
  <2> QED BY <1>3, <2>1, <2>2, ReturnType DEF ContextDone
<1>4. CASE CheckExecution
  <2>1. faults' \in 0..MaxFaults /\ ExecutionTypeOK'
    BY <1>4, QueryFaults DEF CheckExecution, ExecutionTypeOK
  <2>2. EngineTypeOK' /\ EngineShape'
    <3>1. Return \/ Goto("skipCanceled") \/ Goto("create")
      BY <1>4 DEF CheckExecution
    <3>2. pc \in InLoop /\ pc \in Working /\ StepsLeft
      BY <1>4 DEF CheckExecution, InLoop, Working
    <3> QED
      BY <1>4, <3>1, <3>2, ReturnType, GotoType DEF CheckExecution, InStep
  <2> QED BY <2>1, <2>2
<1>5. CASE SucceedExecution
  <2>1. faults' \in 0..MaxFaults
    BY <1>5, StatementFaults DEF SucceedExecution
  <2>2. ExecutionTypeOK'
    BY <1>5, ExecutionUpdateType
       DEF SucceedExecution, ExecutionTypeOK, ExecutionStatus
  <2> QED BY <1>5, <2>1, <2>2, ReturnType DEF SucceedExecution
<1>6. CASE ReturnCanceled
  BY <1>6, ReturnType DEF ReturnCanceled, ExecutionTypeOK
<1>7. CASE FailExecution
  <2>1. faults' \in 0..MaxFaults
    BY <1>7, StatementFaults DEF FailExecution
  <2>2. ExecutionTypeOK'
    BY <1>7, ExecutionUpdateType
       DEF FailExecution, ExecutionTypeOK, ExecutionStatus
  <2> QED BY <1>7, <2>1, <2>2, ReturnType DEF FailExecution
<1> QED BY <1>1, <1>2, <1>3, <1>4, <1>5, <1>6, <1>7

\* The step the engine stands at.
LEMMA CurrentStep ==
  ASSUME EngineTypeOK, EngineShape, pc \in InLoop, StepsLeft
  PROVE  /\ cur \in Execution \ exs
         /\ wf \in Workflow
         /\ idx \in 1..Len(snap[wf])
         /\ snap[wf][idx] \in StepNames
BY DEF EngineTypeOK, EngineShape, Working, StepsLeft

LEMMA TypeStep ==
  ASSUME EngineTypes,
         \/ CreateStep \/ StartStep \/ ExecuteStep \/ RunnerReturn
         \/ FailStep \/ SucceedStep \/ SkipStep
  PROVE  EngineTypes'
<1> USE DEF EngineTypes
<1>1. CASE CreateStep
  <2>1. /\ cur \in Execution \ exs
        /\ wf \in Workflow
        /\ snap[wf][idx] \in StepNames
        /\ pc \in InStep /\ StepsLeft
    BY <1>1, CurrentStep DEF CreateStep, EngineShape, InLoop, InStep
  <2>2. faults' \in 0..MaxFaults
    BY <1>1, StatementFaults DEF CreateStep
  <2>3. ExecutionTypeOK'
    BY <1>1, <2>1, StepCreateType
       DEF CreateStep, ExecutionTypeOK, StepExecutionStatus
  <2>4. CASE /\ pc' = "start"
             /\ row' = Len(stepExecs'[cur])
             /\ UNCHANGED <<wfs, snap, exs, wf, cur, idx, result>>
    <3>1. row' \in Nat
      BY <2>1, <2>3, <2>4 DEF ExecutionTypeOK
    <3>2. EngineTypeOK'
      BY <1>1, <2>4, <3>1 DEF CreateStep, EngineTypeOK, history, PC
    <3>3. EngineShape'
      BY <2>1, <2>4 DEF EngineShape, Working, InLoop, InStep, StepsLeft
    <3> QED BY <2>2, <2>3, <3>2, <3>3
  <2>5. CASE StepError
    BY <1>1, <2>1, <2>2, <2>3, <2>5, StepErrorType DEF CreateStep
  <2> QED BY <1>1, <2>4, <2>5 DEF CreateStep
<1>2. CASE StartStep
  <2>1. faults' \in 0..MaxFaults
    BY <1>2, StatementFaults DEF StartStep
  <2>2. ExecutionTypeOK'
    BY <1>2, StepUpdateStatusType
       DEF StartStep, ExecutionTypeOK, StepExecutionStatus, ExitCode
  <2>3. EngineTypeOK' /\ EngineShape'
    <3>1. Goto("execute") \/ StepError
      BY <1>2 DEF StartStep
    <3>2. pc \in InStep /\ pc \in InLoop /\ pc \in Working /\ StepsLeft
      BY <1>2 DEF StartStep, EngineShape, InStep, InLoop, Working
    <3> QED BY <1>2, <3>1, <3>2, GotoType, StepErrorType DEF StartStep
  <2> QED BY <2>1, <2>2, <2>3
<1>3. CASE ExecuteStep
  <2>1. cur \in Execution /\ snap[wf][idx] \in StepNames
    BY <1>3, CurrentStep DEF ExecuteStep, EngineShape, InLoop, InStep
  <2> DEFINE r == [step |-> snap[wf][idx], row |-> row]
  <2>2. r \in Run
    BY <2>1 DEF Run, EngineTypeOK
  <2>3. runs' \in [Execution -> Seq(Run)]
    <3>1. runs' = [runs EXCEPT ![cur] = Append(runs[cur], r)]
      BY <1>3 DEF ExecuteStep
    <3> HIDE DEF r
    <3>2. Append(runs[cur], r) \in Seq(Run)
      BY <2>1, <2>2 DEF EngineTypeOK
    <3> QED BY <3>1, <3>2 DEF EngineTypeOK
  <2>5. EngineTypeOK'
    BY <1>3, <2>3 DEF ExecuteStep, Goto, locals, EngineTypeOK, PC
  <2>6. EngineShape'
    BY <1>3 DEF ExecuteStep, Goto, locals, EngineShape, Working, InLoop, InStep,
                StepsLeft
  <2> QED BY <1>3, <2>5, <2>6 DEF ExecuteStep, ExecutionTypeOK
<1>4. CASE RunnerReturn
  <2>1. EngineTypeOK'
    BY <1>4 DEF RunnerReturn, EngineTypeOK, history, PC
  <2>2. EngineShape'
    BY <1>4 DEF RunnerReturn, EngineShape, Working, InLoop, InStep, StepsLeft
  <2> QED BY <1>4, <2>1, <2>2 DEF RunnerReturn, ExecutionTypeOK
<1>5. CASE FailStep
  <2>1. faults' \in 0..MaxFaults
    BY <1>5, StatementFaults DEF FailStep
  <2>2. ExecutionTypeOK'
    BY <1>5, StepUpdateStatusType
       DEF FailStep, ExecutionTypeOK, StepExecutionStatus, ExitCode
  <2> QED BY <1>5, <2>1, <2>2, StepErrorType DEF FailStep, InStep
<1>6. CASE SucceedStep
  <2>1. faults' \in 0..MaxFaults
    BY <1>6, StatementFaults DEF SucceedStep
  <2>2. ExecutionTypeOK'
    BY <1>6, StepUpdateStatusType
       DEF SucceedStep, ExecutionTypeOK, StepExecutionStatus, ExitCode
  <2> QED
    BY <1>6, <2>1, <2>2, StepErrorType, NextStepType DEF SucceedStep, InStep
<1>7. CASE SkipStep
  <2>1. snap[wf][idx] \in StepNames
    BY <1>7, CurrentStep DEF SkipStep, InLoop
  <2>2. faults' \in 0..MaxFaults
    BY <1>7, StatementFaults DEF SkipStep
  <2>3. ExecutionTypeOK'
    BY <1>7, <2>1, StepCreateType
       DEF SkipStep, ExecutionTypeOK, StepExecutionStatus
  <2>4. EngineTypeOK'
    BY <1>7 DEF SkipStep, EngineTypeOK, history
  <2>5. EngineShape'
    BY <1>7 DEF SkipStep, EngineTypeOK, EngineShape, Working, InLoop, InStep
  <2> QED BY <2>2, <2>3, <2>4, <2>5
<1> QED BY <1>1, <1>2, <1>3, <1>4, <1>5, <1>6, <1>7

-----------------------------------------------------------------------------
(* Type correctness                                                          *)

LEMMA TypeEngineStep ==
  ASSUME TypeInv, EngineStep
  PROVE  TypeInv'
<1>1. EngineTypes /\ workflows \in [Workflow -> WorkflowRow]
  BY DEF TypeInv, TypeOK, EditTypeOK, WorkflowTypeOK, EngineTypes
<1>2. EngineTypes'
  BY <1>1, TypePoll, TypeExecution, TypeStep DEF EngineStep, EngineNext
<1>3. UNCHANGED workflows
  BY DEF EngineStep, EngineNext, PollStop, PollTick, EndPoll, ListExecutions,
         ListWith, StartExecution, ClaimExecution, RecordRunning, ContextDone,
         CheckExecution, SucceedExecution, CreateStep, StartStep, ExecuteStep,
         RunnerReturn, FailStep, SucceedStep, SkipStep, ReturnCanceled,
         FailExecution
<1>4. StepsInv' /\ EditTypeOK'
  BY <1>2, <1>3, WorkflowFrame DEF TypeInv, EngineStep, EngineTypes
<1>5. ServiceTypeOK'
  BY DEF TypeInv, TypeOK, EngineStep, serviceVars, ServiceTypeOK
<1> QED
  BY <1>2, <1>4, <1>5
     DEF TypeInv, TypeOK, EngineTypes, EngineStep, processVars

LEMMA TypeCancels ==
  ASSUME TypeInv, RecordCancels
  PROVE  canceled' \in [Execution -> SUBSET CancelMark]
<1> DEFINE mark(e) == [at |-> Standing(e), calls |-> Len(runs[e])]
<1>1. ASSUME NEW e \in Execution PROVE mark(e) \in CancelMark
  <2>1. Len(runs[e]) \in Nat
    BY DEF TypeInv, TypeOK, EngineTypeOK
  <2>2. Standing(e) \in {"queued", "loop", "idle"}
    BY DEF Standing
  <2> QED BY <2>1, <2>2 DEF CancelMark
<1>2. canceled \in [Execution -> SUBSET CancelMark]
  BY DEF TypeInv, TypeOK
<1>3. canceled' = [e \in Execution |->
                     canceled[e] \cup {m \in {mark(e)} : CancelStored(e)}]
  BY DEF RecordCancels
<1> HIDE DEF mark
<1> QED BY <1>1, <1>2, <1>3

LEMMA TypeExecutionRequest ==
  ASSUME TypeInv, ExecutionRequest
  PROVE  TypeInv'
<1>1. faults' \in 0..MaxFaults /\ ExecutionTypeOK' /\ ServiceTypeOK'
  BY TypeService DEF ExecutionRequest, TypeInv, TypeOK, EditTypeOK
<1>2. StepsInv' /\ EditTypeOK'
  BY <1>1, WorkflowFrame DEF TypeInv, ExecutionRequest
<1>3. EngineTypeOK' /\ EngineShape'
  BY EngineFrame DEF TypeInv, TypeOK, ExecutionRequest
<1>4. canceled' \in [Execution -> SUBSET CancelMark]
  BY TypeCancels DEF ExecutionRequest
<1> QED
  BY <1>1, <1>2, <1>3, <1>4 DEF TypeInv, TypeOK, ExecutionRequest, processVars

\* Handlers that are dropped leave empty requests behind.
LEMMA DropType ==
  ASSUME TypeInv, DropRequests, UNCHANGED <<faults, tables>>
  PROVE  StepsInv' /\ ExecutionTypeOK' /\ ServiceTypeOK'
<1>1. NoEdit \in Edit
  BY DEF NoEdit, NoWorkflow, Edit, WorkflowRow
<1>2. StepsInv'
  BY <1>1 DEF TypeInv, StepsInv, EditTypeOK, WorkflowTypeOK, ActiveHasSteps,
              CopiesHaveSteps, DropRequests, tables, NoEdit, NoWorkflow
<1>3. ServiceTypeOK'
  BY RecordTypes DEF DropRequests, ServiceTypeOK, NoRead
<1> QED BY <1>2, <1>3 DEF TypeInv, TypeOK, tables, ExecutionTypeOK

LEMMA TypeProcess ==
  ASSUME TypeInv, Shutdown \/ Crash \/ Start
  PROVE  TypeInv'
<1> USE DEF TypeInv, TypeOK
<1>0. canceled' \in [Execution -> SUBSET CancelMark]
  BY DEF Shutdown, Crash, Start
<1>1. CASE Shutdown
  <2>1. StepsInv' /\ EditTypeOK'
    BY <1>1, WorkflowFrame DEF Shutdown, tables, EditTypeOK, WorkflowTypeOK
  <2>2. ExecutionTypeOK' /\ ServiceTypeOK'
    BY <1>1 DEF Shutdown, tables, serviceVars, ExecutionTypeOK, ServiceTypeOK
  <2>3. EngineTypeOK' /\ EngineShape'
    BY <1>1 DEF Shutdown, engineVars, locals, history, EngineTypeOK,
                EngineShape, StepsLeft, Working, InLoop, InStep
  <2>4. shutdowns' \in 0..MaxShutdowns /\ crashes' \in 0..MaxCrashes
    BY <1>1, OrchestratorAssumption DEF Shutdown
  <2> QED BY <1>0, <2>1, <2>2, <2>3, <2>4
<1>2. CASE Crash
  <2>1. StepsInv' /\ ExecutionTypeOK' /\ ServiceTypeOK'
    BY <1>2, DropType DEF Crash
  <2>2. EngineTypeOK' /\ EngineShape'
    BY <1>2, ResetType DEF Crash
  <2>3. shutdowns' \in 0..MaxShutdowns /\ crashes' \in 0..MaxCrashes
    BY <1>2, OrchestratorAssumption DEF Crash
  <2> QED BY <1>0, <2>1, <2>2, <2>3 DEF StepsInv
<1>3. CASE Start
  <2>1. StepsInv' /\ ExecutionTypeOK' /\ ServiceTypeOK'
    BY <1>3, DropType DEF Start
  <2>2. EngineTypeOK' /\ EngineShape'
    BY <1>3, ResetType DEF Start
  <2> QED BY <1>0, <1>3, <2>1, <2>2 DEF StepsInv, Start, processVars
<1> QED BY <1>1, <1>2, <1>3

LEMMA TypeStutter ==
  ASSUME TypeInv, UNCHANGED vars
  PROVE  TypeInv'
<1>1. StepsInv' /\ EditTypeOK'
  BY WorkflowFrame DEF TypeInv, vars, tables, StepsInv, EditTypeOK, WorkflowTypeOK
<1>2. EngineTypeOK' /\ EngineShape'
  BY EngineFrame DEF TypeInv, TypeOK, vars
<1> QED
  BY <1>1, <1>2 DEF TypeInv, TypeOK, vars, tables, processVars, serviceVars,
                    ExecutionTypeOK, ServiceTypeOK

LEMMA TypeNext == TypeInv /\ [Next]_vars => TypeInv'
BY TypeWorkflowRequest, TypeExecutionRequest, TypeEngineStep, TypeProcess,
   TypeStutter DEF Next

\* Tables, requests and the engine's locals keep their shape, whatever fails.
THEOREM TypeCorrect == Spec => []TypeOK
<1>1. TypeInv => TypeOK
  BY DEF TypeInv
<1> QED BY TypeInit, TypeNext, <1>1, PTL DEF Spec

-----------------------------------------------------------------------------
(* The workflow service inside the process                                   *)

\* No race of handlers, and no failed statement, shutdown, kill or restart
\* leaves an active workflow without steps: Trigger, which reads active ones
\* only, never finds an empty list.  A workflow that is not active may have
\* none, and the engine lists those too (workflow_service.go, Activate).
THEOREM ActiveWorkflowsKeepSteps == Spec => []ActiveHasSteps
<1>1. TypeInv => ActiveHasSteps
  BY DEF TypeInv, StepsInv
<1> QED BY TypeInit, TypeNext, <1>1, PTL DEF Spec

LEMMA ProcessLegalInit == Init => LegalInv
BY TypeInit DEF Init, TypeInv, StepsInv, LegalInv, EditInit, CopiesLegal,
                LegalChange, NoEdit, NoWorkflow

\* Nothing but a handler of the workflow service touches its table, and a
\* restart drops the copies.
LEMMA OthersLeaveWorkflows ==
  ASSUME [Next]_vars
  PROVE  \/ [WorkflowServiceNext]_editVars
         \/ UNCHANGED workflows /\ (UNCHANGED edit \/ DropRequests)
BY DEF Next, vars, tables, WorkflowRequest, WorkflowServiceNext,
       ExecutionRequest, EngineStep, Shutdown, Crash, Start, EngineNext,
       PollStop, PollTick, EndPoll, ListExecutions, ListWith, StartExecution,
       ClaimExecution, RecordRunning, ContextDone, CheckExecution,
       SucceedExecution, CreateStep, StartStep, ExecuteStep, RunnerReturn,
       FailStep, SucceedStep, SkipStep, ReturnCanceled, FailExecution

LEMMA ProcessLegalNext ==
  ASSUME TypeInv, LegalInv, [Next]_vars
  PROVE  LegalInv'
<1>1. EditTypeOK'
  BY TypeNext DEF TypeInv, TypeOK
<1>2. CASE [WorkflowServiceNext]_editVars
  BY <1>2, LegalStep
<1>3. CASE UNCHANGED edit
  BY <1>1, <1>3 DEF LegalInv, CopiesLegal
<1>4. CASE DropRequests
  BY <1>1, <1>4 DEF DropRequests, LegalInv, CopiesLegal, LegalChange, NoEdit,
                    NoWorkflow
<1> QED BY <1>2, <1>3, <1>4, OthersLeaveWorkflows

\* In the whole process too, a handler whose copy is not stale changes a
\* workflow only as the domain allows.
THEOREM ProcessKeepsWorkflowsLegal == Spec => FreshWritesLegal
<1> DEFINE Inv == TypeInv /\ LegalInv
<1>1. Init => Inv
  BY TypeInit, ProcessLegalInit
<1>2. Inv /\ [Next]_vars => Inv'
  BY TypeNext, ProcessLegalNext
<1>3. Inv /\ [Next]_vars =>
        [\A w \in Workflow :
           WorkflowExists(w) /\ workflows'[w] # workflows[w] =>
             \E c \in Editors :
               /\ edit[c].id = w /\ edit'[c] = NoEdit
               /\ \/ edit[c].seen # workflows[w]
                  \/ LegalChange(workflows[w], workflows'[w])]_editVars
  BY OthersLeaveWorkflows, ChangedByWriteBack DEF LegalInv, CopiesLegal
<1> HIDE DEF Inv
<1> QED BY <1>1, <1>2, <1>3, PTL DEF Spec, FreshWritesLegal

-----------------------------------------------------------------------------
(* The limit of a list                                                       *)

\* ORDER BY ... LIMIT n drops nothing from a table of at most n rows.
LEMMA NewestIsAll ==
  ASSUME NEW S \in SUBSET Nat, IsFiniteSet(S), NEW n \in Nat,
         Cardinality(S) <= n
  PROVE  Newest(S, n) = S
<1> SUFFICES ASSUME NEW x \in S
             PROVE  Cardinality({y \in S : y > x}) < n
  BY DEF Newest
<1> DEFINE Later == {y \in S : y > x}
<1>1. IsFiniteSet(S \ {x}) /\ Cardinality(S \ {x}) = Cardinality(S) - 1
  BY FS_RemoveElement
<1>2. Later \in SUBSET (S \ {x})
  OBVIOUS
<1>3. IsFiniteSet(Later) /\ Cardinality(Later) <= Cardinality(S \ {x})
  BY <1>1, <1>2, FS_Subset
<1>4. Cardinality(Later) \in Nat /\ Cardinality(S) \in Nat
  BY <1>3, FS_CardinalityType
<1> QED BY <1>1, <1>3, <1>4

\* What the engine lists is one workflow's, and it is taken in whole where the
\* limit covers it.
LEMMA ListWithinLimit ==
  ASSUME TypeInv, NEW w \in wfs, ListExecutions(w), faults' = faults, ~ctxDone,
         Cardinality(ExecutionsOf(w)) <= ExecutionListLimit
  PROVE  exs' = {e \in ExecutionsOf(w) : executions[e].status = "pending"}
<1>1. /\ ExecutionsOf(w) \in SUBSET (1..MaxExecutions)
      /\ ExecutionsOf(w) \in SUBSET Nat
      /\ MaxExecutions \in Int /\ ExecutionListLimit \in Nat
  BY ExecutionRepoAssumption DEF ExecutionsOf, Execution
<1>2. IsFiniteSet(1..MaxExecutions)
  BY <1>1, FS_Interval
<1>3. IsFiniteSet(ExecutionsOf(w))
  BY <1>1, <1>2, FS_Subset
<1>4. ExecutionList(w) = ExecutionsOf(w)
  BY <1>1, <1>3, NewestIsAll DEF ExecutionList
<1>5. faults \in Nat
  BY MaxFaultsAssumption DEF TypeInv, TypeOK, EditTypeOK, WorkflowTypeOK
<1> QED
  BY <1>4, <1>5 DEF ListExecutions, ListWith, Query, Statement, Outcomes

\* While a workflow has no more executions than its list may hold, every
\* answered list takes in all of its pending ones: only rows beyond the limit
\* can be passed over again and again (engine.go, ListByWorkflow in poll).
THEOREM NothingHiddenWithinTheLimit ==
  Spec => [][\A w \in wfs :
               /\ ListExecutions(w) /\ faults' = faults /\ ~ctxDone
               /\ Cardinality(ExecutionsOf(w)) <= ExecutionListLimit
               => exs' = {e \in ExecutionsOf(w) :
                            executions[e].status = "pending"}]_vars
<1>1. TypeInv =>
        [\A w \in wfs :
           /\ ListExecutions(w) /\ faults' = faults /\ ~ctxDone
           /\ Cardinality(ExecutionsOf(w)) <= ExecutionListLimit
           => exs' = {e \in ExecutionsOf(w) :
                        executions[e].status = "pending"}]_vars
  BY ListWithinLimit
<1> QED BY TypeInit, TypeNext, <1>1, PTL DEF Spec

=============================================================================
