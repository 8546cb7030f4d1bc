--------------------------- MODULE LifecycleProofs ---------------------------
(***************************************************************************)
(* What becomes of the stored status of an execution: the engine lets go of *)
(* one stored as running only where a statement fails or the process ends;  *)
(* its changes follow executionTransitions unless a Cancel races; and       *)
(* without Cancel the system implements ExecutionLifecycle.  The engine     *)
(* consults no transition table: it reads and writes in an order that keeps *)
(* to it.                                                                   *)
(***************************************************************************)
EXTENDS OutcomeProofs

-----------------------------------------------------------------------------
(* Who leaves an execution running                                           *)

LEMMA OwnerInit == Init => OwnerInv
BY TypeInit DEF Init, EngineInit, OwnerInv

\* The loop goes on skipping only while the cancellation is stored.
LEMMA SkipCanceledStays ==
  ASSUME OwnerInv, [Next]_vars, pc' = "skipCanceled"
  PROVE  executions'[cur'].status = "canceled"
<1>1. CASE EngineNext
  BY <1>1
     DEF EngineNext, PollStop, PollTick, EndPoll, ListExecutions, ListWith,
         StartExecution, ClaimExecution, RecordRunning, ContextDone,
         CheckExecution, SucceedExecution, CreateStep, StartStep, ExecuteStep,
         RunnerReturn, FailStep, SucceedStep, SkipStep, ReturnCanceled,
         FailExecution, ResetAt, Return, StepError, NextStep, Goto, locals,
         OwnerInv
<1>2. CASE UNCHANGED <<executions, engineVars>>
  BY <1>2 DEF OwnerInv, engineVars, locals
<1>3. CASE ExecutionRequest
  <2>1. UNCHANGED <<pc, cur>>
    BY <1>3 DEF ExecutionRequest, engineVars, locals
  <2>2. cur \in Execution /\ executions[cur].status = "canceled"
    BY <2>1 DEF OwnerInv, TypeInv, EngineShape, Working, InLoop
  <2> QED BY <1>3, <2>1, <2>2, RequestWrites DEF OwnerInv
<1> QED
  BY <1>1, <1>2, <1>3 DEF Next, vars, tables, WorkflowRequest, EngineStep,
     Shutdown, Crash, Start, ResetAt

LEMMA OwnerNext == OwnerInv /\ [Next]_vars => OwnerInv'
BY TypeNext, SkipCanceledStays DEF OwnerInv

\* A statement that does not succeed is one that failed or was not sent.
LEMMA NotSucceeded ==
  ASSUME TypeInv, NEW out, out # "ok",
         Statement(out, ctxDone) \/ Query(out, ctxDone)
  PROVE  faults' > faults \/ ctxDone
<1>1. faults \in Nat
  BY MaxFaultsAssumption DEF TypeInv, TypeOK, EditTypeOK, WorkflowTypeOK
<1> QED BY <1>1 DEF Statement, Query

\* The engine lets go of what is stored as running only where its statement
\* did not succeed.
LEMMA LetGo ==
  ASSUME OwnerInv, EngineNext, cur \in Execution, cur' # cur,
         executions'[cur].status = "running"
  PROVE  faults' > faults \/ ctxDone
<1>0. TypeInv /\ pc \in Working
  BY DEF OwnerInv, TypeInv, EngineShape, Execution
<1>1. CASE ClaimExecution
  <2>1. PICK out : Statement(out, ctxDone) /\ (out = "ok" => Goto("record"))
    BY <1>1 DEF ClaimExecution
  <2>2. out # "ok"
    BY <2>1 DEF Goto, locals
  <2> QED BY <1>0, <2>1, <2>2, NotSucceeded
<1>2. CASE RecordRunning
  <2>1. PICK out : Statement(out, ctxDone) /\ (out = "ok" => cur' = cur)
    BY <1>2 DEF RecordRunning
  <2> QED BY <1>0, <2>1, NotSucceeded
<1>3. CASE CheckExecution
  <2>1. PICK out : /\ Query(out, ctxDone)
                   /\ out = "ok" => Goto("skipCanceled") \/ Goto("create")
    BY <1>3 DEF CheckExecution
  <2>2. out # "ok"
    BY <2>1 DEF Goto, locals
  <2> QED BY <1>0, <2>1, <2>2, NotSucceeded
<1>4. CASE ContextDone
  BY <1>4 DEF ContextDone
<1>5. CASE ReturnCanceled
  BY <1>5 DEF ReturnCanceled, OwnerInv
<1>6. CASE SucceedExecution \/ FailExecution
  <2>1. ASSUME NEW out, NEW s \in {"succeeded", "failed"},
               Statement(out, ctxDone), ExecutionUpdate(out, cur, s, TRUE)
        PROVE  faults' > faults \/ ctxDone
    <3>1. executions'[cur].status = IF Applied(out) THEN s
                                    ELSE executions[cur].status
      BY <1>0, <2>1, CurUpdate
    <3>2. out # "ok"
      BY <2>1, <3>1 DEF Applied
    <3> QED BY <1>0, <2>1, <3>2, NotSucceeded
  <2> QED BY <1>6, <2>1 DEF SucceedExecution, FailExecution
<1>7. CASE \/ PollStop \/ PollTick \/ EndPoll
           \/ \E w \in wfs : ListExecutions(w)
           \/ \E e \in exs : StartExecution(e)
  BY <1>0, <1>7 DEF PollStop, PollTick, EndPoll, ListExecutions, ListWith,
     StartExecution, Working, InLoop, InStep
<1>8. CASE \/ CreateStep \/ StartStep \/ ExecuteStep \/ RunnerReturn
           \/ FailStep \/ SucceedStep \/ SkipStep
  BY <1>8 DEF CreateStep, StartStep, ExecuteStep, RunnerReturn, FailStep,
     SucceedStep, SkipStep, StepError, NextStep, Goto, locals
<1> QED
  BY <1>1, <1>2, <1>3, <1>4, <1>5, <1>6, <1>7, <1>8 DEF EngineNext

LEMMA AbandonedStep ==
  ASSUME OwnerInv, [Next]_vars, NEW e \in Execution,
         Abandoned(e)', ~Abandoned(e)
  PROVE  faults' > faults \/ ctxDone \/ crashes' > crashes
<1>0. /\ TypeInv /\ crashes \in Nat
      /\ executions'[e].status = "running" /\ e # cur'
      /\ executions[e].status = "running" => e = cur
  BY OrchestratorAssumption DEF OwnerInv, TypeInv, TypeOK, Abandoned
<1>1. CASE EngineNext
  <2>1. CASE e = cur
    BY <1>0, <1>1, <2>1, LetGo
  <2>2. CASE e # cur
    BY <1>0, <1>1, <2>2, EngineWrites
  <2> QED BY <2>1, <2>2
<1>2. CASE ExecutionRequest
  <2>1. cur' = cur
    BY <1>2 DEF ExecutionRequest, engineVars, locals
  <2> QED BY <1>0, <1>2, <2>1, RequestWrites
<1>3. CASE Crash
  BY <1>0, <1>3 DEF Crash
<1>4. CASE Start
  <2>1. cur = 0 /\ UNCHANGED executions /\ e # 0
    BY <1>0, <1>4 DEF Start, tables, TypeInv, EngineShape, Working, InLoop,
                      InStep, Execution
  <2> QED BY <1>0, <2>1
<1>5. CASE UNCHANGED <<executions, cur>>
  BY <1>0, <1>5
<1> QED
  BY <1>1, <1>2, <1>3, <1>4, <1>5 DEF Next, vars, tables, engineVars, locals,
     WorkflowRequest, EngineStep, Shutdown

\* An execution that nobody works on is left as running only by the step in
\* which a statement fails, or in which the context is cancelled or the
\* process killed: what failed before, and what a Cancel writes in between,
\* never makes the engine forget one (engine.go, the returns of
\* processExecution).
THEOREM AbandonedOnlyByFailure == Spec => AbandonedByFailureOnly
<1>1. OwnerInv /\ [Next]_vars =>
        [\A e \in Execution :
           Abandoned(e)' /\ ~Abandoned(e) =>
             faults' > faults \/ ctxDone \/ crashes' > crashes]_vars
  BY AbandonedStep
<1> QED BY OwnerInit, OwnerNext, <1>1, PTL DEF Spec, AbandonedByFailureOnly

-----------------------------------------------------------------------------
(* How the status of an execution changes                                    *)

QueueInv == TypeInv /\ HeldInv

\* What may become of the status of e.
Move(e) ==
  \/ executions[e].status = "none" /\ executions'[e].status = "pending"
  \/ TransitionExecution(executions[e].status, executions'[e].status)
  \/ executions[e].status = "canceled" /\ e = cur
  \/ /\ executions'[e].status = "canceled"
     /\ \E c \in Cancelers : cancels[c] = e /\ cancels'[c] = 0

\* The stored status of at most one execution changes.
LegalMove ==
  \/ \A e \in Execution : executions'[e].status = executions[e].status
  \/ \E e \in Execution :
       /\ \A d \in Execution \ {e} : executions'[d].status = executions[d].status
       /\ Move(e)

LEMMA QueueInit == Init => QueueInv
BY TypeInit DEF Init, EngineInit, QueueInv, HeldInv, NoExecution, InLoop, InStep

LEMMA LegalTransitions ==
  /\ TransitionExecution("pending", "running")
  /\ TransitionExecution("running", "succeeded")
  /\ TransitionExecution("running", "failed")
  /\ TransitionExecution("running", "canceled")
BY DEF TransitionExecution, executionTransitions

\* A row that is written along the transition table, or over a cancellation.
LEMMA CurMove ==
  ASSUME cur \in Execution,
         \A d \in Execution : d # cur => executions'[d] = executions[d],
         \/ executions'[cur].status = executions[cur].status
         \/ TransitionExecution(executions[cur].status,
                                executions'[cur].status)
         \/ executions[cur].status = "canceled"
  PROVE  LegalMove
BY DEF LegalMove, Move

\* What is held before and after a step, where the rows in hand keep their
\* status.
LEMMA NothingNewInHand ==
  ASSUME HeldInv, UNCHANGED executions, exs' \subseteq exs,
         cur' \in exs \cup {0, cur}
  PROVE  Cancelers = {} =>
           \A e \in Execution : InHand(e)' => executions'[e].status # "canceled"
BY DEF HeldInv, InHand, Execution

LEMMA QueueRequest ==
  ASSUME QueueInv, ExecutionRequest
  PROVE  HeldInv' /\ LegalMove
<1>0. executions \in [Execution -> ExecutionRow] /\ UNCHANGED <<pc, exs, cur>>
  BY DEF QueueInv, TypeInv, TypeOK, ExecutionTypeOK, ExecutionRequest,
         engineVars, locals
<1>1. /\ exs \subseteq Execution
      /\ pc \in InLoop \cup {"claim", "record"} => cur \in Execution
  BY DEF QueueInv, TypeInv, TypeOK, EngineTypeOK, EngineShape, Working
<1>2. CASE UNCHANGED executions
  BY <1>0, <1>2 DEF QueueInv, HeldInv, LegalMove, InHand
<1>3. ASSUME NEW c \in Triggerers, NEW e \in Execution, TriggerInsert(c, e),
             ~UNCHANGED executions
      PROVE  HeldInv' /\ LegalMove
  <2>1. /\ executions[e].status = "none" /\ executions'[e].status = "pending"
        /\ \A d \in Execution : d # e => executions'[d] = executions[d]
    BY <1>0, <1>3 DEF TriggerInsert, FreshExecution, ExecutionExists,
                      ExecutionCreate
  <2>2. LegalMove
    BY <2>1 DEF LegalMove, Move
  <2>3. /\ \A d \in exs : d # e
        /\ pc \in InLoop \cup {"claim", "record"} => cur # e
    BY <2>1 DEF QueueInv, HeldInv
  <2>4. HeldInv'
    BY <1>0, <1>1, <2>1, <2>3 DEF QueueInv, HeldInv, InLoop, InStep, InHand
  <2> QED BY <2>2, <2>4
<1>4. ASSUME NEW c \in Cancelers, CancelWrite(c), ~UNCHANGED executions
      PROVE  HeldInv' /\ LegalMove
  <2>1. /\ cancels[c] \in Execution /\ cancels'[c] = 0
        /\ executions'[cancels[c]].status = "canceled"
        /\ \A d \in Execution : d # cancels[c] => executions'[d] = executions[d]
    BY <1>0, <1>4 DEF CancelWrite, ExecutionUpdateStatus, ExecutionRow,
                      QueueInv, TypeInv, TypeOK, ServiceTypeOK
  <2>2. LegalMove
    BY <2>1 DEF LegalMove, Move
  <2>3. HeldInv'
    BY <1>0, <1>1, <2>1 DEF QueueInv, HeldInv, InLoop, InStep, InHand
  <2> QED BY <2>2, <2>3
<1>5. \/ UNCHANGED executions
      \/ \E c \in Triggerers, e \in Execution : TriggerInsert(c, e)
      \/ \E c \in Cancelers : CancelWrite(c)
  BY DEF ExecutionRequest, StartRequest, ContinueRequest, TriggerRead,
         TriggerRow, CancelRead, GetRead, GetSteps, GetReply
<1> QED BY <1>2, <1>3, <1>4, <1>5

\* The statements that write the row in hand.
LEMMA QueueWrite ==
  ASSUME QueueInv,
         \/ ClaimExecution \/ RecordRunning \/ ContextDone
         \/ SucceedExecution \/ FailExecution
  PROVE  HeldInv' /\ LegalMove
<1>0. TypeInv /\ HeldInv /\ cur \in Execution \ exs
  BY DEF ClaimExecution, RecordRunning, ContextDone, SucceedExecution,
         FailExecution, QueueInv, TypeInv, EngineShape, Working, InLoop
<1>1. exs' = exs /\ exs \subseteq Execution
  BY <1>0 DEF ClaimExecution, RecordRunning, ContextDone, SucceedExecution,
         FailExecution, Return, Goto, locals, TypeInv, TypeOK, EngineTypeOK
<1>2. 0 \notin Execution
  BY DEF Execution
<1>3. ASSUME \A d \in Execution : d # cur => executions'[d] = executions[d]
      PROVE  /\ \A e \in exs' : executions'[e].status \in {"pending", "canceled"}
             /\ Cancelers = {} =>
                  \A e \in exs' : executions'[e].status # "canceled"
  BY <1>0, <1>1, <1>3 DEF HeldInv, InHand
<1>4. CASE ClaimExecution
  <2>1. PICK out : /\ ExecutionUpdateStatus(out, cur, "running")
                   /\ IF out = "ok" THEN Goto("record") ELSE Return
    BY <1>4 DEF ClaimExecution
  <2>2. /\ executions[cur].status \in {"pending", "canceled"}
        /\ \A d \in Execution : d # cur => executions'[d] = executions[d]
        /\ executions'[cur].status = IF Applied(out) THEN "running"
                                     ELSE executions[cur].status
    BY <1>0, <1>4, <2>1, CurUpdateStatus DEF HeldInv, ClaimExecution
  <2>3. \/ pc' = "next" /\ cur' = 0
        \/ pc' = "record" /\ cur' = cur /\ executions'[cur].status = "running"
    BY <2>1, <2>2 DEF Goto, Return, locals, Applied
  <2>4. LegalMove
    BY <1>0, <2>2, CurMove, LegalTransitions
  <2>5. HeldInv'
    BY <1>1, <1>2, <1>3, <2>2, <2>3 DEF HeldInv, InLoop, InStep, InHand
  <2> QED BY <2>4, <2>5
<1>5. CASE RecordRunning
  <2>1. PICK out : ExecutionUpdate(out, cur, "running", FALSE)
    BY <1>5 DEF RecordRunning
  <2>2. /\ executions[cur].status \in {"running", "canceled"}
        /\ \A d \in Execution : d # cur => executions'[d] = executions[d]
    BY <1>0, <1>5, <2>1, CurUpdate DEF HeldInv, RecordRunning
  <2>3. executions'[cur].status \in {"running", executions[cur].status}
    BY <1>0, <2>1, CurUpdate
  <2>4. \/ pc' = "next" /\ cur' = 0
        \/ pc' = "check" /\ cur' = cur
    BY <1>5 DEF RecordRunning, Return
  <2>5. LegalMove
    BY <1>0, <2>2, <2>3, CurMove
  <2>6. Cancelers = {} => executions'[cur].status # "canceled"
    BY <1>0, <2>3 DEF HeldInv, InHand
  <2>7. HeldInv'
    BY <1>1, <1>2, <1>3, <2>2, <2>3, <2>4, <2>6 DEF HeldInv, InLoop, InStep, InHand
  <2> QED BY <2>5, <2>7
<1>6. CASE ContextDone \/ SucceedExecution \/ FailExecution
  <2>1. /\ executions[cur].status \in {"running", "canceled"}
        /\ pc' = "next" /\ cur' = 0
    BY <1>0, <1>6 DEF ContextDone, SucceedExecution, FailExecution, Return,
                      HeldInv, InLoop
  <2>2. PICK to \in {"canceled", "succeeded", "failed"} :
          /\ \A d \in Execution : d # cur => executions'[d] = executions[d]
          /\ executions'[cur].status \in {to, executions[cur].status}
    <3>1. CASE ContextDone
      <4>1. PICK out : ExecutionUpdateStatus(out, cur, "canceled")
        BY <3>1 DEF ContextDone
      <4> QED BY <1>0, <4>1, CurUpdateStatus
    <3>2. ASSUME NEW s \in {"succeeded", "failed"}, NEW out,
                 ExecutionUpdate(out, cur, s, TRUE)
          PROVE  /\ \A d \in Execution : d # cur => executions'[d] = executions[d]
                 /\ executions'[cur].status \in {s, executions[cur].status}
      BY <1>0, <3>2, CurUpdate
    <3> QED BY <1>6, <3>1, <3>2 DEF SucceedExecution, FailExecution
  <2>3. LegalMove
    BY <1>0, <2>1, <2>2, CurMove, LegalTransitions
  <2>4. HeldInv'
    BY <1>1, <1>2, <1>3, <2>1, <2>2 DEF HeldInv, InLoop, InStep, InHand
  <2> QED BY <2>3, <2>4
<1> QED BY <1>4, <1>5, <1>6

\* The statements that read, or write elsewhere.
LEMMA QueueRead ==
  ASSUME QueueInv, EngineNext, UNCHANGED executions
  PROVE  HeldInv' /\ LegalMove
<1>1. LegalMove /\ HeldInv
  BY DEF LegalMove, QueueInv
<1>2. CASE PollStop \/ PollTick \/ EndPoll \/ ReturnCanceled
  <2>1. /\ pc' \notin InLoop \cup {"record", "claim"}
        /\ exs' = exs \/ exs' = {}
        /\ cur' \in {0, cur}
    BY <1>2 DEF PollStop, PollTick, EndPoll, ReturnCanceled, ResetAt, Return,
                InLoop, InStep
  <2> QED BY <1>1, <2>1, NothingNewInHand DEF HeldInv
<1>3. ASSUME NEW w \in wfs, ListExecutions(w)
      PROVE  HeldInv' /\ LegalMove
  <2>1. /\ pc' = "next" /\ cur' = cur
        /\ \A e \in exs' : executions[e].status = "pending"
    BY <1>3 DEF ListExecutions, ListWith
  <2> QED BY <1>1, <2>1 DEF HeldInv, InHand, InLoop, InStep
<1>4. ASSUME NEW e \in exs, StartExecution(e)
      PROVE  HeldInv' /\ LegalMove
  <2>1. pc' = "claim" /\ exs' \subseteq exs /\ cur' = e
    BY <1>4 DEF StartExecution
  <2> QED BY <1>1, <2>1, NothingNewInHand DEF HeldInv, InLoop, InStep
<1>5. CASE CreateStep \/ StartStep \/ ExecuteStep \/ RunnerReturn
           \/ FailStep \/ SucceedStep \/ SkipStep
  <2>1. pc \in InLoop /\ pc' \in InLoop /\ UNCHANGED <<cur, exs>>
    BY <1>5 DEF CreateStep, StartStep, ExecuteStep, RunnerReturn, FailStep,
       SucceedStep, SkipStep, StepError, NextStep, Goto, locals, InLoop, InStep
  <2> QED BY <1>1, <2>1, NothingNewInHand DEF HeldInv, InLoop, InStep
<1>6. CASE CheckExecution
  <2>1. /\ pc = "check" /\ UNCHANGED exs
        /\ \/ pc' = "next" /\ cur' = 0
           \/ pc' \in InLoop /\ cur' = cur
    BY <1>6 DEF CheckExecution, Return, Goto, locals, Outcomes, InLoop, InStep
  <2> QED BY <1>1, <2>1, NothingNewInHand DEF HeldInv, InLoop, InStep
<1> QED
  BY <1>2, <1>3, <1>4, <1>5, <1>6, QueueWrite DEF EngineNext

LEMMA QueueNext ==
  ASSUME QueueInv, [Next]_vars
  PROVE  QueueInv' /\ LegalMove
<1>1. TypeInv'
  BY TypeNext DEF QueueInv
<1>2. CASE EngineNext
  <2>1. CASE UNCHANGED executions
    BY <1>1, <1>2, <2>1, QueueRead DEF QueueInv
  <2>2. CASE ~UNCHANGED executions
    BY <1>1, <1>2, <2>2, QueueWrite
       DEF EngineNext, PollStop, PollTick, EndPoll, ListExecutions, ListWith,
           StartExecution, CheckExecution, CreateStep, StartStep, ExecuteStep,
           RunnerReturn, FailStep, SucceedStep, SkipStep, ReturnCanceled,
           QueueInv
  <2> QED BY <2>1, <2>2
<1>3. CASE ExecutionRequest
  BY <1>1, <1>3, QueueRequest DEF QueueInv
<1>4. CASE UNCHANGED <<executions, pc, exs, cur>>
  BY <1>1, <1>4 DEF QueueInv, HeldInv, InHand, LegalMove
<1>5. CASE Crash \/ Start
  BY <1>1, <1>5 DEF Crash, Start, ResetAt, tables, QueueInv, HeldInv, InHand,
                    LegalMove, InLoop, InStep, Execution
<1> QED
  BY <1>2, <1>3, <1>4, <1>5 DEF Next, vars, tables, engineVars, locals,
     WorkflowRequest, EngineStep, Shutdown

\* Through failed and lost statements, shutdowns, kills and restarts, the
\* stored status of every execution follows executionTransitions, unless the
\* engine and a Cancel write over what the other has stored (engine.go,
\* execution_service.go).
THEOREM OnlyCancelRacesBreakLifecycle == Spec => OnlyCancelRaces
<1>1. QueueInv /\ [Next]_vars =>
        \A e \in Execution :
          executions'[e].status # executions[e].status =>
            \/ executions[e].status = "none" /\ executions'[e].status = "pending"
            \/ TransitionExecution(executions[e].status, executions'[e].status)
            \/ executions[e].status = "canceled" /\ e = cur
            \/ /\ executions'[e].status = "canceled"
               /\ \E c \in Cancelers : cancels[c] = e /\ cancels'[c] = 0
  BY QueueNext DEF LegalMove, Move
<1>2. QueueInv /\ [Next]_vars => QueueInv'
  BY QueueNext
<1> QED BY <1>1, <1>2, QueueInit, PTL DEF Spec, OnlyCancelRaces

\* Without Cancel the stored status of every execution follows
\* executionTransitions, through failed and lost statements, shutdowns, kills
\* and restarts (engine.go, domain/status.go).
THEOREM LifecycleWithoutCancel ==
  ASSUME Cancelers = {}
  PROVE  Spec => ImplementsLifecycle
<1>1. Init => Lifecycle!Init
  BY DEF Init, NoExecution, Lifecycle!Init
<1>2. QueueInv /\ [Next]_vars =>
        [Lifecycle!Next]_([e \in Execution |-> executions[e].status])
  <2> SUFFICES ASSUME HeldInv, LegalMove
               PROVE  [Lifecycle!Next]_([e \in Execution |->
                                           executions[e].status])
    BY QueueNext DEF QueueInv
  <2> DEFINE status == [e \in Execution |-> executions[e].status]
  <2>1. CASE \A e \in Execution : executions'[e].status = executions[e].status
    <3>1. status' = status
      BY <2>1
    <3> QED BY <3>1
  <2>2. ASSUME NEW e \in Execution,
               \A d \in Execution \ {e} :
                 executions'[d].status = executions[d].status
        PROVE  /\ status[e] = executions[e].status
               /\ status' = [status EXCEPT ![e] = executions'[e].status]
    BY <2>2
  <2>3. ASSUME NEW e \in Execution, executions[e].status = "none",
               executions'[e].status = "pending",
               \A d \in Execution \ {e} :
                 executions'[d].status = executions[d].status
        PROVE  Lifecycle!Next
    <3>1. status[e] = "none" /\ status' = [status EXCEPT ![e] = "pending"]
      BY <2>2, <2>3
    <3> QED BY <3>1 DEF Lifecycle!Next, Lifecycle!Create
  <2>4. ASSUME NEW e \in Execution,
               TransitionExecution(executions[e].status, executions'[e].status),
               \A d \in Execution \ {e} :
                 executions'[d].status = executions[d].status
        PROVE  Lifecycle!Next
    <3>1. PICK to \in ExecutionStatus :
            /\ to = executions'[e].status
            /\ TransitionExecution(executions[e].status, to)
      BY <2>4 DEF TransitionExecution, executionTransitions, ExecutionStatus
    <3>2. status[e] = executions[e].status /\ status' = [status EXCEPT ![e] = to]
      BY <2>2, <2>4, <3>1
    <3>3. Lifecycle!TransitionExecution(status[e], to)
      BY <3>1, <3>2 DEF TransitionExecution, Lifecycle!TransitionExecution,
         executionTransitions, Lifecycle!executionTransitions
    <3>4. to \in Lifecycle!ExecutionStatus
      BY DEF ExecutionStatus, Lifecycle!ExecutionStatus
    <3> QED BY <3>2, <3>3, <3>4 DEF Lifecycle!Next, Lifecycle!Transition
  <2>5. ASSUME NEW e \in Execution, Move(e)
        PROVE  \/ /\ executions[e].status = "none"
                  /\ executions'[e].status = "pending"
               \/ TransitionExecution(executions[e].status,
                                      executions'[e].status)
    BY <2>5 DEF Move, HeldInv, InHand
  <2> QED BY <2>1, <2>3, <2>4, <2>5 DEF LegalMove
<1>3. QueueInv /\ [Next]_vars => QueueInv'
  BY QueueNext
<1> QED
  BY <1>1, <1>2, <1>3, QueueInit, PTL
     DEF Spec, ImplementsLifecycle, Lifecycle!Spec

=============================================================================
