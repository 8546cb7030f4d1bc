----------------------------- MODULE ApiProofs ------------------------------
(***************************************************************************)
(* Theorems of Api, for any clients of the two protocols in any roles: what *)
(* the services promise holds behind the transports, and a client that is   *)
(* blamed has changed nothing.                                              *)
(***************************************************************************)
EXTENDS Api, ServiceProofs

-----------------------------------------------------------------------------
(* Codes                                                                     *)

LEMMA CodesAreCodes ==
  ASSUME NEW c, NEW class, NEW done \in {"200", "201", "204"}
  PROVE  Code(c, class, done) \in Codes /\ RawCode(c, class) \in Codes
BY DEF Code, RawCode, HttpStatus, RpcCode, RpcRawCode, Codes

\* A request that succeeded, or failed within the server, blames nobody.
LEMMA NobodyBlamed ==
  ASSUME NEW c, NEW class \in {"ok", "internal"},
         NEW done \in {"200", "201", "204"}
  PROVE  Code(c, class, done) \notin Refusal /\ RawCode(c, class) \notin Refusal
BY DEF Code, RawCode, HttpStatus, RpcCode, RpcRawCode, Refusal

\* What the last answer obeys, as the state stands after it.
ReplyInv ==
  /\ reply = NoReply \/ (reply.to \in Clients /\ reply.code \in Codes)
  /\ RefusalsLeaveNoTrace

LEMMA NoAnswerInv == NoAnswer => ReplyInv'
BY DEF NoAnswer, NoReply, ReplyInv, RefusalsLeaveNoTrace, Refusal

\* An answer to a request that has written nothing.
LEMMA HarmlessAnswer ==
  ASSUME NEW c \in Clients, NEW code \in Codes, NEW missing,
         AnswerAs(c, code, FALSE, missing)
  PROVE  ReplyInv'
BY DEF AnswerAs, ReplyInv, RefusalsLeaveNoTrace

\* An answer that blames nobody.
LEMMA BlamelessAnswer ==
  ASSUME NEW c \in Clients, NEW class \in {"ok", "internal"},
         NEW done \in {"200", "201", "204"}, NEW wrote,
         Answer(c, class, done, wrote)
  PROVE  ReplyInv'
<1>1. /\ Code(c, class, done) \in Codes
      /\ Code(c, class, done) \notin Refusal
  BY CodesAreCodes, NobodyBlamed
<1> QED
  BY <1>1 DEF Answer, AnswerAs, ReplyInv, RefusalsLeaveNoTrace

LEMMA RefuseInv ==
  ASSUME NEW c \in Clients, NEW class, NEW exists, Refuse(c, class, exists)
  PROVE  ReplyInv'
<1>1. Code(c, class, "200") \in Codes
  BY CodesAreCodes
<1> QED BY <1>1, HarmlessAnswer DEF Refuse, AnswerOnly

\* Only the write of an edit over gRPC is both applied and refused, and then
\* the row that cannot be carried is the one it has stored.
LEMMA WriteAnswerInv ==
  ASSUME EditTypeOK, NEW c \in Editors, ServeWrite(c)
  PROVE  ReplyInv'
<1> DEFINE class == IF Ended = "ok" /\ c \in RpcClients /\ Unreadable(edit[c].row)
                    THEN "validation" ELSE Ended
<1>1. c \in Clients /\ Ended \in {"ok", "internal"}
  BY ApiAssumption DEF Ended
<1>2. AnswerAs(c, Code(c, class, "200"), Wrote, FALSE)
  BY DEF ServeWrite, AnswerRow, Answer
<1>3. Code(c, class, "200") \in Codes
  BY CodesAreCodes
<1>4. CASE class \in {"ok", "internal"}
  <2>1. Code(c, class, "200") \notin Refusal
    BY <1>4, NobodyBlamed
  <2> QED BY <1>1, <1>2, <1>3, <2>1 DEF AnswerAs, ReplyInv, RefusalsLeaveNoTrace
<1>5. CASE Wrote /\ class \notin {"ok", "internal"}
  <2>1. faults' = faults /\ c \in RpcClients /\ Unreadable(edit[c].row)
    BY <1>1, <1>5 DEF Ended
  <2>2. PICK out \in Outcomes :
          Statement(out, FALSE) /\ WorkflowWrite(out, edit[c].id, edit[c].row)
    BY DEF ServeWrite, WriteBack
  <2>3. faults \in Nat
    BY MaxFaultsAssumption DEF EditTypeOK, WorkflowTypeOK
  <2>4. Applied(out)
    BY <2>1, <2>2, <2>3 DEF Statement, Applied
  <2>5. workflows' = [workflows EXCEPT ![edit[c].id] = edit[c].row]
    BY <2>2, <2>4 DEF WorkflowWrite
  <2>6. workflows' # workflows
    BY <1>5 DEF Wrote, tables, ServeWrite
  <2>7. edit[c].id \in Workflow
    BY <2>5, <2>6 DEF EditTypeOK, WorkflowTypeOK
  <2>8. workflows'[edit[c].id] = edit[c].row
    BY <2>5, <2>7 DEF EditTypeOK, WorkflowTypeOK
  <2>9. \E w \in Workflow : Unreadable(workflows'[w])
    BY <2>1, <2>7, <2>8
  <2> QED
    BY <1>1, <1>2, <1>3, <2>1, <2>9
       DEF AnswerAs, ReplyInv, RefusalsLeaveNoTrace, Unreadable
<1>6. CASE ~Wrote
  BY <1>1, <1>2, <1>3, <1>6 DEF AnswerAs, ReplyInv, RefusalsLeaveNoTrace
<1> QED BY <1>4, <1>5, <1>6

-----------------------------------------------------------------------------
(* Every request                                                             *)

LEMMA WorkflowReplies ==
  ASSUME EditTypeOK, WorkflowRequest
  PROVE  ReplyInv'
<1>0. Editors \subseteq Clients /\ Readers \subseteq Clients
  BY ApiAssumption
<1>1. ASSUME NEW c \in Editors, NEW w \in Workflow, NEW steps \in StepLists,
             ServeCreate(c, w, steps)
      PROVE  ReplyInv'
  BY <1>0, <1>1, BlamelessAnswer DEF ServeCreate, Ended
<1>2. ASSUME NEW c \in Editors, NEW w \in Workflow, ServeEdit(c, w)
      PROVE  ReplyInv'
  BY <1>0, <1>2, NoAnswerInv, RefuseInv DEF ServeEdit
<1>3. ASSUME NEW c \in Editors, ServeWrite(c)
      PROVE  ReplyInv'
  BY <1>3, WriteAnswerInv
<1>4. ASSUME NEW c \in Readers, ServeList(c)
      PROVE  ReplyInv'
  <2>1. PICK code \in Codes : AnswerAs(c, code, FALSE, FALSE)
    BY <1>4, CodesAreCodes DEF ServeList, AnswerOnly
  <2> QED BY <1>0, <2>1, HarmlessAnswer
<1>5. ASSUME NEW c \in Readers, NEW w \in Workflow, ServeGet(c, w)
      PROVE  ReplyInv'
  <2>1. \/ \E code \in Codes : AnswerAs(c, code, FALSE, FALSE)
        \/ Refuse(c, Found(WorkflowExists(w)), WorkflowExists(w))
    BY <1>5, CodesAreCodes DEF ServeGet, AnswerRow, Answer
  <2> QED BY <1>0, <2>1, HarmlessAnswer, RefuseInv
<1> QED BY <1>1, <1>2, <1>3, <1>4, <1>5 DEF WorkflowRequest

LEMMA ExecutionReplies ==
  ASSUME ExecutionRequest
  PROVE  ReplyInv'
<1>0. /\ Triggerers \subseteq Clients /\ Cancelers \subseteq Clients
      /\ Readers \subseteq Clients
  BY ApiAssumption
<1>1. ASSUME NEW c \in Triggerers, ServeTrigger(c)
      PROVE  ReplyInv'
  <2>1. \/ NoAnswer
        \/ Answer(c, Ended, "201", Wrote \/ triggers[c].at = "rows")
    BY <1>1 DEF ServeTrigger
  <2> QED BY <1>0, <2>1, NoAnswerInv, BlamelessAnswer DEF Ended
<1>2. ASSUME NEW c \in Triggerers, NEW w \in Workflow, RefuseTrigger(c, w)
      PROVE  ReplyInv'
  BY <1>0, <1>2, RefuseInv DEF RefuseTrigger
<1>3. ASSUME NEW c \in Cancelers, ServeCancel(c)
      PROVE  ReplyInv'
  <2>1. NoAnswer \/ Answer(c, Ended, "204", Wrote)
    BY <1>3 DEF ServeCancel
  <2> QED BY <1>0, <2>1, NoAnswerInv, BlamelessAnswer DEF Ended
<1>4. ASSUME NEW c \in Cancelers, NEW e \in Execution, RefuseCancel(c, e)
      PROVE  ReplyInv'
  BY <1>0, <1>4, RefuseInv DEF RefuseCancel
<1>5. ASSUME NEW c \in Readers, ServeGetExecution(c)
      PROVE  ReplyInv'
  <2>1. \/ NoAnswer
        \/ AnswerAs(c, RawCode(c, "internal"), FALSE, FALSE)
        \/ Answer(c, "ok", "200", FALSE)
    BY <1>5 DEF ServeGetExecution
  <2>2. RawCode(c, "internal") \in Codes
    BY CodesAreCodes
  <2> QED
    BY <1>0, <2>1, <2>2, NoAnswerInv, HarmlessAnswer, BlamelessAnswer
<1>6. ASSUME NEW c \in Readers, ServeExecutionList(c)
      PROVE  ReplyInv'
  <2>1. PICK code \in Codes : AnswerAs(c, code, FALSE, FALSE)
    BY <1>6, CodesAreCodes DEF ServeExecutionList, AnswerOnly
  <2> QED BY <1>0, <2>1, HarmlessAnswer
<1>7. ASSUME NEW c \in Readers, NEW e \in Execution, RefuseGetExecution(c, e)
      PROVE  ReplyInv'
  <2>1. PICK code \in Codes : AnswerAs(c, code, FALSE, TRUE)
    BY <1>7, CodesAreCodes DEF RefuseGetExecution, AnswerOnly
  <2> QED BY <1>0, <2>1, HarmlessAnswer
<1> QED
  BY <1>1, <1>2, <1>3, <1>4, <1>5, <1>6, <1>7 DEF ExecutionRequest

LEMMA OtherReplies ==
  ASSUME NEW c \in Clients, Malformed(c) \/ FirstReadFails(c)
  PROVE  ReplyInv'
<1>1. \E code \in Codes : AnswerAs(c, code, FALSE, FALSE)
  <2>1. \A class : /\ Code(c, class, "200") \in Codes
                   /\ RawCode(c, class) \in Codes
    BY CodesAreCodes
  <2> QED BY <2>1 DEF Malformed, FirstReadFails, AnswerOnly
<1> QED BY <1>1, HarmlessAnswer

LEMMA ReplyStep ==
  ASSUME EditTypeOK, ReplyInv, [Next]_vars
  PROVE  ReplyInv'
<1>1. CASE UNCHANGED vars
  BY <1>1 DEF vars, tables, ReplyInv, RefusalsLeaveNoTrace, Unreadable
<1>2. ASSUME NEW e \in Execution, NEW to, EngineWrite(e, to)
      PROVE  ReplyInv'
  BY <1>2, NoAnswerInv DEF EngineWrite
<1> QED
  BY <1>1, <1>2, WorkflowReplies, ExecutionReplies, OtherReplies DEF Next

-----------------------------------------------------------------------------
(* The services behind the transports                                        *)

\* The transports add nothing to what the handlers of workflows do.
LEMMA ApiEdits ==
  ASSUME [Next]_vars
  PROVE  [WorkflowServiceNext]_editVars \/ UNCHANGED <<workflows, edit>>
<1>1. CASE WorkflowRequest
  BY <1>1 DEF WorkflowRequest, ServeEdit, ServeCreate, ServeWrite, ServeList,
              ServeGet, Refuse, AnswerOnly, tables, requests,
              WorkflowServiceNext, StartEdit, editVars
<1>2. CASE ExecutionRequest
  BY <1>2 DEF ExecutionRequest, ServeTrigger, RefuseTrigger, ServeCancel,
              RefuseCancel, ServeGetExecution, ServeExecutionList,
              RefuseGetExecution, Refuse, AnswerOnly, tables, requests
<1>3. CASE UNCHANGED <<workflows, edit>>
  BY <1>3
<1> QED
  BY <1>1, <1>2, <1>3 DEF Next, vars, tables, requests, Malformed,
     FirstReadFails, AnswerOnly, EngineWrite

\* Nor to what those of executions do.
LEMMA ApiExecutions ==
  ASSUME [Next]_vars
  PROVE  \/ StartRequest \/ ContinueRequest
         \/ UNCHANGED <<executions, stepExecs, serviceVars>>
         \/ \E e \in Execution, to \in ExecutionStatus : EngineWrite(e, to)
<1>1. CASE WorkflowRequest
  BY <1>1 DEF WorkflowRequest, ServeEdit, ServeCreate, ServeWrite, ServeList,
              ServeGet, Refuse, AnswerOnly, tables, requests
<1>2. CASE ExecutionRequest
  BY <1>2 DEF ExecutionRequest, ServeTrigger, RefuseTrigger, ServeCancel,
              RefuseCancel, ServeGetExecution, ServeExecutionList,
              RefuseGetExecution, Refuse, AnswerOnly, tables, requests,
              StartRequest, ContinueRequest
<1>3. CASE UNCHANGED <<executions, stepExecs, serviceVars>>
  BY <1>3
<1>4. CASE \E e \in Execution, to \in ExecutionStatus \ {"pending"} :
             EngineWrite(e, to)
  BY <1>4
<1> QED
  BY <1>1, <1>2, <1>3, <1>4 DEF Next, vars, tables, requests, Malformed,
     FirstReadFails, AnswerOnly

\* Whatever fails, it fails within the bound.
LEMMA ApiFaults ==
  ASSUME EditTypeOK, ExecutionTypeOK, ServiceTypeOK, [Next]_vars
  PROVE  faults' \in 0..MaxFaults
<1>0. WorkflowTypeOK /\ faults \in 0..MaxFaults
  BY DEF EditTypeOK, WorkflowTypeOK
<1>1. CASE WorkflowRequest
  <2>1. \/ UNCHANGED faults
        \/ \E out \in Outcomes : Statement(out, FALSE)
    BY <1>1 DEF WorkflowRequest, ServeEdit, ServeCreate, ServeWrite, ServeList,
                ServeGet, Refuse, AnswerOnly, CreateWorkflow, UpdateWorkflow,
                ActivateWorkflow, ArchiveWorkflow, Hold, WriteBack
  <2> QED BY <1>0, <2>1, StatementFaults
<1>2. CASE StartRequest \/ ContinueRequest
  BY <1>0, <1>2, TypeService
<1>3. CASE UNCHANGED faults
  BY <1>0, <1>3
<1>4. CASE Query("error", FALSE)
  BY <1>0, <1>4, QueryFaults
<1>5. CASE ExecutionRequest
  BY <1>2, <1>3, <1>5
     DEF ExecutionRequest, ServeTrigger, RefuseTrigger, ServeCancel,
         RefuseCancel, ServeGetExecution, ServeExecutionList,
         RefuseGetExecution, Refuse, AnswerOnly, StartRequest, ContinueRequest
<1> QED
  BY <1>1, <1>3, <1>4, <1>5 DEF Next, vars, Malformed, FirstReadFails,
     AnswerOnly, EngineWrite

LEMMA ApiInit == Init => ApiInv
<1> SUFFICES ASSUME Init PROVE ApiInv
  OBVIOUS
<1>1. StepsInv /\ LegalInv
  BY StepsInit, LegalInit DEF Init
<1>2. ExecutionTypeOK
  BY DEF Init, ExecutionTypeOK, NoExecution, ExecutionRow
<1>3. ServiceTypeOK
  BY RecordTypes DEF Init, ServiceInit, ServiceTypeOK, NoRead
<1>4. ReplyInv
  BY DEF Init, NoReply, ReplyInv, RefusalsLeaveNoTrace, Refusal
<1> QED
  BY <1>1, <1>2, <1>3, <1>4 DEF ApiInv, TypeOK, StepsInv, LegalInv, ReplyInv

LEMMA ApiNext == ApiInv /\ [Next]_vars => ApiInv'
<1> SUFFICES ASSUME ApiInv, [Next]_vars PROVE ApiInv'
  OBVIOUS
<1>0. /\ EditTypeOK /\ ExecutionTypeOK /\ ServiceTypeOK
      /\ StepsInv /\ LegalInv /\ ReplyInv
  BY DEF ApiInv, TypeOK, StepsInv, LegalInv, ReplyInv
<1>1. faults' \in 0..MaxFaults
  BY <1>0, ApiFaults
<1>2. StepsInv' /\ LegalInv'
  <2>1. CASE [WorkflowServiceNext]_editVars
    BY <1>0, <2>1, StepsStep, LegalStep
  <2>2. CASE UNCHANGED <<workflows, edit>>
    <3>1. StepsInv'
      BY <1>0, <1>1, <2>2, WorkflowFrame
    <3> QED BY <1>0, <2>2, <3>1 DEF StepsInv, LegalInv, CopiesLegal
  <2> QED BY <2>1, <2>2, ApiEdits
<1>3. ExecutionTypeOK' /\ ServiceTypeOK'
  <2>1. CASE StartRequest \/ ContinueRequest
    BY <1>0, <2>1, TypeService DEF EditTypeOK
  <2>2. CASE UNCHANGED <<executions, stepExecs, serviceVars>>
    BY <1>0, <2>2 DEF ExecutionTypeOK, ServiceTypeOK, serviceVars
  <2>3. ASSUME NEW e \in Execution, NEW to \in ExecutionStatus, EngineWrite(e, to)
        PROVE  ExecutionTypeOK' /\ ServiceTypeOK'
    BY <1>0, <2>3, ExecutionUpdateStatusType
       DEF EngineWrite, requests, serviceVars, ExecutionTypeOK, ServiceTypeOK
  <2> QED BY <2>1, <2>2, <2>3, ApiExecutions
<1>4. ReplyInv'
  BY <1>0, ReplyStep
<1> QED
  BY <1>2, <1>3, <1>4 DEF ApiInv, TypeOK, StepsInv, LegalInv, ReplyInv

-----------------------------------------------------------------------------
(* The theorems                                                              *)

\* Tables, requests in flight and answers keep their shape for any number of
\* clients of either protocol.
THEOREM ApiTypeCorrect == Spec => []TypeOK
<1>1. ApiInv => TypeOK
  BY DEF ApiInv
<1> QED BY ApiInit, ApiNext, <1>1, PTL DEF Spec

\* A client that is told that its request was wrong may send it again: the
\* request has changed nothing, save an edit over gRPC that leaves a timeout
\* gRPC cannot carry (transport/rpc, toPbWorkflow after the service's write).
THEOREM RefusedRequestsAreHarmless == Spec => []RefusalsLeaveNoTrace
<1>1. ApiInv => RefusalsLeaveNoTrace
  BY DEF ApiInv
<1> QED BY ApiInit, ApiNext, <1>1, PTL DEF Spec

\* What the workflow service promises on its own holds behind both transports.
THEOREM ApiKeepsSteps == Spec => []ActiveHasSteps
<1>1. ApiInv => ActiveHasSteps
  BY DEF ApiInv
<1> QED BY ApiInit, ApiNext, <1>1, PTL DEF Spec

\* Behind the transports too, only the write of a stale copy changes a
\* workflow in a way that the domain does not allow.
THEOREM ApiKeepsWorkflowsLegal == Spec => FreshWritesLegal
<1>1. ApiInv /\ [Next]_vars =>
        [\A w \in Workflow :
           WorkflowExists(w) /\ workflows'[w] # workflows[w] =>
             \E c \in Editors :
               /\ edit[c].id = w /\ edit'[c] = NoEdit
               /\ \/ edit[c].seen # workflows[w]
                  \/ LegalChange(workflows[w], workflows'[w])]_editVars
  BY ApiEdits, ChangedByWriteBack DEF ApiInv, TypeOK, LegalInv, CopiesLegal
<1> QED BY ApiInit, ApiNext, <1>1, PTL DEF Spec, FreshWritesLegal

=============================================================================
