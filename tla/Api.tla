-------------------------------- MODULE Api ---------------------------------
(***************************************************************************)
(* What a client of the process is told: transport/http/http.go and the     *)
(* gRPC services of transport/rpc over both services.  A client has one     *)
(* request at a time and speaks one of the two protocols.  reply is the     *)
(* answer given in the last step, if one was given.  A request that can be  *)
(* refused names any id of the model, so an id without a row is one of      *)
(* those it may name.  Names and descriptions steer nothing, so every body  *)
(* that is well formed is valid.                                            *)
(***************************************************************************)
EXTENDS WorkflowService, ExecutionService

CONSTANTS
  HttpClients, RpcClients,
  Oversized     \* steps whose TimeoutSeconds does not fit an int32

Clients == HttpClients \cup RpcClients

ASSUME ApiAssumption ==
  /\ HttpClients \cap RpcClients = {}
  /\ \A C \in {Editors, Triggerers, Cancelers, Readers} :
       C \subseteq Clients
  /\ Oversized \subseteq StepNames

VARIABLE reply

tables == <<workflows, executions, stepExecs>>
requests == <<edit, serviceVars>>
vars == <<faults, tables, requests, reply>>

Codes == {"200", "201", "204", "404", "409", "422", "500", "OK", "NotFound",
          "InvalidArgument", "FailedPrecondition", "Internal", "Unknown"}

NoReply == [to |-> "none", code |-> "none", wrote |-> FALSE, missing |-> FALSE]

TypeOK ==
  /\ EditTypeOK /\ ExecutionTypeOK /\ ServiceTypeOK
  /\ reply = NoReply \/ (reply.to \in Clients /\ reply.code \in Codes)

Init ==
  /\ WorkflowServiceInit /\ ServiceInit
  /\ executions = [e \in Execution |-> NoExecution]
  /\ stepExecs = [e \in Execution |-> <<>>]
  /\ reply = NoReply

\* The client waits for no answer.
Idle(c) ==
  /\ c \in Editors => EditorIdle(c)
  /\ c \in Triggerers => triggers[c] = NoTrigger
  /\ c \in Cancelers => cancels[c] = 0
  /\ c \in Readers => reads[c] = NoRead

-----------------------------------------------------------------------------
(* From the error of a service to the code of an answer                      *)

\* handleServiceError; done is the handler's own status for success.
HttpStatus(class, done) ==
  CASE class = "ok" -> done
    [] class = "not_found" -> "404"
    [] class = "validation" -> "422"
    [] class = "conflict" -> "409"
    [] OTHER -> "500"

\* Faulty variant: whatever is left is blamed on the request.
RpcCodeBlaming(class) ==
  CASE class = "ok" -> "OK"
    [] class = "not_found" -> "NotFound"
    [] class = "conflict" -> "FailedPrecondition"
    [] OTHER -> "InvalidArgument"

\* toPbError
RpcCode(class) ==
  CASE class = "ok" -> "OK"
    [] class = "not_found" -> "NotFound"
    [] class = "validation" -> "InvalidArgument"
    [] class = "conflict" -> "FailedPrecondition"
    [] OTHER -> "Internal"

\* GetExecution hands the service's error to grpc as it is.
RpcRawCode(class) == IF class = "ok" THEN "OK" ELSE "Unknown"

Refusal == {"404", "422", "409",
            "NotFound", "InvalidArgument", "FailedPrecondition"}

AnswerAs(c, code, wrote, missing) ==
  reply' = [to |-> c, code |-> code, wrote |-> wrote, missing |-> missing]

Code(c, class, done) ==
  IF c \in HttpClients THEN HttpStatus(class, done) ELSE RpcCode(class)

RawCode(c, class) ==
  IF c \in HttpClients THEN HttpStatus(class, "200") ELSE RpcRawCode(class)

Answer(c, class, done, wrote) ==
  AnswerAs(c, Code(c, class, done), wrote, FALSE)

NoAnswer == reply' = NoReply

\* toPbWorkflow gives up on a timeout that does not fit.
Unreadable(row) == \E i \in DOMAIN row.steps : row.steps[i] \in Oversized

\* An answer that carries a workflow: the row that a service returned.
AnswerRow(c, class, row, wrote) ==
  Answer(c, IF class = "ok" /\ c \in RpcClients /\ Unreadable(row)
            THEN "validation" ELSE class, "200", wrote)

\* The class of a statement that ended in this step, and whether the request
\* has changed a table in it.
Ended == IF faults' = faults THEN "ok" ELSE "internal"
Wrote == tables' # tables

\* The repositories report a missing row as an error like any other, so the
\* services' checks for a nil row never find one.
Found(exists) == IF exists THEN "ok" ELSE "internal"

\* A request that changes nothing is answered at once.
AnswerOnly(c, code, missing) ==
  /\ Idle(c)
  /\ AnswerAs(c, code, FALSE, missing)
  /\ UNCHANGED <<faults, tables, requests>>

\* A request on an id is refused.
Refuse(c, class, exists) ==
  class # "ok" /\ AnswerOnly(c, Code(c, class, "200"), ~exists)

-----------------------------------------------------------------------------
(* Any request                                                               *)

\* The body cannot be decoded, the id is no uuid, the limit is not in 0..100
\* or the offset negative.
Malformed(c) ==
  \E code \in {Code(c, "validation", "200"), RawCode(c, "validation")} :
    AnswerOnly(c, code, FALSE)

\* The first query of a handler fails.
FirstReadFails(c) ==
  /\ Idle(c)
  /\ Query("error", FALSE)
  /\ \E code \in {Code(c, "internal", "200"), RawCode(c, "internal")} :
       AnswerAs(c, code, FALSE, FALSE)
  /\ UNCHANGED <<tables, requests>>

-----------------------------------------------------------------------------
(* Workflows                                                                 *)

\* A step list that protobuf can carry, where it came by gRPC.
Sendable(c, steps) ==
  c \in RpcClients => \A i \in DOMAIN steps : steps[i] \notin Oversized

ServeCreate(c, w, steps) ==
  /\ Idle(c) /\ Sendable(c, steps)
  /\ CreateWorkflow(c, w, steps)
  /\ UNCHANGED <<executions, stepExecs, serviceVars>>
  /\ Answer(c, Ended, "201", Wrote)

\* What the checks of Update, Activate and Archive say of the row, in their
\* order.
UpdateClass(w) ==
  IF workflows[w].status = "active" THEN "conflict" ELSE Found(WorkflowExists(w))

ActivateClass(w) ==
  CASE ~WorkflowExists(w) -> Found(FALSE)
    [] workflows[w].steps = <<>> -> "validation"
    [] ~TransitionWorkflow(workflows[w].status, "active") -> "conflict"
    [] OTHER -> "ok"

ArchiveClass(w) ==
  CASE ~WorkflowExists(w) -> Found(FALSE)
    [] ~TransitionWorkflow(workflows[w].status, "archived") -> "conflict"
    [] OTHER -> "ok"

ServeEdit(c, w) ==
  \/ /\ Idle(c)
     /\ \/ \E steps \in StepLists : Sendable(c, steps) /\ UpdateWorkflow(c, w, steps)
        \/ ActivateWorkflow(c, w)
        \/ ArchiveWorkflow(c, w)
     /\ NoAnswer
     /\ UNCHANGED <<executions, stepExecs, serviceVars>>
  \/ \E class \in {UpdateClass(w), ActivateClass(w), ArchiveClass(w)} :
       Refuse(c, class, WorkflowExists(w))

\* The write of an edit, and the answer with the row as it was written.
ServeWrite(c) ==
  /\ WriteBack(c)
  /\ UNCHANGED <<executions, stepExecs, serviceVars>>
  /\ AnswerRow(c, Ended, edit[c].row, Wrote)

ServeGet(c, w) ==
  \/ /\ Idle(c) /\ WorkflowExists(w)
     /\ AnswerRow(c, "ok", workflows[w], FALSE)
     /\ UNCHANGED <<faults, tables, requests>>
  \/ Refuse(c, Found(WorkflowExists(w)), WorkflowExists(w))

\* The rows of a list, whatever limit and offset cut out of the table; one
\* that cannot be converted fails it.
ServeList(c) ==
  \E rows \in SUBSET {w \in Workflow : WorkflowExists(w)} :
    AnswerOnly(c, Code(c, IF /\ c \in RpcClients
                             /\ \E w \in rows : Unreadable(workflows[w])
                          THEN "validation" ELSE "ok", "200"), FALSE)

-----------------------------------------------------------------------------
(* Executions                                                                *)

TriggerClass(w) ==
  CASE ~WorkflowExists(w) -> Found(FALSE)
    [] workflows[w].status # "active" -> "conflict"
    [] OTHER -> "ok"

\* Trigger's answer, where its last statement ended in this step.
ServeTrigger(c) ==
  /\ \/ \E w \in Workflow : Idle(c) /\ TriggerRead(c, w)
     \/ \E e \in Execution : TriggerInsert(c, e)
     \/ TriggerRow(c)
  /\ UNCHANGED <<workflows, edit>>
  /\ IF triggers'[c] = NoTrigger
     THEN Answer(c, Ended, "201", Wrote \/ triggers[c].at = "rows")
     ELSE NoAnswer

RefuseTrigger(c, w) == Refuse(c, TriggerClass(w), WorkflowExists(w))

CancelClass(e) ==
  CASE ~ExecutionExists(e) -> Found(FALSE)
    [] executions[e].status \notin {"pending", "running"} -> "conflict"
    [] OTHER -> "ok"

ServeCancel(c) ==
  /\ UNCHANGED <<workflows, edit>>
  /\ \/ \E e \in Execution : Idle(c) /\ CancelRead(c, e) /\ NoAnswer
     \/ CancelWrite(c) /\ Answer(c, Ended, "204", Wrote)

RefuseCancel(c, e) == Refuse(c, CancelClass(e), ExecutionExists(e))

\* GetExecution's answer: the steps cannot be read, or both reads are done.
ServeGetExecution(c) ==
  /\ \/ \E e \in Execution : Idle(c) /\ GetRead(c, e) /\ NoAnswer
     \/ /\ GetSteps(c)
        /\ IF reads'[c] = NoRead
           THEN AnswerAs(c, RawCode(c, "internal"), FALSE, FALSE)
           ELSE NoAnswer
     \/ GetReply(c) /\ Answer(c, "ok", "200", FALSE)
  /\ UNCHANGED <<workflows, edit>>

RefuseGetExecution(c, e) ==
  /\ ~ExecutionExists(e)
  /\ AnswerOnly(c, RawCode(c, Found(FALSE)), TRUE)

\* The list of the executions of any id, which may have none.
ServeExecutionList(c) == AnswerOnly(c, Code(c, "ok", "200"), FALSE)

\* The engine's writes, in whatever order (they are those of module Engine).
EngineWrite(e, to) ==
  /\ ExecutionExists(e)
  /\ ExecutionUpdateStatus("ok", e, to)
  /\ NoAnswer
  /\ UNCHANGED <<faults, workflows, stepExecs, requests>>

-----------------------------------------------------------------------------

WorkflowRequest ==
  \/ \E c \in Editors, w \in Workflow :
       ServeEdit(c, w) \/ \E steps \in StepLists : ServeCreate(c, w, steps)
  \/ \E c \in Editors : ServeWrite(c)
  \/ \E c \in Readers : ServeList(c) \/ \E w \in Workflow : ServeGet(c, w)

ExecutionRequest ==
  \/ \E c \in Triggerers :
       ServeTrigger(c) \/ \E w \in Workflow : RefuseTrigger(c, w)
  \/ \E c \in Cancelers :
       ServeCancel(c) \/ \E e \in Execution : RefuseCancel(c, e)
  \/ \E c \in Readers :
       \/ ServeGetExecution(c) \/ ServeExecutionList(c)
       \/ \E e \in Execution : RefuseGetExecution(c, e)

Next ==
  \/ \E c \in Clients : Malformed(c) \/ FirstReadFails(c)
  \/ WorkflowRequest \/ ExecutionRequest
  \/ \E e \in Execution, to \in ExecutionStatus \ {"pending"} : EngineWrite(e, to)

Spec == Init /\ [][Next]_vars

-----------------------------------------------------------------------------
(* Properties                                                                *)

\* A request refused with a code that blames the client has changed nothing,
\* so the client may correct it and send it again.  The exception is over
\* gRPC, where a workflow is stored that has a timeout gRPC cannot carry: an
\* edit that leaves one is stored, then answered with InvalidArgument.
RefusalsLeaveNoTrace ==
  reply.code \in Refusal /\ reply.wrote =>
    reply.to \in RpcClients /\ \E w \in Workflow : Unreadable(workflows[w])

\* The inductive invariant behind the theorems: what races are about is the
\* workflow service's, and an answer is about one step.
ApiInv ==
  /\ TypeOK
  /\ ActiveHasSteps /\ CopiesHaveSteps /\ CopiesLegal
  /\ RefusalsLeaveNoTrace

\* http_test.go, "returns 404 for non-existent workflow".
MissingIsNotFound == reply.missing => reply.code \in {"404", "NotFound"}

=============================================================================
