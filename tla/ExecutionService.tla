-------------------------- MODULE ExecutionService --------------------------
(***************************************************************************)
(* service/execution_service.go.  Every handler is a sequence of separate   *)
(* statements; the handlers in flight are those of the triggerers, the      *)
(* cancelers and the readers, one request at a time each.  A request that   *)
(* is refused, or whose first read fails, changes nothing and is left out.  *)
(***************************************************************************)
EXTENDS ExecutionRepo

CONSTANTS
  Triggerers,   \* concurrent handlers of Trigger
  Cancelers,    \* concurrent handlers of Cancel
  Readers       \* concurrent handlers of GetWithSteps

VARIABLES
  triggers,     \* [Triggerers -> Trigger]: workflow read, rows to insert
  cancels,      \* [Cancelers -> execution about to be canceled, or 0]
  reads         \* [Readers -> Read]: what GetWithSteps has read so far

serviceVars == <<triggers, cancels, reads>>

\* "insert": the workflow is read; "rows": the execution exists, and the
\* steps still without a pending row are those in steps.
Trigger == [at        : {"idle", "insert", "rows"},
            workflow  : Workflow \cup {0},
            execution : Execution \cup {0},
            steps     : Seq(StepNames)]

NoTrigger == [at |-> "idle", workflow |-> 0, execution |-> 0, steps |-> <<>>]

\* "steps": the execution row is read, its step rows are not; "reply": both.
Read == [at     : {"idle", "steps", "reply"},
         id     : Execution \cup {0},
         status : ExecutionStatus \cup {"none"},
         rows   : Seq(StepRow)]

NoRead == [at |-> "idle", id |-> 0, status |-> "none", rows |-> <<>>]

ServiceTypeOK ==
  /\ triggers \in [Triggerers -> Trigger]
  /\ cancels \in [Cancelers -> Execution \cup {0}]
  /\ reads \in [Readers -> Read]
  /\ \A c \in Readers : reads[c].at # "idle" => reads[c].id \in Execution

ServiceInit ==
  /\ triggers = [c \in Triggerers |-> NoTrigger]
  /\ cancels = [c \in Cancelers |-> 0]
  /\ reads = [c \in Readers |-> NoRead]

-----------------------------------------------------------------------------
(* Trigger                                                                   *)

TriggerRead(c, w) ==
  /\ triggers[c] = NoTrigger
  /\ workflows[w].status = "active"
  /\ triggers' = [triggers EXCEPT ![c] = [at |-> "insert", workflow |-> w,
                 execution |-> 0, steps |-> workflows[w].steps]]
  /\ UNCHANGED <<faults, executions, stepExecs, cancels, reads>>

\* An insert reported as failed ends the request, applied or not.
TriggerInsert(c, e) ==
  /\ triggers[c].at = "insert"
  /\ FreshExecution(e)
  /\ \E out \in Outcomes :
       /\ Statement(out, FALSE)
       /\ ExecutionCreate(out, e, triggers[c].workflow)
       /\ triggers' = [triggers EXCEPT ![c] =
            IF out = "ok" /\ @.steps # <<>>
            THEN [@ EXCEPT !.at = "rows", !.execution = e]
            ELSE NoTrigger]
  /\ UNCHANGED <<stepExecs, cancels, reads>>

\* The pending row of the next step; a failure leaves the execution with
\* fewer rows, still pending, and the caller with an error.
TriggerRow(c) ==
  /\ triggers[c].at = "rows"
  /\ triggers[c].steps # <<>>
  /\ \E out \in Outcomes :
       /\ Statement(out, FALSE)
       /\ StepCreate(out, triggers[c].execution, Head(triggers[c].steps),
                     "pending")
       /\ triggers' = [triggers EXCEPT ![c] =
            IF out = "ok" /\ Len(@.steps) > 1
            THEN [@ EXCEPT !.steps = Tail(triggers[c].steps)]
            ELSE NoTrigger]
  /\ UNCHANGED <<executions, cancels, reads>>

-----------------------------------------------------------------------------
(* Cancel                                                                    *)

CancelRead(c, e) ==
  /\ cancels[c] = 0
  /\ executions[e].status \in {"pending", "running"}
  /\ TransitionExecution(executions[e].status, "canceled")
  /\ cancels' = [cancels EXCEPT ![c] = e]
  /\ UNCHANGED <<faults, executions, stepExecs, triggers, reads>>

\* Faulty variant: a misspelled status.
CancelMisspelled(c) ==
  /\ cancels[c] # 0
  /\ ExecutionUpdateStatus("ok", cancels[c], "cancelled")
  /\ cancels' = [cancels EXCEPT ![c] = 0]
  /\ UNCHANGED <<faults, stepExecs, triggers, reads>>

CancelWrite(c) ==
  /\ cancels[c] # 0
  /\ \E out \in Outcomes :
       /\ Statement(out, FALSE)
       /\ ExecutionUpdateStatus(out, cancels[c], "canceled")
  /\ cancels' = [cancels EXCEPT ![c] = 0]
  /\ UNCHANGED <<stepExecs, triggers, reads>>

-----------------------------------------------------------------------------
(* GetWithSteps                                                              *)

GetRead(c, e) ==
  /\ reads[c] = NoRead
  /\ ExecutionExists(e)
  /\ reads' = [reads EXCEPT ![c] = [at |-> "steps", id |-> e,
                 status |-> executions[e].status, rows |-> <<>>]]
  /\ UNCHANGED <<faults, executions, stepExecs, triggers, cancels>>

GetSteps(c) ==
  /\ reads[c].at = "steps"
  /\ \E out \in Outcomes :
       /\ Query(out, FALSE)
       /\ reads' = [reads EXCEPT ![c] =
            IF out = "ok"
            THEN [@ EXCEPT !.at = "reply", !.rows = ListByExecution(reads[c].id)]
            ELSE NoRead]
  /\ UNCHANGED <<executions, stepExecs, triggers, cancels>>

GetReply(c) ==
  /\ reads[c].at = "reply"
  /\ reads' = [reads EXCEPT ![c] = NoRead]
  /\ UNCHANGED <<faults, executions, stepExecs, triggers, cancels>>

-----------------------------------------------------------------------------

StartRequest ==
  \/ \E c \in Triggerers, w \in Workflow : TriggerRead(c, w)
  \/ \E c \in Cancelers, e \in Execution : CancelRead(c, e)
  \/ \E c \in Readers, e \in Execution : GetRead(c, e)

ContinueRequest ==
  \/ \E c \in Triggerers : \/ \E e \in Execution : TriggerInsert(c, e)
                           \/ TriggerRow(c)
  \/ \E c \in Cancelers : CancelWrite(c)
  \/ \E c \in Readers : GetSteps(c) \/ GetReply(c)

=============================================================================
