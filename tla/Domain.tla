------------------------------- MODULE Domain -------------------------------
(***************************************************************************)
(* The status machines of package domain (status.go).  A transition table   *)
(* is a function from a status to the set of its allowed successors, as the *)
(* Go maps are; TransitionX(from, to) is true where the Go function returns *)
(* no error.                                                                *)
(***************************************************************************)

WorkflowStatus == {"draft", "active", "archived"}

ExecutionStatus == {"pending", "running", "succeeded", "failed", "canceled"}

StepExecutionStatus ==
  {"pending", "running", "succeeded", "failed", "skipped"}

workflowTransitions ==
  [draft |-> {"active"}, active |-> {"archived"}, archived |-> {}]

executionTransitions ==
  [pending   |-> {"running", "canceled"},
   running   |-> {"succeeded", "failed", "canceled"},
   succeeded |-> {}, failed |-> {}, canceled |-> {}]

stepExecutionTransitions ==
  [pending   |-> {"running", "skipped"},
   running   |-> {"succeeded", "failed"},
   succeeded |-> {}, failed |-> {}, skipped |-> {}]

TransitionWorkflow(from, to) ==
  from \in DOMAIN workflowTransitions /\ to \in workflowTransitions[from]

TransitionExecution(from, to) ==
  from \in DOMAIN executionTransitions /\ to \in executionTransitions[from]

TransitionStepExecution(from, to) ==
  /\ from \in DOMAIN stepExecutionTransitions
  /\ to \in stepExecutionTransitions[from]

=============================================================================
