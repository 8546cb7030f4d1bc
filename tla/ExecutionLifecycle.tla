------------------------- MODULE ExecutionLifecycle -------------------------
(***************************************************************************)
(* What package domain promises about the stored status of executions: an   *)
(* execution is created pending and changes status only along               *)
(* executionTransitions, so that succeeded, failed and canceled are final.  *)
(***************************************************************************)
EXTENDS Domain

CONSTANT Execution

VARIABLE status

Init == status = [e \in Execution |-> "none"]

Create(e) ==
  /\ status[e] = "none"
  /\ status' = [status EXCEPT ![e] = "pending"]

Transition(e, to) ==
  /\ TransitionExecution(status[e], to)
  /\ status' = [status EXCEPT ![e] = to]

Next == \E e \in Execution :
          Create(e) \/ \E to \in ExecutionStatus : Transition(e, to)

Spec == Init /\ [][Next]_status

=============================================================================
