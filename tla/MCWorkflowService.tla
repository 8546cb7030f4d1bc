------------------------- MODULE MCWorkflowService --------------------------
(* WorkflowService on small instances. *)
EXTENDS WorkflowService

CONSTANTS a, b

MCStepLists == {<<>>, <<a>>, <<a, b>>}

=============================================================================
