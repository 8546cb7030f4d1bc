--------------------------- MODULE MCOrchestrator ---------------------------
(* Orchestrator on small instances. *)
EXTENDS Orchestrator

CONSTANTS a, b

MCStepLists == {<<>>, <<a>>, <<b, a>>}

\* No workflow yet.
MCEmpty == {[w \in Workflow |-> NoWorkflow]}

\* One active workflow of two steps, the other ids free.
MCTwoSteps ==
  {[w \in Workflow |-> IF w = 1 THEN [status |-> "active", steps |-> <<a, b>>]
                                ELSE NoWorkflow]}

\* One active workflow of one step.
MCOneStep ==
  {[w \in Workflow |-> IF w = 1 THEN [status |-> "active", steps |-> <<a>>]
                                ELSE NoWorkflow]}

=============================================================================
