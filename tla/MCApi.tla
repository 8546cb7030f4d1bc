------------------------------- MODULE MCApi --------------------------------
(* Api on small instances. *)
EXTENDS Api

CONSTANTS a, long

MCStepLists == {<<>>, <<a>>, <<a, long>>}

=============================================================================
