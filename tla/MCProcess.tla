----------------------------- MODULE MCProcess -----------------------------
(* Process on small instances. *)
EXTENDS Process

CONSTANTS m, o

=============================================================================
