--------------------------- MODULE RunnerContract ---------------------------
(***************************************************************************)
(* What runner.Runner promises the engine, whichever implementation is      *)
(* wired: calls of Execute are answered one after the other, each at most   *)
(* once, and an answer without Error and with ExitCode 0 is given only for  *)
(* a container that has ended with exit code 0.                             *)
(***************************************************************************)
EXTENDS Naturals

CONSTANT MaxCalls

VARIABLES ended, answer

Call == 1..MaxCalls

Endings == {"zero", "nonzero", "killed"}

Answers == {"success", "nonzero", "error"}

Init == ended = [c \in Call |-> "no"] /\ answer = [c \in Call |-> "none"]

\* The container of call c ends; that may be after the call was answered.
End(c, how) ==
  /\ ended[c] = "no"
  /\ ended' = [ended EXCEPT ![c] = how]
  /\ UNCHANGED answer

\* The oldest call without an answer is answered.
Answer(c, a) ==
  /\ answer[c] = "none"
  /\ \A d \in Call : d < c => answer[d] # "none"
  /\ a = "success" => ended[c] = "zero"
  /\ answer' = [answer EXCEPT ![c] = a]
  /\ UNCHANGED ended

Next ==
  \E c \in Call : \/ \E how \in Endings : End(c, how)
                  \/ \E a \in Answers : Answer(c, a)

Spec == Init /\ [][Next]_<<ended, answer>>

=============================================================================
