------------------------------ MODULE Database ------------------------------
(***************************************************************************)
(* What the repositories get back from the SQL database for one statement.  *)
(* No caller opens a transaction, so a statement is the unit of atomicity.  *)
(* A statement is applied and acknowledged ("ok"), not applied and reported *)
(* as an error ("error"), or applied while its acknowledgement is lost and  *)
(* an error reported ("lost").  MaxFaults bounds the last two.  A statement *)
(* issued under a context that is already cancelled is never sent.          *)
(***************************************************************************)
EXTENDS Naturals, FiniteSets

CONSTANT MaxFaults

ASSUME MaxFaultsAssumption == MaxFaults \in Nat

VARIABLE faults     \* statements that failed so far

Outcomes == {"ok", "error", "lost"}

\* One statement under a context that is cancelled iff ctxDone ends with out.
Statement(out, ctxDone) ==
  \/ /\ ~ctxDone
     /\ out = "ok"
     /\ faults' = faults
  \/ /\ ctxDone
     /\ out = "error"
     /\ faults' = faults
  \/ /\ ~ctxDone
     /\ out \in {"error", "lost"}
     /\ faults < MaxFaults
     /\ faults' = faults + 1

\* A query changes nothing, so it either answers or fails.
Query(out, ctxDone) == out # "lost" /\ Statement(out, ctxDone)

Applied(out) == out # "error"

\* Faulty variant: OFFSET 1 in place of the limit.
NewestButOne(S, n) == {x \in S : Cardinality({y \in S : y > x}) >= 1}

\* The n rows of S that ORDER BY created_at DESC LIMIT n returns, where ids
\* are numbered in the order of creation.
Newest(S, n) == {x \in S : Cardinality({y \in S : y > x}) < n}

IsNewest(x, S) == x \in S /\ \A y \in S : y <= x

=============================================================================
