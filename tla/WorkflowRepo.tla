---------------------------- MODULE WorkflowRepo ----------------------------
(***************************************************************************)
(* The workflows table (db/workflow_repo.go).  A row keeps the status and   *)
(* the ordered list of step definitions, each reduced to its name; name,    *)
(* description and timestamps steer nothing.  Ids are numbered in the order *)
(* of creation, and an id without a row holds NoWorkflow.  No code deletes  *)
(* a row.                                                                   *)
(***************************************************************************)
EXTENDS Domain, Database, Sequences

CONSTANTS
  MaxWorkflows,       \* bound on the rows of workflows
  StepNames,          \* names of step definitions
  WorkflowListLimit   \* Limit the engine passes to List (100)

ASSUME WorkflowRepoAssumption ==
  /\ MaxWorkflows \in Nat
  /\ WorkflowListLimit \in Nat \ {0}

VARIABLE workflows

Workflow == 1..MaxWorkflows

WorkflowRow ==
  [status : WorkflowStatus \cup {"none"}, steps : Seq(StepNames)]

NoWorkflow == [status |-> "none", steps |-> <<>>]

WorkflowExists(w) == workflows[w].status # "none"

WorkflowTypeOK ==
  /\ workflows \in [Workflow -> WorkflowRow]
  /\ faults \in 0..MaxFaults

\* The id the next INSERT gets.
FreshWorkflow(w) ==
  ~WorkflowExists(w) /\ \A v \in Workflow : v < w => WorkflowExists(v)

\* INSERT and UPDATE both write the whole row the caller holds; the UPDATE's
\* WHERE clause names the id only.
WorkflowWrite(out, w, row) ==
  workflows' = IF Applied(out) THEN [workflows EXCEPT ![w] = row]
                               ELSE workflows

WorkflowList == Newest({w \in Workflow : WorkflowExists(w)}, WorkflowListLimit)

=============================================================================
