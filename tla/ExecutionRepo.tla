--------------------------- MODULE ExecutionRepo ----------------------------
(***************************************************************************)
(* The executions and step_executions tables (db/execution_repo.go,         *)
(* db/step_execution_repo.go).  Executions are numbered in the order of     *)
(* creation; an id without a row has status "none".  finished says whether  *)
(* finished_at is set; the error text is written in the same statement and  *)
(* is left out.  The step rows of an execution form a sequence in the order *)
(* of their creation, and a row is addressed by its position.               *)
(***************************************************************************)
EXTENDS WorkflowRepo

CONSTANTS
  MaxExecutions,       \* bound on the rows of executions
  ExecutionListLimit   \* Limit the engine passes to ListByWorkflow (10)

ASSUME ExecutionRepoAssumption ==
  /\ MaxExecutions \in Nat
  /\ ExecutionListLimit \in Nat \ {0}

VARIABLES executions, stepExecs

Execution == 1..MaxExecutions

ExecutionRow ==
  [workflow : Workflow \cup {0},
   status   : ExecutionStatus \cup {"none"},
   finished : BOOLEAN]

ExitCode == {"null", "zero", "nonzero"}

StepRow == [step : StepNames, status : StepExecutionStatus, exit : ExitCode]

NoExecution == [workflow |-> 0, status |-> "none", finished |-> FALSE]

ExecutionExists(e) == executions[e].status # "none"

ExecutionTypeOK ==
  /\ executions \in [Execution -> ExecutionRow]
  /\ stepExecs \in [Execution -> Seq(StepRow)]

FreshExecution(e) ==
  ~ExecutionExists(e) /\ \A d \in Execution : d < e => ExecutionExists(d)

\* ExecutionRepository.Create of a pending execution.
ExecutionCreate(out, e, w) ==
  executions' =
    IF Applied(out)
    THEN [executions EXCEPT ![e] = [workflow |-> w, status |-> "pending",
                                    finished |-> FALSE]]
    ELSE executions

\* ExecutionRepository.UpdateStatus: the status column, whatever it held.
ExecutionUpdateStatus(out, e, status) ==
  executions' = IF Applied(out)
                THEN [executions EXCEPT ![e].status = status]
                ELSE executions

\* ExecutionRepository.Update: status and finished_at from the caller's copy
\* of the row, whatever the columns held.
ExecutionUpdate(out, e, status, finished) ==
  executions' =
    IF Applied(out)
    THEN [executions EXCEPT ![e].status = status, ![e].finished = finished]
    ELSE executions

ExecutionsOf(w) == {e \in Execution : ExecutionExists(e)
                                      /\ executions[e].workflow = w}

\* ExecutionRepository.ListByWorkflow with the engine's options.
ExecutionList(w) == Newest(ExecutionsOf(w), ExecutionListLimit)

\* StepExecutionRepository.Create.
StepCreate(out, e, step, status) ==
  stepExecs' =
    IF Applied(out)
    THEN [stepExecs EXCEPT ![e] =
            Append(@, [step |-> step, status |-> status, exit |-> "null"])]
    ELSE stepExecs

\* Faulty variant: a limit on the rows.
FirstRowsOnly(e) ==
  IF Len(stepExecs[e]) > 2 THEN SubSeq(stepExecs[e], 1, 2) ELSE stepExecs[e]

\* StepExecutionRepository.ListByExecution: every row, in order of creation.
ListByExecution(e) == stepExecs[e]

\* The new contents of a row: exit_code only where one is given.
WithStatus(old, status, exit) ==
  [step |-> old.step, status |-> status,
   exit |-> IF exit = "null" THEN old.exit ELSE exit]

\* StepExecutionRepository.UpdateStatus.
StepUpdateStatus(out, e, r, status, exit) ==
  stepExecs' =
    IF Applied(out)
    THEN [stepExecs EXCEPT ![e][r] = WithStatus(@, status, exit)]
    ELSE stepExecs

=============================================================================
