--------------------------- MODULE ServiceProofs ----------------------------
(***************************************************************************)
(* Theorems of the workflow service on its own, and what the statements and *)
(* the handlers of both services do wherever they are used.                 *)
(***************************************************************************)
EXTENDS WorkflowService, ExecutionService, SequenceTheorems, TLAPS

\* A statement that stores a row keeps the shape of the table.
LEMMA WriteTypes ==
  ASSUME NEW w \in Workflow \cup {0}, NEW r \in WorkflowRow, NEW out,
         WorkflowTypeOK, Statement(out, FALSE), WorkflowWrite(out, w, r)
  PROVE  WorkflowTypeOK'
<1>1. workflows' = workflows \/ workflows' = [workflows EXCEPT ![w] = r]
  BY DEF WorkflowWrite
<1>2. workflows' \in [Workflow -> WorkflowRow]
  BY <1>1 DEF WorkflowTypeOK
<1>3. faults' \in 0..MaxFaults
  BY MaxFaultsAssumption DEF Statement, WorkflowTypeOK
<1> QED BY <1>2, <1>3 DEF WorkflowTypeOK

\* The statement a handler ends with stores the row or leaves the table alone.
LEMMA WriteStep ==
  ASSUME NEW w \in Workflow \cup {0}, NEW r \in WorkflowRow, NEW out,
         EditTypeOK, ActiveHasSteps,
         r.status = "active" => r.steps # <<>>,
         Statement(out, FALSE),
         WorkflowWrite(out, w, r)
  PROVE  WorkflowTypeOK' /\ ActiveHasSteps'
<1>1. workflows' = workflows \/ workflows' = [workflows EXCEPT ![w] = r]
  BY DEF WorkflowWrite
<1>2. WorkflowTypeOK'
  BY WriteTypes DEF EditTypeOK
<1>3. ASSUME NEW v \in Workflow, workflows'[v].status = "active"
      PROVE  workflows'[v].steps # <<>>
  BY <1>1, <1>3 DEF EditTypeOK, WorkflowTypeOK, ActiveHasSteps
<1> QED BY <1>2, <1>3 DEF ActiveHasSteps

\* A handler takes a copy of a row; the tables stay.
LEMMA HoldStep ==
  ASSUME NEW c \in Editors, NEW w \in Workflow, NEW r \in WorkflowRow,
         StepsInv, Hold(c, w, r),
         r.status = "active" => r.steps # <<>>
  PROVE  StepsInv'
BY DEF Hold, StepsInv, EditTypeOK, WorkflowTypeOK, Edit, ActiveHasSteps,
       CopiesHaveSteps

LEMMA StepsInit == WorkflowServiceInit => StepsInv
BY MaxFaultsAssumption
   DEF WorkflowServiceInit, EditInit, StepsInv, EditTypeOK, WorkflowTypeOK,
       ActiveHasSteps, CopiesHaveSteps, NoEdit, NoWorkflow, Edit, WorkflowRow

LEMMA StartEditStep ==
  ASSUME NEW c \in Editors, StepsInv, StartEdit(c)
  PROVE  StepsInv'
<1> USE DEF StepsInv
<1>1. PICK w \in Workflow :
        \/ \E steps \in StepLists : CreateWorkflow(c, w, steps)
        \/ \E steps \in StepLists : UpdateWorkflow(c, w, steps)
        \/ ActivateWorkflow(c, w)
        \/ ArchiveWorkflow(c, w)
  BY DEF StartEdit
<1>2. workflows[w] \in WorkflowRow
  BY DEF EditTypeOK, WorkflowTypeOK
<1>3. CASE \E steps \in StepLists : CreateWorkflow(c, w, steps)
  <2>1. PICK steps \in StepLists : CreateWorkflow(c, w, steps)
    BY <1>3
  <2>2. [status |-> "draft", steps |-> steps] \in WorkflowRow
    BY StepListsAssumption DEF WorkflowRow, WorkflowStatus
  <2>3. PICK out \in Outcomes :
          /\ Statement(out, FALSE)
          /\ WorkflowWrite(out, w, [status |-> "draft", steps |-> steps])
    BY <2>1 DEF CreateWorkflow
  <2>4. WorkflowTypeOK' /\ ActiveHasSteps'
    BY <2>2, <2>3, WriteStep
  <2> QED BY <2>1, <2>4 DEF CreateWorkflow, EditTypeOK, CopiesHaveSteps
<1>4. CASE \E steps \in StepLists : UpdateWorkflow(c, w, steps)
  <2>1. PICK steps \in StepLists : UpdateWorkflow(c, w, steps)
    BY <1>4
  <2> DEFINE r == [workflows[w] EXCEPT !.steps = IF steps # <<>> THEN steps ELSE @]
  <2>2. r \in WorkflowRow /\ r.status # "active"
    BY <1>2, <2>1, StepListsAssumption DEF WorkflowRow, UpdateWorkflow
  <2>3. Hold(c, w, r)
    BY <2>1 DEF UpdateWorkflow
  <2> HIDE DEF r
  <2> QED BY <2>2, <2>3, HoldStep
<1>5. CASE ActivateWorkflow(c, w)
  <2> DEFINE r == [workflows[w] EXCEPT !.status = "active"]
  <2>1. r \in WorkflowRow /\ r.steps # <<>>
    BY <1>2, <1>5 DEF WorkflowRow, WorkflowStatus, ActivateWorkflow
  <2>2. Hold(c, w, r)
    BY <1>5 DEF ActivateWorkflow
  <2> HIDE DEF r
  <2> QED BY <2>1, <2>2, HoldStep
<1>6. CASE ArchiveWorkflow(c, w)
  <2> DEFINE r == [workflows[w] EXCEPT !.status = "archived"]
  <2>1. r \in WorkflowRow /\ r.status # "active"
    BY <1>2 DEF WorkflowRow, WorkflowStatus
  <2>2. Hold(c, w, r)
    BY <1>6 DEF ArchiveWorkflow
  <2> HIDE DEF r
  <2> QED BY <2>1, <2>2, HoldStep
<1> QED BY <1>1, <1>3, <1>4, <1>5, <1>6

LEMMA WriteBackStep ==
  ASSUME NEW c \in Editors, StepsInv, WriteBack(c)
  PROVE  StepsInv'
<1>1. PICK out \in Outcomes :
        Statement(out, FALSE) /\ WorkflowWrite(out, edit[c].id, edit[c].row)
  BY DEF WriteBack
<1>2. /\ edit[c].id \in Workflow \cup {0}
      /\ edit[c].row \in WorkflowRow
      /\ edit[c].row.status = "active" => edit[c].row.steps # <<>>
  BY DEF StepsInv, EditTypeOK, Edit, CopiesHaveSteps
<1>3. WorkflowTypeOK' /\ ActiveHasSteps'
  BY <1>1, <1>2, WriteStep DEF StepsInv
<1>4. edit' = [edit EXCEPT ![c] = NoEdit] /\ NoEdit \in Edit
  BY DEF WriteBack, NoEdit, NoWorkflow, Edit, WorkflowRow
<1> QED
  BY <1>3, <1>4 DEF StepsInv, EditTypeOK, CopiesHaveSteps, NoEdit, NoWorkflow

LEMMA StepsStep == StepsInv /\ [WorkflowServiceNext]_editVars => StepsInv'
<1> SUFFICES ASSUME StepsInv, [WorkflowServiceNext]_editVars PROVE StepsInv'
  OBVIOUS
<1>1. CASE WorkflowServiceNext
  BY <1>1, StartEditStep, WriteBackStep DEF WorkflowServiceNext
<1>2. CASE UNCHANGED editVars
  BY <1>2 DEF editVars, StepsInv, EditTypeOK, WorkflowTypeOK, ActiveHasSteps,
              CopiesHaveSteps
<1> QED BY <1>1, <1>2

-----------------------------------------------------------------------------

\* Rows and copies keep their shape, for any number of handlers and rows.
THEOREM WorkflowServiceTypeCorrect ==
  WorkflowServiceSpec => []WorkflowServiceTypeOK
<1>1. StepsInv => WorkflowServiceTypeOK
  BY DEF StepsInv, WorkflowServiceTypeOK
<1> QED BY StepsInit, StepsStep, <1>1, PTL DEF WorkflowServiceSpec

\* Activate checks the copy it writes: no interleaving of handlers, however
\* stale their copies, leaves an active workflow without steps.
THEOREM ActiveAlwaysHasSteps == WorkflowServiceSpec => []ActiveHasSteps
<1>1. StepsInv => ActiveHasSteps
  BY DEF StepsInv
<1> QED BY StepsInit, StepsStep, <1>1, PTL DEF WorkflowServiceSpec

-----------------------------------------------------------------------------
(* The copies that handlers hold                                             *)

\* A handler takes a copy that is legal for the row it has read.
LEMMA HoldLegal ==
  ASSUME NEW c \in Editors, NEW w \in Workflow, NEW r \in WorkflowRow,
         LegalInv, Hold(c, w, r), LegalChange(workflows[w], r)
  PROVE  LegalInv'
BY DEF Hold, LegalInv, EditTypeOK, WorkflowTypeOK, Edit, CopiesLegal

LEMMA LegalInit == WorkflowServiceInit => LegalInv
BY MaxFaultsAssumption
   DEF WorkflowServiceInit, EditInit, LegalInv, EditTypeOK, WorkflowTypeOK,
       CopiesLegal, LegalChange, NoEdit, NoWorkflow, Edit, WorkflowRow

\* A handler starts: Create writes a row and holds none, the other requests
\* check the row they have read before they change the copy.
LEMMA StartEditLegal ==
  ASSUME NEW c \in Editors, LegalInv, StartEdit(c)
  PROVE  LegalInv'
<1> USE DEF LegalInv
<1>1. PICK w \in Workflow :
        \/ \E steps \in StepLists : CreateWorkflow(c, w, steps)
        \/ \E steps \in StepLists : UpdateWorkflow(c, w, steps)
        \/ ActivateWorkflow(c, w)
        \/ ArchiveWorkflow(c, w)
  BY DEF StartEdit
<1>2. workflows[w] \in WorkflowRow
  BY DEF EditTypeOK, WorkflowTypeOK
<1>3. CASE \E steps \in StepLists : CreateWorkflow(c, w, steps)
  <2>1. PICK steps \in StepLists : CreateWorkflow(c, w, steps)
    BY <1>3
  <2>2. [status |-> "draft", steps |-> steps] \in WorkflowRow
    BY StepListsAssumption DEF WorkflowRow, WorkflowStatus
  <2> DEFINE r == [status |-> "draft", steps |-> steps]
  <2>3. PICK out \in Outcomes :
          Statement(out, FALSE) /\ WorkflowWrite(out, w, r)
    BY <2>1 DEF CreateWorkflow
  <2> HIDE DEF r
  <2>4. r \in WorkflowRow
    BY <2>2 DEF r
  <2>5. WorkflowTypeOK'
    BY <2>3, <2>4, WriteTypes DEF EditTypeOK
  <2> QED BY <2>1, <2>5 DEF CreateWorkflow, EditTypeOK, CopiesLegal
<1>4. CASE \E steps \in StepLists : UpdateWorkflow(c, w, steps)
  <2>1. PICK steps \in StepLists : UpdateWorkflow(c, w, steps)
    BY <1>4
  <2> DEFINE r == [workflows[w] EXCEPT !.steps = IF steps # <<>> THEN steps ELSE @]
  <2>2. r \in WorkflowRow /\ LegalChange(workflows[w], r)
    BY <1>2, <2>1, StepListsAssumption
       DEF WorkflowRow, UpdateWorkflow, LegalChange
  <2>3. Hold(c, w, r)
    BY <2>1 DEF UpdateWorkflow
  <2> HIDE DEF r
  <2> QED BY <2>2, <2>3, HoldLegal
<1>5. CASE ActivateWorkflow(c, w)
  <2> DEFINE r == [workflows[w] EXCEPT !.status = "active"]
  <2>1. r \in WorkflowRow /\ LegalChange(workflows[w], r)
    BY <1>2, <1>5 DEF WorkflowRow, WorkflowStatus, ActivateWorkflow, LegalChange
  <2>2. Hold(c, w, r)
    BY <1>5 DEF ActivateWorkflow
  <2> HIDE DEF r
  <2> QED BY <2>1, <2>2, HoldLegal
<1>6. CASE ArchiveWorkflow(c, w)
  <2> DEFINE r == [workflows[w] EXCEPT !.status = "archived"]
  <2>1. r \in WorkflowRow /\ LegalChange(workflows[w], r)
    BY <1>2, <1>6 DEF WorkflowRow, WorkflowStatus, ArchiveWorkflow, LegalChange
  <2>2. Hold(c, w, r)
    BY <1>6 DEF ArchiveWorkflow
  <2> HIDE DEF r
  <2> QED BY <2>1, <2>2, HoldLegal
<1> QED BY <1>1, <1>3, <1>4, <1>5, <1>6

LEMMA WriteBackLegal ==
  ASSUME NEW c \in Editors, LegalInv, WriteBack(c)
  PROVE  LegalInv'
<1>1. edit[c].row \in WorkflowRow /\ edit[c].id \in Workflow \cup {0}
  BY DEF LegalInv, EditTypeOK, Edit
<1>2. WorkflowTypeOK'
  BY <1>1, WriteTypes DEF WriteBack, LegalInv, EditTypeOK
<1>3. /\ edit' = [edit EXCEPT ![c] = NoEdit]
      /\ NoEdit \in Edit /\ LegalChange(NoEdit.seen, NoEdit.row)
  BY DEF WriteBack, NoEdit, NoWorkflow, Edit, WorkflowRow, LegalChange
<1> QED BY <1>2, <1>3 DEF LegalInv, EditTypeOK, CopiesLegal

LEMMA LegalStep == LegalInv /\ [WorkflowServiceNext]_editVars => LegalInv'
<1> SUFFICES ASSUME LegalInv, [WorkflowServiceNext]_editVars PROVE LegalInv'
  OBVIOUS
<1>1. CASE WorkflowServiceNext
  BY <1>1, StartEditLegal, WriteBackLegal DEF WorkflowServiceNext
<1>2. CASE UNCHANGED editVars
  BY <1>2 DEF editVars, LegalInv, EditTypeOK, WorkflowTypeOK, CopiesLegal
<1> QED BY <1>1, <1>2

\* A stored row is changed by a handler's last statement alone.
LEMMA ChangedByWriteBack ==
  ASSUME NEW w \in Workflow, LegalInv, [WorkflowServiceNext]_editVars,
         WorkflowExists(w), workflows'[w] # workflows[w]
  PROVE  \E c \in Editors :
           /\ edit[c].id = w /\ edit'[c] = NoEdit
           /\ workflows'[w] = edit[c].row
<1>1. WorkflowServiceNext
  BY DEF editVars
<1>2. PICK c \in Editors : StartEdit(c) \/ WriteBack(c)
  BY <1>1 DEF WorkflowServiceNext
<1>3. ~StartEdit(c)
  <2> SUFFICES ASSUME StartEdit(c) PROVE FALSE
    OBVIOUS
  <2>1. PICK v \in Workflow :
          \/ \E steps \in StepLists : CreateWorkflow(c, v, steps)
          \/ workflows' = workflows
    BY DEF StartEdit, UpdateWorkflow, ActivateWorkflow, ArchiveWorkflow, Hold
  <2>2. CASE \E steps \in StepLists : CreateWorkflow(c, v, steps)
    BY <2>2 DEF CreateWorkflow, FreshWorkflow, WorkflowWrite, LegalInv,
                EditTypeOK, WorkflowTypeOK
  <2> QED BY <2>1, <2>2
<1>4. WriteBack(c)
  BY <1>2, <1>3
<1>5. PICK out \in Outcomes : WorkflowWrite(out, edit[c].id, edit[c].row)
  BY <1>4 DEF WriteBack
<1>6. edit[c].id = w /\ workflows'[w] = edit[c].row
  BY <1>5 DEF WorkflowWrite, LegalInv, EditTypeOK, WorkflowTypeOK
<1>7. edit'[c] = NoEdit
  BY <1>4 DEF WriteBack, LegalInv, EditTypeOK
<1> QED BY <1>6, <1>7

\* For any number of handlers: a handler whose copy is not stale changes the
\* row only as the domain allows.
THEOREM OnlyStaleCopiesBreakRules == WorkflowServiceSpec => FreshWritesLegal
<1>1. LegalInv /\ [WorkflowServiceNext]_editVars =>
        \A w \in Workflow :
          WorkflowExists(w) /\ workflows'[w] # workflows[w] =>
            \E c \in Editors :
              /\ edit[c].id = w /\ edit'[c] = NoEdit
              /\ \/ edit[c].seen # workflows[w]
                 \/ LegalChange(workflows[w], workflows'[w])
  BY ChangedByWriteBack DEF LegalInv, CopiesLegal
<1> QED
  BY LegalInit, LegalStep, <1>1, PTL DEF WorkflowServiceSpec, FreshWritesLegal

-----------------------------------------------------------------------------
(* One handler at a time                                                     *)

LEMMA FreshInit == WorkflowServiceInit => CopiesFresh
BY DEF WorkflowServiceInit, EditInit, NoEdit, CopiesFresh

\* Nobody writes between the read and the write of the only handler.
LEMMA FreshStep ==
  ASSUME \A c, d \in Editors : c = d,
         LegalInv, CopiesFresh, [WorkflowServiceNext]_editVars
  PROVE  CopiesFresh'
<1>1. CASE UNCHANGED editVars
  BY <1>1 DEF editVars, CopiesFresh
<1>2. ASSUME NEW c \in Editors, NEW w \in Workflow,
             NEW steps \in StepLists, CreateWorkflow(c, w, steps)
      PROVE  CopiesFresh'
  <2>1. edit' = edit /\ edit[c].id = 0
    BY <1>2 DEF CreateWorkflow, EditorIdle, NoEdit
  <2> QED BY <2>1 DEF CopiesFresh
<1>3. ASSUME NEW c \in Editors, NEW w \in Workflow, NEW r, Hold(c, w, r)
      PROVE  CopiesFresh'
  BY <1>3 DEF Hold, CopiesFresh, LegalInv, EditTypeOK
<1>4. ASSUME NEW c \in Editors, WriteBack(c)
      PROVE  CopiesFresh'
  BY <1>4 DEF WriteBack, CopiesFresh, LegalInv, EditTypeOK, NoEdit
<1>5. CASE WorkflowServiceNext
  BY <1>2, <1>3, <1>4, <1>5
     DEF WorkflowServiceNext, StartEdit, UpdateWorkflow, ActivateWorkflow,
         ArchiveWorkflow
<1> QED BY <1>1, <1>5

\* A single handler never breaks the workflow lifecycle: what the run
\* workflow_lost_update shows takes two of them.
THEOREM OneEditorKeepsLifecycle ==
  ASSUME \A c, d \in Editors : c = d
  PROVE  WorkflowServiceSpec => WorkflowTransitions
<1> DEFINE Inv == LegalInv /\ CopiesFresh
<1>1. WorkflowServiceInit => Inv
  BY LegalInit, FreshInit
<1>2. Inv /\ [WorkflowServiceNext]_editVars => Inv'
  BY LegalStep, FreshStep
<1>3. Inv /\ [WorkflowServiceNext]_editVars =>
        \A w \in Workflow :
          WorkflowExists(w) /\ workflows'[w].status # workflows[w].status
            => TransitionWorkflow(workflows[w].status, workflows'[w].status)
  <2> SUFFICES ASSUME Inv, [WorkflowServiceNext]_editVars, NEW w \in Workflow,
                      WorkflowExists(w),
                      workflows'[w].status # workflows[w].status
               PROVE  TransitionWorkflow(workflows[w].status,
                                         workflows'[w].status)
    OBVIOUS
  <2>1. PICK c \in Editors : edit[c].id = w /\ workflows'[w] = edit[c].row
    BY ChangedByWriteBack
  <2>2. edit[c].seen = workflows[w]
    BY <2>1 DEF CopiesFresh, Workflow
  <2>3. LegalChange(workflows[w], workflows'[w])
    BY <2>1, <2>2 DEF LegalInv, CopiesLegal
  <2> QED BY <2>3 DEF LegalChange
<1> HIDE DEF Inv
<1> QED
  BY <1>1, <1>2, <1>3, PTL DEF WorkflowServiceSpec, WorkflowTransitions

-----------------------------------------------------------------------------
(* What the statements on the tables do                                      *)

LEMMA StatementFaults ==
  ASSUME NEW out, NEW done, faults \in 0..MaxFaults, Statement(out, done)
  PROVE  faults' \in 0..MaxFaults
BY MaxFaultsAssumption DEF Statement

LEMMA QueryFaults ==
  ASSUME NEW out, NEW done, faults \in 0..MaxFaults, Query(out, done)
  PROVE  faults' \in 0..MaxFaults
BY StatementFaults DEF Query

LEMMA WorkflowWriteType ==
  ASSUME NEW out, NEW w, NEW r \in WorkflowRow,
         workflows \in [Workflow -> WorkflowRow],
         WorkflowWrite(out, w, r)
  PROVE  workflows' \in [Workflow -> WorkflowRow]
BY DEF WorkflowWrite

LEMMA ExecutionCreateType ==
  ASSUME NEW out, NEW e, NEW w \in Workflow \cup {0},
         executions \in [Execution -> ExecutionRow],
         ExecutionCreate(out, e, w)
  PROVE  executions' \in [Execution -> ExecutionRow]
<1>1. [workflow |-> w, status |-> "pending", finished |-> FALSE] \in ExecutionRow
  BY DEF ExecutionRow, ExecutionStatus
<1> QED BY <1>1 DEF ExecutionCreate

LEMMA ExecutionUpdateType ==
  ASSUME NEW out, NEW e, NEW s \in ExecutionStatus, NEW f \in BOOLEAN,
         executions \in [Execution -> ExecutionRow],
         ExecutionUpdate(out, e, s, f)
  PROVE  executions' \in [Execution -> ExecutionRow]
<1>1. \A r \in ExecutionRow :
        [[r EXCEPT !.status = s] EXCEPT !.finished = f] \in ExecutionRow
  BY DEF ExecutionRow
<1> QED BY <1>1 DEF ExecutionUpdate

LEMMA ExecutionUpdateStatusType ==
  ASSUME NEW out, NEW e, NEW s \in ExecutionStatus,
         executions \in [Execution -> ExecutionRow],
         ExecutionUpdateStatus(out, e, s)
  PROVE  executions' \in [Execution -> ExecutionRow]
<1>1. \A r \in ExecutionRow : [r EXCEPT !.status = s] \in ExecutionRow
  BY DEF ExecutionRow
<1> QED BY <1>1 DEF ExecutionUpdateStatus

LEMMA StepCreateType ==
  ASSUME NEW out, NEW e, NEW n \in StepNames, NEW s \in StepExecutionStatus,
         stepExecs \in [Execution -> Seq(StepRow)],
         StepCreate(out, e, n, s)
  PROVE  stepExecs' \in [Execution -> Seq(StepRow)]
<1> DEFINE r == [step |-> n, status |-> s, exit |-> "null"]
<1>1. r \in StepRow
  BY DEF StepRow, ExitCode
<1>2. stepExecs' = stepExecs
      \/ stepExecs' = [stepExecs EXCEPT ![e] = Append(stepExecs[e], r)]
  BY DEF StepCreate
<1> HIDE DEF r
<1>3. ASSUME NEW d \in Execution
      PROVE  Append(stepExecs[d], r) \in Seq(StepRow)
  BY <1>1
<1> QED BY <1>2, <1>3

LEMMA SeqExcept ==
  ASSUME NEW S, NEW q \in Seq(S), NEW r, NEW x, r \in 1..Len(q) => x \in S
  PROVE  [q EXCEPT ![r] = x] \in Seq(S)
<1> DEFINE p == [q EXCEPT ![r] = x]
<1>1. Len(q) \in Nat /\ DOMAIN q = 1..Len(q) /\ \A i \in 1..Len(q) : q[i] \in S
  OBVIOUS
<1>2. p \in [1..Len(q) -> S]
  BY <1>1
<1> HIDE DEF p
<1>3. p \in Seq(S)
  BY <1>1, <1>2, SeqDef, Zenon
<1> QED BY <1>3 DEF p

LEMMA StepUpdateStatusType ==
  ASSUME NEW out, NEW e, NEW r, NEW s \in StepExecutionStatus,
         NEW x \in ExitCode,
         stepExecs \in [Execution -> Seq(StepRow)],
         StepUpdateStatus(out, e, r, s, x)
  PROVE  stepExecs' \in [Execution -> Seq(StepRow)]
<1>1. \A t \in StepRow : WithStatus(t, s, x) \in StepRow
  BY DEF StepRow, WithStatus
<1>2. ASSUME NEW d \in Execution
      PROVE  [stepExecs[d] EXCEPT ![r] = WithStatus(@, s, x)] \in Seq(StepRow)
  <2>1. stepExecs[d] \in Seq(StepRow)
    OBVIOUS
  <2>2. r \in 1..Len(stepExecs[d]) =>
          WithStatus(stepExecs[d][r], s, x) \in StepRow
    BY <1>1, <2>1
  <2> QED BY <2>1, <2>2, SeqExcept
<1>3. stepExecs' = stepExecs \/
      stepExecs' = [stepExecs EXCEPT ![e] =
                     [stepExecs[e] EXCEPT ![r] = WithStatus(@, s, x)]]
  BY DEF StepUpdateStatus
<1> QED BY <1>2, <1>3

-----------------------------------------------------------------------------
(* The handlers of the execution service                                      *)

\* Whoever fails statements and leaves the workflow service alone keeps its
\* part of the invariant.
LEMMA WorkflowFrame ==
  ASSUME StepsInv, faults' \in 0..MaxFaults, UNCHANGED <<workflows, edit>>
  PROVE  StepsInv' /\ EditTypeOK'
BY DEF StepsInv, EditTypeOK, WorkflowTypeOK, ActiveHasSteps, CopiesHaveSteps

LEMMA RecordTypes ==
  /\ NoTrigger \in Trigger
  /\ NoRead \in Read
  /\ \A t \in Trigger, e \in Execution :
       [t EXCEPT !.at = "rows", !.execution = e] \in Trigger
  /\ \A t \in Trigger, s \in Seq(StepNames) :
       [t EXCEPT !.steps = s] \in Trigger
  /\ \A r \in Read, s \in Seq(StepRow) :
       [r EXCEPT !.at = "reply", !.rows = s] \in Read
<1>1. NoTrigger \in Trigger
  BY DEF NoTrigger, Trigger
<1>2. NoRead \in Read
  BY DEF NoRead, Read
<1>3. \A t \in Trigger, e \in Execution :
        [t EXCEPT !.at = "rows", !.execution = e] \in Trigger
  BY DEF Trigger
<1>4. \A t \in Trigger, s \in Seq(StepNames) : [t EXCEPT !.steps = s] \in Trigger
  BY DEF Trigger
<1>5. \A r \in Read, s \in Seq(StepRow) :
        [r EXCEPT !.at = "reply", !.rows = s] \in Read
  BY DEF Read
<1> QED BY <1>1, <1>2, <1>3, <1>4, <1>5

\* The handlers of the execution service keep the shape of the tables and of
\* their own state.
LEMMA TypeService ==
  ASSUME WorkflowTypeOK, ExecutionTypeOK, ServiceTypeOK,
         StartRequest \/ ContinueRequest
  PROVE  /\ faults' \in 0..MaxFaults
         /\ ExecutionTypeOK' /\ ServiceTypeOK'
<1> USE DEF ExecutionTypeOK, ServiceTypeOK
<1>0. faults \in 0..MaxFaults /\ workflows \in [Workflow -> WorkflowRow]
  BY DEF WorkflowTypeOK
<1>1. ASSUME NEW c \in Triggerers, NEW w \in Workflow, TriggerRead(c, w)
      PROVE  /\ faults' \in 0..MaxFaults
             /\ ExecutionTypeOK' /\ ServiceTypeOK'
  <2>1. [at |-> "insert", workflow |-> w, execution |-> 0,
         steps |-> workflows[w].steps] \in Trigger
    BY <1>0 DEF Trigger, WorkflowRow
  <2> QED BY <1>0, <1>1, <2>1 DEF TriggerRead
<1>2. ASSUME NEW c \in Triggerers, NEW e \in Execution, TriggerInsert(c, e)
      PROVE  /\ faults' \in 0..MaxFaults
             /\ ExecutionTypeOK' /\ ServiceTypeOK'
  <2>1. PICK out \in Outcomes :
          /\ Statement(out, FALSE)
          /\ ExecutionCreate(out, e, triggers[c].workflow)
          /\ triggers' = [triggers EXCEPT ![c] =
               IF out = "ok" /\ @.steps # <<>>
               THEN [@ EXCEPT !.at = "rows", !.execution = e]
               ELSE NoTrigger]
    BY <1>2 DEF TriggerInsert
  <2>2. triggers[c] \in Trigger
    OBVIOUS
  <2>3. executions' \in [Execution -> ExecutionRow]
    BY <2>1, <2>2, ExecutionCreateType DEF Trigger
  <2>4. [triggers[c] EXCEPT !.at = "rows", !.execution = e] \in Trigger
    BY <2>2, RecordTypes
  <2>5. triggers' \in [Triggerers -> Trigger]
    BY <2>1, <2>4, RecordTypes
  <2> QED BY <1>0, <1>2, <2>1, <2>3, <2>5, StatementFaults DEF TriggerInsert
<1>3. ASSUME NEW c \in Triggerers, TriggerRow(c)
      PROVE  /\ faults' \in 0..MaxFaults
             /\ ExecutionTypeOK' /\ ServiceTypeOK'
  <2>1. PICK out \in Outcomes :
          /\ Statement(out, FALSE)
          /\ StepCreate(out, triggers[c].execution, Head(triggers[c].steps),
                        "pending")
          /\ triggers' = [triggers EXCEPT ![c] =
               IF out = "ok" /\ Len(@.steps) > 1
               THEN [@ EXCEPT !.steps = Tail(triggers[c].steps)]
               ELSE NoTrigger]
    BY <1>3 DEF TriggerRow
  <2>2. triggers[c] \in Trigger /\ triggers[c].steps # <<>>
    BY <1>3 DEF TriggerRow
  <2>3. /\ triggers[c].steps \in Seq(StepNames)
        /\ Head(triggers[c].steps) \in StepNames
        /\ Tail(triggers[c].steps) \in Seq(StepNames)
    BY <2>2 DEF Trigger
  <2>4. stepExecs' \in [Execution -> Seq(StepRow)]
    BY <2>1, <2>3, StepCreateType DEF StepExecutionStatus
  <2> DEFINE t == IF out = "ok" /\ Len(triggers[c].steps) > 1
                  THEN [triggers[c] EXCEPT !.steps = Tail(triggers[c].steps)]
                  ELSE NoTrigger
  <2>5. t \in Trigger
    <3>1. [triggers[c] EXCEPT !.steps = Tail(triggers[c].steps)] \in Trigger
      BY <2>2, <2>3, RecordTypes, Zenon
    <3> QED BY <3>1, RecordTypes
  <2>6. triggers' \in [Triggerers -> Trigger]
    <3>1. triggers' = [triggers EXCEPT ![c] = t]
      BY <2>1
    <3> HIDE DEF t
    <3> QED BY <2>5, <3>1
  <2> QED BY <1>0, <1>3, <2>1, <2>4, <2>6, StatementFaults DEF TriggerRow
<1>4. ASSUME NEW c \in Cancelers, NEW e \in Execution, CancelRead(c, e)
      PROVE  /\ faults' \in 0..MaxFaults
             /\ ExecutionTypeOK' /\ ServiceTypeOK'
  BY <1>0, <1>4 DEF CancelRead
<1>5. ASSUME NEW c \in Cancelers, CancelWrite(c)
      PROVE  /\ faults' \in 0..MaxFaults
             /\ ExecutionTypeOK' /\ ServiceTypeOK'
  <2>1. executions' \in [Execution -> ExecutionRow]
    BY <1>5, ExecutionUpdateStatusType DEF CancelWrite, ExecutionStatus
  <2> QED BY <1>0, <1>5, <2>1, StatementFaults DEF CancelWrite
<1>6. ASSUME NEW c \in Readers, NEW e \in Execution, GetRead(c, e)
      PROVE  /\ faults' \in 0..MaxFaults
             /\ ExecutionTypeOK' /\ ServiceTypeOK'
  <2>1. [at |-> "steps", id |-> e, status |-> executions[e].status,
         rows |-> <<>>] \in Read
    BY DEF Read, ExecutionRow
  <2> QED BY <1>0, <1>6, <2>1 DEF GetRead
<1>7. ASSUME NEW c \in Readers, GetSteps(c)
      PROVE  /\ faults' \in 0..MaxFaults
             /\ ExecutionTypeOK' /\ ServiceTypeOK'
  <2>1. PICK out \in Outcomes :
          /\ Query(out, FALSE)
          /\ reads' = [reads EXCEPT ![c] =
               IF out = "ok"
               THEN [@ EXCEPT !.at = "reply",
                              !.rows = ListByExecution(reads[c].id)]
               ELSE NoRead]
    BY <1>7 DEF GetSteps
  <2>2. reads[c] \in Read /\ stepExecs[reads[c].id] \in Seq(StepRow)
    BY <1>7 DEF GetSteps
  <2>3. [reads[c] EXCEPT !.at = "reply", !.rows = ListByExecution(reads[c].id)]
          \in Read
    BY <2>2, RecordTypes DEF ListByExecution
  <2>4. reads' \in [Readers -> Read]
    BY <2>1, <2>3, RecordTypes
  <2>5. \A d \in Readers : reads'[d].at # "idle" => reads'[d].id \in Execution
    BY <1>7, <2>1 DEF GetSteps, NoRead, Read
  <2> QED BY <1>0, <1>7, <2>1, <2>4, <2>5, QueryFaults DEF GetSteps
<1>8. ASSUME NEW c \in Readers, GetReply(c)
      PROVE  /\ faults' \in 0..MaxFaults
             /\ ExecutionTypeOK' /\ ServiceTypeOK'
  BY <1>0, <1>8 DEF GetReply, NoRead, Read
<1> QED
  BY <1>1, <1>2, <1>3, <1>4, <1>5, <1>6, <1>7, <1>8
     DEF StartRequest, ContinueRequest

=============================================================================
