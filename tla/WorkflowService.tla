-------------------------- MODULE WorkflowService ---------------------------
(***************************************************************************)
(* service/workflow_service.go.  Update, Activate and Archive read a row,   *)
(* check it, change the copy and write the whole copy back; the read and    *)
(* the write are separate statements, so handlers interleave between them.  *)
(* An editor is one handler goroutine serving such requests one by one;     *)
(* edit[c] is the copy it is about to write.  A rejected or failed read     *)
(* changes nothing and is left out.                                         *)
(***************************************************************************)
EXTENDS WorkflowRepo

CONSTANTS
  Editors,     \* concurrent handlers of workflow requests
  StepLists    \* step lists a request may carry

ASSUME StepListsAssumption == \A s \in StepLists : s \in Seq(StepNames)

VARIABLE edit

\* seen is a history field: the row as the handler read it.
Edit == [id : Workflow \cup {0}, row : WorkflowRow, seen : WorkflowRow]

NoEdit == [id |-> 0, row |-> NoWorkflow, seen |-> NoWorkflow]

editVars == <<workflows, edit, faults>>

EditTypeOK == WorkflowTypeOK /\ edit \in [Editors -> Edit]

EditInit == edit = [c \in Editors |-> NoEdit]

EditorIdle(c) == edit[c] = NoEdit

-----------------------------------------------------------------------------

\* Create: always a draft, possibly without steps.
CreateWorkflow(c, w, steps) ==
  /\ EditorIdle(c)
  /\ FreshWorkflow(w)
  /\ \E out \in Outcomes :
       /\ Statement(out, FALSE)
       /\ WorkflowWrite(out, w, [status |-> "draft", steps |-> steps])
  /\ UNCHANGED edit

\* The copy a handler holds once its checks have passed.
Hold(c, w, row) ==
  /\ EditorIdle(c)
  /\ WorkflowExists(w)
  /\ edit' = [edit EXCEPT ![c] = [id |-> w, row |-> row,
                                    seen |-> workflows[w]]]
  /\ UNCHANGED <<workflows, faults>>

\* Faulty variant: active workflows are not refused.
UpdateUnguarded(c, w, steps) ==
  Hold(c, w, [workflows[w] EXCEPT !.steps = IF steps # <<>> THEN steps ELSE @])

\* Update up to its write: any status but active; an empty list keeps the
\* stored steps.
UpdateWorkflow(c, w, steps) ==
  /\ workflows[w].status # "active"
  /\ Hold(c, w, [workflows[w] EXCEPT !.steps = IF steps # <<>> THEN steps
                                                               ELSE @])

\* Faulty variant: the check for steps is missing.
ActivateWithoutSteps(c, w) ==
  /\ TransitionWorkflow(workflows[w].status, "active")
  /\ Hold(c, w, [workflows[w] EXCEPT !.status = "active"])

\* Activate up to its write.
ActivateWorkflow(c, w) ==
  /\ workflows[w].steps # <<>>
  /\ TransitionWorkflow(workflows[w].status, "active")
  /\ Hold(c, w, [workflows[w] EXCEPT !.status = "active"])

\* Faulty variants: no check of the transition; a misspelled status.
ArchiveUnchecked(c, w) ==
  Hold(c, w, [workflows[w] EXCEPT !.status = "archived"])

ArchiveMisspelled(c, w) ==
  /\ TransitionWorkflow(workflows[w].status, "archived")
  /\ Hold(c, w, [workflows[w] EXCEPT !.status = "archive"])

\* Archive up to its write.
ArchiveWorkflow(c, w) ==
  /\ TransitionWorkflow(workflows[w].status, "archived")
  /\ Hold(c, w, [workflows[w] EXCEPT !.status = "archived"])

\* The repo.Update that ends Update, Activate and Archive: the row may have
\* changed since it was read.
WriteBack(c) ==
  /\ ~EditorIdle(c)
  /\ \E out \in Outcomes :
       /\ Statement(out, FALSE)
       /\ WorkflowWrite(out, edit[c].id, edit[c].row)
  /\ edit' = [edit EXCEPT ![c] = NoEdit]

StartEdit(c) ==
  \E w \in Workflow :
    \/ \E steps \in StepLists : CreateWorkflow(c, w, steps)
    \/ \E steps \in StepLists : UpdateWorkflow(c, w, steps)
    \/ ActivateWorkflow(c, w)
    \/ ArchiveWorkflow(c, w)

-----------------------------------------------------------------------------
(* The service on its own, on an empty table.                               *)

WorkflowServiceInit ==
  /\ workflows = [w \in Workflow |-> NoWorkflow]
  /\ faults = 0
  /\ EditInit

WorkflowServiceNext == \E c \in Editors : StartEdit(c) \/ WriteBack(c)

WorkflowServiceSpec ==
  WorkflowServiceInit /\ [][WorkflowServiceNext]_editVars

-----------------------------------------------------------------------------

\* Every stored row and every copy in flight has the shape of its table.
WorkflowServiceTypeOK == EditTypeOK

\* A workflow that is active has steps, whatever handlers raced on its row:
\* Activate checks the copy it writes, and it writes the whole copy.
ActiveHasSteps ==
  \A w \in Workflow : workflows[w].status = "active" => workflows[w].steps # <<>>

\* The copies in flight obey what ActiveHasSteps says of the stored rows; the
\* three together are inductive.
CopiesHaveSteps ==
  \A c \in Editors : edit[c].row.status = "active" => edit[c].row.steps # <<>>

StepsInv == EditTypeOK /\ ActiveHasSteps /\ CopiesHaveSteps

\* A change of a stored workflow that the domain allows: the status moves
\* along workflowTransitions, and an active workflow keeps its steps for as
\* long as it is active (what Update's refusal is for).
LegalChange(old, new) ==
  /\ \/ new.status = old.status
     \/ TransitionWorkflow(old.status, new.status)
  /\ old.status = "active" /\ new.status = "active" => new.steps = old.steps

\* What a handler is about to write is legal for the row it has read.
CopiesLegal == \A c \in Editors : LegalChange(edit[c].seen, edit[c].row)

LegalInv == EditTypeOK /\ CopiesLegal

\* No copy on its way to the table is stale.
CopiesFresh ==
  \A c \in Editors : edit[c].id # 0 => edit[c].seen = workflows[edit[c].id]

\* However requests race, the only illegal change of a workflow is the write
\* of a stale copy: a row that is still what its handler has read is changed
\* legally.  (With one editor no copy is ever stale.)
FreshWritesLegal ==
  [][\A w \in Workflow :
       WorkflowExists(w) /\ workflows'[w] # workflows[w] =>
         \E c \in Editors :
           /\ edit[c].id = w /\ edit'[c] = NoEdit
           /\ \/ edit[c].seen # workflows[w]
              \/ LegalChange(workflows[w], workflows'[w])]_editVars

\* A stored workflow changes status only along workflowTransitions.
WorkflowTransitions ==
  [][\A w \in Workflow :
       WorkflowExists(w) /\ workflows'[w].status # workflows[w].status
         => TransitionWorkflow(workflows[w].status, workflows'[w].status)]_editVars

=============================================================================
