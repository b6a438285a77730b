------------------------- MODULE OutlineGeneration --------------------------
(***************************************************************************)
(* Writing a volume outline (shared/outlineGeneration and                  *)
(* main/tasks/outlineGenerationTask.ts) while the author edits it.         *)
(*                                                                         *)
(* A task reads the outline and its sources, compiles a prompt, asks the   *)
(* model and replaces the text of the outline by the answer.  It awaits    *)
(* between these steps, can be cancelled, and is resumed from its          *)
(* checkpoint after a crash.  What a task may write over is the snapshot   *)
(* in its checkpoint: the versions and texts it read.  Leases and the      *)
(* choice of the tasks to resume are TaskManager's.                        *)
(***************************************************************************)
EXTENDS Naturals

CONSTANTS
  Drafter,      \* the outline tasks, all of one outline
  Author,       \* the user, as the origin of a text
  MaxRevisions, \* bound: the versions of the outline
  MaxResumes    \* bound: the crashes

ASSUME OutlineAssumption ==
  /\ MaxRevisions \in Nat \ {0} /\ MaxResumes \in Nat /\ Author \notin Drafter

VARIABLES
  outline,   \* the row: status, version, whose text it holds, metadata task id
  facts,     \* the rest of a snapshot: project, volume, memories, chapters, ...
  draft,     \* each task: where its runner is, and the snapshot it holds there
  saved,     \* each task's checkpoint
  resumes,   \* how many crashes there were
  asked      \* (history) the snapshot of the prompt each task sent last

outlineVars == <<outline, facts, draft, saved, resumes, asked>>

Read == [version : 1..MaxRevisions, facts : BOOLEAN]
NothingRead == [version |-> 0, facts |-> FALSE]
Unsaved == [stage |-> "none", source |-> NothingRead, version |-> 0]

OutlineInit ==
  /\ outline = [status |-> "draft", version |-> 1, text |-> Author, task |-> Author]
  /\ facts = FALSE
  /\ draft = [t \in Drafter |-> [at |-> "queued", source |-> NothingRead]]
  /\ saved = [t \in Drafter |-> Unsaved]
  /\ resumes = 0
  /\ asked = [t \in Drafter |-> NothingRead]

-----------------------------------------------------------------------------
(* Reading the sources.                                                    *)

\* The outline is the one the task wrote, as its checkpoint says.
StillApplied(t) ==
  /\ saved[t].stage = "applied"
  /\ outline.version = saved[t].version /\ outline.task = t /\ outline.text = t

\* load: only a draft is ever read.
Readable == outline.status = "draft"

\* preparationSource: the snapshot of now, taken back behind the task's own
\* write when it has been applied.
Sources(t) ==
  [version |-> IF StillApplied(t) THEN saved[t].source.version ELSE outline.version,
   facts |-> facts]

\* preparationSource accepts the sources as they are.
SourcesAgree(t) ==
  /\ Readable
  /\ saved[t].stage = "applied" => StillApplied(t)
  /\ saved[t].stage # "none" => saved[t].source = Sources(t)

\* The second look after the compilation was awaited (assertCurrent).
StillTheSame(t) == SourcesAgree(t) /\ Sources(t) = draft[t].source

-----------------------------------------------------------------------------
(* The runner.                                                             *)

DraftGoes(t, at, source) == draft' = [draft EXCEPT ![t] = [at |-> at, source |-> source]]
DraftEnds(t, how) == DraftGoes(t, how, NothingRead)
Save(t, checkpoint) == saved' = [saved EXCEPT ![t] = checkpoint]

At(t, at) == draft[t].at = at

\* A step that finds the boundary crossed: NonRecoverableTaskError.
Refuses(t) == DraftEnds(t, "failed") /\ UNCHANGED <<saved, asked>>

\* execute up to the first await of prepareAsync.
Prepare(t) ==
  /\ At(t, "queued")
  /\ IF SourcesAgree(t)
     THEN DraftGoes(t, "compiling", Sources(t)) /\ UNCHANGED <<saved, asked>>
     ELSE Refuses(t)
  /\ UNCHANGED <<outline, facts, resumes>>

\* The context is compiled: the checkpoint is saved and the next stage begins
\* where the checkpoint says.
ContextCompiled(t) ==
  /\ At(t, "compiling")
  /\ IF ~StillTheSame(t) THEN Refuses(t)
     ELSE LET stage == saved[t].stage IN
          /\ Save(t, IF stage = "none"
                     THEN [stage |-> "prepared", source |-> draft[t].source, version |-> 0]
                     ELSE saved[t])
          /\ CASE stage = "applied" -> DraftGoes(t, "finishing", NothingRead)
               [] stage = "ready" -> DraftGoes(t, "validating", Sources(t))
               [] OTHER -> DraftGoes(t, "starting", draft[t].source)
          /\ UNCHANGED asked
  /\ UNCHANGED <<outline, facts, resumes>>

\* ContextBudgetExceededError: failedBudgetCheckpoint, and no recovery.
OverBudget(t) ==
  /\ At(t, "compiling") /\ saved[t].stage = "none"
  /\ IF StillTheSame(t)
     THEN Save(t, [stage |-> "prepared", source |-> draft[t].source, version |-> 0])
     ELSE UNCHANGED saved
  /\ DraftEnds(t, "failed")
  /\ UNCHANGED <<outline, facts, resumes, asked>>

\* The agent is created: the stage is saved before the model is asked.
AskModel(t) ==
  /\ At(t, "starting")
  /\ Save(t, [saved[t] EXCEPT !.stage = "model"])
  /\ asked' = [asked EXCEPT ![t] = draft[t].source]
  /\ DraftGoes(t, "asking", NothingRead)
  /\ UNCHANGED <<outline, facts, resumes>>

\* The model answers: the proposal is saved and validateApplyAsync begins.  An
\* answer that is no proposal, or an error, ends the execution.
ModelAnswers(t) ==
  /\ At(t, "asking")
  /\ \/ /\ Save(t, [saved[t] EXCEPT !.stage = "ready"])
        /\ IF Readable /\ saved[t].source = Sources(t)
           THEN DraftGoes(t, "validating", Sources(t))
           ELSE DraftEnds(t, "failed")
     \/ DraftEnds(t, "failed") /\ UNCHANGED saved
  /\ UNCHANGED <<outline, facts, resumes, asked>>

\* The validation ends, and setImmediate gives the user a turn.
Validated(t) ==
  /\ At(t, "validating")
  /\ IF StillTheSame(t)
     THEN DraftGoes(t, "applying", NothingRead) /\ UNCHANGED <<saved, asked>>
     ELSE Refuses(t)
  /\ UNCHANGED <<outline, facts, resumes>>

\* Without the look at the sources inside the transaction.
ApplyProposal_Unfenced(t) ==
  /\ At(t, "applying")
  /\ outline.version < MaxRevisions
  /\ outline' = [outline EXCEPT !.version = @ + 1, !.text = t, !.task = t]
  /\ Save(t, [saved[t] EXCEPT !.stage = "applied", !.version = outline.version + 1])
  /\ DraftGoes(t, "finishing", NothingRead)
  /\ UNCHANGED <<facts, resumes, asked>>

\* runOwnedSideEffect: apply and the checkpoint, in one transaction.
ApplyProposal(t) ==
  /\ At(t, "applying")
  /\ IF Readable /\ saved[t].source = Sources(t)
     THEN /\ outline.version < MaxRevisions
          /\ outline' = [outline EXCEPT !.version = @ + 1, !.text = t, !.task = t]
          /\ Save(t, [saved[t] EXCEPT !.stage = "applied", !.version = outline.version + 1])
          /\ DraftGoes(t, "finishing", NothingRead)
          /\ UNCHANGED asked
     ELSE Refuses(t) /\ UNCHANGED outline
  /\ UNCHANGED <<facts, resumes>>

ReportOutline(t) ==
  /\ At(t, "finishing") /\ DraftEnds(t, "completed")
  /\ UNCHANGED <<outline, facts, saved, resumes, asked>>

-----------------------------------------------------------------------------
(* The user, and the program's end.                                        *)

DraftRuns(t) == draft[t].at \notin {"completed", "failed", "cancelled"}

\* The signal of the execution is aborted.  The runner tests it after every
\* await and does nothing more before it sees it.
StopDraft(t) ==
  /\ DraftRuns(t) /\ DraftEnds(t, "cancelled")
  /\ UNCHANGED <<outline, facts, saved, resumes, asked>>

\* updateVolumeOutline: the metadata keeps the id of the task that wrote it.
EditOutline ==
  /\ outline.status = "draft" /\ outline.version < MaxRevisions
  /\ outline' = [outline EXCEPT !.version = @ + 1, !.text = Author]
  /\ UNCHANGED <<facts, draft, saved, resumes, asked>>

\* confirm, lock and unlock (assertTransition).
ChangeOutlineStatus ==
  /\ outline.version < MaxRevisions
  /\ \E next \in CASE outline.status = "draft" -> {"confirmed"}
                   [] outline.status = "confirmed" -> {"locked", "draft"}
                   [] outline.status = "locked" -> {"draft"} :
       outline' = [outline EXCEPT !.version = @ + 1, !.status = next]
  /\ UNCHANGED <<facts, draft, saved, resumes, asked>>

\* Anything else of the snapshot changes, possibly back to what it was.
EditFacts ==
  /\ facts' = ~facts
  /\ UNCHANGED <<outline, draft, saved, resumes, asked>>

\* The program dies; the tasks that ran are resumed from their checkpoints.
OutlineCrash ==
  /\ resumes < MaxResumes /\ resumes' = resumes + 1
  /\ draft' = [t \in Drafter |->
                 IF DraftRuns(t) THEN [at |-> "queued", source |-> NothingRead] ELSE draft[t]]
  /\ UNCHANGED <<outline, facts, saved, asked>>

OutlineNext ==
  \/ \E t \in Drafter :
       \/ Prepare(t) \/ ContextCompiled(t) \/ OverBudget(t) \/ AskModel(t)
       \/ ModelAnswers(t) \/ Validated(t) \/ ApplyProposal(t) \/ ReportOutline(t)
       \/ StopDraft(t)
  \/ EditOutline \/ ChangeOutlineStatus \/ EditFacts \/ OutlineCrash

OutlineSpec == OutlineInit /\ [][OutlineNext]_outlineVars

-----------------------------------------------------------------------------
\* A task writes over the outline only while it is a draft, and only over the
\* very version, and under the very sources, its model was asked about, however
\* often it awaited, was resumed or raced another task; and a task whose answer
\* is in the outline never writes it again (service.ts:229, the apply of the
\* outline's transaction).
ProposalReplacesWhatWasAsked ==
  [][\A t \in Drafter :
       (saved'[t].version # saved[t].version \/ (outline'.text = t /\ outline.text # t)) =>
         /\ outline.status = "draft" /\ outline'.status = "draft"
         /\ asked[t] = [version |-> outline.version, facts |-> facts]
         /\ saved[t].version = 0 /\ saved'[t].version = outline'.version]_outlineVars
=============================================================================
