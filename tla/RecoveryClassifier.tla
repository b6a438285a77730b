------------------------- MODULE RecoveryClassifier -------------------------
(***************************************************************************)
(* The pure recovery classifier of src/shared/taskRecovery/classify.ts:    *)
(* from what is known about an unfinished task it decides whether the      *)
(* program may restart or resume it by itself, whether the user may retry  *)
(* it, or whether it is beyond recovery.                                   *)
(*                                                                         *)
(* Data is abstracted to what the decision reads.  A checkpoint is its     *)
(* stage and three facts: it holds chapter text, it holds a summary, it    *)
(* names the entity it produced.  The strict parsers are their verdict     *)
(* ("readable", "corrupt", "unsupported" schema); dates, reasons and the   *)
(* deadline test, which can never hold (it asks for an action that is      *)
(* neither of the two automatic ones), are left out.                       *)
(*                                                                         *)
(* A definition named X_Y is X with the defect that Y names.  No step uses *)
(* it: it takes the place of X to show that a property notices the defect. *)
(***************************************************************************)

TextTask == {"chapter-generation", "chapter-polish"}
RecoverableTask == TextTask \cup {"outline-generation"}
DirectTask == {"memory-extraction", "foreshadow-suggestion"}
TaskType == RecoverableTask \cup DirectTask \cup {"assistant", "other"}

Status == {"pending", "running", "completed", "failed", "cancelled"}

\* awaiting_model and model_in_flight are one phase: every test names both.
Phase == {"queued", "preparing", "model", "persisting_result", "finalizing",
          "completed", "cancelled", "failed"}
BeforeModel == {"queued", "preparing"}

Checkpoint(stage, body, summary, entity) ==
  [stage |-> stage, body |-> body, summary |-> summary, entity |-> entity]
NoCheckpoint == Checkpoint("null", FALSE, FALSE, FALSE)

ChapterStage == {"body", "summary", "fact_check", "saving", "review"}
OutlineStage == {"prepared", "model", "ready", "applied"}
PolishStage == {"running", "completed", "fallback", "cancelled"}
CheckpointRecord ==
  [stage : {"null"} \cup ChapterStage \cup OutlineStage \cup PolishStage,
   body : BOOLEAN, summary : BOOLEAN, entity : BOOLEAN]

\* The checkpoints that a completed generation can be finished from alone.
SavingComplete(c) == c.stage = "saving" /\ c.body /\ c.summary
OutlineComplete(c) == c.stage \in {"ready", "applied"}

(***************************************************************************)
(* What the classifier is told (interface ClassifyTaskInput).  `entity'    *)
(* is hasChapterVersionForTask or hasChapterRevisionForTask, whichever the *)
(* task type asks for.                                                     *)
(***************************************************************************)
Facts ==
  [taskType : TaskType, status : Status, cancelRequested : BOOLEAN,
   phase : Phase, checkpoint : CheckpointRecord,
   parse : {"readable", "corrupt", "unsupported"},
   metadata : {"older", "current", "future"}, requestValid : BOOLEAN,
   entity : BOOLEAN, attemptsLeft : BOOLEAN, graceful : BOOLEAN,
   projectExists : BOOLEAN, targetExists : BOOLEAN,
   credential : BOOLEAN, gateOpen : BOOLEAN]

Classification ==
  {"resumable", "restartable", "manual-retry-required", "non-recoverable"}
Action == {"auto-resume", "auto-restart", "manual-confirm", "none"}

Decision(classification, action, auto, retry) ==
  [classification |-> classification, action |-> action,
   auto |-> auto, retry |-> retry]

NonRecoverable == Decision("non-recoverable", "none", FALSE, FALSE)
ManualRequired(allowRetry) ==
  Decision("manual-retry-required",
           IF allowRetry THEN "manual-confirm" ELSE "none", FALSE, allowRetry)
Resumable == Decision("resumable", "auto-resume", TRUE, TRUE)
Restartable == Decision("restartable", "auto-restart", TRUE, TRUE)

-----------------------------------------------------------------------------

FinalEntity(f) == f.taskType \in TextTask /\ f.entity

Chapter_CorruptAsMissing(f) ==
  IF FinalEntity(f) \/ SavingComplete(f.checkpoint) THEN Resumable
  ELSE IF f.phase \in BeforeModel
          /\ (f.parse = "corrupt" \/ ~f.checkpoint.body) THEN Restartable
  ELSE ManualRequired(TRUE)
Chapter_IgnoresText(f) ==
  IF f.parse = "corrupt" THEN NonRecoverable
  ELSE IF FinalEntity(f) \/ SavingComplete(f.checkpoint) THEN Resumable
  ELSE IF f.phase \in BeforeModel THEN Restartable
  ELSE ManualRequired(TRUE)
ClassifyChapterGeneration(f) ==
  IF f.parse = "corrupt" THEN NonRecoverable
  ELSE IF FinalEntity(f) THEN Resumable
  ELSE IF f.checkpoint.stage = "review" /\ f.checkpoint.entity
    THEN NonRecoverable
  ELSE IF SavingComplete(f.checkpoint) THEN Resumable
  ELSE IF f.phase \in BeforeModel /\ ~f.checkpoint.body THEN Restartable
  ELSE ManualRequired(TRUE)

ClassifyOutlineGeneration(f) ==
  IF ~f.requestValid \/ f.parse = "corrupt" THEN NonRecoverable
  ELSE IF OutlineComplete(f.checkpoint) THEN Resumable
  ELSE IF f.checkpoint.stage # "model" /\ f.phase \in BeforeModel
    THEN Restartable
  ELSE ManualRequired(TRUE)

ClassifyChapterPolish(f) ==
  IF f.parse = "corrupt" THEN NonRecoverable
  ELSE IF FinalEntity(f) THEN Resumable
  ELSE IF f.checkpoint.stage = "completed" /\ f.checkpoint.entity
    THEN NonRecoverable
  ELSE IF f.phase \in BeforeModel /\ f.checkpoint.stage = "null"
    THEN Restartable
  ELSE ManualRequired(TRUE)

ClassifyByType(f) ==
  CASE f.taskType = "chapter-generation" -> ClassifyChapterGeneration(f)
    [] f.taskType = "chapter-polish" -> ClassifyChapterPolish(f)
    [] f.taskType = "outline-generation" -> ClassifyOutlineGeneration(f)
    [] OTHER -> NonRecoverable

\* A model call needs a credential; finishing a stored result does not.
NeedsCredential(f, d) ==
  IF d.action = "auto-restart" /\ ~f.credential THEN ManualRequired(TRUE)
  ELSE d

ClassifyTaskRecovery_StopsForgotten(f) ==
  IF ~f.gateOpen \/ f.status = "completed" \/ f.taskType \notin RecoverableTask
       \/ f.parse = "unsupported"
    THEN NonRecoverable
  ELSE IF FinalEntity(f) THEN Resumable
  ELSE IF ~f.attemptsLeft THEN ManualRequired(FALSE)
  ELSE NeedsCredential(f, ClassifyByType(f))
ClassifyTaskRecovery_LimitFirst(f) ==
  IF ~f.gateOpen \/ f.status = "completed" \/ f.taskType \notin RecoverableTask
       \/ f.parse = "unsupported"
    THEN NonRecoverable
  ELSE IF f.cancelRequested \/ f.status = "cancelled" THEN ManualRequired(TRUE)
  ELSE IF ~f.attemptsLeft THEN ManualRequired(FALSE)
  ELSE IF FinalEntity(f) THEN Resumable
  ELSE IF f.graceful THEN ManualRequired(TRUE)
  ELSE NeedsCredential(f, ClassifyByType(f))

\* The tests of classifyTaskRecovery in their order: the first that applies
\* decides.
ClassifyTaskRecovery(f) ==
  IF ~f.gateOpen \/ f.status = "completed" THEN NonRecoverable
  ELSE IF f.taskType \notin RecoverableTask \cup DirectTask
    THEN NonRecoverable
  ELSE IF f.cancelRequested \/ f.status = "cancelled" THEN ManualRequired(TRUE)
  ELSE IF ~f.projectExists \/ ~f.targetExists THEN NonRecoverable
  ELSE IF f.metadata = "future" THEN NonRecoverable
  ELSE IF f.metadata = "older" THEN ManualRequired(TRUE)
  ELSE IF FinalEntity(f) THEN Resumable
  ELSE IF ~f.attemptsLeft THEN ManualRequired(FALSE)
  ELSE IF f.parse = "unsupported" THEN NonRecoverable
  ELSE IF f.graceful THEN ManualRequired(TRUE)
  ELSE NeedsCredential(f, ClassifyByType(f))

=============================================================================
