----------------------------- MODULE Manuscript -----------------------------
(***************************************************************************)
(* The text of one chapter: its row, the versions that generation tasks    *)
(* offer for review, the revisions that polish tasks make, and everything  *)
(* that replaces one text by another (shared/chapterGeneration/service.ts, *)
(* shared/narrativeWorkbench/service.ts, the runners of both task types    *)
(* and the three repositories).                                            *)
(*                                                                         *)
(* A text is named by the task whose model call wrote it; None is the      *)
(* empty text of a new chapter.  The summary and the word count of the row *)
(* are one field, the text they describe.  Whether and when a task may be  *)
(* resumed is TaskManager's subject: here any task left unfinished may be, *)
(* by the start-up or by the user, MaxTries times in all.                  *)
(*                                                                         *)
(* The main process is single-threaded, so a synchronous stretch of a      *)
(* handler or of an execution runs alone; it is cut where SQLite commits,  *)
(* because the process may die between two commits.                        *)
(*                                                                         *)
(* A definition named X_Y is X with the defect that Y names.  No step uses *)
(* it: it takes the place of X to show that a property notices the defect. *)
(***************************************************************************)
EXTENDS Naturals, FiniteSets, SequencesExt

CONSTANTS
  Gen,         \* the chapter-generation tasks of the chapter
  Polish,      \* its chapter-polish tasks
  AutoApply,   \* the tasks started with auto_confirm or auto_apply
  None,        \* no task; as a text, the empty one
  MaxTasks,    \* bound: tasks started
  MaxTries,    \* bound: executions resumed
  MaxNumber,   \* bound: chapters.version up to which the user writes
  MaxSources   \* bound: edits of what the compiler reads

Task == Gen \cup Polish
Text == Task \cup {None}

ASSUME ManuscriptAssumption ==
  /\ Gen \cap Polish = {} /\ None \notin Task /\ AutoApply \subseteq Task
  /\ MaxTasks \in Nat /\ MaxTries \in Nat /\ MaxNumber \in Nat
  /\ MaxSources \in Nat

VARIABLES
  \* The database.
  chapter,    \* the row: content, described text, status, version number
  version,    \* the status of the version that each generation task stored
  report,     \* its fact check
  order,      \* the versions by version_number
  adopted,    \* the version with is_current
  revisions,  \* the revisions by revision_number
  current,    \* the revision with is_current
  sources,    \* outlines, memories and settings, as a count of their edits
  ckpt,       \* the checkpoint of each task
  status,     \* the status of each task
  \* The process.
  exec,       \* the execution of each task
  handler,    \* the request handler that is between two of its commits
  \* History, read by no step.
  tries,      \* executions resumed (bounds the run as well)
  seen,       \* the content when the execution took its source
  told,       \* what a finished generation reported as auto_confirmed
  placed,     \* how often a task put its own text into the chapter
  torn        \* a crash left an applied revision without its is_current

rows == <<version, report, order, adopted, revisions, current>>
msVars == <<chapter, rows, sources, ckpt, status, exec, handler, tries, seen,
            told, placed, torn>>

Chapter == [content : Text, meta : Text, number : Nat \ {0},
            status : {"planned", "drafting", "review", "completed"}]
Fence == [text : Text, number : Nat \ {0}, sources : 0..MaxSources]
NoFence == [text |-> None, number |-> 1, sources |-> 0]

AwaitPc == {"compile", "model", "agent", "polish"}
SyncPc == {"begin", "save", "insert", "mark", "review", "confirm", "store",
           "apply", "applied", "close"}
Idle == [pc |-> "none", fence |-> NoFence, saved |-> None, auto |-> FALSE]
Exec == [pc : {"none"} \cup AwaitPc \cup SyncPc, fence : Fence, saved : Text,
         auto : BOOLEAN]

ManuscriptInit ==
  /\ chapter = [content |-> None, meta |-> None, number |-> 1,
                status |-> "planned"]
  /\ version = [g \in Gen |-> "none"]
  /\ report = [g \in Gen |-> [passed |-> FALSE, blocking |-> FALSE]]
  /\ order = <<>> /\ adopted = None
  /\ revisions = <<>> /\ current = None
  /\ sources = 0
  /\ ckpt = [t \in Task |-> [stage |-> "null", fence |-> NoFence]]
  /\ status = [t \in Task |-> "absent"]
  /\ exec = [t \in Task |-> Idle]
  /\ handler = <<"idle", None>>
  /\ tries = 0
  /\ seen = [t \in Task |-> None]
  /\ told = [t \in Task |-> FALSE]
  /\ placed = [t \in Task |-> 0]
  /\ torn = FALSE

-----------------------------------------------------------------------------
(* The rows.                                                               *)

Newest(s) == IF s = <<>> THEN None ELSE Last(s)

\* ChapterRepository.update: whatever is written, the version counts it.
Written(c) == [c EXCEPT !.number = @ + 1]

Published(c, t) ==
  [c EXCEPT !.content = t, !.meta = t, !.status = "completed"]

\* The row as the publication of version g leaves it.
Shows(g) ==
  /\ chapter.status = "completed"
  /\ chapter.content = g /\ chapter.meta = g

\* ChapterVersionRepository.setStatus, in one transaction.
Approve(g) == /\ version' = [version EXCEPT ![g] = "approved"]
              /\ adopted' = g
Reject(g) == /\ version' = [version EXCEPT ![g] = "rejected"]
             /\ UNCHANGED adopted

KindOf(t) == IF t \in Gen THEN Gen ELSE Polish
KeyIsFree_LiveOnly(t) == \A u \in KindOf(t) \ {t} : status[u] # "active"
KeyIsFree(t) ==
  \A u \in KindOf(t) \ {t} : status[u] \notin {"active", "stranded"}

MayTurn == /\ \A t \in Task : exec[t].pc \notin SyncPc
           /\ handler = <<"idle", None>>

-----------------------------------------------------------------------------
(* The life of an execution.                                               *)

Moves(t, pc) == exec' = [exec EXCEPT ![t].pc = pc]
Ends(t, outcome) ==
  /\ status' = [status EXCEPT ![t] = outcome]
  /\ exec' = [exec EXCEPT ![t] = Idle]

StartManuscriptTask(t) ==
  /\ MayTurn /\ status[t] = "absent" /\ KeyIsFree(t)
  /\ Cardinality({u \in Task : status[u] # "absent"}) < MaxTasks
  /\ status' = [status EXCEPT ![t] = "active"]
  /\ Moves(t, "begin")
  /\ UNCHANGED <<chapter, rows, sources, ckpt, handler, tries, seen, told,
                 placed, torn>>

ResumeManuscriptTask(t) ==
  /\ MayTurn /\ status[t] \in {"stranded", "stopped"} /\ KeyIsFree(t)
  /\ tries < MaxTries
  /\ tries' = tries + 1
  /\ status' = [status EXCEPT ![t] = "active"]
  /\ Moves(t, "begin")
  /\ UNCHANGED <<chapter, rows, sources, ckpt, handler, seen, told, placed,
                 torn>>

\* Cancelled, timed out, or an error of the model, the worker or the agent.
StopManuscriptTask(t) ==
  /\ MayTurn /\ exec[t].pc \in AwaitPc
  /\ Ends(t, "stopped")
  /\ UNCHANGED <<chapter, rows, sources, ckpt, handler, tries, seen, told,
                 placed, torn>>

CloseManuscriptTask(t) ==
  /\ exec[t].pc = "close"
  /\ Ends(t, "done")
  /\ told' = [told EXCEPT ![t] = exec[t].auto]
  /\ UNCHANGED <<chapter, rows, sources, ckpt, handler, tries, seen, placed,
                 torn>>

ManuscriptCrash ==
  /\ \E t \in Task : status[t] = "active" \/ handler # <<"idle", None>>
  /\ exec' = [t \in Task |-> Idle]
  /\ status' = [t \in Task |->
       IF status[t] = "active" THEN "stranded" ELSE status[t]]
  /\ handler' = <<"idle", None>>
  /\ torn' = (torn \/ handler[1] = "current")
  /\ UNCHANGED <<chapter, rows, sources, ckpt, tries, seen, told, placed>>

-----------------------------------------------------------------------------
(* A generation task.                                                      *)

Here == [text |-> chapter.content, number |-> chapter.number,
         sources |-> sources]

\* The checks that open generate: the evidence of the checkpoint still holds.
FenceHolds(g) == ckpt[g].stage = "null" \/ ckpt[g].fence = Here

\* The first stretch of a task whose version is not stored.
Generate_Unfenced(g) ==
  /\ exec[g].pc = "begin" /\ version[g] = "none"
  /\ LET writes == chapter.status # "drafting"
         row == IF writes
                THEN Written([chapter EXCEPT !.status = "drafting"])
                ELSE chapter
     IN /\ chapter' = row
        /\ exec' = [exec EXCEPT ![g] =
             [Idle EXCEPT !.fence = [Here EXCEPT !.number = row.number],
                !.pc = IF ckpt[g].stage = "saving" THEN "save"
                       ELSE "compile"]]
        /\ seen' = IF ckpt[g].stage = "null"
                   THEN [seen EXCEPT ![g] = chapter.content] ELSE seen
  /\ UNCHANGED <<rows, sources, ckpt, status, handler, tries, told, placed,
                 torn>>
Generate(g) ==
  /\ exec[g].pc = "begin" /\ version[g] = "none"
  /\ \/ /\ FenceHolds(g)
        /\ LET writes == chapter.status # "drafting"
               row == IF writes
                      THEN Written([chapter EXCEPT !.status = "drafting"])
                      ELSE chapter
           IN /\ chapter' = row
              /\ exec' = [exec EXCEPT ![g] =
                   [Idle EXCEPT !.fence = [Here EXCEPT !.number = row.number],
                      !.pc = IF ckpt[g].stage = "saving" THEN "save"
                             ELSE "compile"]]
              /\ seen' = IF ckpt[g].stage = "null"
                         THEN [seen EXCEPT ![g] = chapter.content] ELSE seen
        /\ UNCHANGED status
     \/ /\ ~FenceHolds(g)
        /\ Ends(g, "failed")
        /\ UNCHANGED <<chapter, seen>>
  /\ UNCHANGED <<rows, sources, ckpt, handler, tries, told, placed, torn>>

\* assertCompilationSource, around the worker's compilation of a stage.
SourceUnchanged(g) == exec[g].fence = Here

CompileStage(g) ==
  /\ MayTurn /\ exec[g].pc = "compile"
  /\ IF SourceUnchanged(g)
     THEN /\ ckpt' = [ckpt EXCEPT ![g] =
               [stage |-> IF @.stage = "null" THEN "body" ELSE @.stage,
                fence |-> exec[g].fence]]
          /\ Moves(g, "model")
          /\ UNCHANGED status
     ELSE Ends(g, "failed") /\ UNCHANGED ckpt
  /\ UNCHANGED <<chapter, rows, sources, handler, tries, seen, told, placed,
                 torn>>

\* The text of a stage is complete: body, summary or, last, the fact check.
StageWritten(g) ==
  /\ MayTurn /\ exec[g].pc = "model"
  /\ \/ Moves(g, "compile") /\ UNCHANGED ckpt
     \/ /\ Moves(g, "save")
        /\ ckpt' = [ckpt EXCEPT ![g].stage = "saving"]
  /\ UNCHANGED <<chapter, rows, sources, status, handler, tries, seen, told,
                 placed, torn>>

\* The last look before anything is stored.
SaveVersion(g) ==
  /\ exec[g].pc = "save"
  /\ IF SourceUnchanged(g)
     THEN /\ ckpt' = [ckpt EXCEPT ![g] =
               [stage |-> "saving", fence |-> exec[g].fence]]
          /\ Moves(g, "insert")
          /\ UNCHANGED status
     ELSE Ends(g, "failed") /\ UNCHANGED ckpt
  /\ UNCHANGED <<chapter, rows, sources, handler, tries, seen, told, placed,
                 torn>>

\* ChapterVersionRepository.create: a version in review, the newest.
InsertVersion(g) ==
  /\ exec[g].pc = "insert"
  /\ version' = [version EXCEPT ![g] = "review"]
  /\ \E passed, blocking \in BOOLEAN :
       report' = [report EXCEPT ![g] =
         [passed |-> passed, blocking |-> blocking]]
  /\ order' = Append(order, g)
  /\ Moves(g, "mark")
  /\ UNCHANGED <<chapter, adopted, revisions, current, sources, ckpt, status,
                 handler, tries, seen, told, placed, torn>>

MarkReview(g) ==
  /\ exec[g].pc = "mark"
  /\ ckpt' = [ckpt EXCEPT ![g].stage = "review"]
  /\ Moves(g, "review")
  /\ UNCHANGED <<chapter, rows, sources, status, handler, tries, seen, told,
                 placed, torn>>

ReviewChapter(g) ==
  /\ exec[g].pc = "review"
  /\ chapter' = Written([chapter EXCEPT !.status = "review", !.meta = g])
  /\ Moves(g, IF g \in AutoApply /\ report[g].passed THEN "confirm"
              ELSE "close")
  /\ UNCHANGED <<rows, sources, ckpt, status, handler, tries, seen, told,
                 placed, torn>>

\* confirmVersion under runOwnedSideEffect: both writes or none.
ConfirmOwn(g) ==
  /\ exec[g].pc = "confirm"
  /\ IF report[g].blocking
     THEN Ends(g, "failed") /\ UNCHANGED <<chapter, version, adopted, placed>>
     ELSE /\ Approve(g)
          /\ chapter' = Written(Published(chapter, g))
          /\ placed' = [placed EXCEPT ![g] = @ + 1]
          /\ exec' = [exec EXCEPT ![g].pc = "close", ![g].auto = TRUE]
          /\ UNCHANGED status
  /\ UNCHANGED <<report, order, revisions, current, sources, ckpt, handler,
                 tries, seen, told, torn>>

-----------------------------------------------------------------------------
(* The end of a generation whose version is stored already.                *)

\* The review row that the task itself wrote before it was interrupted.
OwnReviewUpdate(g) ==
  /\ chapter.number = ckpt[g].fence.number + 1
  /\ chapter.status = "review" /\ chapter.meta = g

\* finalizePersistedVersion refuses.
Superseded_Text(g) ==
  \/ Newest(order) # g \/ version[g] = "rejected"
  \/ version[g] = "approved" /\ (adopted # g \/ ~Shows(g))
Superseded_Adopted(g) ==
  \/ Newest(order) # g \/ version[g] = "rejected"
  \/ /\ version[g] = "review"
     /\ \/ chapter.content # ckpt[g].fence.text
        \/ chapter.number # ckpt[g].fence.number /\ ~OwnReviewUpdate(g)
Superseded(g) ==
  \/ Newest(order) # g \/ version[g] = "rejected"
  \/ version[g] = "approved" /\ (adopted # g \/ ~Shows(g))
  \/ /\ version[g] = "review"
     /\ \/ chapter.content # ckpt[g].fence.text
        \/ chapter.number # ckpt[g].fence.number /\ ~OwnReviewUpdate(g)

\* The checkpoint is a commit of its own, but once a version is stored nobody
\* reads its stage: a crash before it is the same as one after it.
FinalizePersistedVersion(g) ==
  /\ exec[g].pc = "begin" /\ version[g] # "none"
  /\ LET confirms == /\ g \in AutoApply /\ report[g].passed
                     /\ version[g] = "review"
     IN IF Superseded(g) \/ (confirms /\ report[g].blocking)
        THEN /\ Ends(g, "failed")
             /\ UNCHANGED <<chapter, version, adopted, ckpt, placed>>
        ELSE /\ exec' = [exec EXCEPT ![g].pc = "close",
                  ![g].auto = confirms \/ version[g] = "approved"]
             /\ ckpt' = [ckpt EXCEPT ![g].stage = "review"]
             /\ UNCHANGED status
             /\ IF confirms
                THEN /\ Approve(g)
                     /\ chapter' = Written(Published(chapter, g))
                     /\ placed' = [placed EXCEPT ![g] = @ + 1]
                ELSE /\ chapter' =
                          IF version[g] = "approved"
                             \/ (chapter.status = "review" /\ chapter.meta = g)
                          THEN chapter
                          ELSE Written([chapter EXCEPT !.status = "review",
                                                       !.meta = g])
                     /\ UNCHANGED <<version, adopted, placed>>
  /\ UNCHANGED <<report, order, revisions, current, sources, handler, tries,
                 seen, told, torn>>

-----------------------------------------------------------------------------
(* A polish task.  A revision that is stored is never made again.          *)

\* The agent is created first; no text has been read yet.
Polishing(p) ==
  /\ exec[p].pc = "begin" /\ ~Contains(revisions, p)
  /\ exec' = [exec EXCEPT ![p] =
       [Idle EXCEPT !.pc = "agent", !.saved = ckpt[p].fence.text]]
  /\ UNCHANGED <<chapter, rows, sources, ckpt, status, handler, tries, seen,
                 told, placed, torn>>

\* getRevisionSource: a given revision, else the current one, else the row.
SourceTexts ==
  ToSet(revisions) \cup {IF current # None THEN current ELSE chapter.content}

\* The model polishes that source: the whole text, or one of its paragraphs.
PolishSource(p) ==
  /\ MayTurn /\ exec[p].pc = "agent"
  /\ \E text \in SourceTexts :
       exec' = [exec EXCEPT ![p].pc = "polish", ![p].fence.text = text]
  /\ seen' = [seen EXCEPT ![p] = chapter.content]
  /\ UNCHANGED <<chapter, rows, sources, ckpt, status, handler, tries, told,
                 placed, torn>>

\* on_checkpoint of runText, with a chunk or with the whole answer.  The text
\* goes on to be stored, or nothing usable came and the task is over.
PolishAnswers(p) ==
  /\ MayTurn /\ exec[p].pc = "polish"
  /\ ckpt' = [ckpt EXCEPT ![p] =
       [stage |-> "running", fence |-> exec[p].fence]]
  /\ \/ UNCHANGED exec
     \/ Moves(p, "store")
     \/ Moves(p, "close")
  /\ UNCHANGED <<chapter, rows, sources, status, handler, tries, seen, told,
                 placed, torn>>

\* saveRevisionResult: revision, is_current, report and checkpoint at once.
SaveRevision(p) ==
  /\ exec[p].pc = "store"
  /\ revisions' = Append(revisions, p) /\ current' = p
  /\ ckpt' = [ckpt EXCEPT ![p].stage = "completed"]
  /\ Moves(p, IF p \in AutoApply THEN "apply" ELSE "close")
  /\ UNCHANGED <<chapter, version, report, order, adopted, sources, status,
                 handler, tries, seen, told, placed, torn>>

\* applyRevision skips a revision that is in the row already.
InPlace(r) ==
  chapter.content = r /\ chapter.status = "completed" /\ current = r

\* auto_apply, in a transaction: no look at what the chapter holds by now.
ApplyOwnRevision(p) ==
  /\ exec[p].pc = "apply"
  /\ chapter' = Written(Published(chapter, p))
  /\ current' = p
  /\ placed' = [placed EXCEPT ![p] = @ + 1]
  /\ Moves(p, "applied")
  /\ UNCHANGED <<version, report, order, adopted, revisions, sources, ckpt,
                 status, handler, tries, seen, told, torn>>

\* The checkpoint that says so; its source is the one of the checkpoint that
\* the execution found, the empty text if it found none.
MarkApplied(p) ==
  /\ exec[p].pc = "applied"
  /\ ckpt' = [ckpt EXCEPT ![p].fence.text = exec[p].saved]
  /\ Moves(p, "close")
  /\ UNCHANGED <<chapter, rows, sources, status, handler, tries, seen, told,
                 placed, torn>>

\* finishFromExistingRevision and applyRecoveredRevision.
LatestAndCurrent(p) == current = p /\ Newest(revisions) = p

FinishExistingRevision_Blind(p) ==
  /\ exec[p].pc = "begin" /\ Contains(revisions, p)
  /\ LET there == chapter.content = p /\ chapter.status = "completed"
     IN IF ~LatestAndCurrent(p)
        THEN Ends(p, "failed") /\ UNCHANGED <<chapter, current, placed>>
        ELSE /\ Moves(p, "close") /\ UNCHANGED status
             /\ IF p \in AutoApply /\ ~there
                THEN /\ chapter' = Written(Published(chapter, p))
                     /\ current' = p
                     /\ placed' = [placed EXCEPT ![p] = @ + 1]
                ELSE UNCHANGED <<chapter, current, placed>>
  /\ UNCHANGED <<version, report, order, adopted, revisions, sources, ckpt,
                 handler, tries, seen, told, torn>>
FinishExistingRevision(p) ==
  /\ exec[p].pc = "begin" /\ Contains(revisions, p)
  /\ LET there == chapter.content = p /\ chapter.status = "completed"
         moved == p \in AutoApply /\ ~there
                  /\ chapter.content # ckpt[p].fence.text
     IN IF ~LatestAndCurrent(p) \/ moved
        THEN Ends(p, "failed") /\ UNCHANGED <<chapter, current, placed>>
        ELSE /\ Moves(p, "close") /\ UNCHANGED status
             /\ IF p \in AutoApply /\ ~there
                THEN /\ chapter' = Written(Published(chapter, p))
                     /\ current' = p
                     /\ placed' = [placed EXCEPT ![p] = @ + 1]
                ELSE UNCHANGED <<chapter, current, placed>>
  /\ UNCHANGED <<version, report, order, adopted, revisions, sources, ckpt,
                 handler, tries, seen, told, torn>>

-----------------------------------------------------------------------------
(* What the user asks of the texts: two commits each, with nothing around. *)

UserMayWrite == MayTurn /\ chapter.number < MaxNumber

\* confirmVersion from the review page: the version first, then the row.
ConfirmVersion(g) ==
  /\ UserMayWrite /\ version[g] = "review" /\ ~report[g].blocking
  /\ Approve(g)
  /\ handler' = <<"publish", g>>
  /\ UNCHANGED <<chapter, report, order, revisions, current, sources, ckpt,
                 status, exec, tries, seen, told, placed, torn>>

RejectVersion(g) ==
  /\ UserMayWrite /\ version[g] = "review"
  /\ Reject(g)
  /\ handler' = IF adopted = None THEN <<"plan", g>> ELSE handler
  /\ UNCHANGED <<chapter, report, order, revisions, current, sources, ckpt,
                 status, exec, tries, seen, told, placed, torn>>

\* applyRevision: the row first, then is_current.
ApplyRevision(r) ==
  /\ UserMayWrite /\ Contains(revisions, r) /\ ~InPlace(r)
  /\ chapter' = Written(Published(chapter, r))
  /\ handler' = <<"current", r>>
  /\ UNCHANGED <<rows, sources, ckpt, status, exec, tries, seen, told,
                 placed, torn>>

FinishRequest ==
  /\ LET text == handler[2]
     IN \/ /\ handler[1] = "publish"
           /\ chapter' = Written(Published(chapter, text))
           /\ UNCHANGED current
        \/ /\ handler[1] = "plan"
           /\ chapter' = Written([chapter EXCEPT !.status = "planned"])
           /\ UNCHANGED current
        \/ /\ handler[1] = "current"
           /\ current' = text
           /\ UNCHANGED chapter
  /\ handler' = <<"idle", None>>
  /\ UNCHANGED <<version, report, order, adopted, revisions, sources, ckpt,
                 status, exec, tries, seen, told, placed, torn>>

\* An outline, a memory, a setting or a model parameter changes.
EditSources ==
  /\ MayTurn /\ sources < MaxSources
  /\ sources' = sources + 1
  /\ UNCHANGED <<chapter, rows, ckpt, status, exec, handler, tries, seen,
                 told, placed, torn>>

-----------------------------------------------------------------------------
GenerationStep(g) ==
  \/ Generate(g) \/ CompileStage(g) \/ StageWritten(g) \/ SaveVersion(g)
  \/ InsertVersion(g) \/ MarkReview(g) \/ ReviewChapter(g) \/ ConfirmOwn(g)
  \/ FinalizePersistedVersion(g) \/ ConfirmVersion(g) \/ RejectVersion(g)
PolishStep(p) ==
  \/ Polishing(p) \/ PolishSource(p) \/ PolishAnswers(p) \/ SaveRevision(p)
  \/ ApplyOwnRevision(p) \/ MarkApplied(p) \/ FinishExistingRevision(p)
  \/ ApplyRevision(p)
ExecutionStep(t) ==
  \/ StartManuscriptTask(t) \/ ResumeManuscriptTask(t)
  \/ StopManuscriptTask(t) \/ CloseManuscriptTask(t)

ManuscriptNext ==
  \/ \E g \in Gen : GenerationStep(g)
  \/ \E p \in Polish : PolishStep(p)
  \/ \E t \in Task : ExecutionStep(t)
  \/ FinishRequest \/ EditSources \/ ManuscriptCrash

ManuscriptSpec == ManuscriptInit /\ [][ManuscriptNext]_msVars
=============================================================================
