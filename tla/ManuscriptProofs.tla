-------------------------- MODULE ManuscriptProofs --------------------------
(***************************************************************************)
(* Theorems about the text of a chapter, for any number of tasks, resumed  *)
(* executions and edits.  All follow from one invariant: what stretch of   *)
(* code may run beside which, where each task stands with the row it       *)
(* writes, and which texts are spent, so that no one writes them again.    *)
(***************************************************************************)
EXTENDS ManuscriptProperties, TLAPS

-----------------------------------------------------------------------------
(* The rows and their types.                                               *)

\* The stages of a checkpoint of either type of task.
Stage == {"null", "body", "saving", "review", "running", "completed"}

\* The type of every variable.
ManuscriptType ==
  /\ chapter \in Chapter
  /\ version \in [Gen -> {"none", "review", "approved", "rejected"}]
  /\ report \in [Gen -> [passed : BOOLEAN, blocking : BOOLEAN]]
  /\ order \in Seq(Gen) /\ revisions \in Seq(Polish)
  /\ adopted \in Gen \cup {None} /\ current \in Polish \cup {None}
  /\ sources \in 0..MaxSources
  /\ ckpt \in [Task -> [stage : Stage, fence : Fence]]
  /\ status \in [Task -> {"absent", "active", "stranded", "stopped", "failed",
                          "done"}]
  /\ exec \in [Task -> Exec]
  /\ \/ handler = <<"idle", None>>
     \/ \E g \in Gen : handler \in {<<"publish", g>>, <<"plan", g>>}
     \/ \E p \in Polish : handler = <<"current", p>>
  /\ seen \in [Task -> Text]
  /\ told \in [Task -> BOOLEAN]
  /\ placed \in [Task -> Nat]
  /\ torn \in BOOLEAN

\* One stretch of code runs at a time, and one text is generated at a time.
InStretch(t) == exec[t].pc \in SyncPc
Unfinished(g) == status[g] \in {"active", "stranded"}
Exclusive ==
  /\ \A t, u \in Task : InStretch(t) /\ InStretch(u) => t = u
  /\ handler # <<"idle", None>> => \A t \in Task : ~InStretch(t)
  /\ \A g, h \in Gen : Unfinished(g) /\ Unfinished(h) => g = h

\* Where generation g stands: while it writes, nothing of it is stored and it
\* still knows the text it took; a stored version is the newest until the task
\* is over; and its text is in the chapter only when it was approved.
GenStands(g) ==
  LET pc == exec[g].pc
  IN /\ pc \notin {"agent", "polish", "store", "apply", "applied"}
     /\ pc # "none" => status[g] = "active"
     /\ status[g] \in {"absent", "stopped"} => version[g] = "none"
     /\ version[g] # "none" /\ Unfinished(g) => Newest(order) = g
     /\ pc \in {"compile", "model", "save", "insert"} =>
          version[g] = "none" /\ exec[g].fence.text = seen[g]
     /\ pc = "model" => ckpt[g].stage # "null"
     /\ pc \in {"mark", "review", "confirm"} => version[g] = "review"
     /\ version[g] = "none" /\ ckpt[g].stage # "null" =>
          ckpt[g].fence.text = seen[g]
     /\ pc = "insert" => ckpt[g].fence = Here /\ chapter.content = seen[g]
     /\ exec[g].auto => pc = "close" /\ Shows(g) /\ adopted = g
     /\ placed[g] <= 1 /\ (placed[g] = 1 => version[g] = "approved")
     /\ chapter.content = g =>
          version[g] = "approved" /\ handler # <<"publish", g>>
     /\ handler = <<"publish", g>> => version[g] = "approved"

\* No one will put this text into the chapter any more: a generated text once
\* it was approved and published.
Spent(x) == x \in Gen => version[x] = "approved" /\ handler # <<"publish", x>>

\* The revision that is, or is about to be, is_current.
Chosen == IF handler[1] = "current" THEN handler[2] ELSE current

\* Where polish p stands: its text is in the chapter only as a stored revision;
\* once it was placed the chapter holds it or a generated text as long as it is
\* the chosen one; and the texts it knows are none that may still come back.
PolishStands(p) ==
  LET pc == exec[p].pc
  IN /\ pc \in {"agent", "polish", "store"} => ~Contains(revisions, p)
     /\ pc = "apply" => Contains(revisions, p) /\ placed[p] = 0
     /\ placed[p] > 0 => Contains(revisions, p)
     /\ p \in {chapter.content, Chosen, current} => Contains(revisions, p)
     /\ torn \/ placed[p] <= 1
     /\ ~torn /\ placed[p] > 0 /\ Chosen = p =>
          chapter.content \in Gen \cup {p}
     /\ \A x \in {ckpt[p].fence.text, exec[p].saved, exec[p].fence.text} :
          /\ x # p /\ Spent(x)
          /\ placed[p] > 0 /\ x \in Gen => chapter.content # x

\* The invariant that all theorems below follow from.
ManuscriptInv ==
  /\ ManuscriptType /\ Exclusive
  /\ \A g \in Gen : GenStands(g)
  /\ \A p \in Polish : PolishStands(p)

(***************************************************************************)
(* ChapterRepository.update: the fields that are named change, the others  *)
(* stay, and the version number counts the write.                          *)
(***************************************************************************)
LEMMA WrittenRow ==
  ASSUME NEW c \in Chapter
  PROVE  /\ Written(c) \in Chapter /\ Written(c).content = c.content
         /\ Written(c).meta = c.meta /\ Written(c).status = c.status
BY DEF Written, Chapter

\* A status is written.
LEMMA WrittenStatus ==
  ASSUME NEW c \in Chapter,
         NEW s \in {"planned", "drafting", "review", "completed"}
  PROVE  LET w == Written([c EXCEPT !.status = s])
         IN w \in Chapter /\ w.content = c.content
<1>1. [c EXCEPT !.status = s] \in Chapter
      /\ [c EXCEPT !.status = s].content = c.content
  BY DEF Chapter
<1>. QED
  BY <1>1, WrittenRow

\* A summary is offered for review.
LEMMA WrittenReview ==
  ASSUME NEW c \in Chapter, NEW t \in Text
  PROVE  LET w == Written([c EXCEPT !.status = "review", !.meta = t])
         IN w \in Chapter /\ w.content = c.content
<1>1. [c EXCEPT !.status = "review", !.meta = t] \in Chapter
      /\ [c EXCEPT !.status = "review", !.meta = t].content = c.content
  BY DEF Chapter
<1>. QED
  BY <1>1, WrittenRow

\* A text is published.
LEMMA WrittenText ==
  ASSUME NEW c \in Chapter, NEW t \in Text
  PROVE  LET w == Written(Published(c, t))
         IN /\ w \in Chapter /\ w.content = t /\ w.meta = t
            /\ w.status = "completed"
<1>1. LET d == Published(c, t)
      IN /\ d \in Chapter /\ d.content = t /\ d.meta = t
         /\ d.status = "completed"
  BY DEF Chapter, Published
<1>. QED
  BY <1>1, WrittenRow

Pc == {"none"} \cup AwaitPc \cup SyncPc

\* The program counter and the fence of an execution have their types.
LEMMA ExecType ==
  ASSUME NEW e \in Exec, NEW pc \in Pc, NEW f \in Fence, NEW x \in Text
  PROVE  /\ [e EXCEPT !.pc = pc] \in Exec
         /\ [e EXCEPT !.pc = pc, !.auto = TRUE] \in Exec
         /\ [e EXCEPT !.pc = pc, !.auto = FALSE] \in Exec
         /\ [e EXCEPT !.pc = pc, !.saved = x] \in Exec
         /\ [e EXCEPT !.fence = f, !.pc = pc] \in Exec
         /\ [e EXCEPT !.pc = pc, !.fence.text = x] \in Exec
         /\ Idle \in Exec /\ NoFence \in Fence
         /\ e.fence \in Fence /\ e.saved \in Text
<1>1. NoFence \in Fence /\ Idle \in Exec
  BY ManuscriptAssumption DEF NoFence, Fence, Idle, Exec, Text
<1>2. [e.fence EXCEPT !.text = x] \in Fence
  BY DEF Exec, Fence
<1>. QED
  BY <1>1, <1>2 DEF Exec, Pc

\* An execution that is over but for its last stretch keeps its type.
LEMMA ClosingType ==
  ASSUME NEW f \in [Task -> Exec], NEW t \in Task, NEW b \in BOOLEAN
  PROVE  LET h == [f EXCEPT ![t].pc = "close", ![t].auto = b]
         IN /\ h \in [Task -> Exec]
            /\ h[t].pc = "close" /\ h[t].auto = b /\ h[t].fence = f[t].fence
            /\ h[t].saved = f[t].saved /\ \A u \in Task \ {t} : h[u] = f[u]
<1>. DEFINE e == [f[t] EXCEPT !.pc = "close", !.auto = b]
<1>1. /\ e \in Exec /\ e.pc = "close" /\ e.auto = b
      /\ e.fence = f[t].fence /\ e.saved = f[t].saved
  <2>1. f[t] \in Exec
    OBVIOUS
  <2>. QED
    BY <2>1 DEF Exec, SyncPc
<1>2. [f EXCEPT ![t].pc = "close", ![t].auto = b] = [f EXCEPT ![t] = e]
  OBVIOUS
<1>. HIDE DEF e
<1>. QED
  BY <1>1, <1>2

\* The versions, the revisions and the checkpoints have theirs.
LEMMA RowTypes ==
  ASSUME ManuscriptType
  PROVE  /\ Here \in Fence
         /\ \A t \in Task : ckpt[t].fence \in Fence /\ ckpt[t].stage \in Stage
         /\ \A g \in Gen : Append(order, g) \in Seq(Gen)
         /\ \A p \in Polish : Append(revisions, p) \in Seq(Polish)
         /\ SourceTexts \subseteq Text
<1>1. Here \in Fence
  BY DEF ManuscriptType, Chapter, Fence, Here
<1>2. SourceTexts \subseteq Text
  <2>1. ToSet(revisions) \subseteq Polish
    BY DEF ManuscriptType, ToSet
  <2>. QED
    BY <2>1 DEF ManuscriptType, SourceTexts, Chapter, Text, Task
<1>3. /\ \A g \in Gen : Append(order, g) \in Seq(Gen)
      /\ \A p \in Polish : Append(revisions, p) \in Seq(Polish)
  BY DEF ManuscriptType
<1>4. \A t \in Task : ckpt[t].fence \in Fence /\ ckpt[t].stage \in Stage
  <2>1. \A t \in Task : ckpt[t] \in [stage : Stage, fence : Fence]
    BY DEF ManuscriptType
  <2>. QED
    BY <2>1
<1>. QED
  BY <1>1, <1>2, <1>3, <1>4

\* The first state has them.
LEMMA TypeInit == ManuscriptInit => ManuscriptType
<1>. SUFFICES ASSUME ManuscriptInit PROVE ManuscriptType
  OBVIOUS
<1>1. chapter \in Chapter
  BY DEF ManuscriptInit, Chapter, Text
<1>2. NoFence \in Fence /\ Idle \in Exec
  BY ManuscriptAssumption DEF NoFence, Fence, Idle, Exec, Text
<1>3. /\ ckpt \in [Task -> [stage : Stage, fence : Fence]]
      /\ exec \in [Task -> Exec]
  BY <1>2 DEF ManuscriptInit, Stage
<1>4. /\ report \in [Gen -> [passed : BOOLEAN, blocking : BOOLEAN]]
      /\ version \in [Gen -> {"none", "review", "approved", "rejected"}]
      /\ placed \in [Task -> Nat] /\ seen \in [Task -> Text]
  BY DEF ManuscriptInit, Text
<1>5. /\ order \in Seq(Gen) /\ revisions \in Seq(Polish)
      /\ sources \in 0..MaxSources
  BY ManuscriptAssumption DEF ManuscriptInit
<1>6. /\ told \in [Task -> BOOLEAN] /\ torn \in BOOLEAN
      /\ status \in [Task -> {"absent", "active", "stranded", "stopped",
                              "failed", "done"}]
      /\ adopted = None /\ current = None /\ handler = <<"idle", None>>
  BY DEF ManuscriptInit
<1>. QED
  BY <1>1, <1>3, <1>4, <1>5, <1>6 DEF ManuscriptType

(***************************************************************************)
(* Every step keeps the types.                                             *)
(***************************************************************************)
LEMMA TypeStep == ManuscriptType /\ [ManuscriptNext]_msVars => ManuscriptType'
<1>. SUFFICES ASSUME ManuscriptType, [ManuscriptNext]_msVars
              PROVE  ManuscriptType'
  OBVIOUS
<1>. USE DEF rows
<1>1. /\ chapter \in Chapter /\ exec \in [Task -> Exec]
      /\ ckpt \in [Task -> [stage : Stage, fence : Fence]]
      /\ Here \in Fence /\ SourceTexts \subseteq Text
      /\ \A t \in Task : /\ ckpt[t] \in [stage : Stage, fence : Fence]
                         /\ exec[t] \in Exec
      /\ Task \subseteq Text /\ Gen \subseteq Task /\ Polish \subseteq Task
  BY RowTypes DEF ManuscriptType, Text, Task
<1>2. ASSUME NEW t \in Task, NEW pc \in Pc, Moves(t, pc)
      PROVE  exec' \in [Task -> Exec]
  BY <1>1, <1>2, ExecType DEF Moves
<1>3. ASSUME NEW t \in Task, NEW o \in {"stopped", "failed", "done"},
             Ends(t, o)
      PROVE  /\ exec' \in [Task -> Exec]
             /\ status' \in [Task -> {"absent", "active", "stranded",
                                      "stopped", "failed", "done"}]
  <2>1. Idle \in Exec
    BY ManuscriptAssumption DEF NoFence, Fence, Idle, Exec, Text
  <2>. QED
    BY <1>1, <1>3, <2>1 DEF Ends, ManuscriptType
<1>4. ASSUME NEW t \in Task, NEW s \in Stage
      PROVE  /\ [ckpt EXCEPT ![t].stage = s]
                  \in [Task -> [stage : Stage, fence : Fence]]
             /\ \A f \in Fence : [ckpt EXCEPT ![t] = [stage |-> s, fence |-> f]]
                  \in [Task -> [stage : Stage, fence : Fence]]
  BY <1>1, <1>4
<1>5. /\ Written([chapter EXCEPT !.status = "drafting"]) \in Chapter
      /\ Written([chapter EXCEPT !.status = "planned"]) \in Chapter
      /\ \A t \in Text :
           /\ Written([chapter EXCEPT !.status = "review", !.meta = t])
                \in Chapter
           /\ Written(Published(chapter, t)) \in Chapter
  BY <1>1, WrittenStatus, WrittenReview, WrittenText DEF Chapter
<1>6. {"begin", "model", "compile", "save", "insert", "mark", "review",
       "confirm", "close", "agent", "polish", "store", "apply", "applied"}
        \subseteq Pc
  BY DEF Pc, AwaitPc, SyncPc
<1>7. {"body", "saving", "review", "running", "completed"} \subseteq Stage
  BY DEF Stage
<1>8. ASSUME NEW t \in Task, StartManuscriptTask(t)
      PROVE  ManuscriptType'
  BY <1>2, <1>6, <1>8 DEF StartManuscriptTask, ManuscriptType
<1>9. ASSUME NEW t \in Task, ResumeManuscriptTask(t)
      PROVE  ManuscriptType'
  BY <1>2, <1>6, <1>9 DEF ResumeManuscriptTask, ManuscriptType
<1>10. ASSUME NEW t \in Task, StopManuscriptTask(t)
       PROVE  ManuscriptType'
  BY <1>3, <1>10 DEF StopManuscriptTask, ManuscriptType
<1>11. ASSUME NEW t \in Task, CloseManuscriptTask(t)
       PROVE  ManuscriptType'
  <2>1. exec[t].auto \in BOOLEAN
    BY <1>1 DEF Exec
  <2>. QED
    BY <1>3, <1>11, <2>1 DEF CloseManuscriptTask, ManuscriptType
<1>12. CASE ManuscriptCrash
  <2>1. Idle \in Exec
    BY ManuscriptAssumption DEF NoFence, Fence, Idle, Exec, Text
  <2>2. exec' \in [Task -> Exec]
    BY <1>12, <2>1 DEF ManuscriptCrash
  <2>3. status' \in [Task -> {"absent", "active", "stranded", "stopped",
                              "failed", "done"}]
    BY <1>12 DEF ManuscriptCrash, ManuscriptType
  <2>. QED
    BY <1>12, <2>2, <2>3 DEF ManuscriptCrash, ManuscriptType
<1>13. ASSUME NEW g \in Gen, Generate(g)
       PROVE  ManuscriptType'
  <2>1. CASE Ends(g, "failed") /\ UNCHANGED <<chapter, seen>>
    BY <1>1, <1>3, <1>13, <2>1 DEF Generate, ManuscriptType
  <2>2. CASE ~(Ends(g, "failed") /\ UNCHANGED <<chapter, seen>>)
    <3>. DEFINE row == IF chapter.status # "drafting"
                       THEN Written([chapter EXCEPT !.status = "drafting"])
                       ELSE chapter
                f == [Here EXCEPT !.number = row.number]
                pc == IF ckpt[g].stage = "saving" THEN "save" ELSE "compile"
    <3>1. row \in Chapter /\ pc \in Pc
      BY <1>1, <1>5, <1>6
    <3>2. f \in Fence
      BY <1>1, <3>1 DEF Fence, Chapter
    <3>3. /\ chapter' = row
          /\ exec' = [exec EXCEPT ![g] = [Idle EXCEPT !.fence = f, !.pc = pc]]
          /\ seen' = IF ckpt[g].stage = "null"
                     THEN [seen EXCEPT ![g] = chapter.content] ELSE seen
          /\ UNCHANGED <<rows, sources, ckpt, status, handler, tries, told,
                         placed, torn>>
      BY <1>13, <2>2 DEF Generate
    <3>4. Idle \in Exec
      BY ManuscriptAssumption DEF NoFence, Fence, Idle, Exec, Text
    <3>. HIDE DEF row, f, pc
    <3>5. exec' \in [Task -> Exec]
      BY <1>1, <3>1, <3>2, <3>3, <3>4, ExecType
    <3>6. seen' \in [Task -> Text]
      <4>1. chapter.content \in Text
        BY <1>1 DEF Chapter
      <4>. QED
        BY <3>3, <4>1 DEF ManuscriptType
    <3>. QED
      BY <3>1, <3>3, <3>5, <3>6 DEF ManuscriptType
  <2>. QED
    BY <2>1, <2>2
<1>14. ASSUME NEW g \in Gen, CompileStage(g)
       PROVE  ManuscriptType'
  <2>1. CASE Ends(g, "failed") /\ UNCHANGED ckpt
    BY <1>1, <1>3, <1>14, <2>1 DEF CompileStage, ManuscriptType
  <2>2. CASE ~(Ends(g, "failed") /\ UNCHANGED ckpt)
    <3>. DEFINE s == IF ckpt[g].stage = "null" THEN "body" ELSE ckpt[g].stage
    <3>1. s \in Stage /\ exec[g].fence \in Fence
      BY <1>1, <1>7 DEF Exec
    <3>2. /\ ckpt' = [ckpt EXCEPT ![g] = [stage |-> s, fence |-> exec[g].fence]]
          /\ Moves(g, "model")
          /\ UNCHANGED <<chapter, rows, sources, status, handler, tries, seen,
                         told, placed, torn>>
      BY <1>1, <1>14, <2>2 DEF CompileStage
    <3>. HIDE DEF s
    <3>3. exec' \in [Task -> Exec]
      BY <1>1, <1>2, <1>6, <3>2
    <3>. QED
      BY <1>1, <1>4, <3>1, <3>2, <3>3 DEF ManuscriptType
  <2>. QED
    BY <2>1, <2>2
<1>15. ASSUME NEW g \in Gen, StageWritten(g) \/ MarkReview(g)
       PROVE  ManuscriptType'
  <2>1. exec' \in [Task -> Exec]
    BY <1>1, <1>2, <1>6, <1>15 DEF StageWritten, MarkReview
  <2>2. ckpt' \in [Task -> [stage : Stage, fence : Fence]]
    BY <1>1, <1>4, <1>7, <1>15 DEF StageWritten, MarkReview
  <2>. QED
    BY <1>15, <2>1, <2>2 DEF StageWritten, MarkReview, ManuscriptType
<1>16. ASSUME NEW g \in Gen, SaveVersion(g)
       PROVE  ManuscriptType'
  <2>1. CASE Ends(g, "failed") /\ UNCHANGED ckpt
    BY <1>1, <1>3, <1>16, <2>1 DEF SaveVersion, ManuscriptType
  <2>2. CASE ~(Ends(g, "failed") /\ UNCHANGED ckpt)
    <3>1. exec[g].fence \in Fence
      BY <1>1 DEF Exec
    <3>2. /\ ckpt' = [ckpt EXCEPT ![g] =
               [stage |-> "saving", fence |-> exec[g].fence]]
          /\ Moves(g, "insert")
          /\ UNCHANGED <<chapter, rows, sources, status, handler, tries, seen,
                         told, placed, torn>>
      BY <1>16, <2>2 DEF SaveVersion
    <3>3. exec' \in [Task -> Exec]
      BY <1>1, <1>2, <1>6, <3>2
    <3>. QED
      BY <1>1, <1>4, <1>7, <3>1, <3>2, <3>3 DEF ManuscriptType
  <2>. QED
    BY <2>1, <2>2
<1>17. ASSUME NEW g \in Gen, InsertVersion(g)
       PROVE  ManuscriptType'
  <2>1. exec' \in [Task -> Exec] /\ order' \in Seq(Gen)
    BY <1>1, <1>2, <1>6, <1>17, RowTypes DEF InsertVersion
  <2>2. report' \in [Gen -> [passed : BOOLEAN, blocking : BOOLEAN]]
    BY <1>17 DEF InsertVersion, ManuscriptType
  <2>. QED
    BY <1>17, <2>1, <2>2 DEF InsertVersion, ManuscriptType
<1>18. ASSUME NEW g \in Gen, ReviewChapter(g)
       PROVE  ManuscriptType'
  <2>1. exec' \in [Task -> Exec] /\ chapter' \in Chapter
    BY <1>1, <1>2, <1>5, <1>6, <1>18 DEF ReviewChapter
  <2>. QED
    BY <1>18, <2>1 DEF ReviewChapter, ManuscriptType
<1>19. ASSUME NEW g \in Gen, ConfirmOwn(g)
       PROVE  ManuscriptType'
  <2>1. CASE Ends(g, "failed") /\ UNCHANGED <<chapter, version, adopted, placed>>
    BY <1>1, <1>3, <1>19, <2>1 DEF ConfirmOwn, ManuscriptType
  <2>2. CASE ~(Ends(g, "failed") /\ UNCHANGED <<chapter, version, adopted, placed>>)
    <3>1. /\ Approve(g) /\ chapter' = Written(Published(chapter, g))
          /\ placed' = [placed EXCEPT ![g] = @ + 1]
          /\ exec' = [exec EXCEPT ![g].pc = "close", ![g].auto = TRUE]
          /\ UNCHANGED <<status, report, order, revisions, current, sources,
                         ckpt, handler, tries, seen, told, torn>>
      BY <1>19, <2>2 DEF ConfirmOwn
    <3>2. exec' \in [Task -> Exec]
      BY <1>1, <3>1, ClosingType
    <3>3. chapter' \in Chapter
      BY <1>1, <1>5, <3>1
    <3>. QED
      BY <1>1, <3>1, <3>2, <3>3 DEF Approve, ManuscriptType
  <2>. QED
    BY <2>1, <2>2
<1>20. ASSUME NEW g \in Gen, FinalizePersistedVersion(g)
       PROVE  ManuscriptType'
  <2>1. CASE /\ Ends(g, "failed")
             /\ UNCHANGED <<chapter, version, adopted, ckpt, placed>>
    BY <1>1, <1>3, <1>20, <2>1 DEF FinalizePersistedVersion, ManuscriptType
  <2>2. CASE ~(/\ Ends(g, "failed")
               /\ UNCHANGED <<chapter, version, adopted, ckpt, placed>>)
    <3>. DEFINE confirms == g \in AutoApply /\ report[g].passed
                            /\ version[g] = "review"
                auto == confirms \/ version[g] = "approved"
    <3>1. /\ exec' = [exec EXCEPT ![g].pc = "close", ![g].auto = auto]
          /\ ckpt' = [ckpt EXCEPT ![g].stage = "review"]
          /\ UNCHANGED <<status, report, order, revisions, current, sources,
                         handler, tries, seen, told, torn>>
          /\ \/ /\ Approve(g)
                /\ chapter' = Written(Published(chapter, g))
                /\ placed' = [placed EXCEPT ![g] = @ + 1]
             \/ /\ \/ chapter' = chapter
                   \/ chapter' = Written([chapter EXCEPT !.status = "review",
                                                         !.meta = g])
                /\ UNCHANGED <<version, adopted, placed>>
      BY <1>20, <2>2 DEF FinalizePersistedVersion
    <3>2. auto \in BOOLEAN
      OBVIOUS
    <3>. HIDE DEF auto
    <3>3. exec' \in [Task -> Exec]
      BY <1>1, <3>1, <3>2, ClosingType
    <3>4. ckpt' \in [Task -> [stage : Stage, fence : Fence]]
      BY <1>1, <1>4, <1>7, <3>1
    <3>5. chapter' \in Chapter
      BY <1>1, <1>5, <3>1
    <3>6. version' \in [Gen -> {"none", "review", "approved", "rejected"}]
      BY <3>1 DEF Approve, ManuscriptType
    <3>7. adopted' \in Gen \cup {None}
      BY <3>1 DEF Approve, ManuscriptType
    <3>8. placed' \in [Task -> Nat]
      BY <1>1, <3>1 DEF ManuscriptType
    <3>. QED
      BY <3>1, <3>3, <3>4, <3>5, <3>6, <3>7, <3>8 DEF ManuscriptType
  <2>. QED
    BY <2>1, <2>2
<1>21. ASSUME NEW p \in Polish, Polishing(p)
       PROVE  ManuscriptType'
  <2>1. ckpt[p].fence.text \in Text
    BY <1>1 DEF Fence
  <2>2. Idle \in Exec
    BY ManuscriptAssumption DEF NoFence, Fence, Idle, Exec, Text
  <2>3. exec' \in [Task -> Exec]
    BY <1>1, <1>6, <1>21, <2>1, <2>2, ExecType DEF Polishing
  <2>. QED
    BY <1>21, <2>3 DEF Polishing, ManuscriptType
<1>22. ASSUME NEW p \in Polish, PolishSource(p)
       PROVE  ManuscriptType'
  <2>1. PICK text \in Text :
          exec' = [exec EXCEPT ![p].pc = "polish", ![p].fence.text = text]
    BY <1>1, <1>22 DEF PolishSource
  <2>2. exec' \in [Task -> Exec]
    BY <1>1, <1>6, <2>1, ExecType
  <2>3. seen' \in [Task -> Text]
    <3>1. chapter.content \in Text
      BY <1>1 DEF Chapter
    <3>. QED
      BY <1>22, <3>1 DEF PolishSource, ManuscriptType
  <2>. QED
    BY <1>22, <2>2, <2>3 DEF PolishSource, ManuscriptType
<1>23. ASSUME NEW p \in Polish, PolishAnswers(p)
       PROVE  ManuscriptType'
  <2>1. exec[p].fence \in Fence
    BY <1>1 DEF Exec
  <2>2. ckpt' \in [Task -> [stage : Stage, fence : Fence]]
    BY <1>1, <1>4, <1>7, <1>23, <2>1 DEF PolishAnswers
  <2>3. exec' \in [Task -> Exec]
    BY <1>1, <1>2, <1>6, <1>23 DEF PolishAnswers
  <2>. QED
    BY <1>23, <2>2, <2>3 DEF PolishAnswers, ManuscriptType
<1>24. ASSUME NEW p \in Polish, SaveRevision(p)
       PROVE  ManuscriptType'
  <2>1. ckpt' \in [Task -> [stage : Stage, fence : Fence]]
    BY <1>1, <1>4, <1>7, <1>24 DEF SaveRevision
  <2>2. exec' \in [Task -> Exec] /\ revisions' \in Seq(Polish)
    BY <1>1, <1>2, <1>6, <1>24, RowTypes DEF SaveRevision
  <2>. QED
    BY <1>24, <2>1, <2>2 DEF SaveRevision, ManuscriptType
<1>25. ASSUME NEW p \in Polish, ApplyOwnRevision(p)
       PROVE  ManuscriptType'
  <2>1. exec' \in [Task -> Exec] /\ chapter' \in Chapter
    BY <1>1, <1>2, <1>5, <1>6, <1>25 DEF ApplyOwnRevision
  <2>2. placed' \in [Task -> Nat] /\ current' \in Polish \cup {None}
    BY <1>1, <1>25 DEF ApplyOwnRevision, ManuscriptType
  <2>. QED
    BY <1>25, <2>1, <2>2 DEF ApplyOwnRevision, ManuscriptType
<1>26. ASSUME NEW p \in Polish, MarkApplied(p)
       PROVE  ManuscriptType'
  <2>1. exec' \in [Task -> Exec]
    BY <1>1, <1>2, <1>6, <1>26 DEF MarkApplied
  <2>2. exec[p].saved \in Text
    BY <1>1 DEF Exec
  <2>3. ckpt' \in [Task -> [stage : Stage, fence : Fence]]
    BY <1>1, <1>26, <2>2 DEF MarkApplied, Fence
  <2>. QED
    BY <1>26, <2>1, <2>3 DEF MarkApplied, ManuscriptType
<1>27. ASSUME NEW p \in Polish, FinishExistingRevision(p)
       PROVE  ManuscriptType'
  <2>1. CASE Ends(p, "failed") /\ UNCHANGED <<chapter, current, placed>>
    BY <1>1, <1>3, <1>27, <2>1 DEF FinishExistingRevision, ManuscriptType
  <2>2. CASE ~(Ends(p, "failed") /\ UNCHANGED <<chapter, current, placed>>)
    <3>1. /\ Moves(p, "close")
          /\ UNCHANGED <<status, version, report, order, adopted, revisions,
                         sources, ckpt, handler, tries, seen, told, torn>>
          /\ \/ /\ chapter' = Written(Published(chapter, p))
                /\ current' = p
                /\ placed' = [placed EXCEPT ![p] = @ + 1]
             \/ UNCHANGED <<chapter, current, placed>>
      BY <1>27, <2>2 DEF FinishExistingRevision
    <3>2. exec' \in [Task -> Exec] /\ chapter' \in Chapter
      BY <1>1, <1>2, <1>5, <1>6, <3>1
    <3>. QED
      BY <1>1, <3>1, <3>2 DEF ManuscriptType
  <2>. QED
    BY <2>1, <2>2
<1>28. ASSUME NEW g \in Gen, ConfirmVersion(g) \/ RejectVersion(g)
       PROVE  ManuscriptType'
  <2>1. handler' \in {handler, <<"publish", g>>, <<"plan", g>>}
    BY <1>28 DEF ConfirmVersion, RejectVersion
  <2>2. /\ version' \in [Gen -> {"none", "review", "approved", "rejected"}]
        /\ adopted' \in Gen \cup {None}
    BY <1>28 DEF ConfirmVersion, RejectVersion, Approve, Reject, ManuscriptType
  <2>. QED
    BY <1>28, <2>1, <2>2 DEF ConfirmVersion, RejectVersion, ManuscriptType
<1>29. ASSUME NEW p \in Polish, ApplyRevision(p)
       PROVE  ManuscriptType'
  <2>1. chapter' \in Chapter
    BY <1>1, <1>5, <1>29 DEF ApplyRevision
  <2>. QED
    BY <1>29, <2>1 DEF ApplyRevision, ManuscriptType
<1>30. CASE FinishRequest
  <2>1. handler[1] = "publish" => handler[2] \in Gen
    BY DEF ManuscriptType
  <2>2. handler[1] = "current" => handler[2] \in Polish
    BY DEF ManuscriptType
  <2>3. chapter' \in Chapter
    BY <1>1, <1>5, <1>30, <2>1 DEF FinishRequest
  <2>4. current' \in Polish \cup {None}
    BY <1>30, <2>2 DEF FinishRequest, ManuscriptType
  <2>. QED
    BY <1>30, <2>3, <2>4 DEF FinishRequest, ManuscriptType
<1>31. CASE EditSources
  BY <1>31, ManuscriptAssumption DEF EditSources, ManuscriptType
<1>32. CASE UNCHANGED msVars
  <2>1. Here' = Here
    BY <1>32 DEF msVars, Here
  <2>. QED
    BY <1>32 DEF msVars, ManuscriptType
<1>. QED
  BY <1>8, <1>9, <1>10, <1>11, <1>12, <1>13, <1>14, <1>15, <1>16, <1>17,
     <1>18, <1>19, <1>20, <1>21, <1>22, <1>23, <1>24, <1>25, <1>26, <1>27,
     <1>28, <1>29, <1>30, <1>31, <1>32
     DEF ManuscriptNext, GenerationStep, PolishStep, ExecutionStep

-----------------------------------------------------------------------------
(* What a turn of one task leaves to the others.                           *)

\* Nothing of another task is written: t is the task, None for a request.
Touches(t) ==
  /\ \A u \in Task \ {t} :
       /\ exec'[u] = exec[u] /\ ckpt'[u] = ckpt[u] /\ status'[u] = status[u]
       /\ seen'[u] = seen[u] /\ placed'[u] = placed[u]
  /\ \A g \in Gen \ {t} : version'[g] = version[g]

\* What it may do to the chapter and to the rows that all tasks read.
TextStep(t) ==
  /\ \A g \in Gen : Spent(g) =>
       /\ Spent(g)'
       /\ chapter'.content = g => chapter.content = g
  /\ \A g \in Gen \ {t} :
       /\ chapter'.content = g => Spent(g)'
       /\ handler' = <<"publish", g>> => handler = <<"publish", g>>
       /\ InStretch(g) => UNCHANGED <<chapter, sources, adopted>>
       /\ version[g] # "none" /\ Unfinished(g) => order' = order
  /\ \A p \in Polish \ {t} :
       /\ Contains(revisions', p) <=> Contains(revisions, p)
       /\ p \in {chapter'.content, Chosen', current'} => Contains(revisions, p)
       /\ ~torn' /\ Chosen' = p =>
            Chosen = p /\ chapter'.content \in Gen \cup {p, chapter.content}
  /\ torn => torn'

\* One task runs, from an await or further in its stretch, or a request does.
Turn(t) ==
  /\ Touches(t) /\ TextStep(t)
  /\ exec' = exec \/ (t \in Task /\ (MayTurn \/ InStretch(t)))
  /\ handler' \in {handler, <<"idle", None>>} \/ (MayTurn /\ exec' = exec)
  /\ \A u \in Task : status'[u] \in {"active", "stranded"} =>
       \/ status[u] \in {"active", "stranded"}
       \/ u = t /\ KeyIsFree(t)

\* A turn leaves the other generations where they stand.
LEMMA OtherGenerations ==
  ASSUME ManuscriptInv, NEW t, Turn(t), NEW g \in Gen \ {t}
  PROVE  GenStands(g)'
<1>1. /\ exec'[g] = exec[g] /\ ckpt'[g] = ckpt[g] /\ status'[g] = status[g]
      /\ seen'[g] = seen[g] /\ placed'[g] = placed[g]
      /\ version'[g] = version[g]
  BY DEF Turn, Touches, Task
<1>2. /\ chapter'.content = g => Spent(g)'
      /\ handler' = <<"publish", g>> => handler = <<"publish", g>>
      /\ InStretch(g) => UNCHANGED <<chapter, sources, adopted>>
      /\ version[g] # "none" /\ Unfinished(g) => order' = order
  BY DEF Turn, TextStep
<1>3. GenStands(g)
  BY DEF ManuscriptInv
<1>4. exec[g].pc \in {"insert", "close"} =>
        UNCHANGED <<chapter, sources, adopted>>
  BY <1>2 DEF InStretch, SyncPc
<1>5. exec[g].pc = "insert" => Here' = Here
  BY <1>4 DEF Here
<1>6. exec[g].auto => exec[g].pc = "close" /\ Shows(g)' /\ adopted' = g
  BY <1>3, <1>4 DEF GenStands, Shows
<1>7. version[g] # "none" /\ Unfinished(g)' => Newest(order') = g
  BY <1>1, <1>2, <1>3 DEF GenStands, Unfinished
<1>8. exec[g].pc = "insert" => ckpt'[g].fence = Here' /\ chapter'.content = seen'[g]
  BY <1>1, <1>3, <1>4, <1>5 DEF GenStands
<1>9. /\ chapter'.content = g =>
           version'[g] = "approved" /\ handler' # <<"publish", g>>
      /\ handler' = <<"publish", g>> => version'[g] = "approved"
  BY <1>1, <1>2, <1>3 DEF GenStands, Spent
<1>10. LET pc == exec'[g].pc
       IN /\ pc \notin {"agent", "polish", "store", "apply", "applied"}
          /\ pc # "none" => status'[g] = "active"
          /\ status'[g] \in {"absent", "stopped"} => version'[g] = "none"
          /\ pc \in {"compile", "model", "save", "insert"} =>
               version'[g] = "none" /\ exec'[g].fence.text = seen'[g]
          /\ pc = "model" => ckpt'[g].stage # "null"
          /\ pc \in {"mark", "review", "confirm"} => version'[g] = "review"
          /\ version'[g] = "none" /\ ckpt'[g].stage # "null" =>
               ckpt'[g].fence.text = seen'[g]
          /\ placed'[g] <= 1 /\ (placed'[g] = 1 => version'[g] = "approved")
  BY <1>1, <1>3 DEF GenStands
<1>. QED
  BY <1>1, <1>6, <1>7, <1>8, <1>9, <1>10 DEF GenStands

\* And the other polishes.
LEMMA OtherPolishes ==
  ASSUME ManuscriptInv, NEW t, Turn(t), NEW p \in Polish \ {t}
  PROVE  PolishStands(p)'
<1>1. /\ exec'[p] = exec[p] /\ ckpt'[p] = ckpt[p] /\ placed'[p] = placed[p]
  BY DEF Turn, Touches, Task
<1>2. /\ Contains(revisions', p) <=> Contains(revisions, p)
      /\ p \in {chapter'.content, Chosen', current'} => Contains(revisions, p)
      /\ ~torn' /\ Chosen' = p =>
           Chosen = p /\ chapter'.content \in Gen \cup {p, chapter.content}
      /\ torn => torn'
  BY DEF Turn, TextStep
<1>3. \A x \in Gen : Spent(x) =>
        Spent(x)' /\ (chapter'.content = x => chapter.content = x)
  BY DEF Turn, TextStep
<1>4. PolishStands(p)
  BY DEF ManuscriptInv
<1>5. ASSUME NEW x \in {ckpt'[p].fence.text, exec'[p].saved,
                        exec'[p].fence.text}
      PROVE  /\ x # p /\ Spent(x)'
             /\ placed'[p] > 0 /\ x \in Gen => chapter'.content # x
  <2>1. /\ x # p /\ Spent(x)
        /\ placed[p] > 0 /\ x \in Gen => chapter.content # x
    BY <1>1, <1>4 DEF PolishStands
  <2>2. CASE x \in Gen
    BY <1>1, <1>3, <2>1, <2>2
  <2>3. CASE x \notin Gen
    BY <2>1, <2>3 DEF Spent
  <2>. QED
    BY <2>2, <2>3
<1>6. ~torn' /\ placed'[p] > 0 /\ Chosen' = p =>
        chapter'.content \in Gen \cup {p}
  BY <1>1, <1>2, <1>4 DEF PolishStands
<1>7. LET pc == exec'[p].pc
      IN /\ pc \in {"agent", "polish", "store"} => ~Contains(revisions', p)
         /\ pc = "apply" => Contains(revisions', p) /\ placed'[p] = 0
         /\ placed'[p] > 0 => Contains(revisions', p)
         /\ p \in {chapter'.content, Chosen', current'} =>
              Contains(revisions', p)
         /\ torn' \/ placed'[p] <= 1
  BY <1>1, <1>2, <1>4 DEF PolishStands
<1>. QED
  BY <1>5, <1>6, <1>7 DEF PolishStands

\* A turn leaves one stretch and one generation at a time.
LEMMA TurnsAreExclusive ==
  ASSUME ManuscriptInv, NEW t, Turn(t)
  PROVE  Exclusive'
<1>1. Exclusive
  BY DEF ManuscriptInv
<1>2. \A u \in Task \ {t} : InStretch(u)' <=> InStretch(u)
  BY DEF Turn, Touches, InStretch
<1>5. \A g, h \in Gen : Unfinished(g)' /\ Unfinished(h)' => g = h
  <2>. SUFFICES ASSUME NEW g \in Gen, NEW h \in Gen,
                       Unfinished(g)', Unfinished(h)', g # h
                PROVE  FALSE
    OBVIOUS
  <2>1. /\ g \in Task /\ h \in Task
        /\ Unfinished(g) \/ (g = t /\ KeyIsFree(t))
        /\ Unfinished(h) \/ (h = t /\ KeyIsFree(t))
    BY DEF Turn, Unfinished, Task
  <2>2. ASSUME NEW a \in Gen, NEW b \in Gen, a # b, KeyIsFree(a)
        PROVE  ~Unfinished(b)
    BY <2>2 DEF KeyIsFree, KindOf, Unfinished
  <2>3. ~(Unfinished(g) /\ Unfinished(h))
    BY <1>1 DEF Exclusive
  <2>. QED
    BY <2>1, <2>2, <2>3
<1>3. CASE exec' = exec
  <2>1. \A u \in Task : InStretch(u)' <=> InStretch(u)
    BY <1>3 DEF InStretch
  <2>2. handler' # <<"idle", None>> => \A u \in Task : ~InStretch(u)
    BY <1>1 DEF Turn, Exclusive, MayTurn, InStretch
  <2>. QED
    BY <1>1, <2>1, <2>2, <1>5 DEF Exclusive
<1>4. CASE exec' # exec
  <2>1. /\ t \in Task /\ (MayTurn \/ InStretch(t))
        /\ handler' \in {handler, <<"idle", None>>}
    BY <1>4 DEF Turn
  <2>2. handler = <<"idle", None>> /\ \A u \in Task \ {t} : ~InStretch(u)
    BY <1>1, <2>1 DEF Exclusive, MayTurn, InStretch
  <2>. QED
    BY <1>2, <1>5, <2>1, <2>2 DEF Exclusive
<1>. QED
  BY <1>3, <1>4

\* What a task does in its turn keeps the invariant if the task itself stands.
LEMMA TurnKeeps ==
  ASSUME ManuscriptInv, ManuscriptType', NEW t, Turn(t),
         t \in Gen => GenStands(t)', t \in Polish => PolishStands(t)'
  PROVE  ManuscriptInv'
<1>1. Exclusive'
  BY TurnsAreExclusive
<1>2. \A g \in Gen : GenStands(g)'
  BY OtherGenerations
<1>3. \A p \in Polish : PolishStands(p)'
  BY OtherPolishes
<1>. QED
  BY <1>1, <1>2, <1>3 DEF ManuscriptInv

\* A task that moves on, or is over, changes its own execution and row only.
LEMMA MovesOn ==
  ASSUME ManuscriptType, NEW t \in Task, NEW pc, Moves(t, pc)
  PROVE  /\ exec'[t].pc = pc /\ exec'[t].fence = exec[t].fence
         /\ exec'[t].saved = exec[t].saved
         /\ exec'[t].auto => exec[t].auto
         /\ \A u \in Task \ {t} : exec'[u] = exec[u]
<1>1. exec \in [Task -> Exec] /\ exec[t] \in Exec
  BY DEF ManuscriptType
<1>. DEFINE e == [exec[t] EXCEPT !.pc = pc]
<1>2. /\ e.pc = pc /\ e.fence = exec[t].fence /\ e.saved = exec[t].saved
      /\ e.auto = exec[t].auto
  BY <1>1 DEF Exec
<1>3. exec' = [exec EXCEPT ![t] = e]
  BY DEF Moves
<1>. HIDE DEF e
<1>4. exec'[t] = e /\ \A u \in Task \ {t} : exec'[u] = exec[u]
  BY <1>1, <1>3
<1>. QED
  BY <1>2, <1>4

\* One that ends forgets its execution.
LEMMA IsOver ==
  ASSUME ManuscriptType, NEW t \in Task, NEW o, Ends(t, o)
  PROVE  /\ exec'[t].pc = "none" /\ exec'[t].fence.text = None
         /\ exec'[t].saved = None /\ ~exec'[t].auto
         /\ status'[t] = o
         /\ \A u \in Task \ {t} :
              exec'[u] = exec[u] /\ status'[u] = status[u]
<1>1. exec'[t] = Idle /\ status'[t] = o
  BY DEF Ends, ManuscriptType
<1>2. /\ Idle.pc = "none" /\ Idle.fence.text = None /\ Idle.saved = None
      /\ Idle.auto = FALSE
  BY DEF Idle, NoFence
<1>3. \A u \in Task \ {t} : exec'[u] = exec[u] /\ status'[u] = status[u]
  BY DEF Ends, ManuscriptType
<1>. QED
  BY <1>1, <1>2, <1>3

\* Whoever runs a stretch runs alone; at an await nobody does.
LEMMA Alone ==
  ASSUME ManuscriptInv, NEW t, MayTurn \/ (t \in Task /\ InStretch(t))
  PROVE  /\ handler = <<"idle", None>> /\ Chosen = current
         /\ \A u \in Task \ {t} : ~InStretch(u)
<1>1. handler = <<"idle", None>> /\ \A u \in Task \ {t} : ~InStretch(u)
  BY DEF ManuscriptInv, Exclusive, MayTurn, InStretch
<1>2. handler[1] # "current"
  BY <1>1
<1>. QED
  BY <1>1, <1>2 DEF Chosen

\* A text in the chapter is spent or a stored revision, and so is what is current.
LEMMA TextsStand ==
  ASSUME ManuscriptInv
  PROVE  /\ \A g \in Gen : chapter.content = g => Spent(g)
         /\ \A p \in Polish :
              p \in {chapter.content, Chosen, current} => Contains(revisions, p)
BY DEF ManuscriptInv, GenStands, PolishStands, Spent

\* A turn that leaves the texts alone.
LEMMA QuietTurn ==
  ASSUME ManuscriptInv, NEW t \in Task, MayTurn \/ InStretch(t),
         UNCHANGED <<chapter, version, order, adopted, revisions, current,
                     sources, handler, torn>>,
         \A u \in Task \ {t} :
           /\ exec'[u] = exec[u] /\ ckpt'[u] = ckpt[u] /\ status'[u] = status[u]
           /\ seen'[u] = seen[u] /\ placed'[u] = placed[u],
         \A u \in Task : status'[u] \in {"active", "stranded"} =>
           \/ status[u] \in {"active", "stranded"}
           \/ u = t /\ KeyIsFree(t)
  PROVE  Turn(t)
<1>1. Touches(t)
  BY DEF Touches
<1>2. /\ Chosen' = Chosen /\ \A g : Spent(g)' <=> Spent(g)
  BY DEF Chosen, Spent
<1>3. TextStep(t)
  BY <1>2, TextsStand DEF TextStep
<1>. QED
  BY <1>1, <1>3 DEF Turn

\* A turn in a stretch that writes the chapter's row and no text.
LEMMA RowTurn ==
  ASSUME ManuscriptInv, NEW t \in Task, InStretch(t),
         chapter'.content = chapter.content,
         UNCHANGED <<version, order, adopted, revisions, current, sources,
                     handler, torn>>,
         \A u \in Task \ {t} :
           /\ exec'[u] = exec[u] /\ ckpt'[u] = ckpt[u] /\ status'[u] = status[u]
           /\ seen'[u] = seen[u] /\ placed'[u] = placed[u],
         status'[t] \in {"active", "stranded"} =>
           status[t] \in {"active", "stranded"}
  PROVE  Turn(t)
<1>1. Touches(t)
  BY DEF Touches
<1>2. /\ Chosen' = Chosen /\ \A g : Spent(g)' <=> Spent(g)
  BY DEF Chosen, Spent
<1>3. \A u \in Task \ {t} : ~InStretch(u)
  BY Alone
<1>4. TextStep(t)
  BY <1>2, <1>3, TextsStand DEF TextStep, Task
<1>5. \A u \in Task : status'[u] \in {"active", "stranded"} =>
        status[u] \in {"active", "stranded"}
  OBVIOUS
<1>. QED
  BY <1>1, <1>4, <1>5 DEF Turn

-----------------------------------------------------------------------------
(* Every step keeps the invariant.                                         *)

\* A task is started, resumed, stopped or over.
LEMMA ExecutionKeeps ==
  ASSUME ManuscriptInv, ManuscriptType', NEW t \in Task, ExecutionStep(t)
  PROVE  ManuscriptInv'
<1>. USE DEF rows
<1>1. /\ ManuscriptType /\ (t \in Gen => GenStands(t))
      /\ (t \in Polish => PolishStands(t)) /\ (t \in Gen => t \notin Polish)
  BY ManuscriptAssumption DEF ManuscriptInv
<1>2. /\ UNCHANGED <<chapter, rows, sources, ckpt, handler, seen, placed, torn>>
      /\ \A u \in Task \ {t} : exec'[u] = exec[u] /\ status'[u] = status[u]
      /\ MayTurn \/ InStretch(t)
      /\ Chosen' = Chosen /\ \A g : Spent(g)' <=> Spent(g)
  <2>1. UNCHANGED <<chapter, rows, sources, ckpt, handler, seen, placed, torn>>
    BY DEF ExecutionStep, StartManuscriptTask, ResumeManuscriptTask,
       StopManuscriptTask, CloseManuscriptTask
  <2>2. MayTurn \/ InStretch(t)
    BY DEF ExecutionStep, StartManuscriptTask, ResumeManuscriptTask,
       StopManuscriptTask, CloseManuscriptTask, InStretch, SyncPc
  <2>3. \A u \in Task \ {t} : exec'[u] = exec[u] /\ status'[u] = status[u]
    BY <1>1, MovesOn, IsOver DEF ExecutionStep, StartManuscriptTask,
       ResumeManuscriptTask, StopManuscriptTask, CloseManuscriptTask,
       ManuscriptType
  <2>. QED
    BY <2>1, <2>2, <2>3 DEF Chosen, Spent
<1>3. CASE StartManuscriptTask(t) \/ ResumeManuscriptTask(t)
  <2>1. /\ status'[t] = "active" /\ KeyIsFree(t)
        /\ status[t] \in {"absent", "stranded", "stopped"}
        /\ exec'[t].pc = "begin" /\ exec'[t].fence = exec[t].fence
        /\ exec'[t].saved = exec[t].saved
        /\ exec'[t].auto => exec[t].auto
    BY <1>1, <1>3, MovesOn
       DEF StartManuscriptTask, ResumeManuscriptTask, ManuscriptType
  <2>2. Turn(t)
    BY <1>2, <2>1, QuietTurn
  <2>3. ASSUME t \in Gen PROVE GenStands(t)'
    <3>1. ~exec[t].auto
      BY <1>1, <2>1, <2>3 DEF GenStands
    <3>2. version[t] # "none" => Newest(order) = t
      BY <1>1, <2>1, <2>3 DEF GenStands, Unfinished
    <3>. QED
      BY <1>1, <1>2, <2>1, <2>3, <3>1, <3>2 DEF GenStands
  <2>4. ASSUME t \in Polish PROVE PolishStands(t)'
    BY <1>1, <1>2, <2>1, <2>4 DEF PolishStands
  <2>. QED
    BY <2>2, <2>3, <2>4, TurnKeeps
<1>4. CASE StopManuscriptTask(t) \/ CloseManuscriptTask(t)
  <2>1. /\ exec'[t].pc = "none" /\ exec'[t].fence.text = None
        /\ exec'[t].saved = None /\ ~exec'[t].auto
        /\ \/ status'[t] = "stopped" /\ exec[t].pc \in AwaitPc
           \/ status'[t] = "done"
    BY <1>1, <1>4, IsOver DEF StopManuscriptTask, CloseManuscriptTask
  <2>2. Turn(t)
    BY <1>2, <2>1, QuietTurn
  <2>3. ASSUME t \in Gen PROVE GenStands(t)'
    BY <1>1, <1>2, <2>1, <2>3 DEF GenStands, Unfinished, AwaitPc
  <2>4. ASSUME t \in Polish PROVE PolishStands(t)'
    <3>1. None # t /\ None \notin Gen
      BY ManuscriptAssumption DEF Task
    <3>. QED
      BY <1>1, <1>2, <2>1, <2>4, <3>1 DEF PolishStands, Spent
  <2>. QED
    BY <2>2, <2>3, <2>4, TurnKeeps
<1>. QED
  BY <1>3, <1>4 DEF ExecutionStep

\* A generation writes its text.
LEMMA WritingKeeps ==
  ASSUME ManuscriptInv, ManuscriptType', NEW g \in Gen,
         Generate(g) \/ CompileStage(g) \/ StageWritten(g) \/ SaveVersion(g)
  PROVE  ManuscriptInv'
<1>. USE DEF rows
<1>1. /\ ManuscriptType /\ GenStands(g) /\ g \in Task /\ g \notin Polish
      /\ chapter \in Chapter /\ exec \in [Task -> Exec]
      /\ ckpt \in [Task -> [stage : Stage, fence : Fence]]
  BY ManuscriptAssumption DEF ManuscriptInv, ManuscriptType, Task
<1>2. /\ UNCHANGED <<rows, sources, handler, placed, torn>>
      /\ chapter'.content = chapter.content
      /\ Chosen' = Chosen /\ \A h : Spent(h)' <=> Spent(h)
  <2>1. UNCHANGED <<rows, sources, handler, placed, torn>>
    BY DEF Generate, CompileStage, StageWritten, SaveVersion
  <2>2. chapter' \in {chapter, Written([chapter EXCEPT !.status = "drafting"])}
    BY DEF Generate, CompileStage, StageWritten, SaveVersion
  <2>3. Written([chapter EXCEPT !.status = "drafting"]).content
          = chapter.content
    BY <1>1, WrittenStatus
  <2>4. chapter'.content = chapter.content
    BY <2>2, <2>3
  <2>5. Chosen' = Chosen
    BY <2>1 DEF Chosen
  <2>6. \A h : Spent(h)' <=> Spent(h)
    BY <2>1 DEF Spent
  <2>. QED
    BY <2>1, <2>4, <2>5, <2>6
<1>3. CASE Ends(g, "failed") /\ UNCHANGED <<chapter, ckpt, seen>>
  <2>1. MayTurn \/ InStretch(g)
    BY DEF Generate, CompileStage, StageWritten, SaveVersion, InStretch, SyncPc
  <2>2. Turn(g)
    BY <1>1, <1>2, <1>3, <2>1, IsOver, QuietTurn
  <2>3. version[g] = "none"
    BY <1>1 DEF Generate, CompileStage, StageWritten, SaveVersion, GenStands
  <2>4. GenStands(g)'
    BY <1>1, <1>2, <1>3, <2>3, IsOver DEF GenStands
  <2>. QED
    BY <1>1, <2>2, <2>4, TurnKeeps
<1>4. CASE Generate(g) /\ ~Ends(g, "failed")
  <2>. DEFINE row == IF chapter.status # "drafting"
                     THEN Written([chapter EXCEPT !.status = "drafting"])
                     ELSE chapter
              f == [Here EXCEPT !.number = row.number]
              pc == IF ckpt[g].stage = "saving" THEN "save" ELSE "compile"
              e == [Idle EXCEPT !.fence = f, !.pc = pc]
  <2>1. /\ exec[g].pc = "begin" /\ version[g] = "none" /\ FenceHolds(g)
        /\ exec' = [exec EXCEPT ![g] = e]
        /\ seen' = IF ckpt[g].stage = "null"
                   THEN [seen EXCEPT ![g] = chapter.content] ELSE seen
        /\ UNCHANGED <<rows, sources, ckpt, status, handler, tries, told,
                       placed, torn>>
    BY <1>4 DEF Generate
  <2>2. f.text = chapter.content
    BY DEF Here
  <2>. HIDE DEF f
  <2>3. e.pc = pc /\ e.fence = f /\ e.auto = FALSE
    BY DEF Idle
  <2>. HIDE DEF e
  <2>4. /\ exec'[g].pc = pc /\ exec'[g].fence.text = chapter.content
        /\ ~exec'[g].auto /\ \A u \in Task \ {g} : exec'[u] = exec[u]
    BY <1>1, <2>1, <2>2, <2>3
  <2>5. /\ seen'[g] = IF ckpt[g].stage = "null"
                      THEN chapter.content ELSE seen[g]
        /\ \A u \in Task \ {g} : seen'[u] = seen[u]
    BY <1>1, <2>1 DEF ManuscriptType
  <2>6. ckpt[g].stage # "null" => chapter.content = seen[g]
    BY <1>1, <2>1 DEF FenceHolds, Here, GenStands
  <2>7. Turn(g)
    <3>1. InStretch(g)
      BY <2>1 DEF InStretch, SyncPc
    <3>. QED
      BY <1>1, <1>2, <2>1, <2>4, <2>5, <3>1, RowTurn
  <2>8. GenStands(g)'
    BY <1>1, <1>2, <2>1, <2>4, <2>5, <2>6 DEF GenStands
  <2>. QED
    BY <1>1, <2>7, <2>8, TurnKeeps
<1>5. CASE CompileStage(g) /\ ~Ends(g, "failed")
  <2>. DEFINE s == IF ckpt[g].stage = "null" THEN "body" ELSE ckpt[g].stage
  <2>1. /\ MayTurn /\ exec[g].pc = "compile" /\ Moves(g, "model")
        /\ ckpt' = [ckpt EXCEPT ![g] = [stage |-> s, fence |-> exec[g].fence]]
        /\ UNCHANGED <<chapter, rows, sources, status, handler, tries, seen,
                       told, placed, torn>>
    BY <1>1, <1>5 DEF CompileStage
  <2>2. s # "null"
    OBVIOUS
  <2>. HIDE DEF s
  <2>3. /\ ckpt'[g].fence = exec[g].fence /\ ckpt'[g].stage # "null"
        /\ \A u \in Task \ {g} : ckpt'[u] = ckpt[u]
    BY <1>1, <2>1, <2>2
  <2>4. /\ exec'[g].pc = "model" /\ exec'[g].fence = exec[g].fence
        /\ exec'[g].auto => exec[g].auto
        /\ \A u \in Task \ {g} : exec'[u] = exec[u]
    BY <1>1, <2>1, MovesOn
  <2>5. Turn(g)
    BY <1>1, <1>2, <2>1, <2>3, <2>4, QuietTurn
  <2>6. GenStands(g)'
    BY <1>1, <1>2, <2>1, <2>3, <2>4 DEF GenStands
  <2>. QED
    BY <1>1, <2>5, <2>6, TurnKeeps
<1>6. CASE StageWritten(g)
  <2>1. PICK pc \in {"compile", "save"} :
          /\ MayTurn /\ exec[g].pc = "model" /\ Moves(g, pc)
          /\ ckpt' \in {ckpt, [ckpt EXCEPT ![g].stage = "saving"]}
          /\ UNCHANGED <<chapter, rows, sources, status, handler, tries, seen,
                         told, placed, torn>>
    BY <1>6 DEF StageWritten
  <2>2. /\ ckpt'[g].fence = ckpt[g].fence
        /\ \A u \in Task \ {g} : ckpt'[u] = ckpt[u]
    BY <1>1, <2>1
  <2>3. /\ exec'[g].pc = pc /\ exec'[g].fence = exec[g].fence
        /\ exec'[g].auto => exec[g].auto
        /\ \A u \in Task \ {g} : exec'[u] = exec[u]
    BY <1>1, <2>1, MovesOn
  <2>4. Turn(g)
    BY <1>1, <1>2, <2>1, <2>2, <2>3, QuietTurn
  <2>5. GenStands(g)'
    BY <1>1, <1>2, <2>1, <2>2, <2>3 DEF GenStands
  <2>. QED
    BY <1>1, <2>4, <2>5, TurnKeeps
<1>7. CASE SaveVersion(g) /\ ~Ends(g, "failed")
  <2>1. /\ exec[g].pc = "save" /\ Moves(g, "insert") /\ exec[g].fence = Here
        /\ ckpt' = [ckpt EXCEPT ![g] =
             [stage |-> "saving", fence |-> exec[g].fence]]
        /\ UNCHANGED <<chapter, rows, sources, status, handler, tries, seen,
                       told, placed, torn>>
    BY <1>7 DEF SaveVersion, SourceUnchanged
  <2>2. /\ ckpt'[g].fence = exec[g].fence
        /\ \A u \in Task \ {g} : ckpt'[u] = ckpt[u]
    BY <1>1, <2>1
  <2>3. /\ exec'[g].pc = "insert" /\ exec'[g].fence = exec[g].fence
        /\ exec'[g].auto => exec[g].auto
        /\ \A u \in Task \ {g} : exec'[u] = exec[u]
    BY <1>1, <2>1, MovesOn
  <2>4. Turn(g)
    <3>1. InStretch(g)
      BY <2>1 DEF InStretch, SyncPc
    <3>. QED
      BY <1>1, <1>2, <2>1, <2>2, <2>3, <3>1, QuietTurn
  <2>5. Here.text = chapter.content /\ Here' = Here
    BY <2>1 DEF Here
  <2>6. GenStands(g)'
    BY <1>1, <1>2, <2>1, <2>2, <2>3, <2>5 DEF GenStands
  <2>. QED
    BY <1>1, <2>4, <2>6, TurnKeeps
<1>8. ASSUME Ends(g, "failed") PROVE UNCHANGED <<chapter, ckpt, seen>>
  <2>1. exec'[g].pc = "none"
    BY <1>1, <1>8, IsOver
  <2>2. CASE Generate(g)
    <3>1. CASE UNCHANGED <<chapter, seen>>
      BY <2>2, <3>1 DEF Generate
    <3>2. CASE ~UNCHANGED <<chapter, seen>>
      <4>1. exec' = [exec EXCEPT ![g] =
              [Idle EXCEPT !.fence = [Here EXCEPT !.number =
                   (IF chapter.status # "drafting"
                    THEN Written([chapter EXCEPT !.status = "drafting"])
                    ELSE chapter).number],
                 !.pc = IF ckpt[g].stage = "saving" THEN "save"
                        ELSE "compile"]]
        BY <2>2, <3>2 DEF Generate
      <4>2. exec'[g].pc \in {"save", "compile"}
        BY <1>1, <4>1 DEF Idle
      <4>. QED
        BY <2>1, <4>2
    <3>. QED
      BY <3>1, <3>2
  <2>3. CASE CompileStage(g)
    BY <1>1, <2>1, <2>3, MovesOn DEF CompileStage
  <2>4. CASE StageWritten(g)
    BY <1>1, <2>1, <2>4, MovesOn DEF StageWritten
  <2>5. CASE SaveVersion(g)
    BY <1>1, <2>1, <2>5, MovesOn DEF SaveVersion
  <2>. QED
    BY <2>2, <2>3, <2>4, <2>5
<1>. QED
  BY <1>3, <1>4, <1>5, <1>6, <1>7, <1>8

\* It stores a version and announces it for review.
LEMMA StoringKeeps ==
  ASSUME ManuscriptInv, ManuscriptType', NEW g \in Gen,
         InsertVersion(g) \/ MarkReview(g) \/ ReviewChapter(g)
  PROVE  ManuscriptInv'
<1>. USE DEF rows
<1>1. /\ ManuscriptType /\ GenStands(g) /\ g \in Task /\ g \notin Polish
      /\ chapter \in Chapter /\ exec \in [Task -> Exec]
      /\ ckpt \in [Task -> [stage : Stage, fence : Fence]]
      /\ version \in [Gen -> {"none", "review", "approved", "rejected"}]
      /\ InStretch(g)
  BY ManuscriptAssumption DEF ManuscriptInv, ManuscriptType, Task, InStretch,
     SyncPc, InsertVersion, MarkReview, ReviewChapter
<1>2. /\ handler = <<"idle", None>> /\ Chosen = current
      /\ \A u \in Task \ {g} : ~InStretch(u)
  BY <1>1, Alone
<1>3. CASE InsertVersion(g)
  <2>1. /\ exec[g].pc = "insert" /\ Moves(g, "mark")
        /\ version' = [version EXCEPT ![g] = "review"]
        /\ order' = Append(order, g)
        /\ UNCHANGED <<chapter, adopted, revisions, current, sources, ckpt,
                       status, handler, tries, seen, told, placed, torn>>
    BY <1>3 DEF InsertVersion
  <2>2. /\ version'[g] = "review" /\ version[g] = "none"
        /\ \A h \in Gen \ {g} : version'[h] = version[h]
    BY <1>1, <2>1 DEF GenStands
  <2>3. Newest(order') = g
    <3>1. order \in Seq(Gen)
      BY <1>1 DEF ManuscriptType
    <3>. QED
      BY <2>1, <3>1 DEF Newest, Last
  <2>4. /\ exec'[g].pc = "mark" /\ (exec'[g].auto => exec[g].auto)
        /\ \A u \in Task \ {g} : exec'[u] = exec[u]
    BY <1>1, <2>1, MovesOn
  <2>5. Chosen' = Chosen /\ \A h : Spent(h) => Spent(h)'
    BY <2>1, <2>2 DEF Chosen, Spent
  <2>6. \A h \in Gen \ {g} : ~Unfinished(h)
    BY <1>1 DEF ManuscriptInv, Exclusive, GenStands, InStretch, SyncPc,
       Unfinished
  <2>7. TextStep(g)
    <3>1. \A h \in Gen : chapter'.content = h => Spent(h)'
      BY <2>1, <2>5, TextsStand
    <3>2. \A p \in Polish : p \in {chapter'.content, Chosen', current'} =>
            Contains(revisions, p)
      BY <2>1, <2>5, TextsStand
    <3>. QED
      BY <1>2, <2>1, <2>5, <2>6, <3>1, <3>2 DEF TextStep, Task
  <2>8. Turn(g)
    <3>1. Touches(g)
      BY <2>1, <2>2, <2>4 DEF Touches
    <3>. QED
      BY <1>1, <2>1, <2>7, <3>1 DEF Turn
  <2>9. GenStands(g)'
    BY <1>1, <1>2, <2>1, <2>2, <2>3, <2>4 DEF GenStands
  <2>. QED
    BY <1>1, <2>8, <2>9, TurnKeeps
<1>4. CASE MarkReview(g)
  <2>1. /\ exec[g].pc = "mark" /\ Moves(g, "review")
        /\ ckpt' = [ckpt EXCEPT ![g].stage = "review"]
        /\ UNCHANGED <<chapter, rows, sources, status, handler, tries, seen,
                       told, placed, torn>>
    BY <1>4 DEF MarkReview
  <2>2. /\ exec'[g].pc = "review" /\ (exec'[g].auto => exec[g].auto)
        /\ \A u \in Task \ {g} : exec'[u] = exec[u] /\ ckpt'[u] = ckpt[u]
    BY <1>1, <2>1, MovesOn
  <2>3. Turn(g)
    BY <1>1, <2>1, <2>2, QuietTurn
  <2>4. GenStands(g)'
    BY <1>1, <2>1, <2>2 DEF GenStands, Unfinished
  <2>. QED
    BY <1>1, <2>3, <2>4, TurnKeeps
<1>5. CASE ReviewChapter(g)
  <2>1. PICK pc \in {"confirm", "close"} :
          /\ exec[g].pc = "review" /\ Moves(g, pc)
          /\ chapter' =
               Written([chapter EXCEPT !.status = "review", !.meta = g])
          /\ UNCHANGED <<rows, sources, ckpt, status, handler, tries, seen,
                         told, placed, torn>>
    BY <1>5 DEF ReviewChapter
  <2>2. chapter'.content = chapter.content
    <3>1. g \in Text
      BY DEF Text, Task
    <3>. QED
      BY <1>1, <2>1, <3>1, WrittenReview
  <2>3. /\ exec'[g].pc = pc /\ (exec'[g].auto => exec[g].auto)
        /\ \A u \in Task \ {g} : exec'[u] = exec[u]
    BY <1>1, <2>1, MovesOn
  <2>4. Turn(g)
    BY <1>1, <2>1, <2>2, <2>3, RowTurn
  <2>5. GenStands(g)'
    BY <1>1, <2>1, <2>2, <2>3 DEF GenStands, Unfinished
  <2>. QED
    BY <1>1, <2>4, <2>5, TurnKeeps
<1>. QED
  BY <1>3, <1>4, <1>5

\* A version in review becomes the text of the chapter, in one transaction.
LEMMA PublicationStands ==
  ASSUME ManuscriptInv, NEW g \in Gen, InStretch(g), version[g] = "review",
         Approve(g), chapter' = Written(Published(chapter, g)),
         placed' = [placed EXCEPT ![g] = @ + 1],
         exec' = [exec EXCEPT ![g].pc = "close", ![g].auto = TRUE],
         UNCHANGED <<order, revisions, current, sources, status, handler, seen,
                     torn>>,
         \A u \in Task \ {g} : ckpt'[u] = ckpt[u]
  PROVE  Turn(g) /\ GenStands(g)'
<1>1. /\ ManuscriptType /\ GenStands(g) /\ g \in Task /\ g \notin Polish
      /\ chapter \in Chapter /\ exec \in [Task -> Exec] /\ g \in Text
      /\ version \in [Gen -> {"none", "review", "approved", "rejected"}]
      /\ placed \in [Task -> Nat]
  BY ManuscriptAssumption DEF ManuscriptInv, ManuscriptType, Task, Text
<1>2. /\ handler = <<"idle", None>> /\ Chosen = current
      /\ \A u \in Task \ {g} : ~InStretch(u)
  BY <1>1, Alone
<1>3. /\ version'[g] = "approved" /\ adopted' = g
      /\ \A h \in Gen \ {g} : version'[h] = version[h]
  BY <1>1 DEF Approve
<1>4. /\ chapter'.content = g /\ chapter'.meta = g
      /\ chapter'.status = "completed"
  BY <1>1, WrittenText
<1>5. /\ exec'[g].pc = "close"
      /\ \A u \in Task \ {g} : exec'[u] = exec[u]
  BY <1>1, ClosingType
<1>6. /\ placed'[g] = placed[g] + 1 /\ placed[g] = 0
      /\ \A u \in Task \ {g} : placed'[u] = placed[u]
  BY <1>1 DEF GenStands
<1>7. Chosen' = Chosen /\ Spent(g)' /\ ~Spent(g)
  BY <1>2, <1>3 DEF Chosen, Spent
<1>8. \A h : Spent(h) => Spent(h)'
  BY <1>3 DEF Spent
<1>9. Turn(g)
  <2>1. Touches(g)
    BY <1>3, <1>5, <1>6 DEF Touches
  <2>2. TextStep(g)
    <3>1. \A h \in Gen : Spent(h) =>
            Spent(h)' /\ (chapter'.content = h => chapter.content = h)
      BY <1>4, <1>7, <1>8
    <3>2. \A h \in Gen \ {g} :
            /\ chapter'.content = h => Spent(h)'
            /\ handler' = <<"publish", h>> => handler = <<"publish", h>>
            /\ ~InStretch(h) /\ order' = order
      BY <1>1, <1>2, <1>4 DEF Task
    <3>3. \A p \in Polish :
            /\ Contains(revisions', p) <=> Contains(revisions, p)
            /\ p \in {chapter'.content, Chosen', current'} =>
                 Contains(revisions, p)
            /\ Chosen' = p => Chosen = p
            /\ chapter'.content \in Gen \cup {p, chapter.content}
      BY <1>1, <1>4, <1>7, TextsStand
    <3>. QED
      BY <3>1, <3>2, <3>3 DEF TextStep
  <2>. QED
    BY <1>1, <2>1, <2>2 DEF Turn
<1>10. GenStands(g)'
  <2>1. status[g] = "active" /\ (Unfinished(g) => Newest(order) = g)
    BY <1>1 DEF GenStands, InStretch, SyncPc
  <2>. QED
    BY <1>2, <1>3, <1>4, <1>5, <1>6, <2>1 DEF GenStands, Shows, Unfinished
<1>. QED
  BY <1>9, <1>10

\* It confirms its own version, or finishes what an earlier execution stored.
LEMMA FinishingKeeps ==
  ASSUME ManuscriptInv, ManuscriptType', NEW g \in Gen,
         ConfirmOwn(g) \/ FinalizePersistedVersion(g)
  PROVE  ManuscriptInv'
<1>. USE DEF rows
<1>1. /\ ManuscriptType /\ GenStands(g) /\ g \in Task /\ g \notin Polish
      /\ chapter \in Chapter /\ exec \in [Task -> Exec] /\ g \in Text
      /\ ckpt \in [Task -> [stage : Stage, fence : Fence]]
      /\ version[g] \in {"none", "review", "approved", "rejected"}
      /\ exec[g].pc \in {"confirm", "begin"} /\ InStretch(g)
      /\ version[g] # "none"
  BY ManuscriptAssumption DEF ManuscriptInv, ManuscriptType, Task, Text,
     InStretch, SyncPc, ConfirmOwn, FinalizePersistedVersion, GenStands
<1>2. CASE /\ Ends(g, "failed")
           /\ UNCHANGED <<chapter, rows, sources, ckpt, handler, tries, seen,
                          told, placed, torn>>
  <2>1. Turn(g)
    BY <1>1, <1>2, IsOver, QuietTurn
  <2>2. GenStands(g)'
    BY <1>1, <1>2, IsOver DEF GenStands, Unfinished
  <2>. QED
    BY <1>1, <2>1, <2>2, TurnKeeps
<1>3. CASE /\ version[g] = "review"
           /\ Approve(g) /\ chapter' = Written(Published(chapter, g))
           /\ placed' = [placed EXCEPT ![g] = @ + 1]
           /\ exec' = [exec EXCEPT ![g].pc = "close", ![g].auto = TRUE]
           /\ ckpt' \in {ckpt, [ckpt EXCEPT ![g].stage = "review"]}
           /\ UNCHANGED <<order, revisions, current, sources, status, handler,
                          seen, torn>>
  <2>1. \A u \in Task \ {g} : ckpt'[u] = ckpt[u]
    BY <1>1, <1>3
  <2>. QED
    BY <1>1, <1>3, <2>1, PublicationStands, TurnKeeps
<1>4. CASE /\ ~Superseded(g)
           /\ exec' = [exec EXCEPT ![g].pc = "close",
                         ![g].auto = version[g] = "approved"]
           /\ ckpt' = [ckpt EXCEPT ![g].stage = "review"]
           /\ \/ chapter' = chapter
              \/ /\ version[g] # "approved"
                 /\ chapter' = Written([chapter EXCEPT !.status = "review",
                                                       !.meta = g])
           /\ UNCHANGED <<rows, sources, status, handler, seen, placed, torn>>
  <2>. DEFINE b == version[g] = "approved"
  <2>1. b \in BOOLEAN /\ exec' = [exec EXCEPT ![g].pc = "close", ![g].auto = b]
    BY <1>4
  <2>2. b => chapter' = chapter /\ adopted = g /\ Shows(g)
    BY <1>4 DEF Superseded
  <2>3. version[g] = (IF b THEN "approved" ELSE "review")
    BY <1>1, <1>4 DEF Superseded
  <2>. HIDE DEF b
  <2>4. /\ exec'[g].pc = "close" /\ (exec'[g].auto => b)
        /\ \A u \in Task \ {g} : exec'[u] = exec[u]
    BY <1>1, <2>1, ClosingType
  <2>5. chapter'.content = chapter.content
    BY <1>1, <1>4, WrittenReview
  <2>6. \A u \in Task \ {g} : ckpt'[u] = ckpt[u]
    BY <1>1, <1>4
  <2>7. Turn(g)
    BY <1>1, <1>4, <2>4, <2>5, <2>6, RowTurn
  <2>8. exec'[g].auto => Shows(g)' /\ adopted' = g
    BY <1>4, <2>2, <2>4 DEF Shows
  <2>9. GenStands(g)'
    BY <1>1, <1>4, <2>3, <2>4, <2>5, <2>8 DEF GenStands, Unfinished
  <2>. QED
    BY <1>1, <2>7, <2>9, TurnKeeps
<1>5. CASE ConfirmOwn(g)
  <2>1. version[g] = "review"
    BY <1>1, <1>5 DEF ConfirmOwn, GenStands
  <2>. QED
    BY <1>2, <1>3, <1>5, <2>1 DEF ConfirmOwn
<1>6. CASE FinalizePersistedVersion(g)
  <2>. DEFINE confirms == g \in AutoApply /\ report[g].passed
                          /\ version[g] = "review"
              fails == Superseded(g) \/ (confirms /\ report[g].blocking)
  <2>1. CASE fails
    BY <1>2, <1>6, <2>1 DEF FinalizePersistedVersion
  <2>2. CASE ~fails /\ confirms
    <3>1. /\ exec' = [exec EXCEPT ![g].pc = "close",
                        ![g].auto = confirms \/ version[g] = "approved"]
          /\ ckpt' = [ckpt EXCEPT ![g].stage = "review"]
          /\ Approve(g) /\ chapter' = Written(Published(chapter, g))
          /\ placed' = [placed EXCEPT ![g] = @ + 1]
          /\ UNCHANGED <<status, report, order, revisions, current, sources,
                         handler, seen, torn>>
      BY <1>6, <2>2 DEF FinalizePersistedVersion
    <3>2. (confirms \/ version[g] = "approved") = TRUE
      BY <2>2
    <3>. QED
      BY <1>3, <2>2, <3>1, <3>2
  <2>3. CASE ~fails /\ ~confirms
    <3>1. /\ exec' = [exec EXCEPT ![g].pc = "close",
                        ![g].auto = confirms \/ version[g] = "approved"]
          /\ ckpt' = [ckpt EXCEPT ![g].stage = "review"]
          /\ chapter' =
               IF version[g] = "approved"
                  \/ (chapter.status = "review" /\ chapter.meta = g)
               THEN chapter
               ELSE Written([chapter EXCEPT !.status = "review", !.meta = g])
          /\ UNCHANGED <<status, report, version, adopted, order, revisions,
                         current, sources, handler, seen, placed, torn>>
      BY <1>6, <2>3 DEF FinalizePersistedVersion
    <3>2. (confirms \/ version[g] = "approved") = (version[g] = "approved")
      BY <2>3
    <3>. QED
      BY <1>4, <2>3, <3>1, <3>2
  <2>. QED
    BY <2>1, <2>2, <2>3
<1>. QED
  BY <1>5, <1>6

\* The user confirms or rejects a version that is in review.
LEMMA ReviewKeeps ==
  ASSUME ManuscriptInv, ManuscriptType', NEW g \in Gen,
         ConfirmVersion(g) \/ RejectVersion(g)
  PROVE  ManuscriptInv'
<1>1. /\ ManuscriptType /\ GenStands(g) /\ g \in Task /\ g \notin Polish
      /\ version \in [Gen -> {"none", "review", "approved", "rejected"}]
  BY ManuscriptAssumption DEF ManuscriptInv, ManuscriptType, Task
<1>2. /\ MayTurn /\ version[g] = "review"
      /\ UNCHANGED <<chapter, report, order, revisions, current, sources, ckpt,
                     status, exec, tries, seen, told, placed, torn>>
      /\ \/ version' = [version EXCEPT ![g] = "approved"]
            /\ handler' = <<"publish", g>>
         \/ version' = [version EXCEPT ![g] = "rejected"]
            /\ handler' \in {handler, <<"plan", g>>}
  BY DEF ConfirmVersion, RejectVersion, UserMayWrite, Approve, Reject
<1>3. /\ handler = <<"idle", None>> /\ Chosen = current
      /\ \A u \in Task : ~InStretch(u)
  BY <1>2, Alone DEF MayTurn, InStretch
<1>4. /\ \A h \in Gen \ {g} :
           /\ version'[h] = version[h] /\ handler' # <<"publish", h>>
      /\ \/ version'[g] = "approved"
         \/ version'[g] = "rejected" /\ handler' # <<"publish", g>>
      /\ handler'[1] # "current"
  BY <1>1, <1>2, <1>3
<1>5. Chosen' = current
  BY <1>2, <1>4 DEF Chosen
<1>6. \A h \in Gen : Spent(h) => Spent(h)'
  BY <1>2, <1>4 DEF Spent
<1>7. Turn(g)
  <2>1. Touches(g)
    BY <1>2, <1>4 DEF Touches
  <2>2. TextStep(g)
    <3>1. \A h \in Gen : chapter'.content = h => Spent(h)'
      BY <1>2, <1>6, TextsStand
    <3>2. \A p \in Polish : p \in {chapter'.content, Chosen', current'} =>
            Contains(revisions, p)
      BY <1>2, <1>5, TextsStand
    <3>. QED
      BY <1>2, <1>3, <1>4, <1>5, <1>6, <3>1, <3>2 DEF TextStep, Task
  <2>. QED
    BY <1>2, <2>1, <2>2 DEF Turn
<1>8. GenStands(g)'
  <2>1. exec[g].pc = "none" \/ exec[g].pc \in {"compile", "model"}
    BY <1>1, <1>3 DEF InStretch, GenStands, ManuscriptType, Exec, AwaitPc
  <2>2. exec[g].pc = "none" /\ ~exec[g].auto /\ placed[g] # 1
        /\ chapter.content # g
    BY <1>1, <1>2, <2>1 DEF GenStands
  <2>. QED
    BY <1>1, <1>2, <1>4, <2>2 DEF GenStands, Unfinished
<1>. QED
  BY <1>1, <1>7, <1>8, TurnKeeps

\* A polish reads a source and is answered.
LEMMA PolishingKeeps ==
  ASSUME ManuscriptInv, ManuscriptType', NEW p \in Polish,
         Polishing(p) \/ PolishSource(p) \/ PolishAnswers(p) \/ MarkApplied(p)
  PROVE  ManuscriptInv'
<1>. USE DEF rows
<1>1. /\ ManuscriptType /\ PolishStands(p) /\ p \in Task /\ p \notin Gen
      /\ exec \in [Task -> Exec]
      /\ ckpt \in [Task -> [stage : Stage, fence : Fence]]
      /\ exec[p] \in Exec /\ exec[p].fence \in Fence
  BY ManuscriptAssumption DEF ManuscriptInv, ManuscriptType, Task, Exec
<1>2. /\ UNCHANGED <<chapter, rows, sources, status, handler, placed, torn>>
      /\ Chosen' = Chosen /\ \A x : Spent(x)' <=> Spent(x)
      /\ MayTurn \/ InStretch(p)
  BY DEF Polishing, PolishSource, PolishAnswers, MarkApplied, Chosen, Spent,
     InStretch, SyncPc
<1>3. ASSUME NEW pc \in {"agent", "polish", "store", "close"},
             exec'[p].pc = pc,
             pc \in {"agent", "polish", "store"} => ~Contains(revisions, p),
             \A x \in {ckpt'[p].fence.text, exec'[p].saved,
                       exec'[p].fence.text} :
               \/ x \in {ckpt[p].fence.text, exec[p].saved, exec[p].fence.text}
               \/ x # p /\ Spent(x) /\ placed[p] = 0,
             \A u \in Task \ {p} : /\ exec'[u] = exec[u] /\ ckpt'[u] = ckpt[u]
                                   /\ seen'[u] = seen[u]
      PROVE  ManuscriptInv'
  <2>1. Turn(p)
    BY <1>1, <1>2, <1>3, QuietTurn
  <2>2. \A x \in {ckpt'[p].fence.text, exec'[p].saved, exec'[p].fence.text} :
          /\ x # p /\ Spent(x)
          /\ placed[p] > 0 /\ x \in Gen => chapter.content # x
    BY <1>1, <1>3 DEF PolishStands
  <2>3. PolishStands(p)'
    BY <1>1, <1>2, <1>3, <2>2 DEF PolishStands
  <2>. QED
    BY <1>1, <2>1, <2>3, TurnKeeps
<1>4. ASSUME ~Contains(revisions, p)
      PROVE  placed[p] = 0 /\ p \notin {chapter.content, current}
  BY <1>1, <1>4 DEF PolishStands, ManuscriptType
<1>5. CASE Polishing(p)
  <2>1. /\ ~Contains(revisions, p)
        /\ exec' = [exec EXCEPT ![p] =
             [Idle EXCEPT !.pc = "agent", !.saved = ckpt[p].fence.text]]
        /\ UNCHANGED <<ckpt, seen>>
    BY <1>5 DEF Polishing
  <2>2. /\ exec'[p].pc = "agent" /\ exec'[p].saved = ckpt[p].fence.text
        /\ exec'[p].fence.text = None
        /\ \A u \in Task \ {p} : exec'[u] = exec[u]
    BY <1>1, <2>1 DEF Idle, NoFence
  <2>3. None # p /\ Spent(None)
    BY <1>1, ManuscriptAssumption DEF Spent, Task
  <2>. QED
    BY <1>1, <1>3, <1>4, <2>1, <2>2, <2>3
<1>6. CASE PolishSource(p)
  <2>1. PICK text \in SourceTexts :
          exec' = [exec EXCEPT ![p].pc = "polish", ![p].fence.text = text]
    BY <1>6 DEF PolishSource
  <2>2. /\ exec'[p].pc = "polish" /\ exec'[p].saved = exec[p].saved
        /\ exec'[p].fence.text = text
        /\ \A u \in Task \ {p} : exec'[u] = exec[u]
    <3>. DEFINE f == [exec[p].fence EXCEPT !.text = text]
                e == [exec[p] EXCEPT !.pc = "polish", !.fence = f]
    <3>1. f.text = text
      BY <1>1 DEF Fence
    <3>2. exec' = [exec EXCEPT ![p] = e]
      BY <2>1
    <3>. HIDE DEF f
    <3>3. e.pc = "polish" /\ e.saved = exec[p].saved /\ e.fence = f
      BY <1>1 DEF Exec
    <3>. HIDE DEF e
    <3>. QED
      BY <1>1, <3>1, <3>2, <3>3
  <2>3. /\ exec[p].pc = "agent" /\ ckpt' = ckpt
        /\ \A u \in Task \ {p} : seen'[u] = seen[u]
    BY <1>1, <1>6 DEF PolishSource, ManuscriptType
  <2>4. ~Contains(revisions, p)
    BY <1>1, <2>3 DEF PolishStands
  <2>5. text # p /\ Spent(text)
    <3>1. CASE text \in ToSet(revisions)
      <4>1. text \in Polish /\ Contains(revisions, text)
        BY <1>1, <3>1 DEF ToSet, Contains, ManuscriptType
      <4>. QED
        BY <1>1, <2>4, <4>1, ManuscriptAssumption DEF Spent
    <3>2. CASE current # None /\ text = current
      BY <1>1, <1>4, <2>4, <3>2, ManuscriptAssumption
         DEF Spent, ManuscriptType
    <3>3. CASE text = chapter.content
      BY <1>4, <2>4, <3>3, TextsStand DEF Spent
    <3>. QED
      BY <3>1, <3>2, <3>3 DEF SourceTexts
  <2>. QED
    BY <1>1, <1>3, <1>4, <2>2, <2>3, <2>4, <2>5
<1>7. CASE PolishAnswers(p)
  <2>1. /\ exec[p].pc = "polish"
        /\ ckpt' = [ckpt EXCEPT ![p] =
             [stage |-> "running", fence |-> exec[p].fence]]
        /\ exec' = exec \/ Moves(p, "store") \/ Moves(p, "close")
        /\ UNCHANGED seen
    BY <1>7 DEF PolishAnswers
  <2>2. /\ ckpt'[p].fence = exec[p].fence
        /\ \A u \in Task \ {p} : ckpt'[u] = ckpt[u]
    BY <1>1, <2>1
  <2>3. /\ exec'[p].pc \in {"polish", "store", "close"}
        /\ exec'[p].fence = exec[p].fence /\ exec'[p].saved = exec[p].saved
        /\ \A u \in Task \ {p} : exec'[u] = exec[u]
    BY <1>1, <2>1, MovesOn
  <2>4. ~Contains(revisions, p)
    BY <1>1, <2>1 DEF PolishStands
  <2>. QED
    BY <1>3, <2>1, <2>2, <2>3, <2>4
<1>8. CASE MarkApplied(p)
  <2>1. /\ ckpt' = [ckpt EXCEPT ![p].fence.text = exec[p].saved]
        /\ Moves(p, "close") /\ UNCHANGED seen
    BY <1>8 DEF MarkApplied
  <2>2. /\ ckpt'[p].fence.text = exec[p].saved
        /\ \A u \in Task \ {p} : ckpt'[u] = ckpt[u]
    <3>. DEFINE f == [ckpt[p].fence EXCEPT !.text = exec[p].saved]
                c == [ckpt[p] EXCEPT !.fence = f]
    <3>1. ckpt[p] \in [stage : Stage, fence : Fence]
      BY <1>1
    <3>2. f.text = exec[p].saved
      BY <3>1 DEF Fence
    <3>3. ckpt' = [ckpt EXCEPT ![p] = c]
      BY <2>1
    <3>. HIDE DEF f
    <3>4. c.fence = f
      BY <3>1
    <3>. HIDE DEF c
    <3>. QED
      BY <1>1, <3>2, <3>3, <3>4
  <2>3. /\ exec'[p].pc = "close"
        /\ exec'[p].fence = exec[p].fence /\ exec'[p].saved = exec[p].saved
        /\ \A u \in Task \ {p} : exec'[u] = exec[u]
    BY <1>1, <2>1, MovesOn
  <2>. QED
    BY <1>3, <2>1, <2>2, <2>3
<1>. QED
  BY <1>5, <1>6, <1>7, <1>8

\* It puts its revision into the chapter by itself, in one transaction.
LEMMA PlacementStands ==
  ASSUME ManuscriptInv, NEW p \in Polish, InStretch(p),
         Contains(revisions, p), torn \/ placed[p] = 0,
         chapter' = Written(Published(chapter, p)), current' = p,
         placed' = [placed EXCEPT ![p] = @ + 1],
         NEW pc \in {"applied", "close"}, Moves(p, pc),
         UNCHANGED <<version, order, adopted, revisions, sources, ckpt, status,
                     handler, seen, torn>>
  PROVE  Turn(p) /\ PolishStands(p)'
<1>1. /\ ManuscriptType /\ PolishStands(p) /\ p \in Task /\ p \notin Gen
      /\ chapter \in Chapter /\ p \in Text /\ placed \in [Task -> Nat]
  BY ManuscriptAssumption DEF ManuscriptInv, ManuscriptType, Task, Text
<1>2. /\ handler = <<"idle", None>> /\ Chosen = current
      /\ \A u \in Task \ {p} : ~InStretch(u)
  BY <1>1, Alone
<1>3. /\ chapter'.content = p /\ Chosen' = p /\ \A x : Spent(x)' <=> Spent(x)
  <2>1. handler[1] # "current"
    BY <1>2
  <2>2. Chosen' = p
    BY <2>1 DEF Chosen
  <2>3. \A x : Spent(x)' <=> Spent(x)
    BY DEF Spent
  <2>. QED
    BY <1>1, <2>2, <2>3, WrittenText
<1>4. /\ exec'[p].pc = pc /\ exec'[p].fence = exec[p].fence
      /\ exec'[p].saved = exec[p].saved
      /\ \A u \in Task \ {p} : exec'[u] = exec[u]
  BY <1>1, MovesOn
<1>5. /\ placed'[p] = placed[p] + 1 /\ placed[p] \in Nat
      /\ \A u \in Task \ {p} : placed'[u] = placed[u]
  BY <1>1
<1>6. Turn(p)
  <2>1. Touches(p)
    BY <1>4, <1>5 DEF Touches
  <2>2. TextStep(p)
    <3>1. \A g \in Gen : chapter'.content # g
      BY <1>1, <1>3
    <3>2. \A q \in Polish \ {p} :
            q \notin {chapter'.content, Chosen', current'}
      BY <1>3
    <3>. QED
      BY <1>2, <1>3, <3>1, <3>2 DEF TextStep, Task
  <2>. QED
    BY <1>1, <2>1, <2>2 DEF Turn
<1>7. \A x \in {ckpt'[p].fence.text, exec'[p].saved, exec'[p].fence.text} :
        x # p /\ Spent(x)'
  BY <1>1, <1>3, <1>4 DEF PolishStands
<1>8. PolishStands(p)'
  BY <1>1, <1>3, <1>4, <1>5, <1>7 DEF PolishStands
<1>. QED
  BY <1>6, <1>8

\* It stores its revision, puts it into the chapter, or finishes what an
\* earlier execution stored.
LEMMA RevisingKeeps ==
  ASSUME ManuscriptInv, ManuscriptType', NEW p \in Polish,
         \/ SaveRevision(p) \/ ApplyOwnRevision(p) \/ FinishExistingRevision(p)
  PROVE  ManuscriptInv'
<1>1. /\ ManuscriptType /\ PolishStands(p) /\ p \in Task /\ p \notin Gen
      /\ chapter \in Chapter /\ exec \in [Task -> Exec] /\ placed[p] \in Nat
      /\ ckpt \in [Task -> [stage : Stage, fence : Fence]]
      /\ revisions \in Seq(Polish) /\ InStretch(p)
  BY ManuscriptAssumption DEF ManuscriptInv, ManuscriptType, Task, InStretch,
     SyncPc, SaveRevision, ApplyOwnRevision, FinishExistingRevision
<1>2. /\ handler = <<"idle", None>> /\ Chosen = current
      /\ \A u \in Task \ {p} : ~InStretch(u)
  BY <1>1, Alone
<1>3. CASE SaveRevision(p)
  <2>1. PICK pc \in {"apply", "close"} :
          /\ exec[p].pc = "store" /\ Moves(p, pc)
          /\ revisions' = Append(revisions, p) /\ current' = p
          /\ ckpt' = [ckpt EXCEPT ![p].stage = "completed"]
          /\ UNCHANGED <<chapter, version, report, order, adopted, sources,
                         status, handler, tries, seen, told, placed, torn>>
    BY <1>3 DEF SaveRevision
  <2>2. ~Contains(revisions, p) /\ placed[p] = 0
    BY <1>1, <2>1 DEF PolishStands
  <2>3. \A q : Contains(revisions', q) <=> Contains(revisions, q) \/ q = p
    BY <1>1, <2>1 DEF Contains
  <2>4. Chosen' = p /\ \A x : Spent(x)' <=> Spent(x)
    <3>1. handler[1] # "current"
      BY <1>2
    <3>. QED
      BY <2>1, <3>1 DEF Chosen, Spent
  <2>5. /\ exec'[p].pc = pc /\ exec'[p].fence = exec[p].fence
        /\ exec'[p].saved = exec[p].saved
        /\ \A u \in Task \ {p} : exec'[u] = exec[u]
    BY <1>1, <2>1, MovesOn
  <2>6. /\ ckpt'[p].fence = ckpt[p].fence
        /\ \A u \in Task \ {p} : ckpt'[u] = ckpt[u]
    BY <1>1, <2>1
  <2>7. Turn(p)
    <3>1. Touches(p)
      BY <2>1, <2>5, <2>6 DEF Touches
    <3>2. TextStep(p)
      BY <1>2, <2>1, <2>3, <2>4, TextsStand DEF TextStep, Task
    <3>. QED
      BY <1>1, <2>1, <3>1, <3>2 DEF Turn
  <2>8. \A x \in {ckpt'[p].fence.text, exec'[p].saved, exec'[p].fence.text} :
          x # p /\ Spent(x)'
    BY <1>1, <2>4, <2>5, <2>6 DEF PolishStands
  <2>9. PolishStands(p)'
    BY <1>1, <2>1, <2>2, <2>3, <2>5, <2>8 DEF PolishStands
  <2>. QED
    BY <1>1, <2>7, <2>9, TurnKeeps
<1>4. CASE ApplyOwnRevision(p)
  <2>1. /\ exec[p].pc = "apply" /\ Moves(p, "applied")
        /\ chapter' = Written(Published(chapter, p)) /\ current' = p
        /\ placed' = [placed EXCEPT ![p] = @ + 1]
        /\ UNCHANGED <<version, order, adopted, revisions, sources, ckpt,
                       status, handler, seen, torn>>
    BY <1>4 DEF ApplyOwnRevision
  <2>2. Contains(revisions, p) /\ placed[p] = 0
    BY <1>1, <2>1 DEF PolishStands
  <2>. QED
    BY <1>1, <2>1, <2>2, PlacementStands, TurnKeeps
<1>5. CASE FinishExistingRevision(p) /\ UNCHANGED <<chapter, current, placed>>
  <2>1. /\ exec[p].pc = "begin"
        /\ Ends(p, "failed") \/ (Moves(p, "close") /\ UNCHANGED status)
        /\ UNCHANGED <<version, report, order, adopted, revisions, sources,
                       ckpt, handler, tries, seen, told, torn>>
    BY <1>5 DEF FinishExistingRevision
  <2>2. /\ exec'[p].pc \in {"none", "close"}
        /\ exec'[p].fence.text \in {None, exec[p].fence.text}
        /\ exec'[p].saved \in {None, exec[p].saved}
        /\ status'[p] \in {"failed", status[p]}
        /\ \A u \in Task \ {p} : exec'[u] = exec[u] /\ status'[u] = status[u]
    BY <1>1, <2>1, MovesOn, IsOver
  <2>3. Chosen' = Chosen /\ \A x : Spent(x)' <=> Spent(x)
    BY <1>5, <2>1 DEF Chosen, Spent
  <2>4. Turn(p)
    BY <1>1, <1>5, <2>1, <2>2, QuietTurn
  <2>5. None # p /\ None \notin Gen
    BY <1>1, ManuscriptAssumption DEF Task
  <2>6. PolishStands(p)'
    BY <1>1, <1>5, <2>1, <2>2, <2>3, <2>5 DEF PolishStands, Spent
  <2>. QED
    BY <1>1, <2>4, <2>6, TurnKeeps
<1>6. CASE FinishExistingRevision(p) /\ ~UNCHANGED <<chapter, current, placed>>
  <2>1. /\ exec[p].pc = "begin" /\ Contains(revisions, p)
        /\ LatestAndCurrent(p) /\ Moves(p, "close")
        /\ ~(chapter.content = p /\ chapter.status = "completed")
        /\ chapter.content = ckpt[p].fence.text
        /\ chapter' = Written(Published(chapter, p)) /\ current' = p
        /\ placed' = [placed EXCEPT ![p] = @ + 1]
        /\ UNCHANGED <<version, order, adopted, revisions, sources, ckpt,
                       status, handler, seen, torn>>
    BY <1>6 DEF FinishExistingRevision
  <2>2. torn \/ placed[p] = 0
    <3>. SUFFICES ASSUME ~torn, placed[p] > 0 PROVE FALSE
      BY <1>1
    <3>1. chapter.content \in Gen \cup {p}
      BY <1>1, <1>2, <2>1 DEF PolishStands, LatestAndCurrent
    <3>. QED
      BY <1>1, <2>1, <3>1 DEF PolishStands
  <2>. QED
    BY <1>1, <2>1, <2>2, PlacementStands, TurnKeeps
<1>. QED
  BY <1>3, <1>4, <1>5, <1>6

\* The user puts a revision into the chapter: the row first.
LEMMA ApplyingKeeps ==
  ASSUME ManuscriptInv, ManuscriptType', NEW r \in Polish, ApplyRevision(r)
  PROVE  ManuscriptInv'
<1>. USE DEF rows
<1>1. /\ ManuscriptType /\ PolishStands(r) /\ r \in Task /\ r \notin Gen
      /\ chapter \in Chapter /\ r \in Text /\ placed[r] \in Nat
  BY ManuscriptAssumption DEF ManuscriptInv, ManuscriptType, Task, Text
<1>2. /\ MayTurn /\ Contains(revisions, r)
      /\ chapter' = Written(Published(chapter, r))
      /\ handler' = <<"current", r>>
      /\ UNCHANGED <<rows, sources, ckpt, status, exec, tries, seen, told,
                     placed, torn>>
  BY DEF ApplyRevision, UserMayWrite
<1>3. /\ handler = <<"idle", None>> /\ Chosen = current
      /\ \A u \in Task : ~InStretch(u)
  BY <1>2, Alone DEF MayTurn, InStretch
<1>4. /\ chapter'.content = r
      /\ handler'[1] = "current" /\ handler'[2] = r
      /\ \A g \in Gen : handler' # <<"publish", g>>
  BY <1>1, <1>2, WrittenText
<1>5. Chosen' = r
  BY <1>4 DEF Chosen
<1>6. \A x : Spent(x) => Spent(x)'
  BY <1>2, <1>4 DEF Spent
<1>7. Turn(r)
  <2>1. Touches(r)
    BY <1>2 DEF Touches
  <2>2. TextStep(r)
    <3>1. \A q \in Polish \ {r} :
            /\ q # chapter'.content /\ Chosen' # q
            /\ q = current' => Contains(revisions, q)
      BY <1>2, <1>4, <1>5, TextsStand
    <3>2. \A g \in Gen : chapter'.content # g
      BY <1>1, <1>4
    <3>. QED
      BY <1>2, <1>3, <1>4, <1>6, <3>1, <3>2 DEF TextStep, Task
  <2>. QED
    BY <1>2, <2>1, <2>2 DEF Turn
<1>8. PolishStands(r)'
  <2>1. \A x \in {ckpt'[r].fence.text, exec'[r].saved, exec'[r].fence.text} :
          x # r /\ Spent(x)'
    BY <1>1, <1>2, <1>6 DEF PolishStands
  <2>. QED
    BY <1>1, <1>2, <1>4, <2>1 DEF PolishStands
<1>. QED
  BY <1>1, <1>7, <1>8, TurnKeeps

\* A request is finished by its second commit, or the sources are edited.
LEMMA RequestKeeps ==
  ASSUME ManuscriptInv, ManuscriptType', FinishRequest \/ EditSources
  PROVE  ManuscriptInv'
<1>. USE DEF rows
<1>1. /\ ManuscriptType /\ chapter \in Chapter /\ None \notin Task
      /\ Gen \subseteq Text
  BY ManuscriptAssumption DEF ManuscriptInv, ManuscriptType, Text, Task
<1>2. /\ UNCHANGED <<version, report, order, adopted, revisions, ckpt, status,
                     exec, tries, seen, told, placed, torn>>
      /\ handler' \in {handler, <<"idle", None>>}
  BY DEF FinishRequest, EditSources
<1>3. \A u \in Task : ~InStretch(u)
  <2>1. CASE FinishRequest
    <3>1. handler # <<"idle", None>>
      BY <2>1 DEF FinishRequest
    <3>. QED
      BY <3>1 DEF ManuscriptInv, Exclusive
  <2>2. CASE EditSources
    BY <2>2 DEF EditSources, MayTurn, InStretch
  <2>. QED
    BY <2>1, <2>2
<1>4. ASSUME TextStep(None) PROVE ManuscriptInv'
  <2>1. None \notin Gen /\ None \notin Polish
    BY <1>1 DEF Task
  <2>2. Touches(None)
    BY <1>2 DEF Touches
  <2>3. Turn(None)
    BY <1>2, <1>4, <2>2 DEF Turn
  <2>. QED
    BY <2>1, <2>3, TurnKeeps
<1>5. \A g \in Gen : Spent(g) => Spent(g)'
  BY <1>2 DEF Spent
<1>6. \A g \in Gen : handler' = <<"publish", g>> => handler = <<"publish", g>>
  BY <1>2
<1>7. ASSUME chapter'.content = chapter.content, Chosen' = Chosen,
             current' \in {current, Chosen}
      PROVE  ManuscriptInv'
  <2>1. TextStep(None)
    BY <1>2, <1>3, <1>5, <1>6, <1>7, TextsStand DEF TextStep, Task
  <2>. QED
    BY <1>4, <2>1
<1>8. CASE EditSources
  BY <1>7, <1>8 DEF EditSources, Chosen
<1>9. CASE FinishRequest /\ handler[1] = "plan"
  <2>1. /\ chapter' = Written([chapter EXCEPT !.status = "planned"])
        /\ current' = current /\ handler'[1] = "idle"
    BY <1>9 DEF FinishRequest
  <2>2. chapter'.content = chapter.content
    BY <1>1, <2>1, WrittenStatus
  <2>. QED
    BY <1>7, <1>9, <2>1, <2>2 DEF Chosen
<1>10. CASE FinishRequest /\ handler[1] = "current"
  <2>1. chapter' = chapter /\ current' = handler[2] /\ handler'[1] = "idle"
    BY <1>10 DEF FinishRequest
  <2>. QED
    BY <1>7, <1>10, <2>1 DEF Chosen
<1>11. CASE FinishRequest /\ handler[1] = "publish"
  <2>1. PICK g \in Gen : handler = <<"publish", g>>
    BY <1>1, <1>11 DEF FinishRequest, ManuscriptType
  <2>2. /\ chapter' = Written(Published(chapter, g)) /\ current' = current
        /\ handler' = <<"idle", None>> /\ handler'[1] = "idle"
    BY <1>11, <2>1 DEF FinishRequest
  <2>3. chapter'.content = g /\ Chosen' = current /\ Chosen = current
    BY <1>1, <1>11, <2>2, WrittenText DEF Chosen
  <2>4. ~Spent(g) /\ Spent(g)'
    <3>1. version[g] = "approved"
      BY <2>1 DEF ManuscriptInv, GenStands
    <3>2. handler' # <<"publish", g>>
      BY <2>2
    <3>. QED
      BY <1>2, <2>1, <3>1, <3>2 DEF Spent
  <2>5. g \notin Polish
    BY ManuscriptAssumption
  <2>6. TextStep(None)
    <3>1. \A h \in Gen : Spent(h) =>
            Spent(h)' /\ (chapter'.content = h => chapter.content = h)
      BY <1>5, <2>3, <2>4
    <3>2. \A h \in Gen : chapter'.content = h => Spent(h)'
      BY <2>3, <2>4
    <3>3. \A p \in Polish : p \in {chapter'.content, Chosen', current'} =>
            Contains(revisions, p)
      BY <2>2, <2>3, <2>5, TextsStand
    <3>. QED
      BY <1>2, <1>3, <1>6, <2>3, <3>1, <3>2, <3>3 DEF TextStep, Task
  <2>. QED
    BY <1>4, <2>6
<1>. QED
  BY <1>8, <1>9, <1>10, <1>11 DEF FinishRequest

\* The process dies.
LEMMA CrashKeeps ==
  ASSUME ManuscriptInv, ManuscriptType', ManuscriptCrash
  PROVE  ManuscriptInv'
<1>. USE DEF rows
<1>1. /\ UNCHANGED <<chapter, rows, sources, ckpt, tries, seen, told, placed>>
      /\ handler' = <<"idle", None>>
      /\ \A t \in Task :
           /\ exec'[t] = Idle
           /\ status'[t] = IF status[t] = "active" THEN "stranded"
                           ELSE status[t]
  BY DEF ManuscriptCrash
<1>2. /\ Idle.pc = "none" /\ Idle.fence.text = None /\ Idle.saved = None
      /\ Idle.auto = FALSE
  BY DEF Idle, NoFence
<1>3. /\ \A x : Spent(x) => Spent(x)'
      /\ Chosen' = current /\ current' = current
  <2>1. handler'[1] = "idle" /\ \A g \in Gen : handler' # <<"publish", g>>
    BY <1>1
  <2>. QED
    BY <1>1, <2>1 DEF Spent, Chosen
<1>4. torn => torn'
  BY DEF ManuscriptCrash
<1>5. ~torn' => Chosen = current
  BY DEF ManuscriptCrash, Chosen
<1>6. Exclusive'
  <2>1. \A t \in Task : ~InStretch(t)'
    BY <1>1, <1>2 DEF InStretch, SyncPc
  <2>2. \A g \in Gen : Unfinished(g)' => Unfinished(g)
    BY <1>1 DEF Unfinished, Task
  <2>. QED
    BY <1>1, <2>1, <2>2 DEF ManuscriptInv, Exclusive
<1>7. ASSUME NEW g \in Gen PROVE GenStands(g)'
  <2>1. GenStands(g) /\ g \in Task
    BY DEF ManuscriptInv, Task
  <2>2. exec'[g].pc = "none" /\ ~exec'[g].auto
    BY <1>1, <1>2, <2>1
  <2>3. /\ Unfinished(g)' => Unfinished(g)
        /\ status'[g] \in {"absent", "stopped"} => status'[g] = status[g]
    BY <1>1, <2>1 DEF Unfinished
  <2>4. handler' # <<"publish", g>>
    BY <1>1
  <2>. QED
    BY <1>1, <2>1, <2>2, <2>3, <2>4 DEF GenStands
<1>8. ASSUME NEW p \in Polish PROVE PolishStands(p)'
  <2>1. PolishStands(p) /\ p \in Task /\ None # p /\ None \notin Gen
    BY ManuscriptAssumption DEF ManuscriptInv, Task
  <2>2. /\ exec'[p].pc = "none" /\ exec'[p].fence.text = None
        /\ exec'[p].saved = None
    BY <1>1, <1>2, <2>1
  <2>3. \A x \in {ckpt'[p].fence.text, exec'[p].saved, exec'[p].fence.text} :
          /\ x # p /\ Spent(x)'
          /\ placed'[p] > 0 /\ x \in Gen => chapter'.content # x
    BY <1>1, <1>3, <2>1, <2>2 DEF PolishStands, Spent
  <2>4. ~torn' /\ placed'[p] > 0 /\ Chosen' = p =>
          chapter'.content \in Gen \cup {p}
    BY <1>1, <1>3, <1>4, <1>5, <2>1 DEF PolishStands
  <2>5. torn' \/ placed'[p] <= 1
    BY <1>1, <1>4, <2>1 DEF PolishStands
  <2>. QED
    BY <1>1, <1>3, <2>1, <2>2, <2>3, <2>4, <2>5 DEF PolishStands
<1>. QED
  BY <1>6, <1>7, <1>8 DEF ManuscriptInv

\* The new chapter has it.
LEMMA ManuscriptBegins == ManuscriptInit => ManuscriptInv
<1>. SUFFICES ASSUME ManuscriptInit PROVE ManuscriptInv
  OBVIOUS
<1>1. ManuscriptType
  BY TypeInit
<1>2. /\ Idle.pc = "none" /\ Idle.fence.text = None /\ Idle.saved = None
      /\ Idle.auto = FALSE /\ NoFence.text = None
  BY DEF Idle, NoFence
<1>3. /\ \A t \in Task :
           /\ exec[t] = Idle /\ status[t] = "absent" /\ placed[t] = 0
           /\ ckpt[t] = [stage |-> "null", fence |-> NoFence]
      /\ \A g \in Gen : version[g] = "none"
      /\ chapter.content = None /\ current = None /\ torn = FALSE
      /\ handler = <<"idle", None>>
  BY DEF ManuscriptInit
<1>4. None \notin Gen /\ None \notin Polish
  BY ManuscriptAssumption DEF Task
<1>5. Exclusive
  BY <1>2, <1>3 DEF Exclusive, InStretch, SyncPc, Unfinished, Task
<1>6. ASSUME NEW g \in Gen PROVE GenStands(g)
  <2>1. /\ exec[g].pc = "none" /\ ~exec[g].auto /\ status[g] = "absent"
        /\ ckpt[g].stage = "null" /\ placed[g] = 0 /\ version[g] = "none"
    BY <1>2, <1>3 DEF Task
  <2>2. chapter.content # g /\ handler # <<"publish", g>>
    BY <1>3, <1>4
  <2>. QED
    BY <2>1, <2>2 DEF GenStands
<1>7. ASSUME NEW p \in Polish PROVE PolishStands(p)
  <2>1. /\ exec[p].pc = "none" /\ ckpt[p].fence.text = None
        /\ exec[p].saved = None /\ exec[p].fence.text = None /\ placed[p] = 0
    BY <1>2, <1>3 DEF Task
  <2>2. handler[1] # "current" /\ Chosen = None
    BY <1>3 DEF Chosen
  <2>. QED
    BY <1>3, <1>4, <2>1, <2>2 DEF PolishStands, Spent
<1>. QED
  BY <1>1, <1>5, <1>6, <1>7 DEF ManuscriptInv

\* Every step keeps it.
LEMMA ManuscriptStep ==
  ManuscriptInv /\ [ManuscriptNext]_msVars => ManuscriptInv'
<1>. SUFFICES ASSUME ManuscriptInv, [ManuscriptNext]_msVars
              PROVE  ManuscriptInv'
  OBVIOUS
<1>1. ManuscriptType'
  BY TypeStep DEF ManuscriptInv
<1>2. CASE \E g \in Gen : GenerationStep(g)
  BY <1>1, <1>2, WritingKeeps, StoringKeeps, FinishingKeeps, ReviewKeeps
     DEF GenerationStep
<1>3. CASE \E p \in Polish : PolishStep(p)
  BY <1>1, <1>3, PolishingKeeps, RevisingKeeps, ApplyingKeeps DEF PolishStep
<1>4. CASE \E t \in Task : ExecutionStep(t)
  BY <1>1, <1>4, ExecutionKeeps
<1>5. CASE FinishRequest \/ EditSources
  BY <1>1, <1>5, RequestKeeps
<1>6. CASE ManuscriptCrash
  BY <1>1, <1>6, CrashKeeps
<1>7. CASE UNCHANGED msVars
  <2>1. UNCHANGED <<chapter, version, order, adopted, revisions, current,
                    sources, ckpt, status, exec, handler, seen, placed, torn>>
    BY <1>7 DEF msVars, rows
  <2>2. Here' = Here /\ Chosen' = Chosen /\ \A x : Spent(x)' <=> Spent(x)
    BY <2>1 DEF Here, Chosen, Spent
  <2>3. Exclusive'
    BY <2>1 DEF ManuscriptInv, Exclusive, InStretch, Unfinished
  <2>4. \A g \in Gen : GenStands(g)'
    BY <2>1, <2>2 DEF ManuscriptInv, GenStands, Unfinished, Shows
  <2>5. \A p \in Polish : PolishStands(p)'
    BY <2>1, <2>2 DEF ManuscriptInv, PolishStands
  <2>. QED
    BY <1>1, <2>3, <2>4, <2>5 DEF ManuscriptInv
<1>. QED
  BY <1>2, <1>3, <1>4, <1>5, <1>6, <1>7 DEF ManuscriptNext

-----------------------------------------------------------------------------
(* What follows from it.                                                   *)

\* finishFromExistingRevision, applyRecoveredRevision: unless a crash cut the
\* user's own applyRevision, no task ever puts its text into the chapter twice.
THEOREM TextsAreAppliedOnce == ManuscriptSpec => []AppliedOnce
<1>1. ManuscriptInv => AppliedOnce
  BY DEF ManuscriptInv, GenStands, PolishStands, AppliedOnce, Task
<1>. QED
  BY <1>1, ManuscriptBegins, ManuscriptStep, PTL DEF ManuscriptSpec

\* finalizePersistedVersion and the unique key of active tasks: a stored version
\* that is not finished is the newest one of its chapter.
THEOREM UnfinishedStaysNewest == ManuscriptSpec => []UnfinishedIsNewest
<1>1. ManuscriptInv => UnfinishedIsNewest
  BY DEF ManuscriptInv, GenStands, Unfinished, UnfinishedIsNewest
<1>. QED
  BY <1>1, ManuscriptBegins, ManuscriptStep, PTL DEF ManuscriptSpec

\* generate, prepareInternal, assertCompilationSource: a version is stored only
\* over the text and the sources its task saw first, however often the task was
\* interrupted and whatever the user did meanwhile.
THEOREM VersionsAreOfTheTextSeen == ManuscriptSpec => VersionIsOfTheTextSeen
<1>1. ManuscriptInv /\ [ManuscriptNext]_msVars =>
        [\A g \in Gen : version[g] = "none" /\ version'[g] # "none"
           => chapter.content = seen[g] /\ ckpt[g].fence = Here]_msVars
  <2>. SUFFICES ASSUME ManuscriptInv, ManuscriptNext, NEW g \in Gen,
                       version[g] = "none", version'[g] # "none"
                PROVE  chapter.content = seen[g] /\ ckpt[g].fence = Here
    OBVIOUS
  <2>1. /\ version \in [Gen -> {"none", "review", "approved", "rejected"}]
        /\ \A h \in Gen : GenStands(h)
    BY DEF ManuscriptInv, ManuscriptType
  <2>2. ASSUME NEW h \in Gen, GenerationStep(h) PROVE InsertVersion(g)
    <3>1. UNCHANGED version \/ InsertVersion(h) \/ version[h] # "none"
      <4>1. ConfirmOwn(h) => version[h] # "none"
        BY <2>1 DEF ConfirmOwn, GenStands
      <4>2. FinalizePersistedVersion(h) \/ ConfirmVersion(h)
              \/ RejectVersion(h) => version[h] # "none"
        BY DEF FinalizePersistedVersion, ConfirmVersion, RejectVersion
      <4>. QED
        BY <2>2, <4>1, <4>2 DEF GenerationStep, Generate, CompileStage,
           StageWritten, SaveVersion, MarkReview, ReviewChapter, rows
    <3>2. version' = [version EXCEPT ![h] = version'[h]]
      BY <2>1, <2>2 DEF GenerationStep, Generate, CompileStage, StageWritten,
         SaveVersion, InsertVersion, MarkReview, ReviewChapter, ConfirmOwn,
         FinalizePersistedVersion, ConfirmVersion, RejectVersion, Approve,
         Reject, rows
    <3>. QED
      BY <2>1, <3>1, <3>2
  <2>3. InsertVersion(g)
    <3>1. CASE \E p \in Polish : PolishStep(p)
      BY <3>1 DEF PolishStep, Polishing, PolishSource, PolishAnswers,
         SaveRevision, ApplyOwnRevision, MarkApplied, FinishExistingRevision,
         ApplyRevision, rows
    <3>2. CASE \E t \in Task : ExecutionStep(t)
      BY <3>2 DEF ExecutionStep, StartManuscriptTask, ResumeManuscriptTask,
         StopManuscriptTask, CloseManuscriptTask, rows
    <3>3. CASE FinishRequest \/ EditSources \/ ManuscriptCrash
      BY <3>3 DEF FinishRequest, EditSources, ManuscriptCrash, rows
    <3>. QED
      BY <2>2, <3>1, <3>2, <3>3 DEF ManuscriptNext
  <2>. QED
    BY <2>1, <2>3 DEF InsertVersion, GenStands
<1>. QED
  BY <1>1, ManuscriptBegins, ManuscriptStep, PTL
     DEF ManuscriptSpec, VersionIsOfTheTextSeen

\* finalizePersistedVersion, applyRecoveredRevision: what an earlier execution
\* was allowed to publish never replaces a text the chapter got since.
THEOREM LaterTextsAreKept == ManuscriptSpec => RecoveryKeepsLaterText
<1>1. ManuscriptInv /\ [ManuscriptNext]_msVars =>
        [\A t \in Task : PlacedBy(t) /\ exec[t].pc = "begin"
           => chapter.content = ckpt[t].fence.text]_msVars
  <2>. SUFFICES ASSUME ManuscriptInv, ManuscriptNext, NEW t \in Task,
                       placed'[t] # placed[t], exec[t].pc = "begin"
                PROVE  chapter.content = ckpt[t].fence.text
    BY DEF PlacedBy
  <2>1. placed \in [Task -> Nat]
    BY DEF ManuscriptInv, ManuscriptType
  <2>2. ASSUME NEW g \in Gen, GenerationStep(g)
        PROVE  chapter.content = ckpt[t].fence.text
    <3>1. placed' = [placed EXCEPT ![g] = @ + 1]
            /\ (ConfirmOwn(g) \/ FinalizePersistedVersion(g))
      BY <2>2 DEF GenerationStep, Generate, CompileStage, StageWritten,
         SaveVersion, InsertVersion, MarkReview, ReviewChapter, ConfirmOwn,
         FinalizePersistedVersion, ConfirmVersion, RejectVersion
    <3>2. t = g
      BY <2>1, <3>1
    <3>3. FinalizePersistedVersion(g)
      BY <3>1, <3>2 DEF ConfirmOwn
    <3>4. version[g] = "review" /\ ~Superseded(g)
      BY <3>2, <3>3 DEF FinalizePersistedVersion
    <3>. QED
      BY <3>2, <3>4 DEF Superseded
  <2>3. ASSUME NEW p \in Polish, PolishStep(p)
        PROVE  chapter.content = ckpt[t].fence.text
    <3>1. placed' = [placed EXCEPT ![p] = @ + 1]
            /\ (ApplyOwnRevision(p) \/ FinishExistingRevision(p))
      BY <2>3 DEF PolishStep, Polishing, PolishSource, PolishAnswers,
         SaveRevision, ApplyOwnRevision, MarkApplied, FinishExistingRevision,
         ApplyRevision
    <3>2. t = p
      BY <2>1, <3>1
    <3>3. FinishExistingRevision(p)
      BY <3>1, <3>2 DEF ApplyOwnRevision
    <3>. QED
      BY <3>2, <3>3 DEF FinishExistingRevision
  <2>4. CASE \E u \in Task : ExecutionStep(u)
    BY <2>4 DEF ExecutionStep, StartManuscriptTask, ResumeManuscriptTask,
       StopManuscriptTask, CloseManuscriptTask
  <2>5. CASE FinishRequest \/ EditSources \/ ManuscriptCrash
    BY <2>5 DEF FinishRequest, EditSources, ManuscriptCrash
  <2>. QED
    BY <2>2, <2>3, <2>4, <2>5 DEF ManuscriptNext
<1>. QED
  BY <1>1, ManuscriptBegins, ManuscriptStep, PTL
     DEF ManuscriptSpec, RecoveryKeepsLaterText

\* A generation that reports auto_confirmed leaves the chapter with its text,
\* whoever approved the version and whatever was published meanwhile.
THEOREM ReportsAreTrue == ManuscriptSpec => ToldIsTrue
<1>1. ManuscriptInv /\ [ManuscriptNext]_msVars =>
        [\A g \in Gen : ~told[g] /\ told'[g]
           => Shows(g) /\ adopted = g]_msVars
  <2>. SUFFICES ASSUME ManuscriptInv, ManuscriptNext, NEW g \in Gen,
                       ~told[g], told'[g]
                PROVE  Shows(g) /\ adopted = g
    OBVIOUS
  <2>1. g \in Task /\ told \in [Task -> BOOLEAN] /\ GenStands(g)
    BY DEF ManuscriptInv, ManuscriptType, Task
  <2>2. ASSUME NEW t \in Task, ExecutionStep(t)
        PROVE  Shows(g) /\ adopted = g
    <3>1. CloseManuscriptTask(t)
      BY <2>2 DEF ExecutionStep, StartManuscriptTask, ResumeManuscriptTask,
         StopManuscriptTask
    <3>2. told' = [told EXCEPT ![t] = exec[t].auto]
      BY <3>1 DEF CloseManuscriptTask
    <3>3. t = g
      BY <2>1, <3>2
    <3>4. exec[g].auto
      BY <2>1, <3>2, <3>3
    <3>. QED
      BY <2>1, <3>4 DEF GenStands
  <2>3. CASE \E h \in Gen : GenerationStep(h)
    BY <2>3 DEF GenerationStep, Generate, CompileStage, StageWritten,
       SaveVersion, InsertVersion, MarkReview, ReviewChapter, ConfirmOwn,
       FinalizePersistedVersion, ConfirmVersion, RejectVersion
  <2>4. CASE \E p \in Polish : PolishStep(p)
    BY <2>4 DEF PolishStep, Polishing, PolishSource, PolishAnswers,
       SaveRevision, ApplyOwnRevision, MarkApplied, FinishExistingRevision,
       ApplyRevision
  <2>5. CASE FinishRequest \/ EditSources \/ ManuscriptCrash
    BY <2>5 DEF FinishRequest, EditSources, ManuscriptCrash
  <2>. QED
    BY <2>2, <2>3, <2>4, <2>5 DEF ManuscriptNext
<1>. QED
  BY <1>1, ManuscriptBegins, ManuscriptStep, PTL DEF ManuscriptSpec, ToldIsTrue

=============================================================================
