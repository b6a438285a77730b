----------------------------- MODULE FirstChapter -----------------------------
(***************************************************************************)
(* The way to the first chapter (shared/firstChapterWorkflow/evaluator.ts) *)
(* over the rows of ProjectGraph: which step the wizard shows, what it     *)
(* says is missing, the same evaluation as a preflight before a chapter    *)
(* task starts (main/workbench/firstChapterPreflight.ts), and what the     *)
(* generation itself asks for when the task runs (prepareInternal of       *)
(* shared/chapterGeneration/service.ts).                                   *)
(*                                                                         *)
(* The first text of a project says that it is active and has a concept,   *)
(* the first text of a character that it is a protagonist, the second text *)
(* that it is not so.  Volumes, chapters and characters are numbered and   *)
(* sorted in the order they were made.                                     *)
(***************************************************************************)
EXTENDS ProjectGraph

NoRow == 0
FirstOf(S) == IF S = {} THEN NoRow ELSE CHOOSE i \in S : \A j \in S : i <= j

\* The volume of the chapter that is to be written, or else the first; the chapter,
\* or else the first of the volume.
SelectFirstChapterVolume(p, target) ==
  IF target \in LiveOf("chapter outline", p) THEN VolumeOf(target)
  ELSE FirstOf(LiveOf("volume", p))
SelectFirstChapterOutline(p, volume, target) ==
  LET inVolume == {o \in LiveOf("chapter outline", p) : volume \in {NoRow, VolumeOf(o)}}
  IN IF target # NoRow THEN FirstOf(inVolume \cap {target}) ELSE FirstOf(inVolume)
VolumeOutlineFor(p, volume) ==
  FirstOf({o \in LiveOf("volume outline", p) : VolumeOf(o) = volume})

ActiveWithConcept(p) == row[p].text = 1
ProtagonistOf(p) == FirstOf({c \in LiveOf("character", p) : row[c].text = 1})

\* hasCoreRelation: the protagonist's, with another character.
HasCoreRelation(p) ==
  \E r \in LiveOf("relation", p) :
    LET ends == Linked(r, "source") \cup Linked(r, "target")
    IN ProtagonistOf(p) \in ends /\ ends \subseteq LiveOf("character", p)

Confirmed(o) == o # NoRow /\ row[o].status # "draft"

\* A bug to test the properties with: a draft outline is in the way, none is not.
VolumeOutlineReady_IfAny(volume, outline) == outline # NoRow => Confirmed(outline)

VolumeOutlineReady(volume, outline) == volume # NoRow => Confirmed(outline)

\* collectBlockingChecks: what each step needs.  The key, the endpoint and the
\* running task are asked of others (Credentials, TaskManager).
BlockingChecks(p, target) ==
  LET volume == SelectFirstChapterVolume(p, target)
      outline == VolumeOutlineFor(p, volume)
      chapter == SelectFirstChapterOutline(p, volume, target)
      met == [concept |-> ActiveWithConcept(p), protagonist |-> ProtagonistOf(p) # NoRow,
              relationship |-> HasCoreRelation(p),
              worldview |-> LiveOf("worldview", p) # {}, volume |-> volume # NoRow,
              volumeOutline |-> VolumeOutlineReady(volume, outline),
              chapterOutline |-> Confirmed(chapter)]
  IN {c \in DOMAIN met : ~met[c]}

\* completedSteps: how far the author is, of the steps before the generation.
CompletedSteps(p) ==
  LET volume == SelectFirstChapterVolume(p, NoRow)
      done == [concept |-> ActiveWithConcept(p),
               characters |-> \E c \in LiveOf("character", p) :
                                 ProtagonistOf(p) \notin {NoRow, c},
               relationship |-> HasCoreRelation(p),
               worldview |-> LiveOf("worldview", p) # {},
               volumeOutline |-> Confirmed(VolumeOutlineFor(p, volume)),
               chapterOutline |-> Confirmed(SelectFirstChapterOutline(p, volume, NoRow))]
  IN {s \in DOMAIN done : done[s]}
StepsToGeneration ==
  {"concept", "characters", "relationship", "worldview", "volumeOutline", "chapterOutline"}

\* assertChapterGenerationPreflight lets a chapter task start.
PreflightPasses(p, target) == BlockingChecks(p, target) = {}

\* collectMaterialIds
MaterialsToldTo(o) ==
  UNION {Linked(i, "cites") :
           i \in {o, VolumeOutlineFor(row[o].project, VolumeOf(o))} \ {NoRow}}

\* prepareInternal: what the generation refuses.  Without a chapter id it makes
\* the chapter it lacks.
Prepares(p, o) ==
  /\ ActiveWithConcept(p) /\ GetChapterOutline(p, o) /\ Confirmed(o)
  /\ Confirmed(VolumeOutlineFor(p, VolumeOf(o)))
  /\ SelectSourceMaterials(p, MaterialsToldTo(o))

\* A task that the preflight lets start is not refused by the generation for the
\* state of the project, in whatever order rows were made, edited, unlocked, deleted
\* and imported; only a source material deleted since it was cited is in its way.
\* What the wizard says of the chapter it chose by itself, the preflight says of
\* that chapter; and the wizard shows all its steps as done just when nothing is
\* in the way.
StartsOnlyWhatCanBePrepared ==
  \A p \in Projects :
    /\ \A o \in LiveOf("chapter outline", p) :
         PreflightPasses(p, o) =>
           Prepares(p, o) \/ \E m \in MaterialsToldTo(o) : ~row[m].live
    /\ LET chosen == SelectFirstChapterOutline(p, SelectFirstChapterVolume(p, NoRow), NoRow)
       IN chosen # NoRow => BlockingChecks(p, NoRow) = BlockingChecks(p, chosen)
    /\ CompletedSteps(p) = StepsToGeneration <=> PreflightPasses(p, NoRow)
=============================================================================
