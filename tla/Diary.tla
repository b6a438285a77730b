------------------------------- MODULE Diary --------------------------------
(***************************************************************************)
(* The diary of one character, kept in files of its directory              *)
(* (shared/crush, shared/day, shared/relationship, shared/fragment).       *)
(*                                                                         *)
(* Writing a day awaits the model between the reading of the relationship  *)
(* and the writing of the text and of the progress it makes.  Everything   *)
(* else is one synchronous handler that loads a file, changes it and       *)
(* writes it over: a write that dies half-way leaves a file nobody can     *)
(* parse, which is then read as if there were none.                        *)
(***************************************************************************)
EXTENDS Naturals, FiniteSets

CONSTANTS
  Pen,         \* the calls that write a day
  DiaryDay,    \* the day numbers
  Reader,      \* those who look at fragments, and edit what they saw
  MaxMade,     \* bound: the fragments and their texts ever made
  MaxMishaps   \* bound: failed writes, and crashes

ASSUME DiaryAssumption ==
  DiaryDay # {} /\ MaxMade \in Nat /\ MaxMishaps \in Nat

VARIABLES
  folder,      \* the directory: none, a ghost without meta.json, a character
  dayText,     \* the days that have a text
  progress,    \* progress.json
  fragments,   \* the fragment file of today
  pen,         \* each call: where it is, its day, the progress its prompt was of
  sight,       \* the fragment file as each reader last saw it
  made,        \* fragments and texts made so far
  mishaps,     \* faults so far
  due,         \* (history) what the choices and narratives that were saved make
  uninformed   \* (history) an edit was applied to what its author had not seen

diaryVars == <<folder, dayText, progress, fragments, pen, sight, made, mishaps,
               due, uninformed>>

RelationshipPhase == 0..4
Start(p) == [file |-> "whole", phase |-> p, score |-> 0, narratives |-> 0]
NoFile == [file |-> "none"]
Torn == [file |-> "torn"]
NewDay == [file |-> "whole", version |-> 1, items |-> {}, completed |-> FALSE]

\* loadProgress, loadFragmentDay: a missing or unreadable file is a new one.
Progress(f) == IF f.file = "whole" THEN f ELSE Start(0)
Fragments(f) == IF f.file = "whole" THEN f ELSE NewDay

\* There may be a fragment file an older release marked as completed.
DiaryInit ==
  /\ folder = "none" /\ dayText = {}
  /\ progress = NoFile
  /\ fragments \in {NoFile, [NewDay EXCEPT !.completed = TRUE]}
  /\ pen = [w \in Pen |-> [at |-> "idle", day |-> CHOOSE d \in DiaryDay : TRUE,
                           seen |-> Start(0)]]
  /\ sight = [r \in Reader |-> NewDay]
  /\ made = 0 /\ mishaps = 0 /\ due = Start(0) /\ uninformed = FALSE

Mishap == mishaps < MaxMishaps /\ mishaps' = mishaps + 1

-----------------------------------------------------------------------------
(* The character.                                                          *)

\* createCrush: what is there already stays; initializeProgress.
CreateCrush(p) ==
  /\ folder' = "character"
  /\ IF progress.file # "none" THEN UNCHANGED <<progress, due, mishaps>>
     ELSE \/ progress' = Start(p) /\ due' = Start(p) /\ UNCHANGED mishaps
          \/ Mishap /\ UNCHANGED <<progress, due>>
  /\ UNCHANGED <<dayText, fragments, pen, sight, made, uninformed>>

DeleteCrush ==
  /\ folder # "none"
  /\ folder' = "none" /\ dayText' = {} /\ progress' = NoFile /\ fragments' = NoFile
  /\ due' = Start(0)
  /\ UNCHANGED <<pen, sight, made, mishaps, uninformed>>

\* mkdirSync(recursive) of every write: a deleted character's directory is
\* there again.
MakeFolder == folder' = IF folder = "none" THEN "ghost" ELSE folder

-----------------------------------------------------------------------------
(* The relationship.                                                       *)

Saves(p) == progress' = p /\ due' = p

\* advancePhase and setPhase; what saveProgress returns is not looked at.
GoToPhase(p) ==
  /\ p # Progress(progress).phase
  /\ MakeFolder
  /\ \/ Saves([Progress(progress) EXCEPT !.phase = p, !.score = 0]) /\ UNCHANGED mishaps
     \/ Mishap /\ UNCHANGED <<progress, due>>
  /\ UNCHANGED <<dayText, fragments, pen, sight, made, uninformed>>

AdvancePhase ==
  Progress(progress).phase < 4 /\ GoToPhase(Progress(progress).phase + 1)

SetPhase == \E p \in RelationshipPhase : GoToPhase(p)

-----------------------------------------------------------------------------
(* The days.                                                               *)

\* generateDay and runPipeline up to generateNarrative: the prompt has the
\* rules of the phase.
BeginDay(w, d) ==
  /\ pen[w].at = "idle"
  /\ pen' = [pen EXCEPT ![w] = [at |-> "writing", day |-> d, seen |-> Progress(progress)]]
  /\ UNCHANGED <<folder, dayText, progress, fragments, sight, made, mishaps, due, uninformed>>

\* handleNarrativeComplete loads the progress again.
ProgressBefore_Begun(w) == pen[w].seen
ProgressBefore(w) == Progress(progress)

\* applyNarrativeProgress: a narrative more, and the score of its signals.
WithNarrative(p, score) ==
  [p EXCEPT !.narratives = @ + 1, !.score = @ + score]

PenRests(w) == pen' = [pen EXCEPT ![w].at = "done"]

\* The rest of runPipeline; a progress that cannot be saved is only warned of.
FinishDay(w) ==
  /\ pen[w].at = "writing"
  /\ MakeFolder /\ dayText' = dayText \cup {pen[w].day}
  /\ \/ /\ \E score \in 0..1 : progress' = WithNarrative(ProgressBefore(w), score)
        /\ due' = [WithNarrative(due, 0) EXCEPT !.score = progress'.score]
        /\ UNCHANGED mishaps
     \/ Mishap /\ UNCHANGED <<progress, due>>
  /\ PenRests(w)
  /\ UNCHANGED <<fragments, sight, made, uninformed>>

\* The model fails, or the text cannot be written.
FailDay(w) ==
  /\ pen[w].at = "writing" /\ PenRests(w)
  /\ UNCHANGED <<folder, dayText, progress, fragments, sight, made, mishaps, due, uninformed>>

DeleteDay(d) ==
  /\ d \in dayText /\ dayText' = dayText \ {d}
  /\ UNCHANGED <<folder, progress, fragments, pen, sight, made, mishaps, due, uninformed>>

-----------------------------------------------------------------------------
(* The fragments of today.                                                 *)

Look(r) ==
  /\ sight' = [sight EXCEPT ![r] = Fragments(fragments)]
  /\ UNCHANGED <<folder, dayText, progress, fragments, pen, made, mishaps, due, uninformed>>

\* saveFragmentDay; when it fails, nothing is changed.
SavesFragments(items) ==
  LET day == Fragments(fragments) IN
  /\ ~day.completed
  /\ MakeFolder
  /\ fragments' = [day EXCEPT !.items = items, !.version = @ + 1]
  /\ UNCHANGED <<dayText, progress, pen, sight, mishaps, due>>

RecordFragment ==
  /\ made < MaxMade /\ made' = made + 1
  /\ SavesFragments(Fragments(fragments).items \cup {[id |-> made', text |-> made']})
  /\ UNCHANGED uninformed

\* updateFragment and deleteFragment of a fragment that was seen, with its
\* version or, as the pages do it, with none.
EditFragment(r) ==
  /\ made < MaxMade /\ made' = made + 1
  /\ \E f \in Fragments(fragments).items, named \in BOOLEAN :
       /\ f.id \in {g.id : g \in sight[r].items}
       /\ named => sight[r].version = Fragments(fragments).version
       /\ \E edited \in {{}, {[f EXCEPT !.text = made']}} :
            SavesFragments((Fragments(fragments).items \ {f}) \cup edited)
       /\ uninformed' = (uninformed \/ (named /\ sight[r].items # Fragments(fragments).items))

-----------------------------------------------------------------------------
\* The program dies, possibly while it writes one of the files.
DiaryCrash ==
  /\ Mishap
  /\ pen' = [w \in Pen |-> IF pen[w].at = "writing" THEN [pen[w] EXCEPT !.at = "done"]
                                                    ELSE pen[w]]
  /\ \/ UNCHANGED <<progress, fragments, due>>
     \/ progress.file # "none" /\ progress' = Torn /\ due' = Start(0) /\ UNCHANGED fragments
     \/ fragments.file # "none" /\ fragments' = Torn /\ UNCHANGED <<progress, due>>
  /\ UNCHANGED <<folder, dayText, sight, made, uninformed>>

DiaryNext ==
  \/ \E p \in {0, 2} : CreateCrush(p)
  \/ DeleteCrush \/ AdvancePhase \/ SetPhase
  \/ \E w \in Pen : FinishDay(w) \/ FailDay(w) \/ (\E d \in DiaryDay : BeginDay(w, d))
  \/ \E d \in DiaryDay : DeleteDay(d)
  \/ \E r \in Reader : Look(r) \/ EditFragment(r)
  \/ RecordFragment \/ DiaryCrash

DiarySpec == DiaryInit /\ [][DiaryNext]_diaryVars

-----------------------------------------------------------------------------
DiaryTypeInv ==
  /\ folder \in {"none", "ghost", "character"} /\ dayText \subseteq DiaryDay
  /\ folder = "none" => dayText = {} /\ progress = NoFile
  /\ Progress(progress).phase \in RelationshipPhase
  /\ made \in 0..MaxMade /\ mishaps \in 0..MaxMishaps

\* Short of a damaged file or a deleted character, a narrative that ends never
\* takes back a phase the user chose or another narrative, however long it was
\* awaited (shared/day/dayService.ts:190); and an edit that names the version
\* its author saw is applied to exactly what he saw
\* (shared/fragment/crud.ts:146).
DiaryIsKept == DiaryTypeInv /\ Progress(progress) = due /\ ~uninformed
=============================================================================
