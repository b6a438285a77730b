-------------------------------- MODULE MCStudio --------------------------------
(***************************************************************************)
(* What an author works with, each part on a small instance of its own:    *)
(* stored tasks and the decisions on them, outlines, notes, archives, the  *)
(* context of a prompt, the diary, the agent's tools and the stores of the *)
(* window.  As in MCPlatform the first state chooses which part moves.     *)
(***************************************************************************)
EXTENDS RecoveryFacts, StoredTask, OutlineGeneration, NarrativeNotes,
        ProjectArchive, ContextCompiler, Diary, AgentTools, Workbench,
        TaskBoard, NarrativeDesk, AssistantDesk

VARIABLE subject   \* the part that moves

studioVars == <<subject, rowFacts, storedVars, outlineVars, noteVars,
                archiveVars, compileVars, diaryVars, toolVars, workbenchVars,
                boardVars, deskVars, pageVars>>

-----------------------------------------------------------------------------
(* Constants.                                                              *)

CONSTANTS
  d1, d2, author, n1, n2, q1, q2, q3, p1, day1, look1, c1, c2, x1, x2, g1, g2

Text(head, body, tail) == [head |-> head, body |-> body, tail |-> tail]
FactOf(id, kind, weight, relevance, status, chosen, text, brief, volume) ==
  [id |-> id, kind |-> kind, weight |-> weight, relevance |-> relevance,
   status |-> status, chosen |-> chosen, text |-> text, brief |-> brief,
   volume |-> volume]
PlainFact(id, kind, weight, relevance, text) ==
  FactOf(id, kind, weight, relevance, "active", TRUE, text, NoText, 0)

\* What a small project may lack: two materials of equal relevance, a person, a
\* completed chapter without a synopsis, an approved memory, a foreshadow.
SomeOptional == {
  PlainFact(1, "source_material", 700, 40, Text(4, 0, 0)),
  PlainFact(2, "source_material", 700, 40, Text(3, 1, 1)),
  PlainFact(3, "character", 500, 3, Text(5, 0, 0)),
  FactOf(4, "chapter", 1, 10, "completed", TRUE, Text(6, 2, 1), NoText, 1),
  FactOf(5, "narrative_memory", 80, 20, "approved", TRUE, Text(3, 1, 0), NoText, 0),
  FactOf(6, "foreshadow", 40, 20, "planted", TRUE, Text(3, 1, 0), NoText, 0),
  PlainFact(7, "continuation", 750, 30, Text(2, 1, 0))}

\* What it always holds: the goals, a body, a chapter of its own volume, a draft of
\* the volume before, and a material, a memory and a foreshadow not to be told.
SomeFacts == SomeOptional \cup {
  PlainFact(11, "task_instruction", 1000, 0, Text(5, 2, 0)),
  PlainFact(12, "project_config", 900, 5, Text(2, 1, 0)),
  PlainFact(13, "volume_goal", 801, 30, Text(2, 0, 0)),
  PlainFact(14, "chapter_goal", 853, 30, Text(3, 1, 3)),
  PlainFact(15, "stage_body", 950, 10, Text(6, 2, 1)),
  FactOf(16, "chapter", 2, 10, "completed", TRUE, Text(6, 2, 1), Text(3, 1, 2), 2),
  FactOf(17, "chapter", 9, 10, "drafting", TRUE, Text(3, 1, 0), Text(1, 1, 0), 1),
  FactOf(18, "source_material", 250, 40, "active", FALSE, Text(2, 0, 0), NoText, 0),
  FactOf(19, "narrative_memory", 90, 20, "proposed", TRUE, Text(3, 1, 0), NoText, 0),
  FactOf(20, "foreshadow", 90, 20, "paid_off", TRUE, Text(3, 1, 0), NoText, 0)}

\* Two tasks, each of a project of its own.
MCProjectOf == [t \in BoardTask |-> IF t = x1 THEN "a" ELSE "b"]

\* Two sessions of one project.
MCSessionOf == [s \in Session |-> "a"]

-----------------------------------------------------------------------------
(* The composition.                                                        *)

\* Where the parts that can begin in several states rest.
Parked ==
  /\ \/ subject = "classifier"
     \/ rowFacts.taskType = "assistant" /\ rowFacts.status = "pending"
  /\ subject = "row" \/ demand = Plain
  /\ \/ subject = "notes"
     \/ extraction = [q \in Asker |-> [at |-> "unasked", of |-> n1, run |-> 0]]
  /\ \/ subject = "compiler"
     \/ given = SomeFacts /\ available = 0 /\ promptOf = "summary"
  /\ subject = "diary" \/ fragments = NoFile
  /\ \/ subject = "tools"
     \/ /\ agentOf = "task"
        /\ called = [c \in ToolCall |->
                      [tool |-> "day_writer", action |-> "write", at |-> "made"]]
  /\ subject = "workbench" \/ (existing = {} /\ stored = NoProject)
  /\ tasksStored = [t \in BoardTask |-> IF t = x1 THEN "none" ELSE "recoverable"]

StudioInit ==
  /\ subject \in {"classifier", "row", "outline", "notes", "archive", "compiler",
                  "diary", "tools", "workbench", "board", "desk", "page"}
  /\ ClassifierInit /\ Parked
  /\ StoredInit /\ OutlineInit /\ NotesInit /\ ArchiveInit /\ CompilerInit
  /\ DiaryInit /\ ToolsInit /\ WorkbenchInit /\ BoardInit /\ DeskInit /\ PageInit

ClassifierMoves ==
  /\ subject = "classifier" /\ ClassifierNext
  /\ UNCHANGED <<subject, storedVars, outlineVars, noteVars, archiveVars,
               compileVars, diaryVars, toolVars, workbenchVars, boardVars,
               deskVars, pageVars>>

StoredMoves ==
  /\ subject = "row" /\ StoredNext
  /\ UNCHANGED <<subject, rowFacts, outlineVars, noteVars, archiveVars,
               compileVars, diaryVars, toolVars, workbenchVars, boardVars,
               deskVars, pageVars>>

OutlineMoves ==
  /\ subject = "outline" /\ OutlineNext
  /\ UNCHANGED <<subject, rowFacts, storedVars, noteVars, archiveVars,
               compileVars, diaryVars, toolVars, workbenchVars, boardVars,
               deskVars, pageVars>>

NotesMoves ==
  /\ subject = "notes" /\ NotesNext
  /\ UNCHANGED <<subject, rowFacts, storedVars, outlineVars, archiveVars,
               compileVars, diaryVars, toolVars, workbenchVars, boardVars,
               deskVars, pageVars>>

ArchiveMoves ==
  /\ subject = "archive" /\ ArchiveNext
  /\ UNCHANGED <<subject, rowFacts, storedVars, outlineVars, noteVars,
               compileVars, diaryVars, toolVars, workbenchVars, boardVars,
               deskVars, pageVars>>

CompilerMoves ==
  /\ subject = "compiler" /\ CompilerNext
  /\ UNCHANGED <<subject, rowFacts, storedVars, outlineVars, noteVars,
               archiveVars, diaryVars, toolVars, workbenchVars, boardVars,
               deskVars, pageVars>>

DiaryMoves ==
  /\ subject = "diary" /\ DiaryNext
  /\ UNCHANGED <<subject, rowFacts, storedVars, outlineVars, noteVars,
               archiveVars, compileVars, toolVars, workbenchVars, boardVars,
               deskVars, pageVars>>

ToolsMoves ==
  /\ subject = "tools" /\ ToolsNext
  /\ UNCHANGED <<subject, rowFacts, storedVars, outlineVars, noteVars,
               archiveVars, compileVars, diaryVars, workbenchVars, boardVars,
               deskVars, pageVars>>

WorkbenchMoves ==
  /\ subject = "workbench" /\ WorkbenchNext
  /\ UNCHANGED <<subject, rowFacts, storedVars, outlineVars, noteVars,
               archiveVars, compileVars, diaryVars, toolVars, boardVars,
               deskVars, pageVars>>

BoardMoves ==
  /\ subject = "board" /\ BoardNext
  /\ UNCHANGED <<subject, rowFacts, storedVars, outlineVars, noteVars,
               archiveVars, compileVars, diaryVars, toolVars, workbenchVars,
               deskVars, pageVars>>

DeskMoves ==
  /\ subject = "desk" /\ DeskNext
  /\ UNCHANGED <<subject, rowFacts, storedVars, outlineVars, noteVars,
               archiveVars, compileVars, diaryVars, toolVars, workbenchVars,
               boardVars, pageVars>>

PageMoves ==
  /\ subject = "page" /\ PageNext
  /\ UNCHANGED <<subject, rowFacts, storedVars, outlineVars, noteVars,
               archiveVars, compileVars, diaryVars, toolVars, workbenchVars,
               boardVars, deskVars>>

StudioNext ==
  \/ ClassifierMoves \/ StoredMoves \/ OutlineMoves \/ NotesMoves \/ ArchiveMoves
  \/ CompilerMoves \/ DiaryMoves \/ ToolsMoves \/ WorkbenchMoves \/ BoardMoves
  \/ DeskMoves \/ PageMoves

StudioSpec == StudioInit /\ [][StudioNext]_studioVars

=============================================================================
