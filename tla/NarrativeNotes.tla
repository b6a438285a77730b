--------------------------- MODULE NarrativeNotes ---------------------------
(***************************************************************************)
(* Memory proposals and suggested foreshadows of a chapter                 *)
(* (shared/narrativeWorkbench/service.ts and its two repositories).        *)
(*                                                                         *)
(* A request looks for the notes a chapter already has, asks the model,    *)
(* which it awaits, and inserts what it got, one row after the other.      *)
(* Requests of one key share a run.  Memory proposals are kept per version *)
(* of the chapter, suggestions per chapter; both are the "keys" here.      *)
(***************************************************************************)
EXTENDS Naturals

CONSTANTS
  Notebook,   \* the keys of the two maps of runs
  Asker,      \* the requests
  MaxItems    \* bound: the notes of one answer

ASSUME NotesAssumption == MaxItems \in Nat \ {0} /\ 0 \notin Asker   \* 0: no run

VARIABLES
  extraction,  \* each request: where it is, its notebook, the run it waits for
  shared,   \* the runs in flight of each notebook, as the map holds them
  notes     \* the rows of each notebook: run, number, status, its memories

noteVars == <<extraction, shared, notes>>

Note == [by : Asker, item : 1..MaxItems, status : {"proposed", "approved", "rejected"},
         memories : 0..1]

NotesInit ==
  /\ extraction \in [Asker -> [at : {"unasked"}, of : Notebook, run : {0}]]
  /\ shared = [b \in Notebook |-> 0]
  /\ notes = [b \in Notebook |-> {}]

Joins(q, run) == extraction' = [extraction EXCEPT ![q].at = "waiting", ![q].run = run]

\* The map of runs, as extractMemoryProposals and suggestForeshadows read it.
RunOf_NoMap(b) == 0
RunOf(b) == shared[b]

\* A request joins the run of its notebook; else it returns the notes that are
\* there; else its own run asks the model.
AskForNotes(q) ==
  LET b == extraction[q].of IN
  /\ extraction[q].at = "unasked"
  /\ IF RunOf(b) # 0 THEN Joins(q, RunOf(b)) /\ UNCHANGED shared
     ELSE IF notes[b] # {}
     THEN extraction' = [extraction EXCEPT ![q].at = "answered"] /\ UNCHANGED shared
     ELSE Joins(q, q) /\ shared' = [shared EXCEPT ![b] = q]
  /\ UNCHANGED notes

\* The model answered, failed or was aborted; the items (the heuristic ones if
\* the model gave none) are inserted, up to the first insert that fails.
RunEnds(q) ==
  LET b == extraction[q].of IN
  /\ extraction[q].at = "waiting" /\ extraction[q].run = q
  /\ \E found \in 0..MaxItems : \E inserted \in 0..found :
       /\ notes' = [notes EXCEPT ![b] = @ \cup
                      [by : {q}, item : 1..inserted, status : {"proposed"}, memories : {0}]]
       /\ extraction' = [p \in Asker |->
                        IF extraction[p].at = "waiting" /\ extraction[p].run = q
                        THEN [extraction[p] EXCEPT !.at = IF inserted = found THEN "answered"
                                                       ELSE "failed"]
                        ELSE extraction[p]]
  /\ shared' = [shared EXCEPT ![b] = IF @ = q THEN 0 ELSE @]

Replaces(b, n, m) == notes' = [notes EXCEPT ![b] = (@ \ {n}) \cup {m}]

\* approveProposal: the memory and the status, in one transaction.
ApproveNote(b, n) ==
  /\ n \in notes[b] /\ n.status = "proposed"
  /\ Replaces(b, n, [n EXCEPT !.status = "approved", !.memories = @ + 1])
  /\ UNCHANGED <<extraction, shared>>

\* setProposalStatus.
RejectNote(b, n) ==
  /\ n \in notes[b] /\ n.status = "proposed"
  /\ Replaces(b, n, [n EXCEPT !.status = "rejected"])
  /\ UNCHANGED <<extraction, shared>>

\* The program dies, also between two inserts: what was inserted stays.
NotesCrash ==
  /\ \E q \in Asker : extraction[q].at = "waiting"
  /\ \E partial \in [Notebook -> 0..MaxItems] :
       /\ \A b \in Notebook : shared[b] = 0 => partial[b] = 0
       /\ notes' = [b \in Notebook |-> notes[b] \cup
                      [by : {shared[b]}, item : 1..partial[b], status : {"proposed"},
                       memories : {0}]]
  /\ extraction' = [q \in Asker |-> IF extraction[q].at = "waiting"
                                 THEN [extraction[q] EXCEPT !.at = "failed"] ELSE extraction[q]]
  /\ shared' = [b \in Notebook |-> 0]

NotesNext ==
  \/ \E q \in Asker : AskForNotes(q) \/ RunEnds(q)
  \/ \E b \in Notebook : \E n \in notes[b] : ApproveNote(b, n) \/ RejectNote(b, n)
  \/ NotesCrash

NotesSpec == NotesInit /\ [][NotesNext]_noteVars

-----------------------------------------------------------------------------
NotesTypeInv ==
  /\ extraction \in [Asker -> [at : {"unasked", "waiting", "answered", "failed"},
                            of : Notebook, run : Asker \cup {0}]]
  /\ shared \in [Notebook -> Asker \cup {0}]
  /\ \A b \in Notebook : notes[b] \subseteq Note

\* The notes of a chapter come from one reading of it by the model: requests
\* that overlap share a run, later ones get what is there, whatever the first
\* run failed to insert and whatever the user approved meanwhile; so no memory
\* is ever proposed twice (narrativeWorkbench/service.ts:343 and 443).
NotesComeFromOneRun ==
  /\ NotesTypeInv
  /\ \A b \in Notebook : \A m, n \in notes[b] :
       /\ m.by = n.by /\ (m.item = n.item => m = n)
       /\ n.memories = 1 <=> n.status = "approved"
=============================================================================
