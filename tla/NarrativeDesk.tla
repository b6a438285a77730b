---------------------------- MODULE NarrativeDesk ----------------------------
(***************************************************************************)
(* The narrative page of a window (renderer/stores/narrativeStore.ts) and   *)
(* what it asks of the main process: memories, foreshadows, skills and      *)
(* comparisons (ipc/foreshadow.ipc.ts, narrativeWorkbench/service.ts and    *)
(* its repositories).                                                      *)
(*                                                                         *)
(* The main process answers a call as soon as it has it, the comparison     *)
(* and the reading by a model later; the page goes on with an answer when   *)
(* it gets it, in any order, and by then may show something else.  A        *)
(* project has one proposal, one foreshadow and one skill here, and two     *)
(* chapters; the runs that make the notes are in NarrativeNotes.            *)
(***************************************************************************)
EXTENDS Naturals, Sequences

CONSTANTS
  DeskProject,   \* the projects of the page
  Nowhere,       \* no project, chapter or comparison
  MaxDeskClicks, \* bound: what the user does
  MaxDeskFaults  \* bound: events that are not stored

ASSUME DeskAssumption ==
  /\ Nowhere \notin DeskProject
  /\ MaxDeskClicks \in Nat /\ MaxDeskFaults \in Nat

VARIABLES
  shelf,      \* the rows of each project
  workbenchShows,     \* the project the workbench shows
  desk,       \* the state of the page's store
  deskCalls,  \* the calls whose answer the page has not got
  deskClicks, deskFaults

deskVars == <<shelf, workbenchShows, desk, deskCalls, deskClicks, deskFaults>>

-----------------------------------------------------------------------------
(* The main process.                                                       *)

ForeshadowStatus ==
  {"suggested", "planned", "planted", "active", "revealed", "paid_off", "resolved",
   "abandoned"}
Unwritten == "none"

\* foreshadowTransitions.
ForeshadowTransitions(status) ==
  CASE status = "suggested" -> {"planned", "abandoned"}
    [] status = "planned" -> {"planted", "abandoned"}
    [] status = "planted" -> {"active", "revealed", "paid_off", "resolved", "abandoned"}
    [] status = "active" -> {"revealed", "paid_off", "resolved", "abandoned"}
    [] status = "revealed" -> {"paid_off", "resolved", "abandoned"}
    [] OTHER -> {}

EmptyShelf == [proposal |-> Unwritten, memories |-> 0, status |-> Unwritten,
               events |-> <<>>, payoff |-> FALSE, skill |-> TRUE]

\* requireForeshadow and updateStatus: the payoff is noted with the status.
UpdateStatus(row, next) ==
  [row EXCEPT !.status = next, !.payoff = @ \/ next \in {"paid_off", "resolved"}]
\* addEvent.
AddEvent(row, status) == [row EXCEPT !.events = Append(@, status)]
\* approveProposal and setProposalStatus.
ApproveRow(row) == [row EXCEPT !.proposal = "approved", !.memories = @ + 1]
\* listMemories, listMemoryProposals, listForeshadows, listSkills.
ShelfOf(p) ==
  [proposal |-> IF shelf[p].proposal = Unwritten THEN {} ELSE {p},
   memories |-> IF shelf[p].memories = 0 THEN {} ELSE {p},
   foreshadows |-> IF shelf[p].status = Unwritten THEN {} ELSE {p},
   skill |-> shelf[p].skill]

-----------------------------------------------------------------------------
(* The page.                                                               *)

ChapterOf == [project : DeskProject, number : 1..2]

EmptyDesk ==
  [project |-> Nowhere, proposals |-> {}, memories |-> {}, foreshadows |-> {},
   skill |-> TRUE, chapter |-> Nowhere, versions |-> Nowhere, diff |-> Nowhere,
   request |-> 0, cancelling |-> FALSE]

DeskInit ==
  /\ shelf = [p \in DeskProject |-> EmptyShelf]
  /\ workbenchShows = Nowhere /\ desk = EmptyDesk
  /\ deskCalls = {} /\ deskClicks = 0 /\ deskFaults = 0

\* A call takes the click that made it as its number, with the project the page
\* had then.
CallOf(kind, p, what) ==
  [n |-> deskClicks + 1, kind |-> kind, project |-> p, what |-> what, answer |-> "none"]
DeskClick == deskClicks < MaxDeskClicks /\ deskClicks' = deskClicks + 1

\* load: the page shows the project and drops what it had of another, with its
\* comparison; then the four lists are asked for.
Shown(d, p) ==
  IF d.project = p THEN d
  ELSE [d EXCEPT !.project = p, !.proposals = {}, !.memories = {}, !.foreshadows = {},
                 !.diff = IF d.request # 0 THEN Nowhere ELSE @,
                 !.request = 0, !.cancelling = IF d.request # 0 THEN FALSE ELSE @]
LoadCall(p, n) ==
  [n |-> n, kind |-> "load", project |-> p, what |-> ShelfOf(p), answer |-> "ok"]

\* The workbench shows another project, or the same one anew.
LoadDesk(p) ==
  /\ DeskClick /\ workbenchShows' = p /\ desk' = Shown(desk, p)
  /\ deskCalls' = deskCalls \cup {LoadCall(p, deskClicks + 1)}
  /\ UNCHANGED <<shelf, deskFaults>>

\* loadChapter: from the bodies to the versions that can be compared.
LoadChapter(c) ==
  /\ c.project = workbenchShows /\ DeskClick
  /\ desk' = [desk EXCEPT !.project = c.project, !.chapter = c, !.versions = Nowhere,
                          !.diff = Nowhere, !.request = 0, !.cancelling = FALSE]
  /\ deskCalls' = deskCalls \cup {[CallOf("chapter", c.project, c) EXCEPT !.answer = "ok"]}
  /\ UNCHANGED <<shelf, workbenchShows, deskFaults>>

\* What approve, reject, transition, skill and suggest do to the rows, or the
\* error they answer; an event may fail to be stored after its status was.
Served(p, kind, to, row) ==
  \/ /\ kind = "approve" /\ shelf[p].proposal = "proposed"
     /\ row = ApproveRow(shelf[p])
  \/ /\ kind = "reject" /\ shelf[p].proposal \in {"proposed", "rejected"}
     /\ row = [shelf[p] EXCEPT !.proposal = "rejected"]
  \/ /\ kind = "skill" /\ row = [shelf[p] EXCEPT !.skill = ~@]
  \/ /\ kind = "transition" /\ shelf[p].status # Unwritten
     /\ to \in ForeshadowTransitions(shelf[p].status)
     /\ row = AddEvent(UpdateStatus(shelf[p], to), to)

AskDesk(kind, to) ==
  LET p == desk.project IN
  /\ p # Nowhere /\ DeskClick /\ UNCHANGED <<workbenchShows, desk, deskFaults>>
  /\ \E row \in {shelf[p], ApproveRow(shelf[p]), [shelf[p] EXCEPT !.proposal = "rejected"],
                 [shelf[p] EXCEPT !.skill = ~@], AddEvent(UpdateStatus(shelf[p], to), to)} :
       /\ Served(p, kind, to, row) /\ shelf' = [shelf EXCEPT ![p] = row]
  /\ deskCalls' = deskCalls \cup {[CallOf(kind, p, to) EXCEPT !.answer = "ok"]}

\* Its status is stored and its event is not; the page is told of a failure only.
TransitionTorn(to) ==
  LET p == desk.project IN
  /\ p # Nowhere /\ DeskClick /\ UNCHANGED <<workbenchShows, desk, deskCalls>>
  /\ deskFaults < MaxDeskFaults /\ deskFaults' = deskFaults + 1
  /\ shelf[p].status # Unwritten /\ to \in ForeshadowTransitions(shelf[p].status)
  /\ shelf' = [shelf EXCEPT ![p] = UpdateStatus(@, to)]

\* extractMemories and suggestForeshadows ask, and wait for a model.
AskReader(kind) ==
  /\ desk.project # Nowhere /\ DeskClick
  /\ UNCHANGED <<shelf, workbenchShows, desk, deskFaults>>
  /\ deskCalls' = deskCalls \cup {CallOf(kind, desk.project, "none")}

\* What there is already is answered as it is.
ReaderAnswers(c) ==
  LET p == c.project IN
  /\ c.kind \in {"extract", "suggest"} /\ c.answer = "none"
  /\ shelf' = IF c.kind = "extract"
              THEN [shelf EXCEPT ![p].proposal = IF @ = Unwritten THEN "proposed" ELSE @]
              ELSE IF shelf[p].status # Unwritten THEN shelf
              ELSE [shelf EXCEPT ![p] = AddEvent(UpdateStatus(@, "suggested"), "suggested")]
  /\ deskCalls' = (deskCalls \ {c}) \cup {[c EXCEPT !.answer = "ok"]}
  /\ UNCHANGED <<workbenchShows, desk, deskClicks, deskFaults>>

\* compare: one at a time, of the versions that are listed.
CompareOnDesk ==
  /\ desk.project # Nowhere /\ desk.request = 0 /\ desk.versions # Nowhere /\ DeskClick
  /\ desk' = [desk EXCEPT !.request = deskClicks + 1, !.diff = Nowhere,
                          !.cancelling = FALSE]
  /\ deskCalls' = deskCalls \cup {CallOf("compare", desk.project, desk.versions)}
  /\ UNCHANGED <<shelf, workbenchShows, deskFaults>>

\* diffVersions: both versions are of a chapter of the project.
DiffEnds(c) ==
  /\ c.kind = "compare" /\ c.answer = "none"
  /\ \E a \in IF c.what.project = c.project THEN {"ok", "failed"} ELSE {"failed"} :
       deskCalls' = (deskCalls \ {c}) \cup {[c EXCEPT !.answer = a]}
  /\ UNCHANGED <<shelf, workbenchShows, desk, deskClicks, deskFaults>>

\* cancelDiff, and the answer that it failed.
CancelComparison ==
  /\ desk.request # 0 /\ ~desk.cancelling /\ DeskClick
  /\ desk' = [desk EXCEPT !.cancelling = TRUE]
  /\ deskCalls' = deskCalls \cup {[CallOf("cancelDiff", desk.project, desk.request)
                                     EXCEPT !.answer = "ok"]}
  /\ UNCHANGED <<shelf, workbenchShows, deskFaults>>

\* Whose answer compare still wants.
WantsDiff_OfTheProject(c) == desk.project = c.project
WantsDiff(c) == desk.request = c.n /\ desk.project = c.project

\* The page goes on with an answer.
AfterAnswer(c) ==
  CASE c.kind = "load" ->
         IF desk.project # c.project THEN desk
         ELSE [desk EXCEPT !.proposals = c.what.proposal, !.memories = c.what.memories,
                           !.foreshadows = c.what.foreshadows, !.skill = c.what.skill]
    [] c.kind = "chapter" ->
         IF desk.project # c.project \/ desk.chapter # c.what THEN desk
         ELSE [desk EXCEPT !.versions = c.what]
    [] c.kind = "extract" -> Shown(desk, c.project)
    [] c.kind = "approve" ->
         Shown([desk EXCEPT !.proposals = @ \ {c.project}], c.project)
    [] c.kind = "reject" -> [desk EXCEPT !.proposals = @ \ {c.project}]
    [] c.kind = "suggest" -> [desk EXCEPT !.foreshadows = @ \cup {c.project}]
    [] c.kind = "transition" -> desk
    [] c.kind = "skill" -> [desk EXCEPT !.skill = ~@]
    [] c.kind = "compare" ->
         LET ended == IF WantsDiff(c) /\ c.answer = "ok" /\ ~desk.cancelling
                     THEN [desk EXCEPT !.diff = c.what] ELSE desk
         IN IF desk.request = c.n THEN [ended EXCEPT !.request = 0, !.cancelling = FALSE]
            ELSE ended
    [] c.kind = "cancelDiff" -> desk

\* extractMemories and approveProposal load the lists anew, of the project they
\* were asked for.
GoesOn(c) ==
  /\ c.answer # "none" /\ desk' = AfterAnswer(c)
  /\ deskCalls' = (deskCalls \ {c}) \cup
       (IF c.kind \in {"extract", "approve"} THEN {LoadCall(c.project, c.n)} ELSE {})
  /\ UNCHANGED <<shelf, workbenchShows, deskClicks, deskFaults>>

\* The cancellation did not get through.
CancelFails(c) ==
  /\ c.kind = "cancelDiff"
  /\ desk' = IF desk.request = c.what THEN [desk EXCEPT !.cancelling = FALSE] ELSE desk
  /\ deskCalls' = deskCalls \ {c}
  /\ UNCHANGED <<shelf, workbenchShows, deskClicks, deskFaults>>

DeskNext ==
  \/ \E p \in DeskProject : LoadDesk(p)
  \/ \E c \in ChapterOf : LoadChapter(c)
  \/ \E kind \in {"approve", "reject", "skill"} : AskDesk(kind, "none")
  \/ \E to \in ForeshadowStatus : AskDesk("transition", to) \/ TransitionTorn(to)
  \/ \E kind \in {"extract", "suggest"} : AskReader(kind)
  \/ CompareOnDesk \/ CancelComparison
  \/ \E c \in deskCalls : ReaderAnswers(c) \/ DiffEnds(c) \/ GoesOn(c) \/ CancelFails(c)

DeskSpec == DeskInit /\ [][DeskNext]_deskVars

-----------------------------------------------------------------------------
StatusRank(status) ==
  CASE status \in {Unwritten, "suggested"} -> 0 [] status = "planned" -> 1
    [] status = "planted" -> 2 [] status = "active" -> 3 [] status = "revealed" -> 4
    [] OTHER -> 5

\* The versions and the comparison on the page are of the chapter it shows, in
\* whatever order the answers come; a page that waits for a comparison gets an end
\* of it, so the next one is possible.  And a foreshadow only ever goes forward: its
\* events are told in order, none after the end, and a payoff is noted for one that
\* was paid off or resolved.
DeskIsCoherent ==
  /\ desk.versions \in {Nowhere, desk.chapter} /\ desk.diff \in {Nowhere, desk.chapter}
  /\ desk.request # 0 => \E c \in deskCalls : c.kind = "compare" /\ c.n = desk.request
  /\ \A p \in DeskProject :
       LET row == shelf[p] IN
       /\ \A i, j \in DOMAIN row.events :
            i < j => StatusRank(row.events[i]) < StatusRank(row.events[j])
       /\ \A i \in DOMAIN row.events : StatusRank(row.events[i]) <= StatusRank(row.status)
       /\ row.payoff => row.status \in {"paid_off", "resolved"}
       /\ row.memories = IF row.proposal = "approved" THEN 1 ELSE 0
=============================================================================
