---------------------------- MODULE WindowProofs ----------------------------
(***************************************************************************)
(* Proofs about the stores of the window, which go on with answers in an   *)
(* order they do not choose: the board of tasks, the workbench, the        *)
(* narrative page and the assistant's page only ever settle on what        *)
(* belongs to what they show.                                              *)
(***************************************************************************)
EXTENDS ListStore, TaskBoard, Workbench, NarrativeDesk, AssistantDesk, SequenceTheorems,
        TLAPS

-----------------------------------------------------------------------------
(* ListStore                                                               *)

(***************************************************************************)
(* The race of stale_list does not come about: the page goes to no other   *)
(* character while a list that a call asked for is on its way.             *)
(***************************************************************************)
PageStaysForTheCalls ==
  [][\A slug \in Slug : FetchList(slug) /\ slug # lastFetchArgs =>
       \A i \in DOMAIN listRequests : listRequests[i].seq # 0]_listVars

\* A request under the current number, or under none, is of the last fetch.
ListRequest == [of : Slug \cup {NoSlug}, seq : Nat]
OfTheLastFetch(request) ==
  request.seq \in {0, fetchSeq} => request.of = lastFetchArgs
ListInv ==
  /\ fetchSeq \in Nat /\ lastFetchArgs \in Slug \cup {NoSlug}
  /\ listRequests \in Seq(ListRequest)
  /\ \A i \in DOMAIN listRequests :
       listRequests[i].seq <= fetchSeq /\ OfTheLastFetch(listRequests[i])
  /\ ListIsOfTheLastFetch

\* One request more, or one less.
LEMMA ListRequestsMove ==
  ASSUME NEW R \in Seq(ListRequest)
  PROVE  /\ \A r \in ListRequest :
              /\ Append(R, r) \in Seq(ListRequest)
              /\ \A i \in DOMAIN Append(R, r) :
                   Append(R, r)[i] = r \/ (i \in DOMAIN R /\ Append(R, r)[i] = R[i])
         /\ R # <<>> =>
              /\ Tail(R) \in Seq(ListRequest)
              /\ \A i \in DOMAIN Tail(R) : \E j \in DOMAIN R : Tail(R)[i] = R[j]
              /\ \E j \in DOMAIN R : Head(R) = R[j]
<1>1. ASSUME NEW r \in ListRequest
      PROVE  /\ Append(R, r) \in Seq(ListRequest)
             /\ \A i \in DOMAIN Append(R, r) :
                  Append(R, r)[i] = r \/ (i \in DOMAIN R /\ Append(R, r)[i] = R[i])
  OBVIOUS
<1>2. ASSUME R # <<>>
      PROVE  /\ Tail(R) \in Seq(ListRequest)
             /\ \A i \in DOMAIN Tail(R) : \E j \in DOMAIN R : Tail(R)[i] = R[j]
             /\ \E j \in DOMAIN R : Head(R) = R[j]
  <2>1. /\ Len(R) \in Nat /\ Len(R) # 0 /\ DOMAIN R = 1..Len(R)
        /\ Tail(R) \in Seq(ListRequest) /\ DOMAIN Tail(R) = 1..(Len(R) - 1)
        /\ \A i \in 1..(Len(R) - 1) : Tail(R)[i] = R[i + 1]
        /\ Head(R) = R[1]
    BY <1>2
  <2>2. 1 \in DOMAIN R /\ \A i \in 1..(Len(R) - 1) : i + 1 \in DOMAIN R
    BY <2>1
  <2> QED
    BY <2>1, <2>2
<1> QED
  BY <1>1, <1>2

\* Every step of the store keeps it, but for the race.
LEMMA ListStep ==
  ASSUME ListInv, ListNext,
         \A slug \in Slug : FetchList(slug) /\ slug # lastFetchArgs =>
           \A i \in DOMAIN listRequests : listRequests[i].seq # 0
  PROVE  ListInv'
<1> DEFINE R == listRequests
<1>t. /\ fetchSeq \in Nat /\ lastFetchArgs \in Slug \cup {NoSlug} /\ R \in Seq(ListRequest)
      /\ \A i \in DOMAIN R :
           R[i].seq \in Nat /\ R[i].seq <= fetchSeq /\ OfTheLastFetch(R[i])
      /\ items \in {NoSlug, lastFetchArgs}
  <2>1. R \in Seq(ListRequest)
    BY DEF ListInv
  <2>2. \A i \in DOMAIN R : R[i] \in ListRequest
    BY <2>1
  <2>3. \A i \in DOMAIN R : R[i].seq \in Nat
    BY <2>2 DEF ListRequest
  <2> QED
    BY <2>1, <2>3 DEF ListInv, ListIsOfTheLastFetch
<1>1. ASSUME NEW slug \in Slug, FetchList(slug) PROVE ListInv'
  <2> DEFINE r == RequestOf(slug, fetchSeq + 1)
  <2>1. r \in ListRequest /\ r.of = slug /\ r.seq = fetchSeq + 1
    BY <1>t DEF RequestOf, ListRequest
  <2> HIDE DEF r
  <2>2. /\ fetchSeq' = fetchSeq + 1 /\ lastFetchArgs' = slug /\ items' = NoSlug
        /\ listRequests' = Append(R, r)
    BY <1>1 DEF FetchList, r
  <2>3. ASSUME NEW i \in DOMAIN R PROVE R[i].seq <= fetchSeq' /\ OfTheLastFetch(R[i])'
    <3>1. R[i].seq # fetchSeq' /\ R[i].seq <= fetchSeq'
      BY <1>t, <2>2
    <3>2. R[i].seq = 0 => slug = lastFetchArgs /\ R[i].of = lastFetchArgs
      BY <1>1, <1>t DEF OfTheLastFetch
    <3>3. listRequests'[i] = R[i]
      BY <1>t, <2>1, <2>2
    <3> QED
      BY <2>2, <3>1, <3>2, <3>3 DEF OfTheLastFetch
  <2> QED
    BY <1>t, <2>1, <2>2, <2>3, ListRequestsMove
    DEF ListInv, OfTheLastFetch, ListIsOfTheLastFetch
<1>2. ASSUME NEW c \in Call, StartCall(c) \/ CallEnds(c) PROVE ListInv'
  BY <1>2 DEF StartCall, CallEnds, ListInv, OfTheLastFetch, ListIsOfTheLastFetch
<1>3. ASSUME NEW c \in Call, CallSucceeds(c) PROVE ListInv'
  <2> DEFINE r == RequestOf(lastFetchArgs, 0)
  <2>1. r \in ListRequest /\ r.of = lastFetchArgs /\ r.seq = 0
    BY <1>t DEF RequestOf, ListRequest
  <2> HIDE DEF r
  <2>2. UNCHANGED <<fetchSeq, lastFetchArgs, items>> /\ listRequests' = Append(R, r)
    BY <1>3 DEF CallSucceeds, r
  <2> QED
    BY <1>t, <2>1, <2>2, ListRequestsMove DEF ListInv, OfTheLastFetch, ListIsOfTheLastFetch
<1>4. CASE ListAnswered
  <2>1. /\ R # <<>> /\ listRequests' = Tail(R) /\ UNCHANGED <<fetchSeq, lastFetchArgs>>
        /\ \/ items' = items
           \/ /\ items' = Head(R).of
              /\ Head(R).seq = 0 \/ Head(R).seq = fetchSeq
    BY <1>4 DEF ListAnswered, Takes
  <2>2. OfTheLastFetch(Head(R))
    BY <1>t, <2>1, ListRequestsMove
  <2>3. items' \in {NoSlug, lastFetchArgs}
    BY <1>t, <2>1, <2>2 DEF OfTheLastFetch
  <2> QED
    BY <1>t, <2>1, <2>3, ListRequestsMove DEF ListInv, OfTheLastFetch, ListIsOfTheLastFetch
<1> QED
  BY <1>1, <1>2, <1>3, <1>4 DEF ListNext

(***************************************************************************)
(* While the page stays for the calls, the store shows no character's      *)
(* items but those of the last list asked for (ListIsOfTheLastFetch): the  *)
(* number of a fetch refuses every older fetch, however many overlap, and  *)
(* the request of a call is the only one that it does not refuse.          *)
(***************************************************************************)
THEOREM ListsAreOfTheLastFetch ==
  ListSpec /\ PageStaysForTheCalls => []ListIsOfTheLastFetch
<1>1. ListInit => ListInv
  BY DEF ListInit, ListInv, ListIsOfTheLastFetch
<1>2. /\ ListInv /\ [ListNext]_listVars
      /\ [\A slug \in Slug : FetchList(slug) /\ slug # lastFetchArgs =>
            \A i \in DOMAIN listRequests : listRequests[i].seq # 0]_listVars
      => ListInv'
  <2>1. CASE UNCHANGED listVars
    BY <2>1 DEF listVars, ListInv, OfTheLastFetch, ListIsOfTheLastFetch
  <2> QED
    BY <2>1, ListStep
<1>3. ListInv => ListIsOfTheLastFetch
  BY DEF ListInv
<1> QED
  BY <1>1, <1>2, <1>3, PTL DEF ListSpec, PageStaysForTheCalls

-----------------------------------------------------------------------------
(* TaskBoard                                                               *)

Board == BoardProject \cup {NoBoard}
BoardLoad == [seq : Nat, of : Board, step : {"tasks", "versions", "list"},
              tasks : SUBSET BoardTask, running : SUBSET BoardTask]

BoardTypes ==
  /\ projectShown \in Board /\ loadSequence \in Nat
  /\ loads \subseteq BoardLoad

\* A load brings tasks of its own project.
LoadsAreOfTheirProject == \A l \in loads : \A t \in l.tasks : ProjectOf[t] = l.of

BoardInv == BoardTypes /\ LoadsAreOfTheirProject /\ BoardIsOfItsProject

\* Another load under way, of the tasks that are stored of its project.
LEMMA LoadIsOfItsProject ==
  ASSUME NEW p \in Board, BoardTypes, LoadsAreOfTheirProject, Load(p)
  PROVE  /\ loadSequence' \in Nat /\ loads' \subseteq BoardLoad
         /\ LoadsAreOfTheirProject'
<1> DEFINE new == [seq |-> loadSequence + 1, of |-> p, step |-> "tasks",
                   tasks |-> StoredOf(p), running |-> RunningOf(p)]
<1>1. StoredOf(p) \subseteq BoardTask /\ RunningOf(p) \subseteq BoardTask
  BY DEF StoredOf, RunningOf
<1>2. new \in BoardLoad
  BY <1>1 DEF BoardTypes, BoardLoad
<1>3. \A t \in new.tasks : ProjectOf[t] = new.of
  BY DEF StoredOf
<1>4. loads' = loads \cup {new} /\ loadSequence' = loadSequence + 1
  BY DEF Load
<1> HIDE DEF new
<1> QED
  BY <1>2, <1>3, <1>4 DEF BoardTypes, LoadsAreOfTheirProject

\* What leaves the lists and the project as they are keeps them of it.
LEMMA ListsStay ==
  ASSUME BoardIsOfItsProject, UNCHANGED <<projectShown, tasksShown, versionsShown>>
  PROVE  BoardIsOfItsProject'
BY DEF BoardIsOfItsProject

\* The answers to a load: unwanted it is dropped, and wanted it is of the project
\* that is shown.
LEMMA LoadAnsweredKeeps ==
  ASSUME BoardInv, LoadAnswered
  PROVE  BoardInv'
<1> PICK l \in loads : TasksArrived(l) \/ VersionsArrived(l) \/ Dropped(l)
  BY DEF LoadAnswered
<1>1. l \in BoardLoad /\ \A t \in l.tasks : ProjectOf[t] = l.of
  BY DEF BoardInv, BoardTypes, LoadsAreOfTheirProject
<1>2. loadSequence' = loadSequence
  BY DEF LoadAnswered
<1>3. CASE TasksArrived(l)
  <2> DEFINE next == [l EXCEPT !.step = "versions"]
  <2>1. next \in BoardLoad /\ next.tasks = l.tasks /\ next.of = l.of
    BY <1>1 DEF BoardLoad
  <2>2. loads' = (loads \ {l}) \cup {next} /\ UNCHANGED shownVars
    BY <1>3 DEF TasksArrived
  <2> HIDE DEF next
  <2>3. BoardTypes' /\ LoadsAreOfTheirProject'
    BY <1>1, <1>2, <2>1, <2>2
    DEF BoardInv, BoardTypes, LoadsAreOfTheirProject, shownVars
  <2> QED
    BY <2>2, <2>3, ListsStay DEF BoardInv, shownVars
<1>4. CASE VersionsArrived(l)
  <2>1. /\ l.of = projectShown /\ projectShown' = projectShown
        /\ tasksShown' = l.tasks /\ versionsShown' = {l.of} /\ loads' = loads \ {l}
    BY <1>4 DEF VersionsArrived, Wanted
  <2> QED
    BY <1>1, <1>2, <2>1
    DEF BoardInv, BoardTypes, LoadsAreOfTheirProject, BoardIsOfItsProject
<1>5. CASE Dropped(l)
  BY <1>2, <1>5, ListsStay
  DEF Dropped, BoardInv, BoardTypes, LoadsAreOfTheirProject, shownVars
<1> QED
  BY <1>3, <1>4, <1>5

\* An event of another project is not taken while a project is shown.
LEMMA EventArrivedKeeps ==
  ASSUME BoardInv, EventArrived
  PROVE  BoardInv'
<1> DEFINE e == Head(news)
<1>1. \/ Ignored(e) /\ UNCHANGED <<shownVars, loadSequence, loads>>
      \/ ~Ignored(e) /\ OnStart(e)
      \/ OnEnd(e)
  BY DEF EventArrived
<1> HIDE DEF e
<1>2. CASE UNCHANGED <<shownVars, loadSequence, loads>>
  BY <1>2, ListsStay DEF BoardInv, BoardTypes, LoadsAreOfTheirProject, shownVars
<1>3. CASE ~Ignored(e) /\ OnStart(e)
  <2>1. projectShown = NoBoard \/ ProjectOf[e.task] = projectShown
    BY <1>3 DEF Ignored, OnStart
  <2>2. /\ tasksShown' = tasksShown \cup {e.task}
        /\ UNCHANGED <<projectShown, versionsShown, loadSequence, loads>>
    BY <1>3 DEF OnStart
  <2> QED
    BY <2>1, <2>2 DEF BoardInv, BoardTypes, LoadsAreOfTheirProject, BoardIsOfItsProject
<1>4. CASE OnEnd(e)
  <2>1. UNCHANGED <<projectShown, tasksShown, versionsShown>>
        /\ (Load(projectShown) \/ UNCHANGED <<loadSequence, loads>>)
    BY <1>4 DEF OnEnd
  <2>2. loadSequence' \in Nat /\ loads' \subseteq BoardLoad /\ LoadsAreOfTheirProject'
    BY <2>1, LoadIsOfItsProject DEF BoardInv, BoardTypes, LoadsAreOfTheirProject
  <2> QED
    BY <2>1, <2>2, ListsStay DEF BoardInv, BoardTypes
<1> QED
  BY <1>1, <1>2, <1>3, <1>4

\* A late answer changes the active task, never the lists.
LEMMA AskAnsweredKeeps ==
  ASSUME BoardInv, AskAnswered
  PROVE  BoardInv'
<1> PICK r \in boardAsked : Started(r) \/ PolishStarted(r) \/ Resumed(r) \/ Refused(r)
  BY DEF AskAnswered
<1>1. UNCHANGED <<projectShown, tasksShown, versionsShown>>
      /\ (Load(projectShown) \/ UNCHANGED <<loadSequence, loads>>)
  BY DEF Started, PolishStarted, Resumed, Refused, shownVars
<1>2. loadSequence' \in Nat /\ loads' \subseteq BoardLoad /\ LoadsAreOfTheirProject'
  BY <1>1, LoadIsOfItsProject DEF BoardInv, BoardTypes, LoadsAreOfTheirProject
<1> QED
  BY <1>1, <1>2, ListsStay DEF BoardInv, BoardTypes

\* Another project is shown with empty lists.
LEMMA ShowTasksKeeps ==
  ASSUME NEW p \in BoardProject, BoardInv, ShowTasks(p)
  PROVE  BoardInv'
<1>1. loadSequence' \in Nat /\ loads' \subseteq BoardLoad /\ LoadsAreOfTheirProject'
  BY LoadIsOfItsProject DEF BoardInv, ShowTasks, Board
<1>2. \/ UNCHANGED <<projectShown, tasksShown, versionsShown>>
      \/ projectShown' = p /\ tasksShown' = {} /\ versionsShown' = {}
  BY DEF ShowTasks, Emptied, shownVars
<1> QED
  BY <1>1, <1>2 DEF BoardInv, BoardTypes, BoardIsOfItsProject, Board

\* The lists of versions are taken by project.
LEMMA VersionsKeep ==
  ASSUME BoardInv, VersionsListed \/ AskVersions
  PROVE  BoardInv'
<1>1. CASE VersionsListed
  <2> PICK l \in loads :
        /\ loads' = loads \ {l}
        /\ versionsShown' = IF l.of = projectShown THEN {l.of} ELSE versionsShown
    BY <1>1 DEF VersionsListed
  <2> QED
    BY <1>1 DEF VersionsListed, BoardInv, BoardTypes, LoadsAreOfTheirProject,
                BoardIsOfItsProject
<1>2. CASE AskVersions
  <2> DEFINE new == [seq |-> 0, of |-> projectShown, step |-> "list",
                     tasks |-> {}, running |-> {}]
  <2>1. new \in BoardLoad /\ new.tasks = {}
    BY DEF BoardInv, BoardTypes, BoardLoad
  <2>2. loads' = loads \cup {new} /\ UNCHANGED <<shownVars, loadSequence>>
    BY <1>2 DEF AskVersions
  <2> HIDE DEF new
  <2> QED
    BY <2>1, <2>2, ListsStay DEF BoardInv, BoardTypes, LoadsAreOfTheirProject, shownVars
<1> QED
  BY <1>1, <1>2

\* What the board shows stays of the project it shows in every step.
LEMMA BoardStep ==
  ASSUME BoardInv, [BoardNext]_boardVars
  PROVE  BoardInv'
<1>1. CASE TaskRecovers \/ TaskEnds \/ CancelShown
           \/ (\E t \in BoardTask, kind \in {"start", "polish", "resume"} :
                 AskTask(kind, t)) \/ UNCHANGED boardVars
  <2>1. UNCHANGED <<projectShown, tasksShown, versionsShown, loadSequence, loads>>
    BY <1>1 DEF TaskRecovers, TaskEnds, CancelShown, AskTask, boardVars, shownVars
  <2> QED
    BY <2>1, ListsStay DEF BoardInv, BoardTypes, LoadsAreOfTheirProject
<1> QED
  BY <1>1, LoadAnsweredKeeps, EventArrivedKeeps, AskAnsweredKeeps, ShowTasksKeeps,
     VersionsKeep
  DEF BoardNext

\* taskStore.ts: once a project is shown, every task and version on the board is of
\* it, whatever arrives late from another, however many tasks and projects there are.
THEOREM TheBoardIsOfItsProject == BoardSpec => []BoardIsOfItsProject
<1>1. BoardInit => BoardInv
  BY DEF BoardInit, BoardInv, BoardTypes, LoadsAreOfTheirProject, BoardIsOfItsProject,
         Board
<1>2. BoardInv /\ [BoardNext]_boardVars => BoardInv'
  BY BoardStep
<1>3. BoardInv => BoardIsOfItsProject
  BY DEF BoardInv
<1> QED
  BY <1>1, <1>2, <1>3, PTL DEF BoardSpec

-----------------------------------------------------------------------------
(* Workbench                                                               *)

Shown1 == Project \cup {NoProject}
Op == {"begin", "select", "lists", "lists after change", "create", "delete", "import",
       "enter", "projects", "change", "settings", "credential", "page lists"}
Held == [of : Shown1, version : Nat, by : {"store", "page"}]
Request == [op : Op, project : Shown1, with : Held, ok : {TRUE}]
Answer == [op : Op, project : Shown1, ok : BOOLEAN, read : Held,
           projects : SUBSET Project]

\* The projects there are or were.
Known == existing \cup deleted

WorkbenchTypes ==
  /\ WorkbenchTypeInv /\ deleted \subseteq Project /\ existing \cap deleted = {}
  /\ settings \in [Project -> Nat]
  /\ held \in Held /\ shown \in Known \cup {NoProject}
  /\ known \subseteq Known /\ pendingProject \in Known \cup {NoProject}
  /\ requests \in Seq(Request) /\ answers \in Seq(Answer)

\* Lists are asked for of a project there is or was.
Sensible(m) ==
  /\ m.op \in Refreshes \cup {"enter"} => m.project \in Known
  /\ m.op \notin {"begin", "projects"} => m.project \in Project
RequestsAreSensible == \A i \in DOMAIN requests : Sensible(requests[i])

\* What an answer tells is of a project there is or was, and lists that were refused
\* are of one that is gone.
Truthful(a) ==
  /\ Sensible(a) /\ a.projects \subseteq Known
  /\ a.ok /\ a.op \in {"select", "create"} => a.project \in Known
  /\ a.op = "begin" => a.read.of \in Known \cup {NoProject}
  /\ a.op \in Refreshes /\ a.ok => a.read.of = a.project
  /\ a.op \in Refreshes /\ ~a.ok => a.project \notin existing
  /\ a.op = "page lists" => a.read.by = "page"
AnswersAreTruthful == \A i \in DOMAIN answers : Truthful(answers[i])

\* The message asks for, or brings, the lists of p or of another project.
IsOf(p, m) == m.op \in Refreshes /\ m.project = p
IsOfAnother(p, m) == m.op \in Refreshes /\ m.project # p

\* After the lists of another project those of p follow.
FollowedBy(p, messages) ==
  \A i \in DOMAIN messages : IsOfAnother(p, messages[i]) =>
    \E j \in DOMAIN messages : i < j /\ IsOf(p, messages[j])
ListsAreFollowed ==
  shown # NoProject =>
    /\ FollowedBy(shown, requests)
    /\ FollowedBy(shown, answers) \/ ListsOf(shown, requests)

WorkbenchInv ==
  /\ WorkbenchTypes /\ RequestsAreSensible /\ AnswersAreTruthful
  /\ ListsAreFollowed /\ ListsFollowTheShown

\* Sequences of messages: what a message at the end and the loss of the first do.
LEMMA AppendedMessage ==
  ASSUME NEW S, NEW R \in Seq(S), NEW m \in S, NEW p
  PROVE  /\ Append(R, m) \in Seq(S)
         /\ \A i \in DOMAIN Append(R, m) :
              Append(R, m)[i] = m \/ (i \in DOMAIN R /\ Append(R, m)[i] = R[i])
         /\ IsOf(p, m) => ListsOf(p, Append(R, m)) /\ FollowedBy(p, Append(R, m))
         /\ ListsOf(p, R) => ListsOf(p, Append(R, m))
         /\ FollowedBy(p, R) /\ ~IsOfAnother(p, m) => FollowedBy(p, Append(R, m))
<1> DEFINE A == Append(R, m)
<1>1. /\ A \in Seq(S) /\ Len(A) = Len(R) + 1 /\ A[Len(R) + 1] = m
      /\ \A i \in 1..Len(R) : A[i] = R[i]
      /\ DOMAIN R = 1..Len(R) /\ DOMAIN A = 1..(Len(R) + 1) /\ Len(R) \in Nat
  OBVIOUS
<1> HIDE DEF A
<1>2. Len(R) + 1 \in DOMAIN A /\ \A i \in DOMAIN R : i \in DOMAIN A /\ A[i] = R[i]
  BY <1>1
<1>3. \A i \in DOMAIN A : i = Len(R) + 1 \/ (i \in DOMAIN R /\ i < Len(R) + 1)
  BY <1>1
<1>4. ListsOf(p, R) => ListsOf(p, A)
  BY <1>2 DEF ListsOf
<1>5. ASSUME IsOf(p, m) PROVE ListsOf(p, A) /\ FollowedBy(p, A)
  <2>1. ListsOf(p, A)
    BY <1>1, <1>2, <1>5 DEF ListsOf, IsOf
  <2>2. ASSUME NEW i \in DOMAIN A, IsOfAnother(p, A[i])
        PROVE  \E j \in DOMAIN A : i < j /\ IsOf(p, A[j])
    <3>1. i # Len(R) + 1
      BY <1>1, <1>5, <2>2 DEF IsOf, IsOfAnother
    <3> QED
      BY <1>1, <1>2, <1>3, <1>5, <3>1
  <2> QED
    BY <2>1, <2>2 DEF FollowedBy
<1>6. ASSUME FollowedBy(p, R), ~IsOfAnother(p, m) PROVE FollowedBy(p, A)
  <2>1. ASSUME NEW i \in DOMAIN A, IsOfAnother(p, A[i])
        PROVE  \E j \in DOMAIN A : i < j /\ IsOf(p, A[j])
    <3>1. i \in DOMAIN R /\ IsOfAnother(p, R[i])
      BY <1>1, <1>2, <1>3, <1>6, <2>1
    <3>2. PICK j \in DOMAIN R : i < j /\ IsOf(p, R[j])
      BY <1>6, <3>1 DEF FollowedBy
    <3> QED
      BY <1>2, <3>2
  <2> QED
    BY <2>1 DEF FollowedBy
<1>7. \A i \in DOMAIN A : A[i] = m \/ (i \in DOMAIN R /\ A[i] = R[i])
  BY <1>1, <1>2, <1>3
<1> QED
  BY <1>1, <1>4, <1>5, <1>6, <1>7 DEF A

\* What is true of a list of messages stays true when its first one is taken.
LEMMA FirstMessageTaken ==
  ASSUME NEW S, NEW R \in Seq(S), R # <<>>, NEW p
  PROVE  /\ Head(R) \in S /\ 1 \in DOMAIN R /\ Head(R) = R[1] /\ Tail(R) \in Seq(S)
         /\ \A i \in DOMAIN Tail(R) : \E j \in DOMAIN R : Tail(R)[i] = R[j]
         /\ ListsOf(p, R) => IsOf(p, Head(R)) \/ ListsOf(p, Tail(R))
         /\ FollowedBy(p, R) => /\ FollowedBy(p, Tail(R))
                                /\ IsOfAnother(p, Head(R)) => ListsOf(p, Tail(R))
<1> DEFINE T == Tail(R)
<1>1. /\ Head(R) \in S /\ 1 \in DOMAIN R /\ Head(R) = R[1] /\ T \in Seq(S)
      /\ DOMAIN R = 1..Len(R) /\ Len(R) \in Nat /\ DOMAIN T = 1..(Len(R) - 1)
      /\ \A i \in 1..(Len(R) - 1) : T[i] = R[i + 1]
  OBVIOUS
<1> HIDE DEF T
<1>2. \A i \in DOMAIN T : i \in Nat /\ i + 1 \in DOMAIN R /\ T[i] = R[i + 1]
  BY <1>1
<1>3. \A j \in DOMAIN R : j > 1 => j - 1 \in DOMAIN T /\ T[j - 1] = R[j]
  BY <1>1
<1>4. \A j \in DOMAIN R : j \in Nat /\ (j = 1 \/ j > 1)
  BY <1>1
<1>5. ListsOf(p, R) => IsOf(p, Head(R)) \/ ListsOf(p, T)
  BY <1>1, <1>3, <1>4 DEF ListsOf, IsOf
<1>6. ASSUME FollowedBy(p, R)
      PROVE  FollowedBy(p, T) /\ (IsOfAnother(p, Head(R)) => ListsOf(p, T))
  <2>1. ASSUME NEW i \in DOMAIN T, IsOfAnother(p, T[i])
        PROVE  \E j \in DOMAIN T : i < j /\ IsOf(p, T[j])
    <3>1. PICK j \in DOMAIN R : i + 1 < j /\ IsOf(p, R[j])
      BY <1>2, <1>6, <2>1 DEF FollowedBy
    <3>2. j > 1 /\ i < j - 1
      BY <1>2, <1>4, <3>1
    <3> QED
      BY <1>3, <3>1, <3>2
  <2>2. ASSUME IsOfAnother(p, Head(R)) PROVE ListsOf(p, T)
    <3>1. PICK j \in DOMAIN R : 1 < j /\ IsOf(p, R[j])
      BY <1>1, <1>6, <2>2 DEF FollowedBy
    <3> QED
      BY <1>3, <3>1 DEF ListsOf, IsOf
  <2> QED
    BY <2>1, <2>2 DEF FollowedBy
<1> QED
  BY <1>1, <1>2, <1>5, <1>6 DEF T

\* What is known stays so while no project comes back.
LEMMA MessagesStaySensible ==
  ASSUME Known \subseteq Known', existing' \cap Known \subseteq existing
  PROVE  /\ \A m : Sensible(m) => Sensible(m)'
         /\ \A a : Truthful(a) => Truthful(a)'
<1>1. ASSUME NEW m, Sensible(m) PROVE Sensible(m)'
  BY <1>1 DEF Sensible
<1>2. ASSUME NEW a, Truthful(a) PROVE Truthful(a)'
  <2>1. Sensible(a)'
    BY <1>1, <1>2 DEF Truthful
  <2>2. a.op \in Refreshes => a.project \in Known
    BY <1>2 DEF Truthful, Sensible
  <2> QED
    BY <1>2, <2>1, <2>2 DEF Truthful
<1> QED
  BY <1>1, <1>2

\* A message of the store: it is typed and sensible, and lists that are asked for
\* follow what was asked before.
LEMMA MessageSent ==
  ASSUME WorkbenchInv, NEW op \in Op, NEW p \in Shown1, Send(op, p),
         UNCHANGED mainVars,
         op \in Refreshes \cup {"enter"} => p \in Known,
         op \notin {"begin", "projects"} => p \in Project
  PROVE  /\ requests' \in Seq(Request) /\ RequestsAreSensible'
         /\ op \in Refreshes => ListsOf(p, requests') /\ FollowedBy(p, requests')
         /\ \A q : /\ ListsOf(q, requests) => ListsOf(q, requests')
                   /\ FollowedBy(q, requests) /\ (op \notin Refreshes \/ p = q)
                        => FollowedBy(q, requests')
<1> DEFINE m == Message(op, p)
<1>1. m \in Request /\ m.op = op /\ m.project = p
  BY DEF Message, Request, WorkbenchInv, WorkbenchTypes
<1>2. requests' = Append(requests, m) /\ requests \in Seq(Request)
  BY DEF Send, WorkbenchInv, WorkbenchTypes
<1> HIDE DEF m
<1>3. Known' = Known /\ existing' = existing
  BY DEF mainVars, Known
<1>4. ASSUME NEW x, x = m PROVE Sensible(x)'
  BY <1>1, <1>3, <1>4 DEF Sensible
<1>5. ASSUME NEW x, NEW i \in DOMAIN requests, x = requests[i] PROVE Sensible(x)'
  BY <1>3, <1>5, MessagesStaySensible DEF WorkbenchInv, RequestsAreSensible
<1>6. RequestsAreSensible'
  <2>1. \A i \in DOMAIN requests' :
          requests'[i] = m \/ (i \in DOMAIN requests /\ requests'[i] = requests[i])
    BY <1>1, <1>2, AppendedMessage
  <2>2. ASSUME NEW x, NEW i \in DOMAIN requests', x = requests'[i] PROVE Sensible(x)'
    BY <1>4, <1>5, <2>1, <2>2
  <2> QED
    BY <2>2 DEF RequestsAreSensible, Sensible
<1>7. op \in Refreshes => ListsOf(p, requests') /\ FollowedBy(p, requests')
  BY <1>1, <1>2, AppendedMessage DEF IsOf
<1>8. ASSUME NEW q
      PROVE  /\ ListsOf(q, requests) => ListsOf(q, requests')
             /\ FollowedBy(q, requests) /\ (op \notin Refreshes \/ p = q)
                  => FollowedBy(q, requests')
  BY <1>1, <1>2, AppendedMessage DEF IsOfAnother
<1> QED
  BY <1>1, <1>2, <1>6, <1>7, <1>8, AppendedMessage

\* What the author does changes neither the project shown nor what is held of it.
LEMMA ClickKeeps ==
  ASSUME WorkbenchInv, Click
  PROVE  WorkbenchInv'
<1>1. UNCHANGED <<mainVars, answers, shown, held, known>>
      /\ pendingProject' \in Known \cup {NoProject}
  BY DEF Click, Initialize, ChooseProject, CreateAndShow, DeleteKnown, CommitArchive,
         SwitchTo, Asks, Calls, ConfirmPendingProjectSwitch, CancelPendingProjectSwitch,
         ChangeRow, TouchForm, SaveSettings, SaveCredential, storeVars, viewVars, formVars,
         WorkbenchInv, WorkbenchTypes
<1> DEFINE Asked(op, p) ==
             /\ Send(op, p) /\ op \in Op \ (Refreshes \cup {"enter"}) /\ p \in Shown1
             /\ op \notin {"begin", "projects"} => p \in Project
<1>2. \/ UNCHANGED requests
      \/ \E op, p : Asked(op, p)
      \/ shown \in Known /\ Send("lists", shown)
  <2>1. shown \in Known \cup {NoProject} /\ pendingProject \in Known \cup {NoProject}
        /\ known \subseteq Known /\ Known \subseteq Project /\ NoProject \notin Project
    BY WorkbenchAssumption
    DEF WorkbenchInv, WorkbenchTypes, WorkbenchTypeInv, Known
  <2>2. ASSUME NEW p \in Known, SwitchTo(p)
        PROVE  Asked("select", p) \/ (shown \in Known /\ Send("lists", shown))
    BY <2>1, <2>2 DEF SwitchTo, Calls, Op, Refreshes, Shown1
  <2>3. CASE Initialize
    <3>1. Asked("begin", NoProject)
      BY <2>3 DEF Initialize, Calls, Op, Refreshes, Shown1
    <3> QED
      BY <3>1
  <2>4. CASE \E p \in Project : ChooseProject(p)
    <3> PICK p \in Project : ChooseProject(p)
      BY <2>4
    <3>1. p \in Known /\ (SwitchTo(p) \/ UNCHANGED requests)
      BY <2>1 DEF ChooseProject
    <3> HIDE DEF Asked
    <3> QED
      BY <2>2, <3>1
  <2>5. CASE \E p \in Project : CreateAndShow(p) \/ DeleteKnown(p) \/ CommitArchive(p)
    <3> PICK p \in Project : CreateAndShow(p) \/ DeleteKnown(p) \/ CommitArchive(p)
      BY <2>5
    <3>1. Asked("create", p) \/ Asked("delete", p) \/ Asked("import", p)
      BY DEF CreateAndShow, DeleteKnown, CommitArchive, Asks, Calls, Op, Refreshes, Shown1
    <3> HIDE DEF Asked
    <3> QED
      BY <3>1
  <2>6. CASE ConfirmPendingProjectSwitch
    <3>1. pendingProject \in Known /\ SwitchTo(pendingProject)
      BY <2>1, <2>6 DEF ConfirmPendingProjectSwitch
    <3> HIDE DEF Asked
    <3>2. ASSUME NEW p \in Known, p = pendingProject PROVE
                 Asked("select", p) \/ (shown \in Known /\ Send("lists", shown))
      BY <2>2, <3>1, <3>2
    <3> QED
      BY <3>1, <3>2
  <2>7. CASE CancelPendingProjectSwitch \/ TouchForm
    BY <2>7 DEF CancelPendingProjectSwitch, TouchForm
  <2>8. CASE ChangeRow \/ SaveSettings \/ SaveCredential
    <3>1. shown \in Project /\ shown # NoProject
      BY <2>1, <2>8 DEF ChangeRow, SaveSettings, SaveCredential
    <3>2. Asked("change", shown) \/ Asked("settings", shown) \/ Asked("credential", shown)
      BY <2>8, <3>1
      DEF ChangeRow, SaveSettings, SaveCredential, Asks, Calls, Op, Refreshes, Shown1
    <3> HIDE DEF Asked
    <3> QED
      BY <3>2
  <2> HIDE DEF Asked
  <2> QED
    BY <2>3, <2>4, <2>5, <2>6, <2>7, <2>8 DEF Click
<1>3. Known' = Known /\ existing' = existing /\ shown' = shown
  BY <1>1 DEF mainVars, Known
<1>4. AnswersAreTruthful'
  BY <1>1, <1>3, MessagesStaySensible DEF WorkbenchInv, AnswersAreTruthful
<1>5. /\ requests' \in Seq(Request) /\ RequestsAreSensible'
      /\ FollowedBy(shown, requests) => FollowedBy(shown, requests')
      /\ ListsOf(shown, requests) => ListsOf(shown, requests')
  <2>1. CASE UNCHANGED requests
    BY <1>3, <2>1, MessagesStaySensible
    DEF WorkbenchInv, WorkbenchTypes, RequestsAreSensible
  <2>2. ASSUME NEW op, NEW p, Asked(op, p)
        PROVE  /\ requests' \in Seq(Request) /\ RequestsAreSensible'
               /\ FollowedBy(shown, requests) => FollowedBy(shown, requests')
               /\ ListsOf(shown, requests) => ListsOf(shown, requests')
    BY <1>1, <2>2, MessageSent
  <2>3. CASE shown \in Known /\ Send("lists", shown)
    <3>1. shown \in Project /\ shown \in Shown1 /\ "lists" \in Op \cap Refreshes
      BY <2>3
      DEF WorkbenchInv, WorkbenchTypes, WorkbenchTypeInv, Known, Shown1, Op, Refreshes
    <3> QED
      BY <1>1, <2>3, <3>1, MessageSent
  <2> QED
    BY <1>2, <2>1, <2>2, <2>3
<1>6. WorkbenchTypes'
  BY <1>1, <1>3, <1>5 DEF WorkbenchInv, WorkbenchTypes, WorkbenchTypeInv, mainVars, Known
<1>7. ListsAreFollowed' /\ ListsFollowTheShown'
  BY <1>1, <1>3, <1>5, <1>6
  DEF WorkbenchInv, WorkbenchTypes, ListsAreFollowed, ListsFollowTheShown
<1> QED
  BY <1>4, <1>5, <1>6, <1>7 DEF WorkbenchInv

\* What the main process does with a message: no project comes back, the current one
\* stays, and what it answers is typed.
LEMMA ServedMessage ==
  ASSUME WorkbenchInv, NEW m \in Request, Sensible(m),
         IF Permitted(m) THEN Effect(m) ELSE UNCHANGED mainVars
  PROVE  /\ stored' \in existing' \cup {NoProject} /\ existing' \subseteq Project
         /\ deleted' \subseteq Project /\ existing' \cap deleted' = {}
         /\ settings' \in [Project -> Nat] /\ ReadOut(m) \in Held
         /\ Known \subseteq Known' /\ existing' \cap Known \subseteq existing
         /\ m.op = "create" /\ Permitted(m) => m.project \in Known'
<1>1. /\ stored \in existing \cup {NoProject} /\ existing \subseteq Project
      /\ deleted \subseteq Project /\ existing \cap deleted = {}
      /\ settings \in [Project -> Nat] /\ existing \cup deleted = Known
  BY DEF WorkbenchInv, WorkbenchTypes, WorkbenchTypeInv, Known
<1>2. m.op \notin {"begin", "projects"} => m.project \in Project
  BY DEF Sensible
<1>3. ReadOut(m) \in Held
  <2>1. m.op \in Refreshes \cup {"page lists"} => settings[m.project] \in Nat
    BY <1>1, <1>2 DEF Refreshes
  <2>2. m.project \in Shown1 /\ stored \in Shown1
    BY <1>1 DEF Request, Shown1
  <2>3. [Nothing EXCEPT !.of = stored] \in Held /\ Nothing \in Held
    BY <2>2 DEF Nothing, Held, Shown1
  <2> QED
    BY <2>1, <2>2, <2>3 DEF ReadOut, Held, Refreshes
<1>4. CASE ~Permitted(m)
  BY <1>1, <1>3, <1>4 DEF mainVars, Known
<1>5. CASE Permitted(m)
  <2>1. /\ stored' = IF m.op \in {"select", "create"} THEN m.project ELSE stored
        /\ deleted' = IF m.op = "delete" THEN deleted \cup {m.project} ELSE deleted
        /\ settings' = IF m.op \in {"settings", "credential"}
                       THEN [settings EXCEPT ![m.project] = @ + 1] ELSE settings
    BY <1>5 DEF Effect
  <2>2. settings' \in [Project -> Nat]
    BY <1>1, <1>2, <2>1
  <2>3. CASE m.op \in {"create", "import"}
    <3>1. existing' = existing \cup {m.project} /\ m.project \notin existing \cup deleted
      BY <1>5, <2>3 DEF Effect, Permitted
    <3> QED
      BY <1>1, <1>2, <1>3, <2>1, <2>2, <2>3, <3>1 DEF Known
  <2>4. CASE m.op = "delete"
    <3>1. existing' = existing \ {m.project} /\ m.project \in existing \ {stored}
      BY <1>5, <2>4 DEF Effect, Permitted
    <3> QED
      BY <1>1, <1>2, <1>3, <2>1, <2>2, <2>4, <3>1 DEF Known
  <2>5. CASE m.op \notin {"create", "delete", "import"}
    <3>1. existing' = existing /\ (m.op = "select" => m.project \in existing)
      BY <1>5, <2>5 DEF Effect, Permitted
    <3> QED
      BY <1>1, <1>2, <1>3, <2>1, <2>2, <2>5, <3>1 DEF Known
  <2> QED
    BY <2>3, <2>4, <2>5
<1> QED
  BY <1>4, <1>5

\* A message served: its answer is told truthfully and in its turn.
LEMMA ServeKeeps ==
  ASSUME WorkbenchInv, Serve
  PROVE  WorkbenchInv'
<1> DEFINE m == Head(requests)
           new == [op |-> m.op, project |-> m.project, ok |-> Permitted(m),
                   read |-> ReadOut(m), projects |-> existing]
<1>1. /\ requests # <<>> /\ requests' = Tail(requests)
      /\ IF Permitted(m) THEN Effect(m) ELSE UNCHANGED mainVars
      /\ answers' = Append(answers, new)
      /\ UNCHANGED <<shown, known, held, pendingProject>>
  BY DEF Serve, storeVars, viewVars, formVars
<1>2. /\ requests \in Seq(Request) /\ answers \in Seq(Answer)
      /\ shown \in Known \cup {NoProject} /\ NoProject \notin Project
      /\ existing \subseteq Project
  BY WorkbenchAssumption DEF WorkbenchInv, WorkbenchTypes, WorkbenchTypeInv
<1>3. m \in Request /\ Sensible(m)
  BY <1>1, <1>2, FirstMessageTaken DEF WorkbenchInv, RequestsAreSensible
<1>4. /\ stored' \in existing' \cup {NoProject} /\ existing' \subseteq Project
      /\ deleted' \subseteq Project /\ existing' \cap deleted' = {}
      /\ settings' \in [Project -> Nat] /\ ReadOut(m) \in Held
      /\ Known \subseteq Known' /\ existing' \cap Known \subseteq existing
      /\ m.op = "create" /\ Permitted(m) => m.project \in Known'
  <2> HIDE DEF m
  <2> QED
    BY <1>1, <1>3, ServedMessage
<1>5. new \in Answer
  <2>1. Permitted(m) \in BOOLEAN
    <3> HIDE DEF m
    <3> QED
      BY Zenon DEF Permitted
  <2> QED
    BY <1>2, <1>3, <1>4, <2>1 DEF Answer, Request
<1>6. ASSUME NEW x, x = new PROVE Truthful(x)'
  <2>1. x.op = m.op /\ x.project = m.project /\ x.ok = Permitted(m)
        /\ x.read = ReadOut(m) /\ x.projects = existing
    BY <1>6
  <2>2. ASSUME NEW y, y = m PROVE Sensible(y)'
    BY <1>1, <1>3, <1>4, <2>2, MessagesStaySensible
  <2>3. Sensible(x)'
    <3> SUFFICES ASSUME NEW y, y = m PROVE Sensible(x)'
      OBVIOUS
    <3> HIDE DEF m, new
    <3> QED
      BY <2>1, <2>2 DEF Sensible
  <2>4. x.projects \subseteq Known'
    BY <1>4, <2>1 DEF Known
  <2>5. m.op = "select" /\ Permitted(m) => m.project \in existing
    BY DEF Permitted
  <2>6. m.op = "begin" => ReadOut(m).of \in existing \cup {NoProject}
    BY DEF ReadOut, Refreshes, Nothing, WorkbenchInv, WorkbenchTypes,
           WorkbenchTypeInv
  <2>7. /\ m.op \in Refreshes => ReadOut(m).of = m.project
        /\ m.op = "page lists" => ReadOut(m).by = "page"
    BY DEF ReadOut, Refreshes
  <2>8. m.op \in Refreshes /\ ~Permitted(m) => m.project \notin existing'
    BY <1>1 DEF Permitted, Refreshes, mainVars
  <2> HIDE DEF m, new
  <2> QED
    BY <1>4, <2>1, <2>3, <2>4, <2>5, <2>6, <2>7, <2>8 DEF Truthful, Known
<1>7. new.op = m.op /\ new.project = m.project
  OBVIOUS
<1> HIDE DEF m, new
<1>8. RequestsAreSensible' /\ requests' \in Seq(Request)
  <2>1. ASSUME NEW i \in DOMAIN requests', NEW x, x = requests'[i] PROVE Sensible(x)'
    <3>1. PICK j \in DOMAIN requests : requests'[i] = requests[j]
      BY <1>1, <1>2, FirstMessageTaken
    <3> QED
      BY <1>1, <1>4, <2>1, <3>1, MessagesStaySensible
      DEF WorkbenchInv, RequestsAreSensible
  <2> QED
    BY <1>1, <1>2, <2>1, FirstMessageTaken DEF RequestsAreSensible, Sensible
<1>9. AnswersAreTruthful' /\ answers' \in Seq(Answer)
  <2>1. \A i \in DOMAIN answers' :
          answers'[i] = new \/ (i \in DOMAIN answers /\ answers'[i] = answers[i])
    BY <1>1, <1>2, <1>5, AppendedMessage
  <2>2. ASSUME NEW i \in DOMAIN answers', NEW x, x = answers'[i] PROVE Truthful(x)'
    BY <1>1, <1>4, <1>6, <2>1, <2>2, MessagesStaySensible
    DEF WorkbenchInv, AnswersAreTruthful
  <2> QED
    BY <1>1, <1>2, <1>5, <2>2, AppendedMessage DEF AnswersAreTruthful, Truthful, Sensible
<1>10. WorkbenchTypes'
  <2>1. Known' = existing' \cup deleted' /\ shown' = shown /\ held' = held
        /\ known' = known /\ pendingProject' = pendingProject
    BY <1>1 DEF Known
  <2> QED
    BY <1>4, <1>8, <1>9, <2>1 DEF WorkbenchInv, WorkbenchTypes, WorkbenchTypeInv
<1>11. ASSUME shown # NoProject
       PROVE  /\ FollowedBy(shown, requests')
              /\ FollowedBy(shown, answers') \/ ListsOf(shown, requests')
  <2>1. /\ FollowedBy(shown, requests')
        /\ IsOfAnother(shown, m) => ListsOf(shown, requests')
        /\ ListsOf(shown, requests) => IsOf(shown, m) \/ ListsOf(shown, requests')
    BY <1>1, <1>2, <1>11, FirstMessageTaken DEF WorkbenchInv, ListsAreFollowed, m
  <2>2. /\ FollowedBy(shown, answers) /\ ~IsOfAnother(shown, m)
             => FollowedBy(shown, answers')
        /\ IsOf(shown, m) => FollowedBy(shown, answers')
    BY <1>1, <1>2, <1>5, <1>7, AppendedMessage DEF IsOf, IsOfAnother
  <2> QED
    BY <1>11, <2>1, <2>2 DEF WorkbenchInv, ListsAreFollowed
<1>12. ListsFollowTheShown'
  <2>1. ListsOf(shown, requests) \/ ListsOf(shown, answers)
          => ListsOf(shown, requests') \/ ListsOf(shown, answers')
    <3>1. ListsOf(shown, requests) => IsOf(shown, m) \/ ListsOf(shown, requests')
      BY <1>1, <1>2, FirstMessageTaken DEF m
    <3>2. IsOf(shown, m) \/ ListsOf(shown, answers) => ListsOf(shown, answers')
      BY <1>1, <1>2, <1>5, <1>7, AppendedMessage DEF IsOf
    <3> QED
      BY <3>1, <3>2
  <2>2. shown \in existing' => shown \in existing
    BY <1>2, <1>4
  <2> QED
    BY <1>1, <1>10, <2>1, <2>2 DEF WorkbenchInv, ListsFollowTheShown, WorkbenchTypes
<1> QED
  BY <1>1, <1>8, <1>9, <1>10, <1>11, <1>12 DEF WorkbenchInv, ListsAreFollowed

\* An answer taken: the rest stays truthful, and behind the lists of another project
\* those of the one shown are still to come.
LEMMA AnswerTaken ==
  ASSUME WorkbenchInv, answers # <<>>, answers' = Tail(answers), UNCHANGED mainVars
  PROVE  LET a == Head(answers) IN
         /\ a \in Answer /\ Truthful(a)
         /\ answers' \in Seq(Answer) /\ AnswersAreTruthful'
         /\ shown # NoProject => FollowedBy(shown, answers') \/ ListsOf(shown, requests)
         /\ ~IsOf(shown, a) /\ ListsOf(shown, answers) => ListsOf(shown, answers')
         /\ shown # NoProject /\ IsOfAnother(shown, a) => ListsOf(shown, answers') \/ ListsOf(shown, requests)
<1>1. answers \in Seq(Answer)
  BY DEF WorkbenchInv, WorkbenchTypes
<1>2. Known' = Known /\ existing' = existing
  BY DEF mainVars, Known
<1>3. AnswersAreTruthful'
  <2>1. ASSUME NEW i \in DOMAIN answers', NEW x, x = answers'[i] PROVE Truthful(x)'
    <3>1. PICK j \in DOMAIN answers : answers'[i] = answers[j]
      BY <1>1, FirstMessageTaken
    <3> QED
      BY <1>2, <2>1, <3>1, MessagesStaySensible DEF WorkbenchInv, AnswersAreTruthful
  <2> QED
    BY <2>1 DEF AnswersAreTruthful, Truthful, Sensible
<1>4. Head(answers) \in Answer /\ Truthful(Head(answers)) /\ answers' \in Seq(Answer)
  BY <1>1, FirstMessageTaken DEF WorkbenchInv, AnswersAreTruthful
<1> QED
  BY <1>1, <1>3, <1>4, FirstMessageTaken DEF WorkbenchInv, ListsAreFollowed

\* What the store does with an answer: it shows a project and asks for its lists; it
\* asks for something else; it holds the lists that arrived; or there is no project.
LEMMA AnsweredKeeps ==
  ASSUME WorkbenchInv, Answered
  PROVE  WorkbenchInv'
<1> PICK a : /\ a = Head(answers)
             /\ answers # <<>> /\ answers' = Tail(answers)
             /\ UNCHANGED <<mainVars, clicks>>
             /\ \/ ~a.ok /\ Denied(a)
                \/ a.ok /\ a.op = "begin" /\ Began(a)
                \/ a.ok /\ a.op = "select" /\ Selected(a)
                \/ a.ok /\ a.op \in {"create", "delete"} /\ Made(a)
                \/ a.ok /\ a.op = "enter" /\ Entered(a)
                \/ a.ok /\ a.op = "projects" /\ Relisted(a)
                \/ a.ok /\ a.op = "import" /\ Imported(a)
                \/ a.ok /\ a.op \in {"change", "settings"} /\ Mutated(a)
                \/ a.ok /\ a.op = "credential" /\ KeySaved(a)
                \/ a.ok /\ a.op \in Refreshes \cup {"page lists"} /\ ListsArrived(a)
  BY DEF Answered
<1>1. /\ a \in Answer /\ Truthful(a) /\ Sensible(a)
      /\ a.op \in Op /\ a.project \in Shown1 /\ a.read \in Held
      /\ a.projects \subseteq Known
  <2>1. answers \in Seq(Answer) /\ answers # <<>> /\ a = Head(answers)
    BY DEF WorkbenchInv, WorkbenchTypes
  <2>2. a \in Answer /\ 1 \in DOMAIN answers /\ a = answers[1]
    BY <2>1, FirstMessageTaken
  <2>3. Truthful(a)
    BY <2>2 DEF WorkbenchInv, AnswersAreTruthful
  <2> QED
    BY <2>2, <2>3 DEF Truthful, Answer
<1>2. /\ Known' = Known /\ existing' = existing /\ stored' = stored
      /\ deleted' = deleted /\ settings' = settings
  BY DEF mainVars, Known
<1>3. /\ known \subseteq Known /\ Known \subseteq Project /\ NoProject \notin Project
      /\ shown \in Known \cup {NoProject} /\ pendingProject \in Known \cup {NoProject}
      /\ NoProject \notin existing /\ existing \subseteq Known
  BY WorkbenchAssumption DEF WorkbenchInv, WorkbenchTypes, WorkbenchTypeInv, Known
<1> DEFINE Quiet ==
             /\ UNCHANGED <<shown, held>> /\ a.ok /\ ~IsOf(shown, a)
             /\ \/ UNCHANGED requests
                \/ /\ shown \in Known /\ \E op \in Refreshes : Send(op, shown)
                \/ \E op \in Op \ Refreshes, p \in Shown1 :
                     /\ Send(op, p)
                     /\ op = "enter" => p \in Known
                     /\ op \notin {"begin", "projects"} => p \in Project
           Showing == \E p \in Known : Shows(p) /\ UNCHANGED held
           Holding == /\ UNCHANGED <<shown, requests>>
                      /\ \/ ~a.ok /\ UNCHANGED held
                         \/ /\ a.ok /\ a.op \in Refreshes \cup {"page lists"}
                            /\ held' = a.read
           Empty == shown' = NoProject /\ UNCHANGED requests
<1>4. /\ Quiet \/ Showing \/ Holding \/ Empty
      /\ known' \subseteq Known /\ pendingProject' \in Known \cup {NoProject}
      /\ held' \in Held
  <2>0. held \in Held
    BY DEF WorkbenchInv, WorkbenchTypes
  <2>1. CASE ~a.ok /\ Denied(a)
    BY <1>3, <2>0, <2>1 DEF Denied, viewVars
  <2>2. CASE a.ok /\ a.op = "begin" /\ Began(a)
    <3>1. a.read.of \in Known \cup {NoProject}
      BY <1>1, <2>2 DEF Truthful
    <3>2. /\ known' = a.projects /\ UNCHANGED <<held, pendingProject>>
          /\ \/ a.read.of # NoProject /\ Shows(a.read.of)
             \/ \E p \in a.projects : Shows(p)
             \/ Empty
      BY <2>2 DEF Began, formVars
    <3>3. Showing \/ Empty
      <4> HIDE DEF Empty
      <4> QED
        BY <1>1, <3>1, <3>2
    <3> HIDE DEF Showing, Empty
    <3> QED
      BY <1>1, <1>3, <2>0, <3>2, <3>3
  <2>3. CASE a.ok /\ a.op \in {"select", "enter"} /\ (Selected(a) \/ Entered(a))
    <3>1. a.project \in Known
      BY <1>1, <2>3 DEF Truthful, Sensible
    <3>2. /\ Shows(a.project) /\ UNCHANGED held
          /\ known' = known \/ known' = a.projects
          /\ pendingProject' = pendingProject \/ pendingProject' = NoProject
      BY <2>3 DEF Selected, Entered
    <3> QED
      BY <1>1, <1>3, <2>0, <3>1, <3>2
  <2>4. CASE a.ok /\ a.op \in {"create", "delete"} /\ Made(a)
    <3>1. /\ UNCHANGED <<shown, held, known, pendingProject>>
          /\ Send(IF a.op = "create" THEN "enter" ELSE "projects", a.project)
      BY <2>4 DEF Made, viewVars
    <3>2. a.op = "create" => a.project \in Known
      BY <1>1, <2>4 DEF Truthful
    <3>3. \/ Send("enter", a.project) /\ a.project \in Known
          \/ Send("projects", a.project)
      BY <3>1, <3>2
    <3>4. Quiet
      BY <1>1, <1>3, <2>4, <3>1, <3>3 DEF IsOf, Op, Refreshes, Sensible, Shown1
    <3> QED
      BY <1>3, <2>0, <3>1, <3>4
  <2>5. CASE a.ok /\ a.op = "projects" /\ Relisted(a)
    BY <1>1, <1>3, <2>0, <2>5 DEF Relisted, IsOf, formVars, Refreshes
  <2>6. CASE a.ok /\ a.op \in {"change", "settings"} /\ Mutated(a)
    <3>1. CASE shown = NoProject
      <4>1. Empty /\ UNCHANGED <<known, pendingProject>> /\ held' = Nothing
        BY <2>6, <3>1 DEF Mutated
      <4>2. Nothing \in Held
        BY DEF Nothing, Held, Shown1
      <4> HIDE DEF Empty
      <4> QED
        BY <1>3, <4>1, <4>2
    <3>2. CASE shown # NoProject
      <4>1. UNCHANGED <<shown, held, known, pendingProject>>
            /\ Send("lists after change", shown)
        BY <2>6, <3>2 DEF Mutated, Refreshed, viewVars, formVars
      <4>2. Quiet
        BY <1>3, <2>6, <3>2, <4>1 DEF IsOf, Refreshes
      <4> HIDE DEF Quiet
      <4> QED
        BY <1>3, <2>0, <4>1, <4>2
    <3> QED
      BY <3>1, <3>2
  <2>7. CASE a.ok /\ a.op = "credential" /\ KeySaved(a)
    <3>1. UNCHANGED <<shown, held, known, pendingProject>>
          /\ Send("page lists", a.project) /\ a.project \in Project
      BY <1>1, <2>7 DEF KeySaved, Refreshed, viewVars, formVars, Sensible
    <3>2. Quiet
      BY <1>1, <2>7, <3>1 DEF IsOf, Op, Refreshes
    <3> QED
      BY <1>3, <2>0, <3>1, <3>2
  <2>8. CASE a.ok /\ a.op \in Refreshes \cup {"page lists"} /\ ListsArrived(a)
    BY <1>1, <1>3, <2>8 DEF ListsArrived
  <2>9. CASE a.ok /\ a.op = "import" /\ Imported(a)
    <3>1. UNCHANGED <<shown, held, known, pendingProject>> /\ Send("begin", NoProject)
      BY <2>9 DEF Imported, viewVars, formVars
    <3>2. Quiet
      BY <2>9, <3>1 DEF IsOf, Op, Refreshes, Shown1
    <3> QED
      BY <1>3, <2>0, <3>1, <3>2
  <2> HIDE DEF Quiet, Showing, Holding, Empty
  <2> QED
    BY <2>1, <2>2, <2>3, <2>4, <2>5, <2>6, <2>7, <2>8, <2>9
<1>5. shown' \in Known \cup {NoProject}
  BY <1>3, <1>4 DEF Shows
<1>6. /\ answers' \in Seq(Answer) /\ AnswersAreTruthful'
      /\ shown # NoProject => FollowedBy(shown, answers') \/ ListsOf(shown, requests)
      /\ ~IsOf(shown, a) /\ ListsOf(shown, answers) => ListsOf(shown, answers')
      /\ shown # NoProject /\ IsOfAnother(shown, a) => ListsOf(shown, answers') \/ ListsOf(shown, requests)
  <2> HIDE DEF Quiet, Showing, Holding, Empty
  <2> QED
    BY AnswerTaken
<1>7. /\ requests' \in Seq(Request) /\ RequestsAreSensible'
      /\ shown' # NoProject =>
           /\ FollowedBy(shown', requests')
           /\ shown' = shown /\ ListsOf(shown, requests) => ListsOf(shown', requests')
           /\ shown' = shown \/ ListsOf(shown', requests')
      /\ Showing => ListsOf(shown', requests')
  <2>1. ASSUME UNCHANGED requests
        PROVE  /\ requests' \in Seq(Request) /\ RequestsAreSensible'
               /\ shown' = shown /\ shown # NoProject => FollowedBy(shown', requests')
               /\ shown' = shown /\ ListsOf(shown, requests) => ListsOf(shown', requests')
    <3>1. ASSUME NEW i \in DOMAIN requests', NEW x, x = requests'[i] PROVE Sensible(x)'
      BY <1>2, <2>1, <3>1, MessagesStaySensible
      DEF WorkbenchInv, RequestsAreSensible
    <3>2. RequestsAreSensible'
      BY <3>1 DEF RequestsAreSensible, Sensible
    <3> QED
      BY <2>1, <3>2 DEF WorkbenchInv, WorkbenchTypes, ListsAreFollowed
  <2>2. ASSUME NEW p \in Known, NEW op \in Refreshes, shown' = p, Send(op, p)
        PROVE  requests' \in Seq(Request) /\ RequestsAreSensible'
               /\ FollowedBy(p, requests') /\ ListsOf(p, requests')
    <3>1. p \in Project /\ p \in Shown1 /\ op \in Op
      BY <1>3 DEF Shown1, Op, Refreshes
    <3> QED
      BY <1>2, <2>2, <3>1, MessageSent
  <2>3. ASSUME NEW op \in Op \ Refreshes, NEW p \in Shown1, Send(op, p), shown' = shown,
               op = "enter" => p \in Known,
               op \notin {"begin", "projects"} => p \in Project
        PROVE  /\ requests' \in Seq(Request) /\ RequestsAreSensible'
               /\ shown # NoProject => FollowedBy(shown, requests')
               /\ ListsOf(shown, requests) => ListsOf(shown, requests')
    <3>1. shown # NoProject => FollowedBy(shown, requests)
      BY DEF WorkbenchInv, ListsAreFollowed
    <3> QED
      BY <1>2, <2>3, <3>1, MessageSent
  <2>4. CASE (Holding \/ Empty) /\ ~Showing
    BY <2>1, <2>4
  <2>5. CASE Showing
    <3>1. "lists" \in Refreshes
      BY DEF Refreshes
    <3> QED
      BY <2>2, <2>5, <3>1 DEF Shows, Refreshed
  <2>6. CASE Quiet /\ ~Showing
    <3>1. CASE UNCHANGED requests
      BY <2>1, <2>6, <3>1
    <3>2. CASE shown \in Known /\ \E op \in Refreshes : Send(op, shown)
      <4>1. shown' = shown
        BY <2>6
      <4> QED
        BY <2>2, <2>6, <3>2, <4>1
    <3>3. CASE \E op \in Op \ Refreshes, p \in Shown1 :
                 /\ Send(op, p)
                 /\ op = "enter" => p \in Known
                 /\ op \notin {"begin", "projects"} => p \in Project
      <4>1. shown' = shown
        BY <2>6
      <4>2. PICK op \in Op \ Refreshes, p \in Shown1 :
                 /\ Send(op, p)
                 /\ op = "enter" => p \in Known
                 /\ op \notin {"begin", "projects"} => p \in Project
        BY <3>3
      <4> HIDE DEF Quiet, Showing, Holding, Empty
      <4>3. /\ requests' \in Seq(Request) /\ RequestsAreSensible'
            /\ shown # NoProject => FollowedBy(shown, requests')
            /\ ListsOf(shown, requests) => ListsOf(shown, requests')
        BY <2>3, <4>1, <4>2
      <4> QED
        BY <2>6, <4>1, <4>3
    <3> QED
      BY <2>6, <3>1, <3>2, <3>3
  <2> QED
    BY <1>4, <2>4, <2>5, <2>6
<1>8. WorkbenchTypes'
  <2> HIDE DEF Quiet, Showing, Holding, Empty
  <2>1. held'.of \in Shown1
    BY <1>4 DEF Held
  <2> QED
    BY <1>2, <1>3, <1>4, <1>5, <1>6, <1>7, <2>1
    DEF WorkbenchInv, WorkbenchTypes, WorkbenchTypeInv, Shown1
<1>9. ListsAreFollowed'
  BY <1>6, <1>7 DEF ListsAreFollowed
<1>10. ListsFollowTheShown'
  <2> SUFFICES ASSUME shown' # NoProject PROVE ListsFollowTheShown'
    BY <1>2, <1>3, <1>8 DEF ListsFollowTheShown, WorkbenchTypes
  <2>1. CASE ListsOf(shown', requests')
    BY <1>8, <2>1 DEF ListsFollowTheShown, WorkbenchTypes
  <2>2. ASSUME UNCHANGED <<shown, held>>, ~ListsOf(shown, requests),
               shown' \in existing' => ~IsOf(shown, a)
        PROVE  ListsFollowTheShown'
    <3>1. shown' \in existing' /\ held'.of # shown' =>
            ListsOf(shown, answers) \/ held.by = "page"
      BY <1>2, <2>2 DEF WorkbenchInv, ListsFollowTheShown
    <3> QED
      BY <1>6, <1>8, <2>2, <3>1 DEF ListsFollowTheShown, WorkbenchTypes
  <2>3. CASE Quiet
    BY <1>7, <2>1, <2>2, <2>3
  <2>4. CASE Showing
    BY <1>7, <2>1, <2>4
  <2>5. CASE Holding /\ ~ListsOf(shown, requests)
    <3>1. CASE ~a.ok /\ UNCHANGED held
      <4>1. shown' \in existing' => ~IsOf(shown, a)
        BY <1>1, <1>2, <2>5, <3>1 DEF IsOf, Truthful
      <4> QED
        BY <2>2, <2>5, <3>1, <4>1
    <3>2. CASE a.op \in Refreshes /\ a.ok /\ held' = a.read
      <4>1. held'.of = a.project /\ (a.project # shown => IsOfAnother(shown, a))
        BY <1>1, <3>2 DEF Truthful, IsOfAnother
      <4> QED
        BY <1>6, <1>8, <2>5, <4>1 DEF ListsFollowTheShown, WorkbenchTypes
    <3>3. CASE a.op = "page lists" /\ held' = a.read
      BY <1>1, <1>8, <3>3 DEF ListsFollowTheShown, WorkbenchTypes, Truthful
    <3> QED
      BY <2>5, <3>1, <3>2, <3>3
  <2>6. CASE Holding /\ ListsOf(shown, requests)
    BY <1>7, <2>1, <2>6
  <2> QED
    BY <1>4, <2>3, <2>4, <2>5, <2>6
<1> QED
  BY <1>6, <1>7, <1>8, <1>9, <1>10 DEF WorkbenchInv

\* The store begins with nothing shown, and every step keeps the invariant.
LEMMA WorkbenchAlways == WorkbenchSpec => []WorkbenchInv
<1>1. WorkbenchInit => WorkbenchInv
  <2> SUFFICES ASSUME WorkbenchInit PROVE WorkbenchInv
    OBVIOUS
  <2>1. WorkbenchTypes
    BY WorkbenchAssumption
    DEF WorkbenchInit, WorkbenchTypes, WorkbenchTypeInv, Nothing, Held, Known, Shown1
  <2>2. requests = <<>> /\ answers = <<>> /\ shown = NoProject /\ NoProject \notin existing
    BY WorkbenchAssumption DEF WorkbenchInit
  <2> QED
    BY <2>1, <2>2
    DEF WorkbenchInv, RequestsAreSensible, AnswersAreTruthful, ListsAreFollowed,
        FollowedBy, ListsFollowTheShown, WorkbenchTypes
<1>2. WorkbenchInv /\ [WorkbenchNext]_workbenchVars => WorkbenchInv'
  <2>1. ASSUME WorkbenchInv, UNCHANGED workbenchVars PROVE WorkbenchInv'
    BY <2>1
    DEF workbenchVars, mainVars, storeVars, viewVars, formVars, WorkbenchInv, WorkbenchTypes,
        WorkbenchTypeInv, RequestsAreSensible, AnswersAreTruthful, ListsAreFollowed,
        ListsFollowTheShown, Known, Sensible, Truthful
  <2> QED
    BY <2>1, ClickKeeps, ServeKeeps, AnsweredKeeps DEF WorkbenchNext
<1> QED
  BY <1>1, <1>2, PTL DEF WorkbenchSpec

\* workbenchStore.ts: in whatever order clicks and answers cross, and however many
\* there are, a store that holds the rows of another project than it shows has the
\* right ones on their way.
THEOREM ListsFollow == WorkbenchSpec => []ListsFollowTheShown
<1>1. WorkbenchInv => ListsFollowTheShown
  BY DEF WorkbenchInv
<1> QED
  BY <1>1, WorkbenchAlways, PTL

(***************************************************************************)
(* The race of stale_settings does not come about: the author saves the    *)
(* settings form only when it is filled with what the page shows.          *)
(***************************************************************************)
SavesWhatIsShown == [][SaveSettings => held.of = shown]_workbenchVars

\* Settings on their way are those of the project they are sent to.
FormsAreTheirs ==
  \A i \in DOMAIN requests :
    requests[i].op = "settings" => requests[i].with.of = requests[i].project

\* What the store asks for: settings only when they are saved.
LEMMA WhatIsAsked ==
  ASSUME WorkbenchInv, Click \/ Answered
  PROVE  \/ UNCHANGED requests
         \/ \E op \in Op, p \in Shown1 :
              Send(op, p) /\ (op = "settings" => SaveSettings /\ p = shown)
<1> DEFINE Asked == \/ UNCHANGED requests
                    \/ \E op \in Op, p \in Shown1 :
                         Send(op, p) /\ (op = "settings" => SaveSettings /\ p = shown)
<1> SUFFICES Asked
  OBVIOUS
<1>t. /\ shown \in Shown1 /\ pendingProject \in Shown1 /\ known \subseteq Shown1
      /\ NoProject \in Shown1 /\ Project \subseteq Shown1
      /\ answers \in Seq(Answer)
  BY DEF WorkbenchInv, WorkbenchTypes, WorkbenchTypeInv, Shown1
<1>1. ASSUME NEW op \in Op, NEW p \in Shown1, Send(op, p),
             op = "settings" => SaveSettings /\ p = shown
      PROVE  Asked
  BY <1>1
<1> HIDE DEF Asked
<1>2. ASSUME UNCHANGED requests PROVE Asked
  BY <1>2 DEF Asked
<1>o. ASSUME NEW op \in Op, op # "settings", NEW p \in Shown1, Send(op, p) PROVE Asked
  BY <1>1, <1>o
<1>a. ASSUME NEW p \in Shown1,
             \/ Send("begin", p) \/ Send("select", p) \/ Send("create", p)
             \/ Send("delete", p) \/ Send("change", p) \/ Send("credential", p)
             \/ Send("import", p)
      PROVE  Asked
  <2>1. /\ "begin" \in Op /\ "select" \in Op /\ "create" \in Op /\ "delete" \in Op
        /\ "change" \in Op /\ "credential" \in Op /\ "import" \in Op
    BY DEF Op
  <2> QED
    BY <1>a, <2>1, <1>o
<1>b. ASSUME NEW p \in Shown1,
             \/ Send("lists", p) \/ Send("enter", p) \/ Send("projects", p)
             \/ Send("page lists", p) \/ Send("lists after change", p)
      PROVE  Asked
  <2>1. /\ "lists" \in Op /\ "enter" \in Op /\ "projects" \in Op
        /\ "page lists" \in Op /\ "lists after change" \in Op
    BY DEF Op
  <2> QED
    BY <1>b, <2>1, <1>o
<1>3. CASE Click
  <2>1. ASSUME NEW p \in Shown1, SwitchTo(p) PROVE Asked
    BY <2>1, <1>a, <1>b DEF SwitchTo, Calls
  <2>2. CASE Initialize
    BY <2>2, <1>a, <1>t DEF Initialize, Calls
  <2>3. ASSUME NEW p \in Project,
               ChooseProject(p) \/ CreateAndShow(p) \/ DeleteKnown(p) \/ CommitArchive(p)
        PROVE  Asked
    BY <2>1, <2>3, <1>a, <1>2, <1>t
    DEF ChooseProject, CreateAndShow, DeleteKnown, CommitArchive, Asks, Calls
  <2>4. CASE ConfirmPendingProjectSwitch \/ CancelPendingProjectSwitch \/ TouchForm
    BY <2>1, <2>4, <1>2, <1>t
    DEF ConfirmPendingProjectSwitch, CancelPendingProjectSwitch, TouchForm
  <2>5. CASE ChangeRow \/ SaveCredential
    BY <2>5, <1>a, <1>t DEF ChangeRow, SaveCredential, Asks, Calls
  <2>6. CASE SaveSettings
    <3>1. Send("settings", shown)
      BY <2>6 DEF SaveSettings, Calls
    <3> QED
      BY <2>6, <3>1, <1>1, <1>t DEF Op
  <2> QED
    BY <1>3, <2>2, <2>3, <2>4, <2>5, <2>6 DEF Click
<1>4. CASE Answered
  <2> DEFINE a == Head(answers)
  <2>1. a \in Answer
    BY <1>4, <1>t, HeadTailProperties DEF Answered
  <2>2. a.project \in Shown1 /\ a.read.of \in Shown1 /\ a.projects \subseteq Shown1
    BY <2>1, <1>t DEF Answer, Held
  <2> HIDE DEF a
  <2>3. ASSUME NEW p \in Shown1, Shows(p) PROVE Asked
    BY <2>3, <1>b DEF Shows, Refreshed
  <2>4. \/ UNCHANGED requests
        \/ Began(a) \/ Selected(a) \/ Made(a) \/ Entered(a) \/ Relisted(a)
        \/ Imported(a) \/ Mutated(a) \/ KeySaved(a) \/ ListsArrived(a)
    BY <1>4 DEF Answered, Denied, a
  <2>5. CASE Began(a)
    BY <2>2, <2>3, <2>5, <1>2 DEF Began
  <2>6. CASE Selected(a) \/ Entered(a)
    BY <2>2, <2>3, <2>6 DEF Selected, Entered
  <2>7. CASE Made(a)
    BY <2>2, <2>7, <1>b DEF Made
  <2>8. CASE Mutated(a)
    BY <2>8, <1>b, <1>t, <1>2 DEF Mutated, Refreshed
  <2>9. CASE KeySaved(a)
    BY <2>2, <2>9, <1>b DEF KeySaved, Refreshed
  <2>11. CASE Imported(a)
    BY <2>11, <1>a, <1>t DEF Imported
  <2>10. CASE Relisted(a) \/ ListsArrived(a)
    BY <2>10, <1>2 DEF Relisted, ListsArrived
  <2> QED
    BY <2>4, <2>5, <2>6, <2>7, <2>8, <2>9, <2>10, <2>11, <1>2
<1> QED
  BY <1>3, <1>4

\* Every step keeps them, but for the race.
LEMMA FormsStayTheirs ==
  ASSUME WorkbenchInv, FormsAreTheirs, WorkbenchNext, SaveSettings => held.of = shown
  PROVE  FormsAreTheirs'
<1>t. requests \in Seq(Request) /\ held \in Held
  BY DEF WorkbenchInv, WorkbenchTypes
<1>1. CASE Serve
  <2>1. requests # <<>> /\ requests' = Tail(requests)
    BY <1>1 DEF Serve
  <2>2. \A i \in DOMAIN requests' : \E j \in DOMAIN requests : requests'[i] = requests[j]
    BY <1>t, <2>1, FirstMessageTaken
  <2> QED
    BY <2>2 DEF FormsAreTheirs
<1>2. ASSUME NEW op \in Op, NEW p \in Shown1, Send(op, p),
             op = "settings" => SaveSettings /\ p = shown
      PROVE  FormsAreTheirs'
  <2> DEFINE m == Message(op, p)
  <2>1. m \in Request /\ m.op = op /\ m.project = p /\ m.with = held
    BY <1>t DEF Message, Request
  <2>2. requests' = Append(requests, m)
    BY <1>2 DEF Send
  <2> HIDE DEF m
  <2>3. \A i \in DOMAIN requests' :
          requests'[i] = m \/ (i \in DOMAIN requests /\ requests'[i] = requests[i])
    BY <1>t, <2>1, <2>2, AppendedMessage
  <2>4. m.op = "settings" => m.with.of = m.project
    BY <1>2, <2>1
  <2> QED
    BY <2>3, <2>4 DEF FormsAreTheirs
<1>3. CASE UNCHANGED requests
  BY <1>3 DEF FormsAreTheirs
<1> QED
  BY <1>1, <1>2, <1>3, WhatIsAsked DEF WorkbenchNext

(***************************************************************************)
(* While the form is saved only for what is shown, settings are stored in  *)
(* the project they were filled from (SettingsStayInTheirProject), however *)
(* switches, deletions and refreshed lists cross: the form that is not yet *)
(* filled is the only way by which they reach another.                     *)
(***************************************************************************)
THEOREM SettingsStay == WorkbenchSpec /\ SavesWhatIsShown => SettingsStayInTheirProject
<1>1. WorkbenchInit => FormsAreTheirs
  BY DEF WorkbenchInit, FormsAreTheirs
<1>2. /\ WorkbenchInv /\ FormsAreTheirs /\ [WorkbenchNext]_workbenchVars
      /\ [SaveSettings => held.of = shown]_workbenchVars
      => FormsAreTheirs'
  <2>1. CASE UNCHANGED workbenchVars
    BY <2>1 DEF workbenchVars, FormsAreTheirs
  <2> QED
    BY <2>1, FormsStayTheirs
<1>3. WorkbenchInv /\ FormsAreTheirs /\ [WorkbenchNext]_workbenchVars =>
        [\A p \in Project : settings'[p] # settings[p] /\ Head(requests).op = "settings"
           => Head(requests).with.of = p]_workbenchVars
  <2> SUFFICES ASSUME WorkbenchInv, FormsAreTheirs, WorkbenchNext, NEW p \in Project,
                      settings'[p] # settings[p], Head(requests).op = "settings"
               PROVE  Head(requests).with.of = p
    OBVIOUS
  <2>1. Serve
    BY DEF WorkbenchNext, Click, Answered, mainVars
  <2> DEFINE m == Head(requests)
  <2>2. Effect(m) /\ requests # <<>>
    BY <2>1 DEF Serve, mainVars
  <2>3. settings \in [Project -> Nat] /\ requests \in Seq(Request)
    BY DEF WorkbenchInv, WorkbenchTypes
  <2>4. 1 \in DOMAIN requests /\ m = requests[1]
    BY <2>2, <2>3, FirstMessageTaken
  <2> HIDE DEF m
  <2>5. m.project = p
    BY <2>2, <2>3 DEF Effect
  <2>6. m.op = "settings" => m.with.of = m.project
    BY <2>4 DEF FormsAreTheirs
  <2> QED
    BY <2>5, <2>6 DEF m
<1> QED
  BY <1>1, <1>2, <1>3, WorkbenchAlways, PTL
  DEF WorkbenchSpec, SavesWhatIsShown, SettingsStayInTheirProject

-----------------------------------------------------------------------------
(* NarrativeDesk                                                           *)

Row == [proposal : {Unwritten, "proposed", "rejected", "approved"}, memories : Nat,
        status : ForeshadowStatus \cup {Unwritten}, events : Seq(ForeshadowStatus),
        payoff : BOOLEAN, skill : BOOLEAN]

\* Each has its fields and no other.
IsDesk(d) ==
  /\ d = [project |-> d.project, proposals |-> d.proposals, memories |-> d.memories,
          foreshadows |-> d.foreshadows, skill |-> d.skill, chapter |-> d.chapter,
          versions |-> d.versions, diff |-> d.diff, request |-> d.request,
          cancelling |-> d.cancelling]
  /\ d.request \in Nat /\ d.project \in DeskProject \cup {Nowhere}
CallKind == {"load", "chapter", "extract", "approve", "reject", "suggest", "transition",
             "skill", "compare", "cancelDiff"}
IsCall(c) ==
  /\ c = [n |-> c.n, kind |-> c.kind, project |-> c.project, what |-> c.what,
          answer |-> c.answer]
  /\ c.kind \in CallKind /\ c.n \in Nat \ {0} /\ c.project \in DeskProject

DeskTypes ==
  /\ shelf \in [DeskProject -> Row] /\ IsDesk(desk) /\ deskClicks \in Nat
  /\ \A c \in deskCalls : IsCall(c) /\ c.n <= deskClicks
  /\ desk.request <= deskClicks /\ (desk.request # 0 => desk.project # Nowhere)

\* A row whose foreshadow went forward, step by step or with an event left out.
RowIsCoherent(row) ==
  /\ row.status = Unwritten => row.events = <<>>
  /\ \A i, j \in DOMAIN row.events :
       i < j => StatusRank(row.events[i]) < StatusRank(row.events[j])
  /\ \A i \in DOMAIN row.events : StatusRank(row.events[i]) <= StatusRank(row.status)
  /\ row.payoff => row.status \in {"paid_off", "resolved"}
  /\ row.memories = IF row.proposal = "approved" THEN 1 ELSE 0

\* The versions and the comparison are of the chapter shown, and so is the comparison
\* that is waited for, which is on its way.
PageIsCoherent(d, calls) ==
  /\ d.versions \in {Nowhere, d.chapter} /\ d.diff \in {Nowhere, d.chapter}
  /\ \A c \in calls : c.kind = "compare" /\ c.n = d.request => c.what = d.chapter
  /\ d.request # 0 => \E c \in calls : c.kind = "compare" /\ c.n = d.request

DeskInv ==
  /\ DeskTypes
  /\ \A p \in DeskProject : RowIsCoherent(shelf[p])
  /\ PageIsCoherent(desk, deskCalls)

\* A status is followed by a later one only, and none follows a payoff.
LEMMA TransitionsGoForward ==
  ASSUME NEW status \in ForeshadowStatus, NEW to \in ForeshadowTransitions(status)
  PROVE  /\ to \in ForeshadowStatus /\ StatusRank(status) < StatusRank(to)
         /\ StatusRank(status) \in Nat /\ StatusRank(to) \in Nat
         /\ status \notin {"paid_off", "resolved"}
BY DEF ForeshadowStatus, ForeshadowTransitions, StatusRank, Unwritten

\* The ranks of the statuses are numbers, the least that of a row not written.
LEMMA RanksAreNumbers ==
  ASSUME NEW status \in ForeshadowStatus \cup {Unwritten}
  PROVE  StatusRank(status) \in Nat /\ StatusRank(Unwritten) = 0
BY DEF ForeshadowStatus, StatusRank, Unwritten

\* A status stored with its payoff, with or without its event, leaves the row coherent.
LEMMA ForwardIsCoherent ==
  ASSUME NEW row \in Row, RowIsCoherent(row), NEW to \in ForeshadowStatus,
         \/ row.status # Unwritten /\ to \in ForeshadowTransitions(row.status)
         \/ row.status = Unwritten /\ to = "suggested"
  PROVE  LET told == UpdateStatus(row, to) IN
         /\ told \in Row /\ RowIsCoherent(told)
         /\ AddEvent(told, to) \in Row /\ RowIsCoherent(AddEvent(told, to))
<1> DEFINE told == UpdateStatus(row, to)
           added == AddEvent(told, to)
<1>1. /\ told \in Row /\ told.status = to /\ told.events = row.events
      /\ told.proposal = row.proposal /\ told.memories = row.memories
      /\ told.payoff = (row.payoff \/ to \in {"paid_off", "resolved"})
  BY DEF UpdateStatus, Row
<1>2. /\ added \in Row /\ added.status = to /\ added.events = Append(row.events, to)
      /\ added.proposal = row.proposal /\ added.memories = row.memories
      /\ added.payoff = told.payoff
  BY <1>1 DEF AddEvent, Row
<1>3. /\ row.events \in Seq(ForeshadowStatus) /\ row.payoff \in BOOLEAN
      /\ row.status \in ForeshadowStatus \cup {Unwritten} /\ to # Unwritten
  BY DEF Row, ForeshadowStatus, Unwritten
<1> HIDE DEF told, added
<1>4. row.payoff => row.status \in {"paid_off", "resolved"}
  BY DEF RowIsCoherent
<1>5. ~row.payoff
  <2>1. CASE row.status # Unwritten
    BY <1>3, <1>4, <2>1, TransitionsGoForward
  <2>2. CASE row.status = Unwritten
    BY <1>4, <2>2 DEF Unwritten
  <2> QED
    BY <2>1, <2>2
<1>6. /\ \A i \in DOMAIN row.events : StatusRank(row.events[i]) < StatusRank(to)
      /\ StatusRank(to) \in Nat
  <2>1. CASE row.status # Unwritten
    <3>1. StatusRank(row.status) < StatusRank(to) /\ StatusRank(to) \in Nat
          /\ StatusRank(row.status) \in Nat
      BY <1>3, <2>1, TransitionsGoForward
    <3>2. ASSUME NEW i \in DOMAIN row.events
          PROVE  /\ StatusRank(row.events[i]) <= StatusRank(row.status)
                 /\ StatusRank(row.events[i]) \in Nat
      <4>1. row.events[i] \in ForeshadowStatus
        BY <1>3
      <4> QED
        BY <4>1, RanksAreNumbers DEF RowIsCoherent
    <3> QED
      BY <3>1, <3>2
  <2>2. CASE row.status = Unwritten
    BY <2>2, RanksAreNumbers DEF RowIsCoherent
  <2> QED
    BY <2>1, <2>2
<1>7. RowIsCoherent(told)
  <2>1. \A i \in DOMAIN row.events : StatusRank(row.events[i]) <= StatusRank(to)
    <3> TAKE i \in DOMAIN row.events
    <3>1. StatusRank(row.events[i]) \in Nat
      BY <1>3, RanksAreNumbers
    <3> QED
      BY <1>6, <3>1
  <2> QED
    BY <1>1, <1>3, <1>5, <2>1 DEF RowIsCoherent
<1>8. RowIsCoherent(added)
  <2> DEFINE n == Len(row.events) + 1
  <2>1. /\ n \in Nat /\ DOMAIN added.events = 1..n /\ added.events[n] = to
        /\ \A i \in 1..n : i # n =>
             i \in DOMAIN row.events /\ added.events[i] = row.events[i] /\ i < n
    BY <1>2, <1>3
  <2> HIDE DEF n
  <2>2. ASSUME NEW i \in 1..n, NEW j \in 1..n, i < j
        PROVE  StatusRank(added.events[i]) < StatusRank(added.events[j])
    <3>1. i # n
      BY <2>1, <2>2
    <3>2. CASE j = n
      BY <1>6, <2>1, <3>1, <3>2
    <3>3. CASE j # n
      <4>1. i \in DOMAIN row.events /\ j \in DOMAIN row.events
            /\ added.events[i] = row.events[i] /\ added.events[j] = row.events[j]
        BY <2>1, <3>1, <3>3
      <4> QED
        BY <2>2, <4>1 DEF RowIsCoherent
    <3> QED
      BY <3>2, <3>3
  <2>3. ASSUME NEW i \in 1..n PROVE StatusRank(added.events[i]) <= StatusRank(to)
    <3>1. CASE i = n
      BY <1>6, <2>1, <3>1
    <3>2. CASE i # n
      <4>1. i \in DOMAIN row.events /\ added.events[i] = row.events[i]
        BY <2>1, <3>2
      <4>2. StatusRank(row.events[i]) \in Nat
        BY <1>3, <4>1, RanksAreNumbers
      <4> QED
        BY <1>6, <4>1, <4>2
    <3> QED
      BY <3>1, <3>2
  <2> QED
    BY <1>1, <1>2, <1>3, <1>5, <2>1, <2>2, <2>3 DEF RowIsCoherent
<1> QED
  BY <1>1, <1>2, <1>7, <1>8 DEF told, added

\* The row a request leaves is coherent if the one it found was.
LEMMA ServedIsCoherent ==
  ASSUME DeskInv, NEW p \in DeskProject, NEW kind, NEW to, NEW row,
         Served(p, kind, to, row)
  PROVE  row \in Row /\ RowIsCoherent(row)
<1> DEFINE old == shelf[p]
<1>1. old \in Row /\ RowIsCoherent(old)
  BY DEF DeskInv, DeskTypes
<1>2. \/ row = ApproveRow(old) /\ old.proposal = "proposed"
      \/ /\ row = [old EXCEPT !.proposal = "rejected"]
         /\ old.proposal \in {"proposed", "rejected"}
      \/ row = [old EXCEPT !.skill = ~@]
      \/ /\ old.status # Unwritten /\ to \in ForeshadowTransitions(old.status)
         /\ row = AddEvent(UpdateStatus(old, to), to)
  BY DEF Served
<1> HIDE DEF old
<1>3. CASE row = ApproveRow(old) /\ old.proposal = "proposed"
  <2>1. /\ row \in Row /\ row.status = old.status /\ row.events = old.events
        /\ row.payoff = old.payoff /\ row.proposal = "approved"
        /\ row.memories = old.memories + 1
    <3> DEFINE more == old.memories + 1
    <3>1. more \in Nat
      BY <1>1 DEF Row
    <3>2. row = [old EXCEPT !.proposal = "approved", !.memories = more]
      BY <1>3 DEF ApproveRow
    <3> HIDE DEF more
    <3>3. /\ row \in Row /\ row.status = old.status /\ row.events = old.events
          /\ row.payoff = old.payoff /\ row.proposal = "approved"
          /\ row.memories = more
      BY <1>1, <3>1, <3>2 DEF Row
    <3> QED
      BY <3>3 DEF more
  <2> QED
    BY <1>1, <1>3, <2>1 DEF RowIsCoherent
<1>4. CASE row = [old EXCEPT !.proposal = "rejected"] /\ old.proposal # "approved"
  <2>1. /\ row \in Row /\ row.status = old.status /\ row.events = old.events
        /\ row.payoff = old.payoff /\ row.proposal = "rejected"
        /\ row.memories = old.memories
    BY <1>1, <1>4 DEF Row
  <2> QED
    BY <1>1, <1>4, <2>1 DEF RowIsCoherent
<1>5. CASE row = [old EXCEPT !.skill = ~@]
  <2>1. /\ row \in Row /\ row.status = old.status /\ row.events = old.events
        /\ row.payoff = old.payoff /\ row.proposal = old.proposal
        /\ row.memories = old.memories
    BY <1>1, <1>5 DEF Row
  <2> QED
    BY <1>1, <2>1 DEF RowIsCoherent
<1>6. CASE /\ old.status # Unwritten /\ to \in ForeshadowTransitions(old.status)
           /\ row = AddEvent(UpdateStatus(old, to), to)
  <2>1. old.status \in ForeshadowStatus
    BY <1>1, <1>6 DEF Row
  <2>2. to \in ForeshadowStatus
    BY <1>6, <2>1, TransitionsGoForward
  <2> QED
    BY <1>1, <1>6, <2>2, ForwardIsCoherent
<1> QED
  BY <1>2, <1>3, <1>4, <1>5, <1>6

\* Another row of one project, coherent as it was.
LEMMA ShelfKeeps ==
  ASSUME DeskInv, NEW p \in DeskProject, NEW row \in Row, RowIsCoherent(row),
         shelf' = [shelf EXCEPT ![p] = row]
  PROVE  shelf' \in [DeskProject -> Row] /\ \A q \in DeskProject : RowIsCoherent(shelf'[q])
BY DEF DeskInv, DeskTypes

\* A call added, which is no comparison, or one in place of another of its kind and
\* number, leaves the page coherent.
LEMMA CallAdded ==
  ASSUME DeskInv, NEW new, IsCall(new), new.kind # "compare",
         new.n <= deskClicks', deskClicks' \in {deskClicks, deskClicks + 1},
         deskCalls' = deskCalls \cup {new}
  PROVE  /\ \A c \in deskCalls' : IsCall(c) /\ c.n <= deskClicks'
         /\ PageIsCoherent(desk, deskCalls') /\ deskClicks' \in Nat
         /\ desk.request <= deskClicks'
<1>1. \A c \in deskCalls : c.n \in Nat /\ c.n <= deskClicks
  BY DEF DeskInv, DeskTypes, IsCall
<1>2. deskClicks \in Nat /\ deskClicks' \in Nat /\ deskClicks <= deskClicks'
      /\ desk.request <= deskClicks'
  BY DEF DeskInv, DeskTypes, IsDesk
<1>3. \A c \in deskCalls' : IsCall(c) /\ c.n <= deskClicks'
  BY <1>1, <1>2 DEF DeskInv, DeskTypes
<1> QED
  BY <1>2, <1>3 DEF DeskInv, PageIsCoherent

\* A call that moves on and keeps its kind, click and aim leaves the page coherent.
LEMMA CallReplaced ==
  ASSUME DeskInv, NEW c \in deskCalls, NEW new, IsCall(new),
         new.kind = c.kind, new.n = c.n, new.what = c.what,
         deskCalls' = (deskCalls \ {c}) \cup {new}, UNCHANGED deskClicks
  PROVE  /\ \A x \in deskCalls' : IsCall(x) /\ x.n <= deskClicks'
         /\ PageIsCoherent(desk, deskCalls')
<1>1. \A x \in deskCalls' : IsCall(x) /\ x.n <= deskClicks'
  BY DEF DeskInv, DeskTypes
<1>2. \A x \in deskCalls' :
        x.kind = "compare" /\ x.n = desk.request => x.what = desk.chapter
  BY DEF DeskInv, PageIsCoherent
<1>3. desk.request # 0 => \E x \in deskCalls' : x.kind = "compare" /\ x.n = desk.request
  BY DEF DeskInv, PageIsCoherent
<1> QED
  BY <1>1, <1>2, <1>3 DEF DeskInv, PageIsCoherent

\* The page that shows a project keeps its chapter; a comparison it waited for is
\* given up when the project is another.
LEMMA ShownKeeps ==
  ASSUME NEW d, IsDesk(d), NEW p \in DeskProject
  PROVE  LET s == Shown(d, p) IN
         /\ IsDesk(s) /\ s.chapter = d.chapter /\ s.versions = d.versions
         /\ s.diff \in {Nowhere, d.diff} /\ s.request \in {0, d.request}
         /\ s.project = p
<1>1. CASE d.project = p
  BY <1>1 DEF Shown
<1>2. CASE d.project # p
  BY <1>2 DEF Shown, IsDesk
<1> QED
  BY <1>1, <1>2

\* The comparison waited for changes nothing else.
Waits(d, n, b) == [d EXCEPT !.request = n, !.cancelling = b]

\* The page with another wait shows what it showed.
LEMMA WaitIsSet ==
  ASSUME NEW d, IsDesk(d), NEW n \in Nat, NEW b
  PROVE  LET s == Waits(d, n, b) IN
         /\ IsDesk(s) /\ s.chapter = d.chapter /\ s.versions = d.versions
         /\ s.diff = d.diff /\ s.request = n /\ s.project = d.project
<1> DEFINE s == Waits(d, n, b)
<1>1. s = [project |-> d.project, proposals |-> d.proposals, memories |-> d.memories,
           foreshadows |-> d.foreshadows, skill |-> d.skill, chapter |-> d.chapter,
           versions |-> d.versions, diff |-> d.diff, request |-> n, cancelling |-> b]
  <2>1. ASSUME NEW a1, NEW a2, NEW a3, NEW a4, NEW a5, NEW a6, NEW a7, NEW a8, NEW a9,
               NEW a10,
               d = [project |-> a1, proposals |-> a2, memories |-> a3,
                    foreshadows |-> a4, skill |-> a5, chapter |-> a6, versions |-> a7,
                    diff |-> a8, request |-> a9, cancelling |-> a10]
        PROVE  s = [project |-> a1, proposals |-> a2, memories |-> a3,
                    foreshadows |-> a4, skill |-> a5, chapter |-> a6, versions |-> a7,
                    diff |-> a8, request |-> n, cancelling |-> b]
    <3> HIDE DEF s
    <3>1. s = [d EXCEPT !.request = n, !.cancelling = b]
      BY DEF s, Waits
    <3> QED
      BY <2>1, <3>1
  <2> HIDE DEF s
  <2> QED
    BY <2>1 DEF IsDesk
<1> HIDE DEF s
<1>2. s.request = n /\ IsDesk(s)
  BY <1>1 DEF IsDesk
<1> QED
  BY <1>1, <1>2 DEF s

\* What the page becomes by an answer.
LEMMA AfterAnswerKeeps ==
  ASSUME DeskInv, NEW c \in deskCalls, AfterAnswer(c) = desk'
  PROVE  /\ IsDesk(desk') /\ desk'.chapter = desk.chapter
         /\ desk'.versions \in {Nowhere, desk.chapter}
         /\ desk'.diff \in {Nowhere, desk.chapter}
         /\ desk'.request \in {0, desk.request}
         /\ desk'.project \in {desk.project, c.project}
         /\ c.kind = "compare" /\ c.n = desk.request => desk'.request = 0
<1>1. /\ IsDesk(desk) /\ IsCall(c)
      /\ desk.versions \in {Nowhere, desk.chapter} /\ desk.diff \in {Nowhere, desk.chapter}
      /\ c.kind = "compare" /\ c.n = desk.request => c.what = desk.chapter
  BY DEF DeskInv, DeskTypes, PageIsCoherent
<1>2. CASE c.kind \in {"load", "reject", "suggest", "transition", "skill", "cancelDiff"}
  BY <1>1, <1>2 DEF AfterAnswer, IsDesk
<1>3. CASE c.kind = "chapter"
  BY <1>1, <1>3 DEF AfterAnswer, IsDesk
<1>4. CASE c.kind = "extract"
  <2>1. desk' = Shown(desk, c.project) /\ c.project \in DeskProject
    BY <1>1, <1>4 DEF AfterAnswer, IsCall
  <2> QED
    BY <1>1, <1>4, <2>1, ShownKeeps
<1>5. CASE c.kind = "approve"
  <2> DEFINE d == [desk EXCEPT !.proposals = @ \ {c.project}]
  <2>1. desk' = Shown(d, c.project) /\ c.project \in DeskProject
    BY <1>1, <1>5 DEF AfterAnswer, IsCall
  <2>2. /\ IsDesk(d) /\ d.chapter = desk.chapter /\ d.versions = desk.versions
        /\ d.diff = desk.diff /\ d.request = desk.request
    BY <1>1 DEF IsDesk
  <2> HIDE DEF d
  <2> QED
    BY <1>1, <1>5, <2>1, <2>2, ShownKeeps
<1>6. CASE c.kind = "compare"
  <2> DEFINE ended == IF WantsDiff(c) /\ c.answer = "ok" /\ ~desk.cancelling
                      THEN [desk EXCEPT !.diff = c.what] ELSE desk
  <2>1. desk' = IF desk.request = c.n
                THEN [ended EXCEPT !.request = 0, !.cancelling = FALSE] ELSE ended
    BY <1>6 DEF AfterAnswer
  <2>2. /\ IsDesk(ended) /\ ended.chapter = desk.chapter
        /\ ended.versions = desk.versions /\ ended.diff \in {Nowhere, desk.chapter}
        /\ ended.request = desk.request /\ ended.project = desk.project
    BY <1>1, <1>6 DEF WantsDiff, IsDesk
  <2> HIDE DEF ended
  <2>3. CASE desk.request = c.n
    <3>1. /\ IsDesk(desk') /\ desk'.chapter = ended.chapter
          /\ desk'.versions = ended.versions /\ desk'.diff = ended.diff
          /\ desk'.request = 0 /\ desk'.project = ended.project
      <4>1. desk' = Waits(ended, 0, FALSE)
        BY <2>1, <2>3 DEF Waits
      <4>2. PICK b : desk' = Waits(ended, 0, b)
        BY <4>1, Zenon
      <4> QED
        BY <2>2, <4>2, WaitIsSet
    <3> QED
      BY <1>1, <2>2, <3>1
  <2>4. CASE desk.request # c.n
    BY <1>1, <2>1, <2>2, <2>4
  <2> QED
    BY <2>3, <2>4
<1> QED
  BY <1>1, <1>2, <1>3, <1>4, <1>5, <1>6 DEF IsCall, CallKind

\* A step that asks for something else than a comparison.
LEMMA AsksKeep ==
  ASSUME DeskInv,
         \/ \E kind \in {"approve", "reject", "skill"} : AskDesk(kind, "none")
         \/ \E to \in ForeshadowStatus : AskDesk("transition", to) \/ TransitionTorn(to)
         \/ \E kind \in {"extract", "suggest"} : AskReader(kind)
         \/ CancelComparison
  PROVE  DeskInv'
<1>1. /\ desk.project \in DeskProject \cup {Nowhere} /\ deskClicks \in Nat
      /\ shelf \in [DeskProject -> Row] /\ IsDesk(desk)
      /\ \A p \in DeskProject : RowIsCoherent(shelf[p])
  BY DEF DeskInv, DeskTypes, IsDesk
<1>2. ASSUME NEW kind \in CallKind, NEW what, NEW answer, desk.project # Nowhere
      PROVE  LET c == [CallOf(kind, desk.project, what) EXCEPT !.answer = answer] IN
             IsCall(c) /\ c.kind = kind /\ c.n = deskClicks + 1
  BY <1>1, <1>2 DEF IsCall, CallOf
<1>3. ASSUME NEW kind \in {"approve", "reject", "skill", "transition"}, NEW to,
             AskDesk(kind, to)
      PROVE  DeskInv'
  <2> DEFINE p == desk.project
             new == [CallOf(kind, p, to) EXCEPT !.answer = "ok"]
  <2>1. /\ p \in DeskProject /\ deskClicks' = deskClicks + 1 /\ desk' = desk
        /\ deskCalls' = deskCalls \cup {new}
    BY <1>1, <1>3 DEF AskDesk, DeskClick
  <2>2. IsCall(new) /\ new.kind # "compare" /\ new.n = deskClicks + 1
    <3>1. kind \in CallKind /\ kind # "compare" /\ p # Nowhere
      BY <2>1, DeskAssumption DEF CallKind
    <3> QED
      BY <1>2, <3>1
  <2>3. PICK row : Served(p, kind, to, row) /\ shelf' = [shelf EXCEPT ![p] = row]
    BY <1>3 DEF AskDesk
  <2> HIDE DEF p, new
  <2>4. /\ \A c \in deskCalls' : IsCall(c) /\ c.n <= deskClicks'
        /\ PageIsCoherent(desk, deskCalls') /\ deskClicks' \in Nat
        /\ desk.request <= deskClicks'
    BY <1>1, <2>1, <2>2, CallAdded
  <2>5. shelf' \in [DeskProject -> Row] /\ \A q \in DeskProject : RowIsCoherent(shelf'[q])
    BY <2>1, <2>3, ServedIsCoherent, ShelfKeeps
  <2> QED
    BY <1>1, <2>1, <2>4, <2>5 DEF DeskInv, DeskTypes
<1>4. ASSUME NEW to \in ForeshadowStatus, TransitionTorn(to) PROVE DeskInv'
  <2> DEFINE p == desk.project
             row == UpdateStatus(shelf[p], to)
  <2>1. /\ p \in DeskProject /\ shelf' = [shelf EXCEPT ![p] = row]
        /\ deskClicks' = deskClicks + 1 /\ desk' = desk /\ deskCalls' = deskCalls
        /\ shelf[p].status # Unwritten /\ to \in ForeshadowTransitions(shelf[p].status)
    BY <1>1, <1>4 DEF TransitionTorn, DeskClick
  <2>2. row \in Row /\ RowIsCoherent(row)
    BY <1>1, <2>1, ForwardIsCoherent
  <2> HIDE DEF p, row
  <2>3. shelf' \in [DeskProject -> Row] /\ \A q \in DeskProject : RowIsCoherent(shelf'[q])
    BY <2>1, <2>2, ShelfKeeps
  <2>4. \A c \in deskCalls : c.n <= deskClicks + 1 /\ desk.request <= deskClicks + 1
    BY DEF DeskInv, DeskTypes, IsCall, IsDesk
  <2> QED
    BY <1>1, <2>1, <2>3, <2>4 DEF DeskInv, DeskTypes, IsDesk
<1>5. ASSUME NEW kind \in {"extract", "suggest"}, AskReader(kind) PROVE DeskInv'
  <2> DEFINE new == CallOf(kind, desk.project, "none")
  <2>1. /\ desk.project \in DeskProject /\ deskClicks' = deskClicks + 1 /\ desk' = desk
        /\ shelf' = shelf /\ deskCalls' = deskCalls \cup {new}
    BY <1>1, <1>5 DEF AskReader, DeskClick
  <2>2. IsCall(new) /\ new.kind # "compare" /\ new.n = deskClicks + 1
    BY <1>1, <1>5, <2>1 DEF IsCall, CallOf, CallKind
  <2> HIDE DEF new
  <2>4. new.n <= deskClicks' /\ deskClicks' \in {deskClicks, deskClicks + 1}
    BY <1>1, <2>1, <2>2
  <2>3. /\ \A c \in deskCalls' : IsCall(c) /\ c.n <= deskClicks'
        /\ PageIsCoherent(desk, deskCalls') /\ deskClicks' \in Nat
        /\ desk.request <= deskClicks'
    BY <2>1, <2>2, <2>4, CallAdded
  <2> QED
    BY <1>1, <2>1, <2>3 DEF DeskInv, DeskTypes
<1>6. CASE CancelComparison
  <2> DEFINE new == [CallOf("cancelDiff", desk.project, desk.request)
                       EXCEPT !.answer = "ok"]
  <2> PICK d : d = [desk EXCEPT !.cancelling = TRUE]
    OBVIOUS
  <2>1. /\ deskClicks' = deskClicks + 1 /\ desk' = d /\ shelf' = shelf
        /\ deskCalls' = deskCalls \cup {new} /\ desk.request # 0
    BY <1>6 DEF CancelComparison, DeskClick
  <2>2. desk.project # Nowhere
    BY <2>1 DEF DeskInv, DeskTypes
  <2>3. IsCall(new) /\ new.kind # "compare" /\ new.n = deskClicks + 1
    <3>1. "cancelDiff" \in CallKind
      BY DEF CallKind
    <3> QED
      BY <1>2, <2>2, <3>1
  <2>4. /\ IsDesk(d) /\ d.chapter = desk.chapter /\ d.versions = desk.versions
        /\ d.diff = desk.diff /\ d.request = desk.request /\ d.project = desk.project
    <3>1. ASSUME NEW b, d = [desk EXCEPT !.cancelling = b]
          PROVE  /\ IsDesk(d) /\ d.chapter = desk.chapter /\ d.versions = desk.versions
                 /\ d.diff = desk.diff /\ d.request = desk.request
                 /\ d.project = desk.project
      BY <1>1, <3>1 DEF IsDesk
    <3> QED
      BY <3>1
  <2> HIDE DEF new
  <2>5. /\ \A c \in deskCalls' : IsCall(c) /\ c.n <= deskClicks'
        /\ PageIsCoherent(desk, deskCalls') /\ deskClicks' \in Nat
        /\ desk.request <= deskClicks'
    BY <1>1, <2>1, <2>3, CallAdded
  <2>6. PageIsCoherent(desk', deskCalls')
    BY <2>1, <2>4, <2>5 DEF PageIsCoherent
  <2> QED
    BY <1>1, <2>1, <2>4, <2>5, <2>6 DEF DeskInv, DeskTypes
<1> QED
  BY <1>3, <1>4, <1>5, <1>6

\* The workbench shows a project, or the page a chapter.
LEMMA LoadsKeep ==
  ASSUME DeskInv,
         (\E p \in DeskProject : LoadDesk(p)) \/ (\E c \in ChapterOf : LoadChapter(c))
  PROVE  DeskInv'
<1>1. /\ deskClicks \in Nat /\ shelf \in [DeskProject -> Row] /\ IsDesk(desk)
      /\ \A p \in DeskProject : RowIsCoherent(shelf[p])
  BY DEF DeskInv, DeskTypes
<1>2. ASSUME NEW p \in DeskProject, LoadDesk(p) PROVE DeskInv'
  <2> DEFINE new == LoadCall(p, deskClicks + 1)
             s == Shown(desk, p)
  <2>1. /\ deskClicks' = deskClicks + 1 /\ desk' = s /\ shelf' = shelf
        /\ deskCalls' = deskCalls \cup {new}
    BY <1>2 DEF LoadDesk, DeskClick
  <2>2. IsCall(new) /\ new.kind # "compare" /\ new.n = deskClicks + 1
    BY <1>1 DEF LoadCall, IsCall, CallKind
  <2>3. /\ IsDesk(s) /\ s.chapter = desk.chapter /\ s.versions = desk.versions
        /\ s.diff \in {Nowhere, desk.diff} /\ s.request \in {0, desk.request}
        /\ s.project = p
    BY <1>1, ShownKeeps
  <2> HIDE DEF new, s
  <2>4. /\ \A c \in deskCalls' : IsCall(c) /\ c.n <= deskClicks'
        /\ PageIsCoherent(desk, deskCalls') /\ deskClicks' \in Nat
        /\ desk.request <= deskClicks'
    <3>1. new.n <= deskClicks' /\ deskClicks' \in {deskClicks, deskClicks + 1}
      BY <1>1, <2>1, <2>2
    <3> QED
      BY <2>1, <2>2, <3>1, CallAdded
  <2>5. PageIsCoherent(s, deskCalls')
    <3>1. \A c \in deskCalls' : c.n # 0
      BY <2>4 DEF IsCall
    <3> QED
      BY <2>3, <2>4, <3>1 DEF PageIsCoherent
  <2>6. p # Nowhere /\ s.request <= deskClicks'
    BY <1>1, <2>1, <2>3, <2>4, DeskAssumption
  <2> QED
    BY <1>1, <2>1, <2>3, <2>4, <2>5, <2>6 DEF DeskInv, DeskTypes
<1>3. ASSUME NEW k \in ChapterOf, LoadChapter(k) PROVE DeskInv'
  <2> DEFINE new == [CallOf("chapter", k.project, k) EXCEPT !.answer = "ok"]
  <2>1. /\ deskClicks' = deskClicks + 1 /\ shelf' = shelf
        /\ desk' = [desk EXCEPT !.project = k.project, !.chapter = k,
                                !.versions = Nowhere, !.diff = Nowhere,
                                !.request = 0, !.cancelling = FALSE]
        /\ deskCalls' = deskCalls \cup {new}
    BY <1>3 DEF LoadChapter, DeskClick
  <2>2. k.project \in DeskProject
    BY DEF ChapterOf
  <2>3. IsCall(new) /\ new.kind # "compare" /\ new.n = deskClicks + 1
    BY <1>1, <2>2 DEF CallOf, IsCall, CallKind
  <2>4. /\ IsDesk(desk') /\ desk'.versions = Nowhere /\ desk'.diff = Nowhere
        /\ desk'.request = 0
    <3> DEFINE d == [desk EXCEPT !.project = k.project, !.chapter = k,
                                 !.versions = Nowhere, !.diff = Nowhere]
    <3>1. IsDesk(d) /\ d.versions = Nowhere /\ d.diff = Nowhere
      <4>1. ASSUME NEW q \in DeskProject, q = k.project, NEW x,
                   x = [desk EXCEPT !.project = q, !.chapter = k, !.versions = Nowhere,
                                    !.diff = Nowhere]
            PROVE  IsDesk(x) /\ x.versions = Nowhere /\ x.diff = Nowhere
        BY <1>1, <4>1 DEF IsDesk
      <4> QED
        BY <2>2, <4>1
    <3>2. desk' = Waits(d, 0, FALSE)
      BY <1>1, <2>1 DEF Waits, IsDesk
    <3> HIDE DEF d
    <3>3. PICK b : desk' = Waits(d, 0, b)
      BY <3>2, Zenon
    <3> QED
      BY <3>1, <3>3, WaitIsSet
  <2> HIDE DEF new
  <2>5. /\ \A c \in deskCalls' : IsCall(c) /\ c.n <= deskClicks'
        /\ PageIsCoherent(desk, deskCalls') /\ deskClicks' \in Nat
    <3>1. new.n <= deskClicks' /\ deskClicks' \in {deskClicks, deskClicks + 1}
      BY <1>1, <2>1, <2>3
    <3> QED
      BY <2>1, <2>3, <3>1, CallAdded
  <2>6. PageIsCoherent(desk', deskCalls')
    <3>1. \A c \in deskCalls' : c.n # 0
      BY <2>5 DEF IsCall
    <3> QED
      BY <2>4, <3>1 DEF PageIsCoherent
  <2> QED
    BY <1>1, <2>1, <2>4, <2>5, <2>6 DEF DeskInv, DeskTypes
<1> QED
  BY <1>2, <1>3

\* A comparison is asked for, of the versions on the page, and is the one waited for.
LEMMA CompareKeeps ==
  ASSUME DeskInv, CompareOnDesk
  PROVE  DeskInv'
<1> DEFINE new == CallOf("compare", desk.project, desk.versions)
           d == [desk EXCEPT !.diff = Nowhere]
<1>1. /\ deskClicks \in Nat /\ shelf \in [DeskProject -> Row] /\ IsDesk(desk)
      /\ \A c \in deskCalls : IsCall(c) /\ c.n <= deskClicks
      /\ desk.versions \in {Nowhere, desk.chapter}
  BY DEF DeskInv, DeskTypes, PageIsCoherent
<1>2. /\ deskClicks' = deskClicks + 1 /\ shelf' = shelf
      /\ desk' = [desk EXCEPT !.request = deskClicks + 1, !.diff = Nowhere,
                              !.cancelling = FALSE]
      /\ deskCalls' = deskCalls \cup {new}
      /\ desk.project # Nowhere /\ desk.versions # Nowhere
  BY DEF CompareOnDesk, DeskClick
<1>3. /\ IsCall(new) /\ new.kind = "compare" /\ new.n = deskClicks + 1
      /\ new.what = desk.chapter
  BY <1>1, <1>2 DEF CallOf, IsCall, CallKind, IsDesk
<1>4. /\ IsDesk(desk') /\ desk'.versions = desk.versions /\ desk'.diff = Nowhere
      /\ desk'.chapter = desk.chapter /\ desk'.request = deskClicks + 1
      /\ desk'.project = desk.project
  <2>1. /\ IsDesk(d) /\ d.versions = desk.versions /\ d.diff = Nowhere
        /\ d.chapter = desk.chapter /\ d.project = desk.project
    BY <1>1 DEF IsDesk
  <2>2. desk' = Waits(d, deskClicks + 1, FALSE)
    BY <1>1, <1>2 DEF Waits, IsDesk
  <2> HIDE DEF d
  <2>3. PICK b : desk' = Waits(d, deskClicks + 1, b)
    BY <2>2, Zenon
  <2>4. deskClicks + 1 \in Nat
    BY <1>1
  <2> QED
    BY <2>1, <2>3, <2>4, WaitIsSet
<1> HIDE DEF new
<1>5. \A c \in deskCalls' : IsCall(c) /\ c.n <= deskClicks'
  BY <1>1, <1>2, <1>3 DEF IsCall
<1>6. PageIsCoherent(desk', deskCalls')
  <2>1. \A c \in deskCalls : c.n # deskClicks + 1
    BY <1>1 DEF IsCall
  <2> QED
    BY <1>1, <1>2, <1>3, <1>4, <2>1 DEF PageIsCoherent
<1> QED
  BY <1>1, <1>2, <1>4, <1>5, <1>6 DEF DeskInv, DeskTypes

\* A reading or a comparison ends in the main process.
LEMMA EndsKeep ==
  ASSUME DeskInv, NEW c \in deskCalls, ReaderAnswers(c) \/ DiffEnds(c)
  PROVE  DeskInv'
<1>1. /\ IsCall(c) /\ c.project \in DeskProject
      /\ shelf \in [DeskProject -> Row] /\ \A p \in DeskProject : RowIsCoherent(shelf[p])
  BY DEF DeskInv, DeskTypes, IsCall
<1>2. PICK a : deskCalls' = (deskCalls \ {c}) \cup {[c EXCEPT !.answer = a]}
  BY DEF ReaderAnswers, DiffEnds
<1> DEFINE new == [c EXCEPT !.answer = a]
<1>3. IsCall(new) /\ new.kind = c.kind /\ new.n = c.n /\ new.what = c.what
  BY <1>1 DEF IsCall
<1>4. desk' = desk /\ UNCHANGED deskClicks
  BY DEF ReaderAnswers, DiffEnds
<1> HIDE DEF new
<1>5. /\ \A x \in deskCalls' : IsCall(x) /\ x.n <= deskClicks'
      /\ PageIsCoherent(desk, deskCalls')
  BY <1>2, <1>3, <1>4, CallReplaced DEF new
<1>6. /\ shelf' \in [DeskProject -> Row]
      /\ \A p \in DeskProject : RowIsCoherent(shelf'[p])
  <2>1. CASE shelf' = shelf
    BY <1>1, <2>1
  <2>2. ASSUME NEW row, row = shelf[c.project],
               shelf' = [shelf EXCEPT ![c.project].proposal =
                           IF @ = Unwritten THEN "proposed" ELSE @]
        PROVE  /\ shelf' \in [DeskProject -> Row]
               /\ \A p \in DeskProject : RowIsCoherent(shelf'[p])
    <3> DEFINE told == [row EXCEPT !.proposal = IF @ = Unwritten THEN "proposed" ELSE @]
    <3>1. row \in Row /\ RowIsCoherent(row)
      BY <1>1, <2>2
    <3>2. /\ told \in Row /\ told.status = row.status /\ told.events = row.events
          /\ told.payoff = row.payoff /\ told.memories = row.memories
          /\ told.proposal = "approved" <=> row.proposal = "approved"
      BY <3>1 DEF Row, Unwritten
    <3>3. shelf' = [shelf EXCEPT ![c.project] = told]
      BY <1>1, <2>2
    <3> HIDE DEF told
    <3>4. RowIsCoherent(told)
      BY <3>1, <3>2 DEF RowIsCoherent
    <3> QED
      BY <1>1, <3>2, <3>3, <3>4, ShelfKeeps
  <2>3. ASSUME NEW row, row = shelf[c.project], row.status = Unwritten,
               shelf' = [shelf EXCEPT ![c.project] =
                           AddEvent(UpdateStatus(row, "suggested"), "suggested")]
        PROVE  /\ shelf' \in [DeskProject -> Row]
               /\ \A p \in DeskProject : RowIsCoherent(shelf'[p])
    <3>1. row \in Row /\ RowIsCoherent(row) /\ "suggested" \in ForeshadowStatus
      BY <1>1, <2>3 DEF ForeshadowStatus
    <3> DEFINE told == AddEvent(UpdateStatus(row, "suggested"), "suggested")
    <3>2. told \in Row /\ RowIsCoherent(told)
      BY <2>3, <3>1, ForwardIsCoherent
    <3> HIDE DEF told
    <3> QED
      BY <1>1, <2>3, <3>2, ShelfKeeps DEF told
  <2>4. \/ shelf' = shelf
        \/ shelf' = [shelf EXCEPT ![c.project].proposal =
                       IF @ = Unwritten THEN "proposed" ELSE @]
        \/ /\ shelf[c.project].status = Unwritten
           /\ shelf' = [shelf EXCEPT ![c.project] =
                          AddEvent(UpdateStatus(@, "suggested"), "suggested")]
    BY DEF ReaderAnswers, DiffEnds
  <2> QED
    BY <2>1, <2>2, <2>3, <2>4
<1> QED
  BY <1>4, <1>5, <1>6 DEF DeskInv, DeskTypes

\* The page goes on with an answer, and with it the call is over.
LEMMA GoesOnKeeps ==
  ASSUME DeskInv, NEW c \in deskCalls, GoesOn(c)
  PROVE  DeskInv'
<1> DEFINE next == IF c.kind \in {"extract", "approve"} THEN {LoadCall(c.project, c.n)}
                   ELSE {}
<1>1. /\ IsCall(c) /\ c.n <= deskClicks /\ c.project \in DeskProject
      /\ deskClicks \in Nat
  BY DEF DeskInv, DeskTypes, IsCall
<1>2. /\ desk' = AfterAnswer(c) /\ deskCalls' = (deskCalls \ {c}) \cup next
      /\ shelf' = shelf /\ deskClicks' = deskClicks
  BY DEF GoesOn
<1>3. \A x \in next : IsCall(x) /\ x.n <= deskClicks /\ x.kind # "compare"
  BY <1>1 DEF LoadCall, IsCall, CallKind
<1> HIDE DEF next
<1>4. /\ IsDesk(desk') /\ desk'.chapter = desk.chapter
      /\ desk'.versions \in {Nowhere, desk.chapter}
      /\ desk'.diff \in {Nowhere, desk.chapter}
      /\ desk'.request \in {0, desk.request}
      /\ desk'.project \in {desk.project, c.project}
      /\ c.kind = "compare" /\ c.n = desk.request => desk'.request = 0
  BY <1>2, AfterAnswerKeeps
<1>5. \A x \in deskCalls' : IsCall(x) /\ x.n <= deskClicks'
  BY <1>2, <1>3 DEF DeskInv, DeskTypes
<1>6. PageIsCoherent(desk', deskCalls')
  <2>1. \A x \in deskCalls' : x.kind = "compare" /\ x.n = desk'.request
                                => x.what = desk'.chapter
    BY <1>2, <1>3, <1>4, <1>5 DEF DeskInv, PageIsCoherent, IsCall
  <2>2. desk'.request # 0 => \E x \in deskCalls' : x.kind = "compare" /\ x.n = desk'.request
    BY <1>2, <1>4 DEF DeskInv, PageIsCoherent
  <2> QED
    BY <1>4, <2>1, <2>2 DEF PageIsCoherent
<1>7. desk'.request <= deskClicks' /\ (desk'.request # 0 => desk'.project # Nowhere)
  BY <1>1, <1>2, <1>4, DeskAssumption DEF DeskInv, DeskTypes
<1> QED
  BY <1>2, <1>4, <1>5, <1>6, <1>7 DEF DeskInv, DeskTypes

\* The cancellation that did not get through.
LEMMA CancelFailsKeeps ==
  ASSUME DeskInv, NEW c \in deskCalls, CancelFails(c)
  PROVE  DeskInv'
<1>1. /\ IsDesk(desk) /\ c.kind = "cancelDiff" /\ deskCalls' = deskCalls \ {c}
      /\ shelf' = shelf /\ deskClicks' = deskClicks
      /\ desk' = desk \/ desk' = [desk EXCEPT !.cancelling = FALSE]
  BY DEF CancelFails, DeskInv, DeskTypes
<1>2. /\ IsDesk(desk') /\ desk'.chapter = desk.chapter /\ desk'.versions = desk.versions
      /\ desk'.diff = desk.diff /\ desk'.request = desk.request
      /\ desk'.project = desk.project
  <2>1. CASE desk' = desk
    BY <1>1, <2>1
  <2>2. ASSUME NEW b, desk' = [desk EXCEPT !.cancelling = b]
        PROVE  /\ IsDesk(desk') /\ desk'.chapter = desk.chapter
               /\ desk'.versions = desk.versions /\ desk'.diff = desk.diff
               /\ desk'.request = desk.request /\ desk'.project = desk.project
    BY <1>1, <2>2 DEF IsDesk
  <2>3. CASE desk' = [desk EXCEPT !.cancelling = FALSE]
    <3>1. PICK b : desk' = [desk EXCEPT !.cancelling = b]
      BY <2>3, Zenon
    <3> QED
      BY <2>2, <3>1
  <2> QED
    BY <1>1, <2>1, <2>3
<1>3. PageIsCoherent(desk', deskCalls')
  BY <1>1, <1>2 DEF DeskInv, PageIsCoherent
<1> QED
  BY <1>1, <1>2, <1>3 DEF DeskInv, DeskTypes

\* narrativeStore.ts and foreshadow.ipc.ts: what the page shows is of the chapter it
\* shows, a comparison waited for has an end, and a foreshadow only goes forward, in
\* whatever order the answers of any number of calls come.
THEOREM TheDeskIsCoherent == DeskSpec => []DeskIsCoherent
<1>1. DeskInit => DeskInv
  <2> SUFFICES ASSUME DeskInit PROVE DeskInv
    OBVIOUS
  <2>1. EmptyShelf \in Row /\ RowIsCoherent(EmptyShelf)
    BY DEF EmptyShelf, Row, RowIsCoherent, Unwritten
  <2>2. IsDesk(EmptyDesk) /\ EmptyDesk.request = 0 /\ EmptyDesk.versions = Nowhere
        /\ EmptyDesk.diff = Nowhere
    BY DEF EmptyDesk, IsDesk
  <2> QED
    BY <2>1, <2>2 DEF DeskInit, DeskInv, DeskTypes, PageIsCoherent
<1>2. DeskInv /\ [DeskNext]_deskVars => DeskInv'
  <2>1. DeskInv /\ UNCHANGED deskVars => DeskInv'
    BY DEF deskVars, DeskInv, DeskTypes
  <2> QED
    BY <2>1, AsksKeep, LoadsKeep, CompareKeeps, EndsKeep, GoesOnKeeps, CancelFailsKeeps
    DEF DeskNext
<1>3. DeskInv => DeskIsCoherent
  BY DEF DeskInv, DeskIsCoherent, PageIsCoherent, RowIsCoherent
<1> QED
  BY <1>1, <1>2, <1>3, PTL DEF DeskSpec

-----------------------------------------------------------------------------
(* AssistantDesk                                                           *)
(*                                                                         *)
(* q is what is on its way to the page, said what was said in each session. *)

Place == {SessionOf[s] : s \in Session}
Asked ==
  [kind : {"list", "create", "createFirst"}, of : Place]
  \cup [kind : {"get", "archive", "prompt", "cancel", "confirm"}, of : Session]
Told ==
  [kind : {"message"}, of : Session, what : Nat]
  \cup [kind : {"get"}, of : Session, what : Seq(Nat)]
  \cup [kind : {"list"}, of : Place, what : [all : SUBSET Session, open : SUBSET Session]]
  \cup [kind : {"create", "createFirst"}, of : Place, what : Session]
  \cup [kind : {"archive", "failed", "cancel", "confirm", "end", "prompt", "confirmation"},
        of : Session, what : {0}]
PageState ==
  [project : Place \cup {"none"}, sessions : SUBSET Session, active : Session \cup {NoSession},
   messages : Seq(Nat), busy : BOOLEAN, confirmation : Session \cup {NoSession}]

TalkState ==
  [there : SUBSET Session, closed : SUBSET Session, said : [Session -> Seq(Nat)], next : Nat]

\* The message n of session s is at place i of the channel.
Tells(q, i, s, n) == q[i].kind = "message" /\ q[i].of = s /\ q[i].what = n

\* Nothing is said twice.
SaidOnce(said, next) ==
  /\ \A s \in Session : \A k \in 1..Len(said[s]) : said[s][k] < next
  /\ \A s, r \in Session : \A k \in 1..Len(said[s]), l \in 1..Len(said[r]) :
       said[s][k] = said[r][l] => s = r /\ k = l

\* What is on its way was said, and is on its way once.
ToldOnce(said, q) ==
  /\ \A i \in 1..Len(q) : q[i].kind = "message" =>
       \E k \in 1..Len(said[q[i].of]) : q[i].what = said[q[i].of][k]
  /\ \A i, j \in 1..Len(q) :
       q[i].kind = "message" /\ q[j].kind = "message" /\ q[i].what = q[j].what => i = j

\* If a message is on its way, so is what was said after it, behind it.
InOrder(said, q) ==
  \A s \in Session : \A k, l \in 1..Len(said[s]), i \in 1..Len(q) :
    k < l /\ Tells(q, i, s, said[s][k]) =>
      \E j \in 1..Len(q) : i < j /\ Tells(q, j, s, said[s][l])

\* ms is what was said in s but for the messages on their way behind place i.
HoldsUpTo(said, q, ms, s, i) ==
  /\ ms \in Seq(Nat) /\ Len(ms) <= Len(said[s])
  /\ \A k \in 1..Len(ms) : ms[k] = said[s][k]
  /\ \A k \in 1..Len(said[s]) :
       k > Len(ms) <=> \E j \in 1..Len(q) : i < j /\ Tells(q, j, s, said[s][k])

AnswersHold(said, q) ==
  \A i \in 1..Len(q) : q[i].kind = "get" => HoldsUpTo(said, q, q[i].what, q[i].of, i)

Channel(said, next, q) ==
  /\ said \in [Session -> Seq(Nat)] /\ next \in Nat /\ q \in Seq(Told)
  /\ SaidOnce(said, next) /\ ToldOnce(said, q) /\ InOrder(said, q) /\ AnswersHold(said, q)

\* The inductive invariant: the page and what is on its way make up what was said.
PageInv ==
  /\ page \in PageState /\ toService \in Seq(Asked)
  /\ talks \in TalkState
  /\ prompting \subseteq Session
  /\ Channel(talks.said, talks.next, toPage)
  /\ page.active = NoSession => page.messages = <<>>
  /\ page.active # NoSession =>
       /\ HoldsUpTo(talks.said, toPage, page.messages, page.active, 0)
       /\ page.confirmation \in {NoSession, page.active}

\* The channel and its places: what is appended comes last, and the first is taken.
LEMMA Places ==
  ASSUME NEW q \in Seq(Told)
  PROVE  /\ Len(q) \in Nat
         /\ \A i \in 1..Len(q) : q[i] \in Told
         /\ \A m \in Told : /\ Append(q, m) \in Seq(Told) /\ Len(Append(q, m)) = Len(q) + 1
                            /\ Append(q, m)[Len(q) + 1] = m
                            /\ \A i \in 1..Len(q) : Append(q, m)[i] = q[i]
         /\ q # <<>> =>
              /\ Tail(q) \in Seq(Told) /\ Len(q) = Len(Tail(q)) + 1 /\ Len(Tail(q)) \in Nat
              /\ Head(q) = q[1] /\ Head(q) \in Told
              /\ \A i \in 1..Len(Tail(q)) : Tail(q)[i] = q[i + 1]
<1> HIDE DEF Told
<1>1. Len(q) \in Nat /\ \A i \in 1..Len(q) : q[i] \in Told
  OBVIOUS
<1>2. ASSUME NEW m \in Told
      PROVE  /\ Append(q, m) \in Seq(Told) /\ Len(Append(q, m)) = Len(q) + 1
             /\ Append(q, m)[Len(q) + 1] = m
             /\ \A i \in 1..Len(q) : Append(q, m)[i] = q[i]
  OBVIOUS
<1>3. ASSUME q # <<>>
      PROVE  /\ Tail(q) \in Seq(Told) /\ Len(q) = Len(Tail(q)) + 1 /\ Len(Tail(q)) \in Nat
             /\ Head(q) = q[1] /\ Head(q) \in Told
             /\ \A i \in 1..Len(Tail(q)) : Tail(q)[i] = q[i + 1]
  BY <1>3
<1> QED
  BY <1>1, <1>2, <1>3

\* Something else than a message changes nothing in what is on its way.
LEMMA StillOnItsWay ==
  ASSUME NEW q \in Seq(Told), NEW m \in Told, m.kind # "message", NEW s, NEW n, NEW i \in Nat
  PROVE  (\E j \in 1..Len(Append(q, m)) : i < j /\ Tells(Append(q, m), j, s, n))
           <=> \E j \in 1..Len(q) : i < j /\ Tells(q, j, s, n)
<1>1. \A j \in 1..Len(q) : Append(q, m)[j] = q[j]
  BY Places
<1>2. Append(q, m)[Len(q) + 1] = m /\ Len(Append(q, m)) = Len(q) + 1 /\ Len(q) \in Nat
  BY Places
<1>3. \A j \in 1..(Len(q) + 1) : j \in 1..Len(q) \/ j = Len(q) + 1
  BY <1>2
<1>4. \A j \in 1..Len(q) : j \in 1..(Len(q) + 1)
  BY <1>2
<1> HIDE DEF Told
<1> QED
  BY <1>1, <1>2, <1>3, <1>4 DEF Tells

\* The service answers, or tells of a question or an end.
LEMMA AnswerIsAppended ==
  ASSUME NEW said, NEW next, NEW q, Channel(said, next, q), NEW m \in Told,
         m.kind # "message", m.kind = "get" => m.what = said[m.of]
  PROVE  /\ Channel(said, next, Append(q, m))
         /\ \A ms, s : HoldsUpTo(said, q, ms, s, 0) => HoldsUpTo(said, Append(q, m), ms, s, 0)
<1> DEFINE r == Append(q, m)
<1>1. /\ said \in [Session -> Seq(Nat)] /\ q \in Seq(Told) /\ SaidOnce(said, next)
      /\ ToldOnce(said, q) /\ InOrder(said, q) /\ AnswersHold(said, q)
  BY DEF Channel
<1>2. /\ r \in Seq(Told) /\ Len(r) = Len(q) + 1 /\ Len(q) \in Nat
      /\ r[Len(q) + 1] = m /\ \A i \in 1..Len(q) : r[i] = q[i]
  BY <1>1, Places
<1>3. \A i \in 1..Len(r) : i \in 1..Len(q) \/ i = Len(q) + 1
  BY <1>2
<1>4. ASSUME NEW ms, NEW s, NEW i \in Nat, HoldsUpTo(said, q, ms, s, i)
      PROVE  HoldsUpTo(said, r, ms, s, i)
  <2>1. \A k \in 1..Len(said[s]) :
          (\E j \in 1..Len(r) : i < j /\ Tells(r, j, s, said[s][k]))
            <=> \E j \in 1..Len(q) : i < j /\ Tells(q, j, s, said[s][k])
    BY <1>1, StillOnItsWay
  <2> HIDE DEF r
  <2> QED
    BY <1>4, <2>1 DEF HoldsUpTo
<1>5. ToldOnce(said, r)
  <2>1. \A i \in 1..Len(r) : r[i].kind = "message" => i \in 1..Len(q) /\ r[i] = q[i]
    BY <1>2, <1>3
  <2> HIDE DEF r
  <2>2. ASSUME NEW i \in 1..Len(r), r[i].kind = "message"
        PROVE  \E k \in 1..Len(said[r[i].of]) : r[i].what = said[r[i].of][k]
    <3>1. \A j \in 1..Len(q) : q[j].kind = "message" =>
            \E k \in 1..Len(said[q[j].of]) : q[j].what = said[q[j].of][k]
      BY <1>1 DEF ToldOnce
    <3>2. i \in 1..Len(q) /\ r[i] = q[i]
      BY <2>1, <2>2
    <3>3. \E k \in 1..Len(said[q[i].of]) : q[i].what = said[q[i].of][k]
      BY <2>2, <3>1, <3>2
    <3> QED
      BY <3>2, <3>3
  <2>3. ASSUME NEW i \in 1..Len(r), NEW j \in 1..Len(r), r[i].kind = "message",
               r[j].kind = "message", r[i].what = r[j].what
        PROVE  i = j
    <3>1. \A k, l \in 1..Len(q) :
            q[k].kind = "message" /\ q[l].kind = "message" /\ q[k].what = q[l].what => k = l
      BY <1>1 DEF ToldOnce
    <3> QED
      BY <2>1, <2>3, <3>1
  <2> QED
    BY <2>2, <2>3 DEF ToldOnce
<1>6. InOrder(said, r)
  <2> SUFFICES ASSUME NEW s \in Session, NEW k \in 1..Len(said[s]), NEW l \in 1..Len(said[s]),
                      NEW i \in 1..Len(r), k < l, Tells(r, i, s, said[s][k])
               PROVE  \E j \in 1..Len(r) : i < j /\ Tells(r, j, s, said[s][l])
    BY DEF InOrder
  <2>1. i \in 1..Len(q) /\ r[i] = q[i]
    BY <1>2, <1>3 DEF Tells
  <2>2. Tells(q, i, s, said[s][k])
    BY <2>1 DEF Tells
  <2>3. PICK j \in 1..Len(q) : i < j /\ Tells(q, j, s, said[s][l])
    BY <1>1, <2>1, <2>2 DEF InOrder
  <2>4. j \in 1..Len(r) /\ r[j] = q[j]
    BY <1>2
  <2> QED
    BY <2>3, <2>4 DEF Tells
<1>7. AnswersHold(said, r)
  <2> SUFFICES ASSUME NEW i \in 1..Len(r), r[i].kind = "get"
               PROVE  HoldsUpTo(said, r, r[i].what, r[i].of, i)
    BY DEF AnswersHold
  <2>1. CASE i \in 1..Len(q)
    <3>1. HoldsUpTo(said, q, q[i].what, q[i].of, i) /\ r[i] = q[i] /\ i \in Nat
      BY <1>1, <1>2, <2>1 DEF AnswersHold
    <3> QED
      BY <1>4, <3>1
  <2>2. CASE i = Len(q) + 1
    <3>1. r[i] = m /\ m.what = said[m.of] /\ m.of \in Session
      BY <1>2, <2>2 DEF Told
    <3>2. said[m.of] \in Seq(Nat)
      BY <1>1, <3>1
    <3>3. ~\E j \in 1..Len(r) : i < j
      BY <1>2, <2>2
    <3>4. Len(said[m.of]) \in Nat
      BY <3>2
    <3> HIDE DEF r
    <3> QED
      BY <3>1, <3>2, <3>3, <3>4 DEF HoldsUpTo
  <2> QED
    BY <1>3, <2>1, <2>2
<1> QED
  BY <1>1, <1>2, <1>4, <1>5, <1>6, <1>7 DEF Channel

\* A message is said: it is the last of its session and the last on its way.
LEMMA MessageIsSaid ==
  ASSUME NEW said, NEW next, NEW q, Channel(said, next, q), NEW s \in Session
  PROVE  LET after == [said EXCEPT ![s] = Append(@, next)]
             r == Append(q, Tell("message", s, next))
         IN /\ Channel(after, next + 1, r)
            /\ \A u \in Session : \A ms :
                 HoldsUpTo(said, q, ms, u, 0) => HoldsUpTo(after, r, ms, u, 0)
<1> DEFINE m == Tell("message", s, next)
           after == [said EXCEPT ![s] = Append(@, next)]
           r == Append(q, m)
<1>1. /\ said \in [Session -> Seq(Nat)] /\ q \in Seq(Told) /\ SaidOnce(said, next)
      /\ ToldOnce(said, q) /\ InOrder(said, q) /\ AnswersHold(said, q) /\ next \in Nat
  BY DEF Channel
<1>2. m \in Told /\ m.kind = "message" /\ m.of = s /\ m.what = next
  BY <1>1 DEF Told, Tell
<1> HIDE DEF m
<1>3. /\ r \in Seq(Told) /\ Len(r) = Len(q) + 1 /\ Len(q) \in Nat
      /\ r[Len(q) + 1] = m /\ \A i \in 1..Len(q) : r[i] = q[i]
  BY <1>1, <1>2, Places
<1> HIDE DEF r
<1>4. \A i \in 1..Len(r) : i \in 1..Len(q) \/ i = Len(q) + 1
  BY <1>3
<1>5. \A i \in 1..Len(q) : i \in 1..Len(r)
  BY <1>3
<1>6. Len(q) + 1 \in 1..Len(r)
  BY <1>3
<1>7. /\ after \in [Session -> Seq(Nat)] /\ Len(after[s]) = Len(said[s]) + 1
      /\ after[s][Len(said[s]) + 1] = next /\ \A u \in Session \ {s} : after[u] = said[u]
      /\ \A k \in 1..Len(said[s]) : after[s][k] = said[s][k]
      /\ \A u \in Session : said[u] \in Seq(Nat) /\ Len(said[u]) \in Nat
  <2>1. said[s] \in Seq(Nat)
    BY <1>1
  <2>2. after[s] = Append(said[s], next)
    BY <1>1
  <2>3. \A u \in Session \ {s} : after[u] = said[u]
    BY <1>1
  <2>4. /\ Append(said[s], next) \in Seq(Nat) /\ Len(Append(said[s], next)) = Len(said[s]) + 1
        /\ Append(said[s], next)[Len(said[s]) + 1] = next
        /\ \A k \in 1..Len(said[s]) : Append(said[s], next)[k] = said[s][k]
    BY <1>1, <2>1
  <2>5. \A u \in Session : said[u] \in Seq(Nat) /\ Len(said[u]) \in Nat
    BY <1>1
  <2>6. after \in [Session -> Seq(Nat)]
    BY <1>1, <2>1, <2>4
  <2> HIDE DEF after
  <2> QED
    BY <2>2, <2>3, <2>4, <2>5, <2>6
<1> HIDE DEF after
<1>8. \A u \in Session : \A k \in 1..Len(after[u]) :
        \/ k \in 1..Len(said[u]) /\ after[u][k] = said[u][k] /\ said[u][k] < next
        \/ u = s /\ k = Len(said[s]) + 1 /\ after[u][k] = next
  BY <1>1, <1>7 DEF SaidOnce
<1>9. \A u \in Session : \A k \in 1..Len(said[u]) :
        /\ k \in 1..Len(after[u]) /\ after[u][k] = said[u][k]
        /\ said[u][k] < next /\ said[u][k] \in Nat
  <2> SUFFICES ASSUME NEW u \in Session, NEW k \in 1..Len(said[u])
               PROVE  /\ k \in 1..Len(after[u]) /\ after[u][k] = said[u][k]
                      /\ said[u][k] < next /\ said[u][k] \in Nat
    OBVIOUS
  <2>1. said[u][k] < next
    BY <1>1 DEF SaidOnce
  <2>2. said[u] \in Seq(Nat) /\ Len(said[u]) \in Nat
    BY <1>7
  <2>3. said[u][k] \in Nat
    BY <2>2
  <2>4. CASE u = s
    BY <1>7, <2>1, <2>2, <2>3, <2>4
  <2>5. CASE u # s
    BY <1>7, <2>1, <2>3, <2>5
  <2> QED
    BY <2>4, <2>5
<1>9a. \A u \in Session : Len(after[u]) \in Nat /\ Len(said[u]) <= Len(after[u])
  <2> SUFFICES ASSUME NEW u \in Session
               PROVE  Len(after[u]) \in Nat /\ Len(said[u]) <= Len(after[u])
    OBVIOUS
  <2>1. CASE u = s
    BY <1>7, <2>1
  <2>2. CASE u # s
    BY <1>7, <2>2
  <2> QED
    BY <2>1, <2>2
<1>10. \A i \in 1..Len(q) : q[i].kind = "message" => q[i].of \in Session /\ q[i].what # next
  <2> SUFFICES ASSUME NEW i \in 1..Len(q), q[i].kind = "message"
               PROVE  q[i].of \in Session /\ q[i].what # next
    OBVIOUS
  <2>1. q[i] \in Told
    BY <1>1
  <2>2. q[i].of \in Session
    BY <2>1 DEF Told
  <2>3. PICK k \in 1..Len(said[q[i].of]) : q[i].what = said[q[i].of][k]
    BY <1>1 DEF ToldOnce
  <2> QED
    BY <1>9, <2>2, <2>3
<1>11. SaidOnce(after, next + 1)
  <2>1. \A u \in Session : \A k \in 1..Len(after[u]) : after[u][k] < next + 1
    BY <1>1, <1>8, <1>9
  <2>2. ASSUME NEW u \in Session, NEW v \in Session, NEW k \in 1..Len(after[u]),
               NEW l \in 1..Len(after[v]), after[u][k] = after[v][l]
        PROVE  u = v /\ k = l
    <3>1. CASE k \in 1..Len(said[u]) /\ l \in 1..Len(said[v])
      BY <1>1, <1>9, <2>2, <3>1 DEF SaidOnce
    <3>2. CASE k \notin 1..Len(said[u])
      <4>1. u = s /\ k = Len(said[s]) + 1 /\ after[v][l] = next
        BY <1>8, <2>2, <3>2
      <4>2. ~(after[v][l] < next)
        BY <1>1, <4>1
      <4>3. v = s /\ l = Len(said[s]) + 1
        BY <1>8, <4>2
      <4> QED
        BY <4>1, <4>3
    <3>3. CASE l \notin 1..Len(said[v])
      <4>1. v = s /\ l = Len(said[s]) + 1 /\ after[u][k] = next
        BY <1>8, <2>2, <3>3
      <4>2. ~(after[u][k] < next)
        BY <1>1, <4>1
      <4>3. u = s /\ k = Len(said[s]) + 1
        BY <1>8, <4>2
      <4> QED
        BY <4>1, <4>3
    <3> QED
      BY <3>1, <3>2, <3>3
  <2> QED
    BY <2>1, <2>2 DEF SaidOnce
<1>12. ToldOnce(after, r)
  <2>1. ASSUME NEW i \in 1..Len(r), r[i].kind = "message"
        PROVE  \E k \in 1..Len(after[r[i].of]) : r[i].what = after[r[i].of][k]
    <3>1. CASE i \in 1..Len(q)
      <4>1. PICK k \in 1..Len(said[q[i].of]) : q[i].what = said[q[i].of][k]
        BY <1>1, <1>3, <2>1, <3>1 DEF ToldOnce
      <4> QED
        BY <1>3, <1>9, <1>10, <2>1, <3>1, <4>1
    <3>2. CASE i = Len(q) + 1
      BY <1>2, <1>3, <1>7, <3>2
    <3> QED
      BY <1>4, <3>1, <3>2
  <2>2. ASSUME NEW i \in 1..Len(r), NEW j \in 1..Len(r), r[i].kind = "message",
               r[j].kind = "message", r[i].what = r[j].what
        PROVE  i = j
    <3>1. CASE i \in 1..Len(q) /\ j \in 1..Len(q)
      BY <1>1, <1>3, <2>2, <3>1 DEF ToldOnce
    <3>2. CASE i \notin 1..Len(q)
      BY <1>2, <1>3, <1>4, <1>10, <2>2, <3>2
    <3>3. CASE j \notin 1..Len(q)
      BY <1>2, <1>3, <1>4, <1>10, <2>2, <3>3
    <3> QED
      BY <3>1, <3>2, <3>3
  <2> QED
    BY <2>1, <2>2 DEF ToldOnce
<1>13. ASSUME NEW u \in Session, NEW k \in 1..Len(said[u]), NEW i \in Nat
       PROVE  (\E j \in 1..Len(r) : i < j /\ Tells(r, j, u, after[u][k]))
                <=> \E j \in 1..Len(q) : i < j /\ Tells(q, j, u, said[u][k])
  <2>1. after[u][k] = said[u][k] /\ said[u][k] # next
    BY <1>1, <1>9
  <2> QED
    BY <1>2, <1>3, <1>4, <1>5, <2>1 DEF Tells
<1>14. InOrder(after, r)
  <2> SUFFICES ASSUME NEW u \in Session, NEW k \in 1..Len(after[u]), NEW l \in 1..Len(after[u]),
                      NEW i \in 1..Len(r), k < l, Tells(r, i, u, after[u][k])
               PROVE  \E j \in 1..Len(r) : i < j /\ Tells(r, j, u, after[u][l])
    BY DEF InOrder
  <2>1. k \in 1..Len(said[u]) /\ after[u][k] = said[u][k] /\ said[u][k] < next
    BY <1>7, <1>8
  <2>2. i \in 1..Len(q) /\ r[i] = q[i] /\ Tells(q, i, u, said[u][k])
    BY <1>1, <1>2, <1>3, <1>4, <1>9, <2>1 DEF Tells
  <2>3. CASE l \in 1..Len(said[u])
    <3>1. \E j \in 1..Len(q) : i < j /\ Tells(q, j, u, said[u][l])
      BY <1>1, <2>1, <2>2, <2>3 DEF InOrder
    <3>2. i \in Nat
      BY <1>3
    <3> QED
      BY <1>13, <2>3, <3>1, <3>2
  <2>4. CASE l \notin 1..Len(said[u])
    <3>1. u = s /\ after[u][l] = next
      BY <1>8, <2>4
    <3>2. i < Len(q) + 1
      BY <1>3, <2>2
    <3>3. Tells(r, Len(q) + 1, u, after[u][l])
      BY <1>2, <1>3, <3>1 DEF Tells
    <3> QED
      BY <1>6, <3>2, <3>3
  <2> QED
    BY <2>3, <2>4
<1>15. ASSUME NEW ms, NEW u \in Session, NEW i \in Nat, i <= Len(q), HoldsUpTo(said, q, ms, u, i)
       PROVE  HoldsUpTo(after, r, ms, u, i)
  <2>1. ms \in Seq(Nat) /\ Len(ms) \in Nat /\ Len(ms) <= Len(said[u])
    BY <1>15 DEF HoldsUpTo
  <2>2. Len(ms) <= Len(after[u])
    BY <1>7, <1>9a, <2>1
  <2>3. \A k \in 1..Len(ms) : k \in 1..Len(said[u]) /\ ms[k] = after[u][k]
    <3>1. \A k \in 1..Len(ms) : k \in 1..Len(said[u])
      BY <1>7, <2>1
    <3>2. \A k \in 1..Len(ms) : ms[k] = said[u][k]
      BY <1>15 DEF HoldsUpTo
    <3> QED
      BY <1>9, <3>1, <3>2
  <2>4. ASSUME NEW k \in 1..Len(after[u])
        PROVE  k > Len(ms) <=> \E j \in 1..Len(r) : i < j /\ Tells(r, j, u, after[u][k])
    <3>1. CASE k \in 1..Len(said[u])
      BY <1>13, <1>15, <3>1 DEF HoldsUpTo
    <3>2. CASE k \notin 1..Len(said[u])
      <4>1. u = s /\ k = Len(said[s]) + 1 /\ after[u][k] = next
        BY <1>8, <3>2
      <4>2. k > Len(ms) /\ i < Len(q) + 1
        BY <1>3, <1>7, <1>15, <2>1, <4>1
      <4> QED
        BY <1>2, <1>3, <1>6, <4>1, <4>2 DEF Tells
    <3> QED
      BY <3>1, <3>2
  <2> QED
    BY <2>1, <2>2, <2>3, <2>4 DEF HoldsUpTo
<1>16. AnswersHold(after, r)
  <2> SUFFICES ASSUME NEW i \in 1..Len(r), r[i].kind = "get"
               PROVE  HoldsUpTo(after, r, r[i].what, r[i].of, i)
    BY DEF AnswersHold
  <2>1. i \in 1..Len(q) /\ r[i] = q[i]
    BY <1>2, <1>3, <1>4
  <2>2. HoldsUpTo(said, q, q[i].what, q[i].of, i) /\ i \in Nat /\ i <= Len(q)
    BY <1>1, <1>3, <2>1 DEF AnswersHold
  <2>3. q[i].of \in Session
    <3>1. q[i] \in Told /\ q[i].kind = "get"
      BY <1>1, <2>1
    <3> QED
      BY <3>1 DEF Told
  <2> QED
    BY <1>15, <2>1, <2>2, <2>3
<1>17. next + 1 \in Nat /\ 0 \in Nat /\ 0 <= Len(q)
  BY <1>1, <1>3
<1>18. Channel(after, next + 1, r)
  BY <1>3, <1>7, <1>11, <1>12, <1>14, <1>16, <1>17 DEF Channel
<1>19. \A u \in Session : \A ms : HoldsUpTo(said, q, ms, u, 0) => HoldsUpTo(after, r, ms, u, 0)
  BY <1>15, <1>17
<1> QED
  BY <1>18, <1>19 DEF m, after, r

\* What is first on its way is taken, and the rest still is what it was.
LEMMA FirstIsTaken ==
  ASSUME NEW said, NEW next, NEW q, Channel(said, next, q), q # <<>>
  PROVE  /\ Channel(said, next, Tail(q)) /\ q[1] \in Told /\ Head(q) = q[1]
         /\ 1 \in 1..Len(q)
         /\ \A ms, s : HoldsUpTo(said, q, ms, s, 1) => HoldsUpTo(said, Tail(q), ms, s, 0)
<1> DEFINE r == Tail(q)
<1>1. /\ said \in [Session -> Seq(Nat)] /\ q \in Seq(Told) /\ SaidOnce(said, next)
      /\ ToldOnce(said, q) /\ InOrder(said, q) /\ AnswersHold(said, q) /\ next \in Nat
  BY DEF Channel
<1>2. /\ r \in Seq(Told) /\ Len(q) = Len(r) + 1 /\ Len(r) \in Nat /\ Head(q) = q[1]
      /\ q[1] \in Told /\ \A i \in 1..Len(r) : r[i] = q[i + 1]
  BY <1>1, Places
<1> HIDE DEF r
<1>3. \A i \in 1..Len(r) : i + 1 \in 1..Len(q) /\ r[i] = q[i + 1] /\ i \in Nat
  BY <1>2
<1>4. \A j \in 1..Len(q) : 1 < j => j - 1 \in 1..Len(r) /\ r[j - 1] = q[j]
  <2> SUFFICES ASSUME NEW j \in 1..Len(q), 1 < j
               PROVE  j - 1 \in 1..Len(r) /\ r[j - 1] = q[j]
    OBVIOUS
  <2>1. j - 1 \in 1..Len(r) /\ (j - 1) + 1 = j
    BY <1>2
  <2> QED
    BY <1>2, <2>1
<1>5. ASSUME NEW s, NEW n, NEW i \in Nat
      PROVE  (\E j \in 1..Len(r) : i < j /\ Tells(r, j, s, n))
               <=> \E j \in 1..Len(q) : i + 1 < j /\ Tells(q, j, s, n)
  <2>1. ASSUME NEW j \in 1..Len(r), i < j, Tells(r, j, s, n)
        PROVE  j + 1 \in 1..Len(q) /\ i + 1 < j + 1 /\ Tells(q, j + 1, s, n)
    BY <1>2, <1>3, <2>1 DEF Tells
  <2>2. ASSUME NEW j \in 1..Len(q), i + 1 < j, Tells(q, j, s, n)
        PROVE  j - 1 \in 1..Len(r) /\ i < j - 1 /\ Tells(r, j - 1, s, n)
    BY <1>2, <1>4, <2>2 DEF Tells
  <2> QED
    BY <2>1, <2>2
<1>6. ASSUME NEW ms, NEW s, NEW i \in Nat, HoldsUpTo(said, q, ms, s, i + 1)
      PROVE  HoldsUpTo(said, r, ms, s, i)
  BY <1>5, <1>6 DEF HoldsUpTo
<1>7. ToldOnce(said, r)
  <2>1. ASSUME NEW i \in 1..Len(r), r[i].kind = "message"
        PROVE  \E k \in 1..Len(said[r[i].of]) : r[i].what = said[r[i].of][k]
    <3>1. i + 1 \in 1..Len(q) /\ r[i] = q[i + 1]
      BY <1>3
    <3>2. \A j \in 1..Len(q) : q[j].kind = "message" =>
            \E k \in 1..Len(said[q[j].of]) : q[j].what = said[q[j].of][k]
      BY <1>1 DEF ToldOnce
    <3> HIDE DEF ToldOnce
    <3>3. \E k \in 1..Len(said[q[i + 1].of]) : q[i + 1].what = said[q[i + 1].of][k]
      BY <2>1, <3>1, <3>2
    <3> QED
      BY <3>1, <3>3
  <2>2. ASSUME NEW i \in 1..Len(r), NEW j \in 1..Len(r), r[i].kind = "message",
               r[j].kind = "message", r[i].what = r[j].what
        PROVE  i = j
    <3>1. i + 1 = j + 1
      BY <1>1, <1>3, <2>2 DEF ToldOnce
    <3> QED
      BY <3>1
  <2> QED
    BY <2>1, <2>2 DEF ToldOnce
<1>8. InOrder(said, r)
  <2> SUFFICES ASSUME NEW s \in Session, NEW k \in 1..Len(said[s]), NEW l \in 1..Len(said[s]),
                      NEW i \in 1..Len(r), k < l, Tells(r, i, s, said[s][k])
               PROVE  \E j \in 1..Len(r) : i < j /\ Tells(r, j, s, said[s][l])
    BY DEF InOrder
  <2>1. i + 1 \in 1..Len(q) /\ Tells(q, i + 1, s, said[s][k]) /\ i \in Nat
    BY <1>3 DEF Tells
  <2>2. \E j \in 1..Len(q) : i + 1 < j /\ Tells(q, j, s, said[s][l])
    BY <1>1, <2>1 DEF InOrder
  <2> QED
    BY <1>5, <2>1, <2>2
<1>9. AnswersHold(said, r)
  <2> SUFFICES ASSUME NEW i \in 1..Len(r), r[i].kind = "get"
               PROVE  HoldsUpTo(said, r, r[i].what, r[i].of, i)
    BY DEF AnswersHold
  <2>1. HoldsUpTo(said, q, r[i].what, r[i].of, i + 1)
    BY <1>1, <1>3 DEF AnswersHold
  <2> QED
    BY <1>3, <1>6, <2>1
<1>10. \A ms, s : HoldsUpTo(said, q, ms, s, 1) => HoldsUpTo(said, r, ms, s, 0)
  BY <1>6
<1> QED
  BY <1>1, <1>2, <1>7, <1>8, <1>9, <1>10 DEF Channel, r

\* What is first is of no message of s: a text of s is as complete as it was.
LEMMA NothingOfItsOwn ==
  ASSUME NEW said, NEW next, NEW q, Channel(said, next, q), q # <<>>, NEW s, NEW ms,
         HoldsUpTo(said, q, ms, s, 0), ~(q[1].kind = "message" /\ q[1].of = s)
  PROVE  HoldsUpTo(said, Tail(q), ms, s, 0)
<1>1. \A n : ~Tells(q, 1, s, n)
  BY DEF Tells
<1>2. \A j \in 1..Len(q) : 0 < j <=> j = 1 \/ 1 < j
  BY DEF Channel
<1>3. \A n : (\E j \in 1..Len(q) : 0 < j /\ Tells(q, j, s, n))
               <=> \E j \in 1..Len(q) : 1 < j /\ Tells(q, j, s, n)
  BY <1>1, <1>2
<1>4. HoldsUpTo(said, q, ms, s, 1)
  BY <1>3 DEF HoldsUpTo
<1> QED
  BY <1>4, FirstIsTaken

\* An answer that is first holds what was said but for what is behind it.
LEMMA AnswerIsFirst ==
  ASSUME NEW said, NEW next, NEW q, Channel(said, next, q), q # <<>>, q[1].kind = "get"
  PROVE  HoldsUpTo(said, Tail(q), q[1].what, q[1].of, 0)
<1>1. HoldsUpTo(said, q, q[1].what, q[1].of, 1)
  BY FirstIsTaken DEF Channel, AnswersHold
<1> QED
  BY <1>1, FirstIsTaken

\* A message of s that is first is the next one of a text of s.
LEMMA MessageIsNext ==
  ASSUME NEW said, NEW next, NEW q, Channel(said, next, q), q # <<>>, NEW s \in Session, NEW ms,
         HoldsUpTo(said, q, ms, s, 0), q[1].kind = "message", q[1].of = s
  PROVE  /\ ~Contains(ms, q[1].what)
         /\ HoldsUpTo(said, Tail(q), Append(ms, q[1].what), s, 0)
<1> DEFINE n == q[1].what
           L == Len(ms) + 1
<1>1. /\ said \in [Session -> Seq(Nat)] /\ q \in Seq(Told) /\ SaidOnce(said, next)
      /\ ToldOnce(said, q) /\ InOrder(said, q)
  BY DEF Channel
<1>2. said[s] \in Seq(Nat) /\ Len(said[s]) \in Nat /\ 1 \in 1..Len(q)
  BY <1>1, FirstIsTaken
<1>3. /\ ms \in Seq(Nat) /\ Len(ms) \in Nat /\ Len(ms) <= Len(said[s])
      /\ \A k \in 1..Len(ms) : ms[k] = said[s][k]
      /\ \A k \in 1..Len(said[s]) :
           k > Len(ms) <=> \E j \in 1..Len(q) : 0 < j /\ Tells(q, j, s, said[s][k])
  BY DEF HoldsUpTo
<1>4. \A j \in 1..Len(q) : Tells(q, j, s, n) => j = 1
  BY <1>1, <1>2 DEF ToldOnce, Tells
<1>5. \A k, l \in 1..Len(said[s]) : said[s][k] = said[s][l] => k = l
  BY <1>1 DEF SaidOnce
<1>6. PICK k \in 1..Len(said[s]) : n = said[s][k]
  BY <1>1, <1>2 DEF ToldOnce
<1>7. k > Len(ms)
  <2>1. 0 < 1 /\ Tells(q, 1, s, said[s][k])
    BY <1>6 DEF Tells
  <2> QED
    BY <1>2, <1>3, <2>1
<1>8. k = L
  <2> SUFFICES ASSUME k # L
               PROVE  FALSE
    OBVIOUS
  <2>1. L \in 1..Len(said[s]) /\ L > Len(ms) /\ L < k
    BY <1>2, <1>3, <1>7
  <2>2. PICK j \in 1..Len(q) : Tells(q, j, s, said[s][L])
    BY <1>3, <2>1
  <2>3. PICK i \in 1..Len(q) : j < i /\ Tells(q, i, s, said[s][k])
    BY <1>1, <2>1, <2>2 DEF InOrder
  <2>4. i = 1
    BY <1>4, <1>6, <2>3
  <2> QED
    BY <2>3, <2>4
<1>9. n \in Nat
  BY <1>2, <1>6
<1> HIDE DEF n
<1>10. /\ Append(ms, n) \in Seq(Nat) /\ Len(Append(ms, n)) = L /\ Append(ms, n)[L] = n
       /\ \A i \in 1..Len(ms) : Append(ms, n)[i] = ms[i]
  BY <1>3, <1>9
<1>11. \A i \in 1..Len(Append(ms, n)) : Append(ms, n)[i] = said[s][i]
  <2>1. \A i \in 1..L : i \in 1..Len(ms) \/ i = L
    BY <1>3
  <2> QED
    BY <1>3, <1>6, <1>8, <1>10, <2>1
<1>12. ASSUME NEW l \in 1..Len(said[s])
       PROVE  l > L <=> \E j \in 1..Len(q) : 1 < j /\ Tells(q, j, s, said[s][l])
  <2>1. ASSUME l > L
        PROVE  \E j \in 1..Len(q) : 1 < j /\ Tells(q, j, s, said[s][l])
    <3>1. l > Len(ms)
      BY <1>3, <2>1
    <3>2. PICK j \in 1..Len(q) : 0 < j /\ Tells(q, j, s, said[s][l])
      BY <1>3, <3>1
    <3>3. j # 1
      <4>1. said[s][l] # said[s][k]
        BY <1>3, <1>5, <1>8, <2>1
      <4> QED
        BY <1>6, <3>2, <4>1 DEF Tells, n
    <3>4. 1 < j
      BY <3>2, <3>3
    <3> QED
      BY <3>2, <3>4
  <2>2. ASSUME NEW j \in 1..Len(q), 1 < j, Tells(q, j, s, said[s][l])
        PROVE  l > L
    <3>1. 0 < j
      BY <2>2
    <3>2. l > Len(ms)
      BY <1>3, <2>2, <3>1
    <3>3. l # L
      BY <1>4, <1>6, <1>8, <2>2
    <3> QED
      BY <1>3, <3>2, <3>3
  <2> QED
    BY <2>1, <2>2
<1>13. L <= Len(said[s])
  BY <1>8
<1>14. HoldsUpTo(said, q, Append(ms, n), s, 1)
  BY <1>10, <1>11, <1>12, <1>13 DEF HoldsUpTo
<1>15. HoldsUpTo(said, Tail(q), Append(ms, n), s, 0)
  BY <1>14, FirstIsTaken
<1>16. ~Contains(ms, n)
  <2> SUFFICES ASSUME NEW i \in 1..Len(ms), ms[i] = n
               PROVE  FALSE
    BY DEF Contains
  <2>1. i \in 1..Len(said[s]) /\ said[s][i] = said[s][k] /\ i < L
    BY <1>2, <1>3, <1>6
  <2> QED
    BY <1>5, <1>8, <2>1
<1> QED
  BY <1>15, <1>16 DEF n

\* The page's store has its fields.
LEMMA PageFields ==
  ASSUME page \in PageState
  PROVE  /\ page.sessions \subseteq Session /\ page.active \in Session \cup {NoSession}
         /\ page.messages \in Seq(Nat) /\ page.confirmation \in Session \cup {NoSession}
         /\ \A p \in Place : [page EXCEPT !.project = p] \in PageState
         /\ \A b \in BOOLEAN : [page EXCEPT !.busy = b] \in PageState
         /\ \A S \in SUBSET Session : [page EXCEPT !.sessions = S] \in PageState
         /\ \A ms \in Seq(Nat) : [page EXCEPT !.messages = ms] \in PageState
         /\ \A c \in Session \cup {NoSession} : [page EXCEPT !.confirmation = c] \in PageState
         /\ \A s \in Session \cup {NoSession}, ms \in Seq(Nat) :
              /\ [page EXCEPT !.active = s, !.messages = ms] \in PageState
              /\ [page EXCEPT !.active = s, !.messages = ms, !.confirmation = NoSession]
                   \in PageState
  BY DEF PageState

\* What is asked of the service is appended to what is on its way to it.
LEMMA AskIsAppended ==
  ASSUME toService \in Seq(Asked), NEW kind, NEW of,
         \/ kind \in {"list", "create", "createFirst"} /\ of \in Place
         \/ kind \in {"get", "archive", "prompt", "cancel", "confirm"} /\ of \in Session
  PROVE  Append(toService, Ask(kind, of)) \in Seq(Asked)
<1>1. Ask(kind, of) \in Asked
  BY DEF Ask, Asked
<1> HIDE DEF Asked
<1> QED
  BY <1>1

\* At first nothing was said and nothing is on its way.
LEMMA PageBegins == PageInit => PageInv
<1> SUFFICES ASSUME PageInit
             PROVE  PageInv
  OBVIOUS
<1>1. page \in PageState /\ page.active = NoSession /\ page.messages = <<>>
  BY DEF PageInit, EmptyPage, PageState
<1>2. /\ talks.there = {} /\ talks.closed = {} /\ talks.said = [s \in Session |-> <<>>]
      /\ talks.next = 1 /\ prompting = {} /\ toService = <<>> /\ toPage = <<>>
  BY DEF PageInit
<1>3. talks.said \in [Session -> Seq(Nat)] /\ talks.next \in Nat /\ talks \in TalkState
  BY DEF PageInit, TalkState
<1>4. \A s \in Session : 1..Len(talks.said[s]) = {}
  BY <1>2
<1>5. 1..Len(toPage) = {} /\ toPage \in Seq(Told) /\ toService \in Seq(Asked)
  BY <1>2
<1>6. Channel(talks.said, talks.next, toPage)
  BY <1>3, <1>4, <1>5 DEF Channel, SaidOnce, ToldOnce, InOrder, AnswersHold
<1> QED
  BY <1>1, <1>2, <1>3, <1>5, <1>6 DEF PageInv

\* What the user does asks something of the service, or marks the page busy.
LEMMA ClicksKeep ==
  ASSUME PageInv, page' \in PageState, toService' \in Seq(Asked),
         page'.active = page.active, page'.messages = page.messages,
         page'.confirmation = page.confirmation, UNCHANGED <<talks, prompting, toPage>>
  PROVE  PageInv'
<1>1. /\ page'.active = NoSession => page'.messages = <<>>
      /\ page'.active # NoSession =>
           /\ HoldsUpTo(talks.said, toPage, page'.messages, page'.active, 0)
           /\ page'.confirmation \in {NoSession, page'.active}
  BY DEF PageInv
<1> QED
  BY <1>1 DEF PageInv

\* Something else than a message is told.
LEMMA AnswersKeep ==
  ASSUME PageInv, NEW m \in Told, m.kind # "message",
         m.kind = "get" => m.what = talks.said[m.of], toPage' = Append(toPage, m),
         talks'.said = talks.said, talks'.next = talks.next,
         talks' \in TalkState,
         prompting' \subseteq Session, toService' \in Seq(Asked), page' = page
  PROVE  PageInv'
<1>1. /\ Channel(talks.said, talks.next, Append(toPage, m))
      /\ \A ms, s : HoldsUpTo(talks.said, toPage, ms, s, 0)
                      => HoldsUpTo(talks.said, Append(toPage, m), ms, s, 0)
  BY AnswerIsAppended DEF PageInv
<1>2. Channel(talks'.said, talks'.next, toPage')
  BY <1>1
<1>3. page.active # NoSession =>
        /\ HoldsUpTo(talks'.said, toPage', page.messages, page.active, 0)
        /\ page.confirmation \in {NoSession, page.active}
  BY <1>1 DEF PageInv
<1> QED
  BY <1>2, <1>3 DEF PageInv

\* A message is said and told.
LEMMA SayingKeeps ==
  ASSUME PageInv, NEW s \in Session, talks' = Say(talks, s),
         toPage' = Append(toPage, Said(s)),
         prompting' \subseteq Session, toService' \in Seq(Asked), page' = page
  PROVE  PageInv'
<1> DEFINE after == [talks.said EXCEPT ![s] = Append(@, talks.next)]
<1>1. talks \in TalkState /\ talks' = [talks EXCEPT !.said = after, !.next = talks.next + 1]
  BY DEF Say, PageInv
<1>1a. /\ talks'.said = after /\ talks'.next = talks.next + 1
       /\ talks'.there = talks.there /\ talks'.closed = talks.closed
  BY <1>1 DEF TalkState
<1>1b. talks' \in TalkState
  <2>1. after \in [Session -> Seq(Nat)]
    BY <1>1 DEF TalkState
  <2> HIDE DEF after
  <2>2. talks' = [there |-> talks.there, closed |-> talks.closed,
                  said |-> after, next |-> talks.next + 1]
    BY <1>1 DEF TalkState
  <2>3. talks.next + 1 \in Nat /\ talks.there \subseteq Session /\ talks.closed \subseteq Session
    BY <1>1 DEF TalkState
  <2> QED
    BY <2>1, <2>2, <2>3 DEF TalkState
<1>2. /\ Channel(after, talks.next + 1, toPage')
      /\ \A u \in Session : \A ms : HoldsUpTo(talks.said, toPage, ms, u, 0)
                                      => HoldsUpTo(after, toPage', ms, u, 0)
  BY MessageIsSaid DEF PageInv, Said
<1>3. page.active \in Session \cup {NoSession}
  BY PageFields DEF PageInv
<1> HIDE DEF after
<1>4. page.active # NoSession =>
        /\ HoldsUpTo(talks'.said, toPage', page.messages, page.active, 0)
        /\ page.confirmation \in {NoSession, page.active}
  BY <1>1a, <1>2, <1>3 DEF PageInv
<1> QED
  BY <1>1a, <1>1b, <1>2, <1>4 DEF PageInv

\* The service takes what was asked first, and answers it.
LEMMA ServiceAnswers == ASSUME PageInv, ServeAsk
                        PROVE  PageInv'
<1> DEFINE ask == Head(toService)
           p == ask.of
<1>1. /\ toService \in Seq(Asked) /\ toService # <<>> /\ toService' = Tail(toService)
      /\ page' = page /\ talks \in TalkState /\ prompting \subseteq Session
  BY DEF ServeAsk, PageInv
<1>2. ask \in Asked /\ toService' \in Seq(Asked)
  <2> HIDE DEF Asked
  <2> QED
    BY <1>1
<1>3. talks.there \subseteq Session /\ talks.closed \subseteq Session
  BY <1>1 DEF TalkState
<1>4. /\ ask.kind \in {"list", "create", "createFirst"} => p \in Place
      /\ ask.kind \in {"get", "archive", "prompt", "cancel", "confirm"} => p \in Session
  BY <1>2 DEF Asked
<1> HIDE DEF ask
<1>5. CASE /\ ask.kind = "list" /\ UNCHANGED <<talks, prompting>>
           /\ LET of == {s \in talks.there : SessionOf[s] = p}
                  list == [all |-> of, open |-> of \ talks.closed]
              IN toPage' = Append(toPage, Tell("list", p, list))
  <2> DEFINE of == {s \in talks.there : SessionOf[s] = p}
             m == Tell("list", p, [all |-> of, open |-> of \ talks.closed])
  <2>1. of \subseteq Session /\ of \ talks.closed \subseteq Session
    BY <1>3
  <2>2. m \in Told /\ m.kind = "list"
    <3> HIDE DEF of
    <3> QED
      BY <1>4, <1>5, <2>1 DEF Told, Tell
  <2>3. toPage' = Append(toPage, m)
    BY <1>5
  <2> HIDE DEF m
  <2> QED
    BY <1>1, <1>2, <1>5, <2>2, <2>3, AnswersKeep
<1>6. CASE /\ ask.kind \in {"create", "createFirst"} /\ UNCHANGED prompting
           /\ \E s \in Session \ talks.there :
                /\ SessionOf[s] = p /\ talks' = [talks EXCEPT !.there = @ \cup {s}]
                /\ toPage' = Append(toPage, Tell(ask.kind, p, s))
  <2>1. PICK s \in Session \ talks.there :
               /\ talks' = [talks EXCEPT !.there = @ \cup {s}]
               /\ toPage' = Append(toPage, Tell(ask.kind, p, s))
    BY <1>6
  <2> DEFINE m == Tell(ask.kind, p, s)
  <2>2. m \in Told /\ m.kind \in {"create", "createFirst"}
    BY <1>4, <1>6 DEF Told, Tell
  <2>3. talks' \in TalkState /\ talks'.said = talks.said /\ talks'.next = talks.next
    <3>1. talks.there \cup {s} \subseteq Session
      BY <1>3
    <3>2. \A t \in TalkState, S \in SUBSET Session :
            /\ [t EXCEPT !.there = S] \in TalkState
            /\ [t EXCEPT !.there = S].said = t.said /\ [t EXCEPT !.there = S].next = t.next
      BY DEF TalkState
    <3> QED
      BY <1>1, <2>1, <3>1, <3>2
  <2>4. toPage' = Append(toPage, m)
    BY <2>1
  <2> HIDE DEF m
  <2> QED
    BY <1>1, <1>2, <1>6, <2>2, <2>3, <2>4, AnswersKeep
<1>7. CASE /\ ask.kind = "get" /\ UNCHANGED <<talks, prompting>>
           /\ toPage' = Append(toPage, Tell("get", p, talks.said[p]))
  <2> DEFINE m == Tell("get", p, talks.said[p])
  <2>1. talks.said[p] \in Seq(Nat)
    BY <1>1, <1>4, <1>7 DEF TalkState
  <2>2. m \in Told /\ m.kind = "get" /\ m.what = talks.said[m.of]
    BY <1>4, <1>7, <2>1 DEF Told, Tell
  <2>3. toPage' = Append(toPage, m)
    BY <1>7
  <2> HIDE DEF m
  <2> QED
    BY <1>1, <1>2, <1>7, <2>2, <2>3, AnswersKeep
<1>8. ASSUME NEW kind \in {"archive", "failed", "cancel", "confirm"}, p \in Session,
             toPage' = Append(toPage, Tell(kind, p, 0)), UNCHANGED prompting,
             talks' \in TalkState, talks'.said = talks.said, talks'.next = talks.next
      PROVE  PageInv'
  <2> DEFINE m == Tell(kind, p, 0)
  <2>1. m \in Told /\ m.kind = kind
    BY <1>8 DEF Told, Tell
  <2>2. toPage' = Append(toPage, m) /\ m.kind # "message" /\ m.kind # "get"
    BY <1>8, <2>1
  <2> HIDE DEF m
  <2> QED
    BY <1>1, <1>2, <1>8, <2>1, <2>2, AnswersKeep
<1>9. CASE /\ ask.kind = "archive" /\ talks' = [talks EXCEPT !.closed = @ \cup {p}]
           /\ UNCHANGED prompting /\ toPage' = Append(toPage, Tell("archive", p, 0))
  <2>1. p \in Session /\ talks.closed \cup {p} \subseteq Session
    BY <1>3, <1>4, <1>9
  <2>2. \A t \in TalkState, S \in SUBSET Session :
          /\ [t EXCEPT !.closed = S] \in TalkState
          /\ [t EXCEPT !.closed = S].said = t.said /\ [t EXCEPT !.closed = S].next = t.next
    BY DEF TalkState
  <2>3. talks' \in TalkState /\ talks'.said = talks.said /\ talks'.next = talks.next
    BY <1>1, <1>9, <2>1, <2>2
  <2> QED
    BY <1>8, <1>9, <2>1, <2>3
<1>10. CASE /\ ask.kind = "prompt"
            /\ toPage' = Append(toPage, Tell("failed", p, 0)) /\ UNCHANGED <<talks, prompting>>
  BY <1>1, <1>4, <1>8, <1>10
<1>11. CASE /\ ask.kind = "prompt"
            /\ talks' = Say(talks, p) /\ prompting' = prompting \cup {p}
            /\ toPage' = Append(toPage, Said(p))
  <2>1. p \in Session /\ prompting' \subseteq Session
    BY <1>1, <1>4, <1>11
  <2> QED
    BY <1>1, <1>2, <1>11, <2>1, SayingKeeps
<1>12. CASE /\ ask.kind \in {"cancel", "confirm"} /\ UNCHANGED <<talks, prompting>>
            /\ toPage' = Append(toPage, Tell(ask.kind, p, 0))
  BY <1>1, <1>4, <1>8, <1>12
<1> QED
  BY <1>5, <1>6, <1>7, <1>9, <1>10, <1>11, <1>12, Zenon DEF ServeAsk, ask

\* The agent says something or asks; a prompt ends and is answered.
LEMMA AgentTells ==
  ASSUME PageInv, NEW s \in Session, AgentSays(s) \/ AgentAsks(s) \/ TalkEnds(s)
  PROVE  PageInv'
<1>1. /\ toService \in Seq(Asked) /\ talks \in TalkState /\ prompting \subseteq Session
      /\ toPage \in Seq(Told)
  BY DEF PageInv, Channel
<1>2. CASE AgentSays(s)
  BY <1>1, <1>2, SayingKeeps DEF AgentSays
<1>3. \A kind \in {"confirmation", "end", "prompt"} :
        Tell(kind, s, 0) \in Told /\ Tell(kind, s, 0).kind = kind
  BY DEF Tell, Told
<1>4. CASE AgentAsks(s)
  <2> DEFINE m == Tell("confirmation", s, 0)
  <2>1. m \in Told /\ m.kind # "message" /\ m.kind # "get"
    BY <1>3
  <2>2. /\ toPage' = Append(toPage, m) /\ talks' = talks /\ prompting' = prompting
        /\ page' = page /\ toService' = toService
    BY <1>4 DEF AgentAsks
  <2> HIDE DEF m
  <2> QED
    BY <1>1, <2>1, <2>2, AnswersKeep
<1>5. CASE TalkEnds(s)
  <2> DEFINE m == Tell("end", s, 0)
             n == Tell("prompt", s, 0)
  <2>1. /\ m \in Told /\ m.kind \notin {"message", "get"}
        /\ n \in Told /\ n.kind \notin {"message", "get"}
    BY <1>3
  <2>2. /\ toPage' = toPage \o <<m, n>> /\ talks' = talks /\ prompting' \subseteq Session
        /\ page' = page /\ toService' = toService
    BY <1>1, <1>5 DEF TalkEnds
  <2> HIDE DEF m, n
  <2>3. toPage' = Append(Append(toPage, m), n)
    <3> HIDE DEF Told
    <3> QED
      BY <1>1, <2>1, <2>2
  <2>4. Channel(talks.said, talks.next, toPage)
    BY DEF PageInv
  <2>5. /\ Channel(talks.said, talks.next, Append(toPage, m))
        /\ \A ms, u : HoldsUpTo(talks.said, toPage, ms, u, 0)
                        => HoldsUpTo(talks.said, Append(toPage, m), ms, u, 0)
    BY <2>1, <2>4, AnswerIsAppended
  <2>6. /\ Channel(talks.said, talks.next, toPage')
        /\ \A ms, u : HoldsUpTo(talks.said, Append(toPage, m), ms, u, 0)
                        => HoldsUpTo(talks.said, toPage', ms, u, 0)
    BY <2>1, <2>3, <2>5, AnswerIsAppended
  <2>7. page.active # NoSession =>
          /\ HoldsUpTo(talks.said, toPage', page.messages, page.active, 0)
          /\ page.confirmation \in {NoSession, page.active}
    BY <2>5, <2>6 DEF PageInv
  <2> QED
    BY <2>2, <2>6, <2>7 DEF PageInv
<1> QED
  BY <1>2, <1>4, <1>5

\* What the page hears leaves it with what was said, but for what is still on its way.
LEMMA HearingKeeps ==
  ASSUME PageInv, toPage # <<>>, toPage' = Tail(toPage), UNCHANGED <<talks, prompting>>,
         toService' \in Seq(Asked), page' \in PageState,
         page'.active = NoSession => page'.messages = <<>>,
         page'.active # NoSession =>
           /\ HoldsUpTo(talks.said, Tail(toPage), page'.messages, page'.active, 0)
           /\ page'.confirmation \in {NoSession, page'.active}
  PROVE  PageInv'
<1>1. Channel(talks.said, talks.next, Tail(toPage))
  BY FirstIsTaken DEF PageInv
<1>2. Channel(talks'.said, talks'.next, toPage') /\ talks' \in TalkState
  BY <1>1 DEF PageInv
<1>3. prompting' \subseteq Session
  BY DEF PageInv
<1> QED
  BY <1>2, <1>3 DEF PageInv

\* It hears something else than a message of the session it shows.
LEMMA OtherwiseHeard ==
  ASSUME PageInv, toPage # <<>>, toPage' = Tail(toPage), UNCHANGED <<talks, prompting>>,
         toService' \in Seq(Asked), page' \in PageState,
         page'.active = page.active, page'.messages = page.messages,
         page'.confirmation \in {page.confirmation, NoSession, page.active},
         ~(toPage[1].kind = "message" /\ toPage[1].of = page.active)
  PROVE  PageInv'
<1>1. page.active # NoSession =>
        /\ HoldsUpTo(talks.said, Tail(toPage), page.messages, page.active, 0)
        /\ page'.confirmation \in {NoSession, page.active}
  BY NothingOfItsOwn DEF PageInv
<1>2. page.active = NoSession => page.messages = <<>>
  BY DEF PageInv
<1> QED
  BY <1>1, <1>2, HearingKeeps

\* The page takes what is first on its way to it.
LEMMA PageTakes == ASSUME PageInv, PageHears
                   PROVE  PageInv'
<1> DEFINE t == toPage[1]
<1>1. /\ toPage # <<>> /\ toPage' = Tail(toPage) /\ UNCHANGED <<talks, prompting>>
      /\ toService \in Seq(Asked) /\ page \in PageState
      /\ Channel(talks.said, talks.next, toPage)
  BY DEF PageHears, PageInv
<1>2. Head(toPage) = t /\ t \in Told
  BY <1>1, FirstIsTaken
<1>3. /\ t.kind \in {"list", "create", "createFirst"} => t.of \in Place
      /\ t.kind \in {"message", "get", "archive", "failed", "cancel", "confirm", "end", "prompt",
                     "confirmation"} => t.of \in Session
      /\ t.kind = "list" => t.what.all \subseteq Session
      /\ t.kind \in {"create", "createFirst"} => t.what \in Session
      /\ t.kind = "message" => t.what \in Nat
      /\ t.kind = "get" => t.what \in Seq(Nat)
  BY <1>2 DEF Told
<1> HIDE DEF t
<1>4. /\ page.active \in Session \cup {NoSession} /\ page.messages \in Seq(Nat)
      /\ page.sessions \subseteq Session /\ NoSession \notin Session
  BY <1>1, PageFields, AssistantDeskAssumption
<1>5. CASE /\ t.kind \in {"message", "confirmation", "end"} /\ UNCHANGED toService
           /\ page' = IF HearsEvent(t) THEN AfterEvent(t) ELSE page
  <2>1. CASE t.of # page.active
    <3>1. page' = page
      BY <1>5, <2>1 DEF HearsEvent
    <3> QED
      BY <1>1, <1>5, <2>1, <3>1, OtherwiseHeard DEF t
  <2>2. CASE t.of = page.active /\ t.kind = "message"
    <3>1. page.active \in Session /\ page.active # NoSession
      BY <1>3, <1>4, <2>2
    <3>2. HoldsUpTo(talks.said, toPage, page.messages, page.active, 0)
          /\ page.confirmation \in {NoSession, page.active}
      BY <3>1 DEF PageInv
    <3>3. /\ ~Contains(page.messages, t.what)
          /\ HoldsUpTo(talks.said, Tail(toPage), Append(page.messages, t.what), page.active, 0)
      BY <1>1, <2>2, <3>1, <3>2, MessageIsNext DEF t
    <3>4. page' = [page EXCEPT !.messages = Append(@, t.what)]
      BY <1>5, <2>2, <3>3 DEF HearsEvent, AfterEvent
    <3>5. Append(page.messages, t.what) \in Seq(Nat)
      BY <1>3, <1>4, <2>2
    <3>6. page' \in PageState
      BY <1>1, <3>4, <3>5, PageFields
    <3>7. /\ page'.messages = Append(page.messages, t.what) /\ page'.active = page.active
          /\ page'.confirmation = page.confirmation
      BY <1>1, <3>4 DEF PageState
    <3> QED
      BY <1>1, <1>5, <3>1, <3>2, <3>3, <3>6, <3>7, HearingKeeps
  <2>3. CASE t.of = page.active /\ t.kind = "confirmation"
    <3>1. page' = [page EXCEPT !.confirmation = t.of]
      BY <1>5, <2>3 DEF HearsEvent, AfterEvent
    <3>2. page' \in PageState
      BY <1>1, <1>3, <2>3, <3>1, PageFields
    <3>3. /\ page'.messages = page.messages /\ page'.active = page.active
          /\ page'.confirmation = page.active
      BY <1>1, <2>3, <3>1 DEF PageState
    <3>4. t.kind # "message"
      BY <2>3
    <3> QED
      BY <1>1, <1>5, <3>2, <3>3, <3>4, OtherwiseHeard DEF t
  <2>4. CASE t.of = page.active /\ t.kind = "end"
    <3>1. page' = [page EXCEPT !.busy = FALSE]
      BY <1>5, <2>4 DEF HearsEvent, AfterEvent
    <3>2. page' \in PageState
      BY <1>1, <3>1, PageFields
    <3>3. /\ page'.messages = page.messages /\ page'.active = page.active
          /\ page'.confirmation = page.confirmation
      BY <1>1, <3>1 DEF PageState
    <3>4. t.kind # "message"
      BY <2>4
    <3> QED
      BY <1>1, <1>5, <3>2, <3>3, <3>4, OtherwiseHeard DEF t
  <2> QED
    BY <1>5, <2>1, <2>2, <2>3, <2>4
<1>6. CASE /\ t.kind = "list" /\ UNCHANGED page
           /\ toService' = Append(toService, Ask("createFirst", t.of))
  <2>1. toService' \in Seq(Asked)
    BY <1>1, <1>3, <1>6, AskIsAppended
  <2>2. t.kind # "message"
    BY <1>6
  <2> QED
    BY <1>1, <1>6, <2>1, <2>2, OtherwiseHeard DEF t
<1>7. CASE /\ t.kind = "list" /\ page' = [page EXCEPT !.sessions = t.what.all]
           /\ \E s \in t.what.all : toService' = Append(toService, Ask("get", s))
  <2>1. PICK s \in t.what.all : toService' = Append(toService, Ask("get", s))
    BY <1>7
  <2>2. s \in Session /\ t.what.all \subseteq Session
    BY <1>3, <1>7
  <2>3. toService' \in Seq(Asked)
    BY <1>1, <2>1, <2>2, AskIsAppended
  <2>4. page' \in PageState
    BY <1>1, <1>7, <2>2, PageFields
  <2>5. /\ page'.messages = page.messages /\ page'.active = page.active
        /\ page'.confirmation = page.confirmation
    BY <1>1, <1>7 DEF PageState
  <2>6. t.kind # "message"
    BY <1>7
  <2> QED
    BY <1>1, <2>3, <2>4, <2>5, <2>6, OtherwiseHeard DEF t
<1>8. CASE /\ t.kind \in {"create", "createFirst"}
           /\ toService' = Append(toService, Ask("get", t.what))
           /\ page' = [page EXCEPT !.sessions =
                         IF t.kind = "create" THEN @ \cup {t.what} ELSE {t.what}]
  <2> DEFINE S == IF t.kind = "create" THEN page.sessions \cup {t.what} ELSE {t.what}
  <2>1. t.what \in Session /\ S \subseteq Session /\ page' = [page EXCEPT !.sessions = S]
    BY <1>3, <1>4, <1>8
  <2> HIDE DEF S
  <2>2. toService' \in Seq(Asked)
    BY <1>1, <1>8, <2>1, AskIsAppended
  <2>3. page' \in PageState
    BY <1>1, <2>1, PageFields
  <2>4. /\ page'.messages = page.messages /\ page'.active = page.active
        /\ page'.confirmation = page.confirmation
    BY <1>1, <2>1 DEF PageState
  <2>5. t.kind # "message"
    BY <1>8
  <2> QED
    BY <1>1, <2>2, <2>3, <2>4, <2>5, OtherwiseHeard DEF t
<1>9. CASE /\ t.kind = "get" /\ UNCHANGED toService
           /\ page' = [page EXCEPT !.active = t.of, !.messages = t.what,
                                   !.confirmation = NoSession]
  <2>1. t.of \in Session /\ t.what \in Seq(Nat) /\ t.of # NoSession
    BY <1>3, <1>4, <1>9
  <2>2. page' \in PageState
    BY <1>1, <1>9, <2>1, PageFields
  <2>3. page'.messages = t.what /\ page'.active = t.of /\ page'.confirmation = NoSession
    BY <1>1, <1>9 DEF PageState
  <2>4. HoldsUpTo(talks.said, Tail(toPage), t.what, t.of, 0)
    BY <1>1, <1>9, AnswerIsFirst DEF t
  <2> QED
    BY <1>1, <1>9, <2>1, <2>2, <2>3, <2>4, HearingKeeps
<1>10. CASE /\ t.kind = "archive" /\ UNCHANGED toService
            /\ page' = IF page.active # t.of THEN page
                       ELSE [page EXCEPT !.active = NoSession, !.messages = <<>>]
  <2>1. CASE page.active # t.of
    <3>1. page' = page /\ t.kind # "message"
      BY <1>10, <2>1
    <3> QED
      BY <1>1, <1>10, <3>1, OtherwiseHeard DEF t
  <2>2. CASE page.active = t.of
    <3>1. page' = [page EXCEPT !.active = NoSession, !.messages = <<>>] /\ <<>> \in Seq(Nat)
      BY <1>10, <2>2
    <3>2. page' \in PageState
      BY <1>1, <3>1, PageFields
    <3>3. page'.messages = <<>> /\ page'.active = NoSession
      BY <1>1, <3>1 DEF PageState
    <3> QED
      BY <1>1, <1>10, <3>2, <3>3, HearingKeeps
  <2> QED
    BY <2>1, <2>2
<1>11. CASE /\ t.kind \in {"prompt", "failed", "cancel"} /\ UNCHANGED toService
            /\ page' = [page EXCEPT !.busy = FALSE]
  <2>1. page' \in PageState
    BY <1>1, <1>11, PageFields
  <2>2. /\ page'.messages = page.messages /\ page'.active = page.active
        /\ page'.confirmation = page.confirmation /\ t.kind # "message"
    BY <1>1, <1>11 DEF PageState
  <2> QED
    BY <1>1, <1>11, <2>1, <2>2, OtherwiseHeard DEF t
<1>12. CASE /\ t.kind = "confirm" /\ UNCHANGED toService
            /\ page' = [page EXCEPT !.confirmation = NoSession]
  <2>1. page' \in PageState
    BY <1>1, <1>12, PageFields
  <2>2. /\ page'.messages = page.messages /\ page'.active = page.active
        /\ page'.confirmation = NoSession /\ t.kind # "message"
    BY <1>1, <1>12 DEF PageState
  <2> QED
    BY <1>1, <1>12, <2>1, <2>2, OtherwiseHeard DEF t
<1> QED
  <2>1. PageHears => LET t0 == Head(toPage) IN
          \/ /\ t0.kind \in {"message", "confirmation", "end"} /\ UNCHANGED toService
             /\ page' = IF HearsEvent(t0) THEN AfterEvent(t0) ELSE page
          \/ /\ t0.kind = "list" /\ UNCHANGED page
             /\ toService' = Append(toService, Ask("createFirst", t0.of))
          \/ /\ t0.kind = "list" /\ page' = [page EXCEPT !.sessions = t0.what.all]
             /\ \E s \in t0.what.all : toService' = Append(toService, Ask("get", s))
          \/ /\ t0.kind \in {"create", "createFirst"}
             /\ toService' = Append(toService, Ask("get", t0.what))
             /\ page' = [page EXCEPT !.sessions =
                           IF t0.kind = "create" THEN @ \cup {t0.what} ELSE {t0.what}]
          \/ /\ t0.kind = "get" /\ UNCHANGED toService
             /\ page' = [page EXCEPT !.active = t0.of, !.messages = t0.what,
                                     !.confirmation = NoSession]
          \/ /\ t0.kind = "archive" /\ UNCHANGED toService
             /\ page' = IF page.active # t0.of THEN page
                        ELSE [page EXCEPT !.active = NoSession, !.messages = <<>>]
          \/ /\ t0.kind \in {"prompt", "failed", "cancel"} /\ UNCHANGED toService
             /\ page' = [page EXCEPT !.busy = FALSE]
          \/ /\ t0.kind = "confirm" /\ UNCHANGED toService
             /\ page' = [page EXCEPT !.confirmation = NoSession]
    BY Zenon DEF PageHears
  <2> QED
    BY <1>2, <1>5, <1>6, <1>7, <1>8, <1>9, <1>10, <1>11, <1>12, <2>1

\* Every step keeps what the page shows and what is on its way to it together.
LEMMA PageStep == PageInv /\ [PageNext]_pageVars => PageInv'
<1> SUFFICES ASSUME PageInv, [PageNext]_pageVars
             PROVE  PageInv'
  OBVIOUS
<1>1. page \in PageState /\ toService \in Seq(Asked) /\ page.active \in Session \cup {NoSession}
      /\ page.sessions \subseteq Session /\ page.confirmation \in Session \cup {NoSession}
  BY PageFields DEF PageInv
<1>2. ASSUME NEW p \in Place, InitializeAssistant(p)
      PROVE  PageInv'
  <2>1. page' = [page EXCEPT !.project = p] /\ toService' = Append(toService, Ask("list", p))
        /\ UNCHANGED <<talks, prompting, toPage>>
    BY <1>2 DEF InitializeAssistant
  <2>2. page' \in PageState /\ toService' \in Seq(Asked)
    BY <1>1, <2>1, PageFields, AskIsAppended
  <2>3. /\ page'.messages = page.messages /\ page'.active = page.active
        /\ page'.confirmation = page.confirmation
    BY <1>1, <2>1 DEF PageState
  <2> QED
    BY <2>1, <2>2, <2>3, ClicksKeep
<1>3. ASSUME NEW kind \in {"get", "archive"}, NEW of \in Session, PageAsks(kind, of)
      PROVE  PageInv'
  <2>1. page' = page /\ toService' = Append(toService, Ask(kind, of))
        /\ UNCHANGED <<talks, prompting, toPage>>
    BY <1>3 DEF PageAsks
  <2>2. toService' \in Seq(Asked)
    BY <1>1, <1>3, <2>1, AskIsAppended
  <2> QED
    BY <1>1, <2>1, <2>2, ClicksKeep
<1>4. CASE SendFromPage
  <2>1. page' = [page EXCEPT !.busy = TRUE]
        /\ toService' = Append(toService, Ask("prompt", page.active))
        /\ UNCHANGED <<talks, prompting, toPage>> /\ page.active \in Session
    BY <1>1, <1>4 DEF SendFromPage
  <2>2. page' \in PageState /\ toService' \in Seq(Asked)
    BY <1>1, <2>1, PageFields, AskIsAppended
  <2>3. /\ page'.messages = page.messages /\ page'.active = page.active
        /\ page'.confirmation = page.confirmation
    BY <1>1, <2>1 DEF PageState
  <2> QED
    BY <2>1, <2>2, <2>3, ClicksKeep
<1>5. CASE StopFromPage \/ ConfirmFromPage
  <2>1. PICK kind \in {"cancel", "confirm"}, s \in Session :
               toService' = Append(toService, Ask(kind, s))
    BY <1>1, <1>5 DEF StopFromPage, ConfirmFromPage
  <2>2. page' = page /\ UNCHANGED <<talks, prompting, toPage>>
    BY <1>5 DEF StopFromPage, ConfirmFromPage
  <2>3. toService' \in Seq(Asked)
    BY <1>1, <2>1, AskIsAppended
  <2> QED
    BY <1>1, <2>2, <2>3, ClicksKeep
<1>6. CASE UNCHANGED pageVars
  BY <1>1, <1>6, ClicksKeep DEF pageVars
<1>7. CASE ServeAsk \/ PageHears \/ \E s \in Session : AgentSays(s) \/ AgentAsks(s) \/ TalkEnds(s)
  BY <1>7, ServiceAnswers, AgentTells, PageTakes
<1>8. CASE PageNext
  <2>1. ASSUME NEW p \in Place, PageAsks("create", p)
        PROVE  PageInv'
    <3>1. page' = page /\ toService' = Append(toService, Ask("create", p))
          /\ UNCHANGED <<talks, prompting, toPage>>
      BY <2>1 DEF PageAsks
    <3>2. toService' \in Seq(Asked)
      BY <1>1, <3>1, AskIsAppended
    <3> QED
      BY <1>1, <3>1, <3>2, ClicksKeep
  <2>2. ASSUME NEW s \in Session, PageAsks("get", s) \/ PageAsks("archive", s)
        PROVE  PageInv'
    BY <1>3, <2>2
  <2> QED
    BY <1>2, <1>4, <1>5, <1>7, <1>8, <2>1, <2>2, Zenon DEF PageNext, Place
<1> QED
  BY <1>6, <1>8

\* The page with nothing on its way shows all that was said.
LEMMA PageShows == PageInv => PageIsOfItsSession
<1> SUFFICES ASSUME PageInv
             PROVE  PageIsOfItsSession
  OBVIOUS
<1> DEFINE ms == page.messages
           all == talks.said[page.active]
<1>1. CASE page.active = NoSession
  BY <1>1 DEF PageInv, PageIsOfItsSession
<1>2. CASE page.active # NoSession
  <2>1. page.active \in Session /\ talks.said \in [Session -> Seq(Nat)]
    BY <1>2, PageFields DEF PageInv, Channel
  <2>2. HoldsUpTo(talks.said, toPage, ms, page.active, 0)
        /\ page.confirmation \in {NoSession, page.active}
    BY <1>2 DEF PageInv
  <2>3. all \in Seq(Nat) /\ ms \in Seq(Nat) /\ Len(ms) \in Nat /\ Len(all) \in Nat
    BY <2>1, <2>2 DEF HoldsUpTo
  <2>4. Len(ms) <= Len(all) /\ \A k \in 1..Len(ms) : ms[k] = all[k]
    BY <2>2 DEF HoldsUpTo
  <2>5. toPage = <<>> => Len(ms) = Len(all)
    <3> SUFFICES ASSUME toPage = <<>>, Len(ms) # Len(all)
                 PROVE  FALSE
      OBVIOUS
    <3>1. Len(all) \in 1..Len(all) /\ Len(all) > Len(ms)
      BY <2>3, <2>4
    <3>2. 1..Len(toPage) = {}
      OBVIOUS
    <3> QED
      BY <2>2, <3>1, <3>2 DEF HoldsUpTo
  <2> HIDE DEF ms, all
  <2>6. toPage = <<>> => ms = all
    BY <2>3, <2>4, <2>5, SeqEqual
  <2>7. IsPrefix(ms, all)
    <3>1. SubSeq(ms, 1, Len(ms)) \in Seq(Nat) /\ SubSeq(all, 1, Len(ms)) \in Seq(Nat)
      BY <2>3, <2>4
    <3>2. SubSeq(ms, 1, Len(ms)) = SubSeq(all, 1, Len(ms))
      BY <2>3, <2>4, <3>1
    <3> QED
      BY <2>4, <3>2 DEF IsPrefix
  <2> QED
    BY <1>2, <2>2, <2>6, <2>7 DEF PageIsOfItsSession, ms, all
<1> QED
  BY <1>1, <1>2

\* The page of the assistant shows what was said in its session, in order and each
\* message once, whatever crosses on the way; with nothing on its way it shows all.
THEOREM PageFollowsItsSession == PageSpec => []PageIsOfItsSession
<1>1. PageInit => PageInv
  BY PageBegins
<1>2. PageInv /\ [PageNext]_pageVars => PageInv'
  BY PageStep
<1>3. PageInv => PageIsOfItsSession
  BY PageShows
<1> QED
  BY <1>1, <1>2, <1>3, PTL DEF PageSpec
=============================================================================
