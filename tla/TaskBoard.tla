------------------------------- MODULE TaskBoard -------------------------------
(***************************************************************************)
(* The store of the tasks of a project in the renderer                     *)
(* (renderer/stores/taskStore.ts).  It is filled by a load, in two awaits, *)
(* changed by the events of the task manager, which come from every        *)
(* project, and by the answers to what the author asks; all of these may   *)
(* arrive after the author went to another project.  Answers arrive in any *)
(* order, events in theirs.                                                *)
(***************************************************************************)
EXTENDS Naturals, Sequences

CONSTANTS
  BoardTask,      \* tasks that are or may be started
  BoardProject,
  ProjectOf,      \* the project of each task
  NoTask, NoBoard,
  MaxBoardClicks, \* bound: what the author does
  MaxNews         \* bound: events not yet delivered

ASSUME TaskBoardAssumption ==
  /\ ProjectOf \in [BoardTask -> BoardProject]
  /\ NoTask \notin BoardTask /\ NoBoard \notin BoardProject
  /\ MaxBoardClicks \in Nat /\ MaxNews \in Nat

VARIABLES
  tasksStored,   \* status of each task in the database
  news,          \* events on their way
  projectShown,  \* projectId
  tasksShown, versionsShown,  \* tasks; the projects of versions
  activeTask, boardBusy,
  loadSequence,
  loads,         \* loads under way
  boardAsked,         \* what the author boardAsked for, unanswered
  boardClicks

boardVars == <<tasksStored, news, projectShown, tasksShown, versionsShown,
               activeTask, boardBusy, loadSequence, loads, boardAsked, boardClicks>>
shownVars == <<projectShown, tasksShown, versionsShown, activeTask, boardBusy>>

\* Tasks of an earlier session may wait for recovery.
BoardInit ==
  /\ tasksStored \in [BoardTask -> {"none", "recoverable"}]
  /\ news = <<>>
  /\ projectShown = NoBoard /\ tasksShown = {} /\ versionsShown = {}
  /\ activeTask = NoTask /\ boardBusy = FALSE
  /\ loadSequence = 0 /\ loads = {} /\ boardAsked = {} /\ boardClicks = 0

-----------------------------------------------------------------------------
(* load.                                                                   *)

StoredOf(p) == {t \in BoardTask : ProjectOf[t] = p /\ tasksStored[t] # "none"}
RunningOf(p) == {t \in StoredOf(p) : tasksStored[t] = "running"}

\* Up to the first await, which reads the tasks and those that can be recovered.
Load(p) ==
  /\ loadSequence' = loadSequence + 1
  /\ loads' = loads \cup {[seq |-> loadSequence + 1, of |-> p, step |-> "tasks",
                           tasks |-> StoredOf(p), running |-> RunningOf(p)]}
Emptied(p) ==
  IF p = projectShown THEN UNCHANGED shownVars
  ELSE /\ projectShown' = p /\ tasksShown' = {} /\ versionsShown' = {}
       /\ activeTask' = NoTask /\ boardBusy' = FALSE

\* The test after each await.
Wanted_Any(l) == TRUE
Wanted(l) == l.of = projectShown /\ l.seq = loadSequence

Dropped(l) == loads' = loads \ {l} /\ UNCHANGED shownVars
TasksArrived(l) ==
  /\ l.step = "tasks" /\ Wanted(l)
  /\ loads' = (loads \ {l}) \cup {[l EXCEPT !.step = "versions"]}
  /\ UNCHANGED shownVars
VersionsArrived(l) ==
  /\ l.step = "versions" /\ Wanted(l)
  /\ loads' = loads \ {l}
  /\ tasksShown' = l.tasks /\ versionsShown' = {l.of}
  /\ \/ \E t \in l.running : activeTask' = t
     \/ l.running = {} /\ UNCHANGED activeTask
  /\ boardBusy' = (l.running # {})
  /\ UNCHANGED projectShown
\* A load that fails or is not wanted changes no list.
LoadAnswered ==
  /\ \E l \in loads : TasksArrived(l) \/ VersionsArrived(l) \/ Dropped(l)
  /\ UNCHANGED <<tasksStored, news, loadSequence, boardAsked, boardClicks>>

-----------------------------------------------------------------------------
(* The task manager, which the author asks or which recovers by itself.    *)

Publish(kind, t) == news' = Append(news, [kind |-> kind, task |-> t])
TaskStarts(t) ==
  /\ tasksStored[t] \in {"none", "recoverable"} /\ Len(news) < MaxNews
  /\ tasksStored' = [tasksStored EXCEPT ![t] = "running"] /\ Publish("start", t)
TaskRecovers ==
  /\ \E t \in BoardTask : tasksStored[t] = "recoverable" /\ TaskStarts(t)
  /\ UNCHANGED <<shownVars, loadSequence, loads, boardAsked, boardClicks>>
TaskEnds ==
  /\ Len(news) < MaxNews
  /\ \E t \in BoardTask :
       /\ tasksStored[t] = "running"
       /\ tasksStored' = [tasksStored EXCEPT ![t] = "ended"] /\ Publish("end", t)
  /\ UNCHANGED <<shownVars, loadSequence, loads, boardAsked, boardClicks>>

\* subscribeToEvents: a start is taken from the project shown, or from any while
\* there is none; the rest is taken from the active task.
Ignored(e) ==
  IF e.kind = "start" THEN projectShown # NoBoard /\ ProjectOf[e.task] # projectShown
  ELSE e.task # activeTask
OnStart(e) ==
  /\ e.kind = "start" /\ activeTask' = e.task /\ boardBusy' = TRUE
  /\ tasksShown' = tasksShown \cup {e.task}
  /\ UNCHANGED <<projectShown, versionsShown, loadSequence, loads>>
OnEnd(e) ==
  /\ e.kind = "end" /\ boardBusy' = FALSE
  /\ IF projectShown # NoBoard THEN Load(projectShown) ELSE UNCHANGED <<loadSequence, loads>>
  /\ UNCHANGED <<projectShown, tasksShown, versionsShown, activeTask>>
EventArrived ==
  /\ news # <<>> /\ news' = Tail(news)
  /\ LET e == Head(news) IN
       \/ Ignored(e) /\ UNCHANGED <<shownVars, loadSequence, loads>>
       \/ ~Ignored(e) /\ (OnStart(e) \/ OnEnd(e))
  /\ UNCHANGED <<tasksStored, boardAsked, boardClicks>>

-----------------------------------------------------------------------------
(* The author.                                                             *)

BoardClick == boardClicks < MaxBoardClicks /\ boardClicks' = boardClicks + 1

ShowTasks(p) ==
  /\ BoardClick /\ Load(p) /\ Emptied(p)
  /\ UNCHANGED <<tasksStored, news, boardAsked>>

\* startGeneration, startOutlineGeneration, startPolish, resume, manualRetry:
\* the task runs before the answer is there, or it is refused.
AskTask(kind, t) ==
  /\ BoardClick /\ projectShown = ProjectOf[t]
  /\ tasksStored[t] = IF kind = "resume" THEN "recoverable" ELSE "none"
  /\ \E ok \in BOOLEAN :
       /\ IF ok THEN TaskStarts(t) ELSE UNCHANGED <<tasksStored, news>>
       /\ boardAsked' = boardAsked \cup {[kind |-> kind, task |-> t, ok |-> ok]}
  /\ boardBusy' = TRUE
  /\ UNCHANGED <<projectShown, tasksShown, versionsShown, activeTask, loadSequence, loads>>
CancelShown ==
  /\ BoardClick /\ activeTask # NoTask /\ boardBusy' = TRUE
  /\ UNCHANGED <<tasksStored, news, projectShown, tasksShown, versionsShown,
                 activeTask, loadSequence, loads, boardAsked>>

\* Only a start looks whether its project is still shown.
Started(r) ==
  /\ r.kind = "start"
  /\ IF projectShown # ProjectOf[r.task]
     THEN UNCHANGED <<shownVars, loadSequence, loads>>
     ELSE /\ activeTask' = r.task /\ Load(projectShown)
          /\ UNCHANGED <<projectShown, tasksShown, versionsShown, boardBusy>>
PolishStarted(r) ==
  /\ r.kind = "polish" /\ activeTask' = r.task
  /\ UNCHANGED <<projectShown, tasksShown, versionsShown, boardBusy, loadSequence, loads>>
Resumed(r) ==
  /\ r.kind = "resume" /\ activeTask' = r.task /\ boardBusy' = TRUE /\ Load(projectShown)
  /\ UNCHANGED <<projectShown, tasksShown, versionsShown>>
Refused(r) ==
  /\ boardBusy' = (boardBusy /\ r.kind = "start" /\ projectShown # ProjectOf[r.task])
  /\ UNCHANGED <<projectShown, tasksShown, versionsShown, activeTask, loadSequence, loads>>
AskAnswered ==
  /\ \E r \in boardAsked :
       /\ boardAsked' = boardAsked \ {r}
       /\ IF r.ok THEN Started(r) \/ PolishStarted(r) \/ Resumed(r) ELSE Refused(r)
  /\ UNCHANGED <<tasksStored, news, boardClicks>>

\* loadVersions.
AskVersions ==
  /\ BoardClick /\ projectShown # NoBoard
  /\ loads' = loads \cup {[seq |-> 0, of |-> projectShown, step |-> "list",
                           tasks |-> {}, running |-> {}]}
  /\ UNCHANGED <<tasksStored, news, shownVars, loadSequence, boardAsked>>
VersionsListed ==
  /\ \E l \in loads :
       /\ l.step = "list" /\ loads' = loads \ {l}
       /\ versionsShown' = IF l.of = projectShown THEN {l.of} ELSE versionsShown
  /\ UNCHANGED <<tasksStored, news, projectShown, tasksShown, activeTask, boardBusy,
                 loadSequence, boardAsked, boardClicks>>

BoardNext ==
  \/ LoadAnswered \/ EventArrived \/ AskAnswered \/ VersionsListed
  \/ TaskRecovers \/ TaskEnds
  \/ \E p \in BoardProject : ShowTasks(p)
  \/ \E t \in BoardTask, kind \in {"start", "polish", "resume"} : AskTask(kind, t)
  \/ CancelShown \/ AskVersions

BoardSpec == BoardInit /\ [][BoardNext]_boardVars
-----------------------------------------------------------------------------
\* load, subscribeToEvents, startGeneration: once a project is shown, every task
\* and version on the board is of it, whatever arrives late from another.
BoardIsOfItsProject ==
  projectShown # NoBoard =>
    /\ \A t \in tasksShown : ProjectOf[t] = projectShown
    /\ versionsShown \subseteq {projectShown}
=============================================================================
