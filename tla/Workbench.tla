------------------------------- MODULE Workbench -------------------------------
(***************************************************************************)
(* The store of the workbench (renderer/stores/workbenchStore.ts) and the  *)
(* main process behind it: which project the page shows, whose rows and    *)
(* settings it holds, and what it saves, while the author clicks on before *)
(* an answer is there.  Every await is a point where another click runs.   *)
(* Requests are handled, and their answers come back, in their order: the  *)
(* handlers of main/workbench/ipc.ts do not await.                         *)
(***************************************************************************)
EXTENDS Naturals, Sequences

CONSTANTS
  Project,     \* the projects there are or will be
  NoProject,
  MaxClicks    \* bound: what the author does

ASSUME WorkbenchAssumption == NoProject \notin Project /\ MaxClicks \in Nat

VARIABLES
  stored,          \* workbench_state.current_project_id
  existing,        \* the projects that exist
  deleted,         \* the projects there were: an id (randomUUID) is not given twice
  settings,        \* the version of each project's settings
  shown,           \* currentProject
  known,           \* projects
  held,            \* whose rows and settings the store holds, in which version
  dirty,
  pendingProject,  \* pendingProjectId
  error,           \* whether there is one
  initialized,
  requests,        \* to the main process, oldest first
  answers,         \* of the main process, oldest first
  clicks

mainVars == <<stored, existing, deleted, settings>>
viewVars == <<shown, known, held>>
formVars == <<dirty, pendingProject>>
storeVars == <<viewVars, formVars, error, initialized>>
workbenchVars == <<mainVars, storeVars, requests, answers, clicks>>

Nothing == [of |-> NoProject, version |-> 0, by |-> "store"]

\* The store before initialize.  There need not be a current project: an
\* imported one is not selected.
WorkbenchInit ==
  /\ existing \in SUBSET Project \ {Project}
  /\ deleted = {} /\ stored \in existing \cup {NoProject}
  /\ settings = [p \in Project |-> 1]
  /\ shown = NoProject /\ known = {} /\ held = Nothing
  /\ dirty = FALSE /\ pendingProject = NoProject
  /\ error = FALSE /\ initialized = FALSE
  /\ requests = <<>> /\ answers = <<>> /\ clicks = 0

-----------------------------------------------------------------------------
(* The author.  A message has the project it is about, and the settings or *)
(* rows the page held when it was sent.                                    *)

Message(op, p) == [op |-> op, project |-> p, with |-> held, ok |-> TRUE]
Send(op, p) == requests' = Append(requests, Message(op, p))

\* A click on a page that asks the main process, and one on the store, which
\* forgets its error first.
Asks(op, p) == Send(op, p) /\ UNCHANGED storeVars
Calls(op, p) ==
  Send(op, p) /\ error' = FALSE /\ UNCHANGED <<viewVars, formVars, initialized>>

\* initialize, by the layout when it is mounted and by its button that tries again:
\* the projects and the current one, asked for together.
Initialize ==
  /\ ~initialized \/ shown = NoProject \/ error
  /\ Calls("begin", NoProject)

\* selectProject.  The project already shown is not selected again: its lists
\* are asked for, nine of them together (refreshProjectData).
SwitchTo(p) ==
  IF p # shown THEN Calls("select", p)
  ELSE /\ Send("lists", p) /\ error' = FALSE
       /\ dirty' = FALSE /\ pendingProject' = NoProject
       /\ UNCHANGED <<viewVars, initialized>>
ChooseProject(p) ==
  /\ p \in known
  /\ IF dirty /\ shown # p
     THEN pendingProject' = p /\ UNCHANGED <<viewVars, dirty, error, initialized, requests>>
     ELSE SwitchTo(p)
ConfirmPendingProjectSwitch == pendingProject # NoProject /\ SwitchTo(pendingProject)
CancelPendingProjectSwitch ==
  /\ pendingProject # NoProject /\ pendingProject' = NoProject
  /\ UNCHANGED <<viewVars, dirty, error, initialized, requests>>

CreateAndShow(p) == Calls("create", p)
DeleteKnown(p) == p \in known \ {shown} /\ Calls("delete", p)
\* commitImport of the page of projects.
CommitArchive(p) == Asks("import", p)

\* mutate, for a row of the lists or the settings, and the page that saves or
\* deletes the key of the project.
ChangeRow == shown # NoProject /\ held # Nothing /\ Calls("change", shown)
SaveSettings == shown # NoProject /\ held # Nothing /\ Calls("settings", shown)
SaveCredential == shown # NoProject /\ Asks("credential", shown)

\* markDirty and clearDirty, by a form.
TouchForm ==
  /\ shown # NoProject /\ dirty' = ~dirty
  /\ UNCHANGED <<viewVars, pendingProject, error, initialized, requests>>

Click ==
  /\ clicks < MaxClicks /\ clicks' = clicks + 1
  /\ \/ Initialize
     \/ \E p \in Project :
          ChooseProject(p) \/ CreateAndShow(p) \/ DeleteKnown(p) \/ CommitArchive(p)
     \/ ConfirmPendingProjectSwitch \/ CancelPendingProjectSwitch
     \/ ChangeRow \/ SaveSettings \/ SaveCredential
     \/ TouchForm
  /\ UNCHANGED <<mainVars, answers>>

-----------------------------------------------------------------------------
(* The main process.                                                       *)

\* refreshProjectData, by itself and awaited by mutate.
Refreshes == {"lists", "lists after change"}

\* The checks of NovelProjectService: rows are of the project they are changed
\* under, settings are in the version that is named.
Permitted(m) ==
  /\ m.op \in {"create", "import"} => m.project \notin existing \cup deleted
  /\ m.op \in {"delete", "change", "settings", "select", "credential", "page lists"}
              \cup Refreshes => m.project \in existing
  /\ m.op = "delete" => m.project # stored
  /\ m.op = "change" => m.with.of = m.project
  /\ m.op = "settings" => m.with.version = settings[m.project]

Effect(m) ==
  /\ stored' = IF m.op \in {"select", "create"} THEN m.project ELSE stored
  /\ existing' = CASE m.op \in {"create", "import"} -> existing \cup {m.project}
                   [] m.op = "delete" -> existing \ {m.project}
                   [] OTHER -> existing
  /\ deleted' = IF m.op = "delete" THEN deleted \cup {m.project} ELSE deleted
  /\ settings' = IF m.op \in {"settings", "credential"}
                 THEN [settings EXCEPT ![m.project] = @ + 1] ELSE settings

\* The answer has what was read: a project and the version of its settings.
ReadOut(m) ==
  CASE m.op = "begin" -> [Nothing EXCEPT !.of = stored]
    [] m.op \in Refreshes -> [of |-> m.project, version |-> settings[m.project], by |-> "store"]
    [] m.op = "page lists" -> [of |-> m.project, version |-> settings[m.project], by |-> "page"]
    [] OTHER -> Nothing

Serve ==
  /\ requests # <<>> /\ requests' = Tail(requests)
  /\ LET m == Head(requests) IN
       /\ IF Permitted(m) THEN Effect(m) ELSE UNCHANGED mainVars
       /\ answers' = Append(answers, [op |-> m.op, project |-> m.project,
                                      ok |-> Permitted(m), read |-> ReadOut(m),
                                      projects |-> existing])
  /\ UNCHANGED <<storeVars, clicks>>

-----------------------------------------------------------------------------
(* The store again: what follows an await.                                 *)

Refreshed(op, p) == Send(op, p) /\ error' = FALSE
Shows(p) == shown' = p /\ Refreshed("lists", p)

\* Without a current project the first of the list is shown.
Began(a) ==
  /\ known' = a.projects /\ initialized' = TRUE
  /\ \/ a.read.of # NoProject /\ Shows(a.read.of)
     \/ a.read.of = NoProject /\ \E p \in a.projects : Shows(p)
     \/ /\ a.read.of = NoProject /\ a.projects = {}
        /\ shown' = NoProject /\ UNCHANGED <<error, requests>>
  /\ UNCHANGED <<held, formVars>>
Selected(a) ==
  /\ Shows(a.project) /\ dirty' = FALSE /\ pendingProject' = NoProject
  /\ UNCHANGED <<known, held, initialized>>
\* createProject and deleteProject read the projects again.
Made(a) ==
  /\ Send(IF a.op = "create" THEN "enter" ELSE "projects", a.project)
  /\ dirty' = FALSE /\ UNCHANGED <<viewVars, pendingProject, error, initialized>>
Entered(a) ==
  /\ known' = a.projects /\ Shows(a.project) /\ dirty' = FALSE
  /\ UNCHANGED <<held, pendingProject, initialized>>
Relisted(a) ==
  /\ known' = a.projects /\ error' = FALSE
  /\ UNCHANGED <<shown, held, formVars, initialized, requests>>
\* After an import the store begins again, whatever it shows.
Imported(a) ==
  /\ Send("begin", NoProject) /\ initialized' = FALSE /\ error' = FALSE
  /\ UNCHANGED <<viewVars, formVars>>
\* mutate refreshes the project shown now, and keeps no rows when there is none.
Mutated_Captured(a) ==
  Refreshed("lists after change", a.project) /\ UNCHANGED <<viewVars, formVars, initialized>>
Mutated(a) ==
  IF shown = NoProject
  THEN /\ held' = Nothing /\ dirty' = FALSE
       /\ UNCHANGED <<shown, known, pendingProject, error, initialized, requests>>
  ELSE Refreshed("lists after change", shown) /\ UNCHANGED <<viewVars, formVars, initialized>>
\* The page of the key refreshes the project it was opened for.
KeySaved(a) ==
  Refreshed("page lists", a.project) /\ UNCHANGED <<viewVars, formVars, initialized>>
\* mutate takes the form as saved once the lists are there, or could not be read.
SavedWith(a) == dirty' = (dirty /\ a.op # "lists after change")
ListsArrived(a) ==
  /\ held' = a.read /\ error' = FALSE /\ SavedWith(a)
  /\ UNCHANGED <<shown, known, pendingProject, initialized, requests>>
\* The pages of the key and of imports tell of their errors themselves.
Denied(a) ==
  /\ error' = (error \/ a.op \notin {"credential", "import"}) /\ SavedWith(a)
  /\ UNCHANGED <<viewVars, pendingProject, initialized, requests>>

Answered ==
  /\ answers # <<>> /\ answers' = Tail(answers)
  /\ LET a == Head(answers) IN
       \/ ~a.ok /\ Denied(a)
       \/ a.ok /\ a.op = "begin" /\ Began(a)
       \/ a.ok /\ a.op = "select" /\ Selected(a)
       \/ a.ok /\ a.op \in {"create", "delete"} /\ Made(a)
       \/ a.ok /\ a.op = "enter" /\ Entered(a)
       \/ a.ok /\ a.op = "projects" /\ Relisted(a)
       \/ a.ok /\ a.op = "import" /\ Imported(a)
       \/ a.ok /\ a.op \in {"change", "settings"} /\ Mutated(a)
       \/ a.ok /\ a.op = "credential" /\ KeySaved(a)
       \/ a.ok /\ a.op \in Refreshes \cup {"page lists"} /\ ListsArrived(a)
  /\ UNCHANGED <<mainVars, clicks>>

WorkbenchNext == Click \/ Serve \/ Answered
WorkbenchSpec == WorkbenchInit /\ [][WorkbenchNext]_workbenchVars
-----------------------------------------------------------------------------
WorkbenchTypeInv ==
  /\ stored \in existing \cup {NoProject} /\ existing \subseteq Project
  /\ shown \in Project \cup {NoProject} /\ known \subseteq Project
  /\ held.of \in Project \cup {NoProject}
  /\ pendingProject \in Project \cup {NoProject}

\* refreshProjectData and mutate: however the author's clicks cross the answers,
\* the store never settles on the rows of a project that it does not show.  When
\* it holds them, the lists of the project shown are on their way; only the page
\* of the key, which refreshes the project it was opened for, may leave others.
ListsOf(p, messages) ==
  \E k \in DOMAIN messages : messages[k].op \in Refreshes /\ messages[k].project = p
ListsFollowTheShown ==
  /\ WorkbenchTypeInv
  /\ shown \in existing /\ held.of # shown =>
       \/ ListsOf(shown, requests) \/ ListsOf(shown, answers)
       \/ held.by = "page"

\* "Each project keeps its own settings and material" (WorkbenchProjectsPage.tsx
\* line 189): settings are saved to the project they were shown for.  But the
\* form still has the settings of the last project when the next one is shown,
\* and a project's settings are not refused when their version happens to fit.
SettingsStayInTheirProject ==
  [][\A p \in Project : settings'[p] # settings[p] /\ Head(requests).op = "settings"
       => Head(requests).with.of = p]_workbenchVars
=============================================================================
