# yourcrush: a TLA+ verification of a local-first writing program

`yourcrush` is a local-first Electron program for writing novels.  Its main
process keeps projects, outlines, chapters and their versions in SQLite and lets
a language model, which the user pays for, write chapters and outlines in
long-running tasks.  A task may be cancelled, may reach a deadline, may lose its
lease to a machine that slept, may be stopped by a graceful exit or killed with
the process; the next start decides which tasks go on by themselves, which wait
for the user's confirmation and which are beyond recovery.  A mistake there
costs money (a call made twice), work (a stored answer thrown away) or trust (a
cancelled task that comes back).  That is the core of the program, and the core
of this development.  Around it stand what the tasks write (chapters, revisions,
outlines, notes), what everything rests on (the database file and its restore,
backups, keys, workers, imported files) and the window, whose stores must show
the project the author looks at.

All paths below are relative to `src/src/` unless they begin with `docs/`.

## 1. Inventory

| Component | State | Operations | What makes it correct |
|---|---|---|---|
| Task manager `main/tasks/taskManager.ts` | maps by task id: controllers, completions, lease tokens, timers, flags, attempt ids; `quitting`; the list of the start-up workers | start, cancel, resume, manualRetry, execute, deadlines, lease renewal, scanAndRecoverOnStartup, beginGracefulShutdown, quiesceForShutdown, resumeAfterAbortedShutdown, invalidateActiveRuntimes | one execution per task, which writes only under its lease; endings close what they opened; no model call repeated unasked; a stop is a stop; drains and workers never hang |
| Task store `main/database/repositories/{taskRepository,recoveryAttemptRepository,runtimeSessionRepository}.ts` | tables `tasks`, `recovery_attempts`, `runtime_sessions`; a unique index on active idempotency keys | create, update, claimForRecovery, leases, requestCancellation, markGracefulShutdown, reconcileCrashedAndStart; what is written, normalised and read back of request, checkpoint and result | claims are atomic and counted; an ended session leaves nothing open; the classifier and the runner read the same checkpoint |
| Recovery classifier `shared/taskRecovery` | none (pure) | classifyTaskRecovery | restart only before a model call; never more permissive when a fact gets worse |
| Graceful shutdown `main/database/shutdown.ts` | the shutdown promise | quiesce, drain, end the session, close the database; reopen when one fails | the database closes over no running execution; a failed exit leaves a program that works |
| Chapter generation `shared/chapterGeneration/service.ts`, `main/tasks/chapterGenerationTask.ts` | checkpoints, versions, chapters | generate, finish from a stored version, confirm, reject | a version is stored once and of the text that was read; a stored answer is never asked for again; a user's text wins |
| Chapter polish `main/tasks/chapterPolishTask.ts`, `shared/narrativeWorkbench/service.ts` | revisions | generate, apply, recover a revision | a revision reaches only the text it was made from, once |
| Narrative notes `shared/narrativeWorkbench/service.ts` | memories, foreshadows, reports | extract, suggest, approve, reject | proposals of one run, never a mixture |
| Outline generation `shared/outlineGeneration/service.ts` | checkpoints, outlines | prepare, ask, validate, apply | a proposal replaces exactly what was asked about |
| Novel projects `shared/novelProject/service.ts`, `main/workbench`, repositories, migrations | projects, outlines, characters, materials, settings | validated CRUD with expected versions; cascades and triggers | no lost update; what is stored can be exported |
| Database lifecycle and restore `main/database/{lifecycle,restore,runtimeStatus,migrations}.ts` | the database file, its staged and displaced copies, the connection's status | open, migrate, replace, verify, roll back | no failure or crash loses both copies |
| Backups `main/backup` | backup files, metadata, policy | create, verify, prune, change policy | retention keeps the newest of a kind |
| Credentials `main/security` | vault, bindings, plaintext still to be migrated | save, delete, migrate, rotate | a key is used as the user was told |
| Project portability `main/projectPortability`, `shared/projectPortability` | import tokens, staged bytes, timers; the archive | inspect, commit, cancel, expire; export, import | bytes given back once; what is exported comes back |
| Diagnostic export, safe replacement of files `main/diagnostics`, `shared/files` | a file, its backup and its temporary copy | replaceFileSafely | the last good content survives |
| Compute workers `main/workers` | slots of the pool, one settlement per run | run, cancel, time-out, exit | a slot is given back once; one outcome per run |
| Assistant `main/assistant/service.ts`, its page and store | sessions, runtimes, prompts, confirmations | prompt, archive, restore, dispose; load, select, receive | a stopped prompt ends; the page shows the session it names |
| Agent and tools `agent` | tool policies, calls of a message | permission decision, confirmation, execution | nothing changes that was not agreed |
| Context compiler `shared/contextCompiler`, `shared/chapterGeneration/contextAssembly.ts` | none (pure) | choose, gate, order, pack, estimate | required parts are in, the budget is kept, nothing the author has not adopted is told |
| Diary `shared/{crush,day,fragment,relationship}` | JSON files of a character | create, generate, record, edit, delete | no write of one module undoes another's |
| Renderer stores | lists, forms, task board, notes, sessions | load, select, change, receive events | the window shows the project it names |
| First chapter workflow `shared/firstChapterWorkflow`, `main/workbench/firstChapterPreflight.ts` | none (pure) | say what is missing, let a task start | a task that may start can be prepared |
| IPC, preload, React views, release scripts | - | forwarding, drawing, packaging | - |

**How they interact.**  The renderer calls the main process over IPC and
receives events.  The task manager writes rows through the task store, runs a
*runner* per task type in an async function (its completion is kept in a map),
and gives it functions that write the row only while it owns the lease.  A
runner calls a service (chapter, outline, polish), awaits the compute worker
(compiling a context, validating an outline) and the agent (the model).
Services write through repositories, whose SQL carries the version a caller saw.
`main.ts` calls the start-up scan once the database is open, the graceful
shutdown when the program quits, and `invalidateActiveRuntimes` when the
credential controller changes a key; a restore drains the task manager and
replaces the database file beneath every service.

**What is hard.**  Everything that happens at an await: lease expiry, deadline,
cancel, shutdown, credential rotation and the answer come in any order, and the
execution finds out by flags that it tests in a fixed order.  Crashes between
two statements, in a sequence whose first statement is already durable.
Decisions taken earlier than they are used: start-up candidates, forms, fences
of a checkpoint.  Several files or stores that must agree after any one write
fails.  Answers that reach the window after the author has gone elsewhere.
`PROJECT.json` lists each such hazard at its line with the properties that watch
it.

## 2. Modules

### Task execution

| Module | Models |
|---|---|
| `RecoveryClassifier` | `classifyTaskRecovery` as an operator on a record of facts, with the checkpoint and task vocabularies |
| `RecoveryFacts` | every combination of facts a row can show, and how facts get worse between two decisions |
| `TaskStore` | each SQL statement on a row of `tasks` as an operator from row to row, with its WHERE clause as a predicate |
| `TaskManager` | the state machine: process, executions, sessions, attempts, queue, shutdown |
| `StoredTask` | request, checkpoint and result of a row as they are parsed, written, damaged, normalised and read back, by the strict parsers of the classifier and the lenient ones of the runners |
| `TaskContract` | **abstract**: what the task manager promises about paid work, in four variables |
| `TaskManagerProperties` | properties, refinement mapping, fairness |
| `TaskManagerProofs`, `RecoveryProofs` | the theorems |

`TaskManager` EXTENDS `TaskStore`, which EXTENDS `RecoveryClassifier`: the
classifier that decides in the state machine is the one that is checked by
itself.

`row[t]` holds the columns that decisions read: status, phase, checkpoint,
cancel_requested, attempt count, lease token, whether the lease is live, runtime
session, shutdown reason, classification.  `result[t]` says that the chapter
version, or the applied outline, is stored.  `attempts` counts the rows of
`recovery_attempts` without an end; `ended` is `runtime_sessions`.  `exec[t]`
gathers what the process keeps of one execution (controller, completion, token,
timers, flags) with a program counter that names the point where it stands.
`queue` and `awaited` are what the start-up workers have still to take and what
they await; `quitting`, `draining` and `pending` are the shutdown.  `inDoubt`,
`consent` and `stopped` are history: no action reads them.

The program counter has two kinds of places.  At an **await** (`compile`,
`ready`, `call`, `validate`) anything may happen.  Inside a **synchronous
stretch** (`created`, `launch`, `save`, `insert`, `review`, `finalize`,
`complete`) only a crash may; the stretch is cut there because each cut leaves
another row behind.  `Turn` and `MayRun` are the event loop: requests, timers
and answers from outside are turns of their own, which come when no stretch is
left to run and after the continuations that a settled promise wakes, a start-up
worker (`WorkerReady`) or the end of a drain (`DrainReady`).

Handlers are actions: `CreateTask`/`LeaseTask` (start), `Resume`,
`ManualRetry`, `WorkerNext`, `Launch`, the runner's steps `CompileDone` to
`Complete`, one action for each way an execution can end (`FinishTimedOut`,
`RejectTimedOut`, `FinishLostLease`, `FinishCancelled`, `FinishFailed`,
`FinishNonRecoverable`, `LaunchFails`), `Cancel`, the two timers,
`LeaseExpires`, `BeginGracefulShutdown`, `Drained`, `DatabaseCloseFails`,
`DrainTimesOut`, `Crash`, `BeginRuntimeSession`, `ScanAndRecoverOnStartup`.

### What tasks and authors write

| Module | Models |
|---|---|
| `Manuscript` | one chapter under generations, polishes and their user: chapter row, versions and revisions, the fences of `generate` and `compileStage`, the saving block, `finalizePersistedVersion`, `confirmVersion`, `rejectVersion`, `saveRevisionResult`, `applyRevision`, `applyRecoveredRevision`; a crash at every commit |
| `ManuscriptProperties` | what is promised about the text of a chapter |
| `OutlineGeneration` | load, prepare, ask, validate and apply with the source boundary of the checkpoint, against an author who edits the outline, its status and the facts; interrupted and resumed |
| `NarrativeNotes` | overlapping requests for proposals: they share a run or are given what is stored; approval and rejection |
| `ProjectTables` / `ProjectService` / `ProjectGraph` | the schema (cascades, SET NULL, triggers, unique indexes) as operators on a set of rows; the checks of services and repositories; requests, forms, exports and imports as actions |
| `FirstChapter` | over those rows: the wizard's steps and checks, the preflight of a chapter task, and what the generation asks for when the task runs |
| `ProjectArchive` | every column of the archive from the request that writes it, through readers, repositories, migrations and the archive's schema, to the imported row |
| `ContextCompiler` | what a prompt holds: what services tell each of four tasks, strategies, candidates, gates, order, required parts, greedy packing, the token estimate at joints |
| `Diary` | the files of a character: folder, progress, fragments, under generation, deletion, edits and torn writes |

In `Manuscript` a text is the identity of the task or edit it came from, so
"whose text stands in the chapter" is the content itself; `ckpt[t].fence` is
what a task took when it first read its sources.  Rows of `ProjectGraph` are
records with a kind, a parent and references; a deletion is one operator that
follows the schema.  `ProjectArchive` abstracts a value to what
readers and schema tell apart (texts by length, numbers by range, links and lists
by form) and has one row per column in a table of readers, writers and schema
tests; at most `MaxOdd` cells hold anything but the plain value.

### What the program stands on

| Module | Models |
|---|---|
| `DatabaseContract` | **abstract**: one content that changes as a whole, and one vacancy in which a start can find nothing |
| `DatabaseFiles` | start, migration, restore and rollback on the files of the database; single calls fail, the process dies between any two |
| `Backups` | creation of four kinds, the retention rule, policy changes and losses |
| `ComputeWorkers` | capacity, settlement, cancel, time-out, exit and termination of runs |
| `ImportStaging` | tokens, staged bytes, timers and tombstones of imports |
| `Credentials` | the places of a key (vault, settings, configuration, plaintext) and the agents that resolve it |
| `Assistant` | sessions, runtimes, prompts, confirmations, archive and disposal |
| `FileReplace` | displace, install, restore, remove, with a failure or crash at each call |
| `AgentTools` | the policies of all tools, the risk of each call, the confirmation, the calls beside it |

### The window

| Module | Models |
|---|---|
| `ListStore` | the list store of the diary pages: fetch numbers, calls and their re-fetch |
| `Workbench` | projects, lists and the settings form of the workbench: begun, begun again after an error or an import, selected, created, deleted, changed |
| `TaskBoard` | tasks and versions of the shown project under loads, events and requests |
| `NarrativeDesk` | notes, skills, versions and their comparison |
| `AssistantDesk` | the sessions' page: one ordered channel from the service, loads, questions |

A request of the window is two actions, the call and its answer, and between
them anything may be clicked; what an answer writes depends on the sequence
numbers and captured values that the store really compares.

### Composition

`TaskManager` composes the manager, its store, two runners, the start-up workers
and the shutdown.  `Manuscript` composes generation, polish and the user on one
chapter; `MCProject` composes requests, forms, export and import on one
database; `AssistantDesk` composes the page with its service.  `MCPlatform` and
`MCStudio` put modules that do *not* share state beside each other so that each
is explored in one run: the variable `subject` is chosen in the first state, only
that part moves, and `Parked` fixes the other parts' initial choices.  Nothing is
gained or lost by this; the state space is the sum of the parts, not their
product.

A definition named `X_Y` is `X` with a plausible defect; no step uses it.  Put
in the place of `X` it shows that a property notices the defect.

### Abstractions

- Text, prompts, titles, timestamps and wording are left out.  A model's answer
  is its effect: a body is there, a summary may be empty, an item is accepted.
- An execution's ending (row, attempt, maps) is one action: no await lies
  between its writes, and a crash between them leaves what a crash before them
  leaves or what the next start repairs alike.
- The start-up scan is one action.  It treats rows one at a time, each from
  that row alone, and a scan cut short is done again from the start.
- A lease runs out when nothing renews it: the machine slept, the timer that
  renews it was cleared, or no execution owns it; renewing keeps it live.
- A lease token is fresh with respect to the row and the execution of its task;
  the code draws random UUIDs.
- Closing the database and leaving the process are one step (`Drained`); a
  second `quiesceForShutdown` while one is awaiting is not modelled.
- The start-up queue is a set: any order of candidates is explored.
- Numbers and positions of volumes, chapters and list entries are left out of
  the project tables; so are names, which only their own uniqueness reads.
- Electron delivers messages of one channel in order.
- A project is inserted with its settings, in one transaction, and nothing deletes them
  alone; so the branches that make missing settings while reading are never taken and
  are left out.
- In `StoredTask` the plainest task meets every damage and other tasks one.

## 3. What the runs check

| Run | Instance | Properties | Result |
|---|---|---|---|
| `recovery` | one chapter, 2 tokens, 3 sessions, 2 attempts, every fault but the deadline (58,307 states up to symmetry) | TypeOK, LeaseFollowsExecution, AttemptsAccounted, GracefulEndIsClean, StopIsRespected, NonRecoverableIsFinal, StoredVersionIsResumed, ImplementsContract | hold |
| `liveness` | two outlines for one target, one worker, deadlines, 2 sessions (314,214 states) | WaitsAreOnExecutions, ExecutionsAndDrainsEnd, QueueServed | hold under `FairSpec` |
| `manuscript` | two generations and two polishes of one chapter, 3 tasks, 2 tries each, 3 versions (3.05 million states) | AppliedOnce, UnfinishedIsNewest, VersionIsOfTheTextSeen, RecoveryKeepsLaterText, ToldIsTrue | hold |
| `platform` | the seven modules of "what the program stands on" but `AgentTools` (617,622 states) | PlatformIsSound, DataIsKept, PoolIsBounded, StagingIsAccounted, KeyIsUsedAsTold, LastGoodContentIsKept, ImplementsDatabase, NewerOnesStay, RestoresAndStopsEnd | hold |
| `studio` | twelve modules of tasks' rows, drafts, notes, archives, diary, tools and window (1,090,523 states) | ResumesWhatWasLeft, NotesComeFromOneRun, ArchiveRoundTrips, PromptIsWellPacked, DiaryIsKept, ListsFollowTheShown, BoardIsOfItsProject, DeskIsCoherent, PageIsOfItsSession, AutoRepeatsNoCall, ProposalReplacesWhatWasAsked, ChangesWereAgreed | hold |
| `project` | two projects, four rows of related tables, one import; a project ready for its chapters, two changes (133,959 states) | ExportBlockedOnlyByDeletedMaterial, StartsOnlyWhatCanBePrepared, SavedFormReplacesWhatItShows | hold |
| `drain_not_quiet` | three tasks, two workers | DrainedIsQuiet | violated |
| `stale_queue_replay` | two tasks, one worker, suspends | NoUnconfirmedReplay | violated |
| `attempt_leak` | one chapter, deadlines and suspends | LostLeaseEndsAttempt | violated |
| `cancel_forgotten` | one outline, deadlines | CancelIsRemembered | violated |
| `stale_list` | two characters, two calls, three fetches | ListIsOfTheLastFetch | violated |
| `stale_settings` | three projects, four clicks | SettingsStayInTheirProject | violated |

**What the properties say.**  Tasks: leases follow executions, attempts are
accounted for, a graceful end leaves nothing open, a stop is respected, a
stored version is finished and never paid again, a failure beyond recovery is
final; a decision taken late never allows more than one taken early
(`AutoRepeatsNoCall`), and a runner resumes exactly the stage on which the
classifier decided (`ResumesWhatWasLeft`).  Texts: a version is stored only while
chapter and sources are those the task read first; a resumed task never replaces
a later text; a task that reports `auto_confirmed` is telling the truth; a
proposal replaces the outline it was asked about; proposals of a chapter come
from one run.  Data: no failure or crash of restore or migration loses the
content, except by the vacancy named in section 5; a backup that is not too
old is deleted only when as many newer ones of its kind stay as the policy
promises; a key the user deleted or replaced is used by nobody who asks later; the
archive of a project comes back as it was, and its export is refused only for
causes the invariant names; a chapter task that the preflight lets start is not
refused by its generation, but for a source material deleted since; a prompt is
told only what the author adopted, and packed to its budget; a form replaces only
what it was filled from; a replaced file keeps its last good content; a runtime of
the assistant runs one prompt, the one a stop finds there (`PlatformIsSound`).
Window: the lists of the workbench, the tasks and versions of the board, the versions
and the comparison of the notes' page and the assistant's messages belong to the
project, chapter or session that is shown, or what does is on its way.  They do not
speak of two things that a late answer may bring from another project, and that the
models contain: suggestions are added to the foreshadows of the project shown meanwhile
(`narrativeStore.ts:163-164`, the answer "suggest" of `NarrativeDesk`), and a polish or
a resumed task becomes the active one (`taskStore.ts:256-257` and `294-295`,
`PolishStarted` and `Resumed` of `TaskBoard`).

**Where a hazard is caught.**  Some hazards need more than one task or a deadline, and
the run `recovery` has neither: what a rejected deadline leaves, a start-up worker during
a drain, a candidate that changed and a cancel that a deadline forgets are caught by the
four runs made for them (section 5), and over every instance by the theorems whose
hypotheses name these races.

**Bounds, and why they are enough.**  `MaxSession` bounds how often the program
starts: three sessions allow a crash or a failed close in a session that is
itself a recovery, and a third that sees the traces of both.  `MaxAttempts` is 3
in the program; one or two already distinguish the first claim, the last and the
refused one.  Two tokens are one for the owner and one for who claims after it;
a token is reused only when neither row nor execution hold it.
`StartupConcurrency` is 2 in the program; with one worker the queue is contended
by two tasks instead of three.  One task is enough for what relates a task to
itself; two are needed for workers, drains and the index on active keys.
`Faults` names what may go wrong in a run, so that a run pays only for the faults
its question needs; crashes, cancels, shutdowns and the expiry of leases nobody
renews are always possible.  `MaxTries` and `MaxTasks` let one task be
interrupted after each commit and resumed while another publishes; `MaxNumber`
versions are one of each task.  `MaxFaults` = 2 lets a repair fail as well as
what it repairs; `MaxEdits` distinguishes what was written before a backup from
what was written after; two requests contend for the restore.  Four backups of
two kinds over three days are the least at which both the count and the age rule
delete and keep.  Three tokens with room for two and a single tombstone reach
the capacity, the byte limit and the eviction.  Two configurations, endpoints,
keys and key users allow a change of one under the use of the other.  Two
projects, sessions or characters are where an answer can be late; clicks bound
how long the author goes on (`MaxClicks`, `MaxBoardClicks`, `MaxDeskClicks`,
`MaxPageClicks` = 3 or 4: there, back, a change and its answer).  Four rows are a
chain of parent, child, and two rows that name them; two changes of a ready
project confirm or unlock both outlines of a volume, or delete what they cite.
`Scale` divides the capacities of the prompts' strategies, so that a few facts
reach them.  `MaxOdd` = 1 finds the
border of each column on its own; no reader looks at two columns.  The values of a
cell are classes (within a limit, above it, of another form), so a reader that is off by
one exactly at a limit cannot be told from one that is not.  Permutations
of tokens are a sound symmetry: no action or property names one, and runs with
liveness do not use it.  Deadlock is not checked because behaviours stop at a
bound: the last session, click, fault or try.

**Fairness.**  `FairSpec` asks for weak fairness of one thing, the event loop:
while there is something to run - an execution, a timer that is due, a worker,
the end of a drain, the scan - something is run.  That is what Node.js promises,
and no more: no order, no answer of the model, no act of the user, no failure
and no crash is asked for.  `ExecutionsAndDrainsEnd` therefore says that the
deadline or a lost lease ends an execution whose model is silent.
`FilesFairness` asks that a file operation that began returns (well or not) and
that the drain's deadline fires; whether the program is started again is the
user's business, so a restore that began takes the status back, on to recovery, or the
process is gone (`RestoresAndStopsEnd`).
`AssistantFairness` asks only that an aborted agent's loop returns.

**Refinements.**  `ImplementsContract` shows that `TaskManager` implements
`TaskContract` (paid work is done once, repeated only with consent, stopped for
good) and `ImplementsDatabase` that `DatabaseFiles` implements
`DatabaseContract` (the database changes as a whole, and what a replacement moves
aside is kept until its place is taken); both by `INSTANCE ... WITH` a mapping
from the detailed state.

## 4. What is proved

Eight modules hold theorems; each is checked by `tlapm` to its last leaf, for
every value of the constants: any number of tasks, sessions, attempts, workers,
projects, rows, clicks, copies and faults.  Of the 40 properties that the passing
runs check 37 are also theorems; the other three are liveness.

| Module | About | Theorems |
|---|---|---|
| `TaskManagerProofs` | `TaskManager`, `RecoveryClassifier` | `TypesHold`, `FailureIsFinal`, `WaitsHold`, `DecisionIsOneOfFive` |
| `RecoveryProofs` | `TaskManager`, `TaskContract` | `WorkersKeepUp`, `LeasesFollow`, `DrainsAreQuiet`, `AttemptsAreAccounted`, `EndsAreClean`, `LostLeasesEndAttempts`, `CallsAreConfirmed`, `ContractIsImplemented`, `CancelsAreRemembered`, `StopsAreRespected`, `StoredVersionsAreResumed`, `WithEnoughWorkers` |
| `ManuscriptProofs` | `Manuscript` | `TextsAreAppliedOnce`, `UnfinishedStaysNewest`, `VersionsAreOfTheTextSeen`, `LaterTextsAreKept`, `ReportsAreTrue` |
| `DatabaseProofs` | `DatabaseFiles`, `DatabaseContract` | `NoEditIsLost`, `FilesImplementTheDatabase` |
| `PlatformProofs` | `ComputeWorkers`, `FileReplace`, `ImportStaging`, `Credentials`, `Backups`, `ProjectArchive`, `Assistant`, `MCPlatform` | `SlotsAreKept`, `LastGoodIsKept`, `StagedImportsAreAccounted`, `KeysAreUsedAsTold`, `NewerBackupsStay`, `ArchivesRoundTrip`, `PlatformStaysSound` |
| `StudioProofs` | `NarrativeNotes`, `AgentTools`, `OutlineGeneration`, `Diary`, `RecoveryFacts`, `StoredTask`, `ContextCompiler` | `NotesAreOfOneRun`, `ChangesAreAgreed`, `ProposalsReplaceWhatWasAsked`, `DiaryStays`, `LateDecisionsAreSafe`, `RunsAreResumedAsLeft`, `PromptsAreWellPacked` |
| `WindowProofs` | `ListStore`, `TaskBoard`, `Workbench`, `NarrativeDesk`, `AssistantDesk` | `ListsAreOfTheLastFetch`, `TheBoardIsOfItsProject`, `ListsFollow`, `SettingsStay`, `TheDeskIsCoherent`, `PageFollowsItsSession` |
| `ProjectProofs` | `ProjectTables`, `ProjectService`, `ProjectGraph`, `FirstChapter` | `SavedFormsReplaceWhatTheyShow`, `ProjectsStayExportable`, `StartsArePreparedFor` |

The proofs of one module follow one layout: lemmas on the operators that steps
are built from (what a statement does to a row, what a file operation leaves on
the disk, what a reader makes of what a writer wrote), a lemma for what each step
leaves alone, the inductive invariant with one step per action, and a temporal
step at the end.

### Tasks

| Theorem | Statement | Inductive invariant and argument |
|---|---|---|
| `TypesHold` | `[]TypeOK` | `TypeInv` adds: a process that is up has begun a session, an attempt in progress is open in the database, nothing runs unless the process is up. Without the second, closing an attempt could count below zero; without the first, a claim would count in no session. |
| `FailureIsFinal` | `NonRecoverableIsFinal` | `FinalInv` adds that a running execution's row is active: late writes of an execution then never meet a row that failed for good, and every path that writes without an execution excludes such a row. |
| `WaitsHold` | `[]WaitsAreOnExecutions` | `WaitInv` adds that the awaited set is finite; each ending removes its task from both sets of waits. |
| `LeasesFollow`, `DrainsAreQuiet` | `[]LeaseFollowsExecution`, `DrainedIsQuiet`, while `DrainsFindNoQueue` | `SessionInv` relates process, sessions and leases: only the latest session can be open, a live lease of this session has its execution, a drain waits for all that runs. |
| `AttemptsAreAccounted`, `EndsAreClean`, `LostLeasesEndAttempts` | `[]AttemptsAccounted`, `[]GracefulEndIsClean`, `LostLeaseEndsAttempt`, while `DrainsFindNoQueue` and `NoDeadlineWithoutLease` | `AttemptInv` adds that the open attempts of a task are exactly the one its execution will finish; a process that is gone leaves open ones only to a session that is still open. |
| `CallsAreConfirmed`, `ContractIsImplemented` | `NoUnconfirmedReplay`; `TaskManager` implements `TaskContract`; while `WaitingAreIdle` | `PaidInv` says what a row shows while a call is in doubt: phase, checkpoint or graceful end tells the classifier (`DoubtNeedsTheUser`), so what it resumes by itself has no call in doubt. Each action then maps to a step of the contract or a stutter. |
| `CancelsAreRemembered` | `CancelIsRemembered`, while `NoDeadlineAfterCancel` | `CancelInv`: a task the user stopped keeps cancel_requested and is not about to run. |
| `StopsAreRespected` | `StopIsRespected`, while `DrainsFindNoQueue` and `NoDeadlineAfterCancel` | `CancelInv`, and `GracefulInv`: no candidate in the queue was stopped by a graceful exit, unless its version is stored. |
| `StoredVersionsAreResumed` | `StoredVersionIsResumed` | `TypeInv`, and that a process which is not up does not quit: the scan queues every candidate that has its final entity. |
| `WorkersKeepUp` | `[]NoBacklog`, if there are no more tasks than workers | `QueueInv`: what is queued is not awaited, so that both together are never more than the tasks. |
| `WithEnoughWorkers` | leases, drains, calls and contract without a hypothesis on behaviours, if there are no more tasks than workers | `NoBacklog` implies `DrainsFindNoQueue` and `WaitingAreIdle` (`WaitingInv`). |
| `DecisionIsOneOfFive`, `LateDecisionsAreSafe` | the classifier's range, and `AutoRepeatsNoCall` | case analysis of the decision tables over every combination of facts; facts that get worse only add refusals. |
| `RunsAreResumedAsLeft` | `[]ResumesWhatWasLeft` | `StoredInv`: short of a damage the row is what its request and its runner wrote; reading back what was written is shown per writer (chapter, outline, polish). |

### Texts and data

| Theorem | Statement | Inductive invariant and argument |
|---|---|---|
| `TextsAreAppliedOnce`, `UnfinishedStaysNewest`, `VersionsAreOfTheTextSeen`, `LaterTextsAreKept`, `ReportsAreTrue` | the properties of `manuscript` | `ManuscriptInv`: types; one stretch of code and one unfinished generation at a time (`Exclusive`); and for each task what its checkpoint, fence and version or revision say about each other and about the chapter (`GenStands`, `PolishStands`). A generated text that was published is `Spent`: nothing puts it into the chapter again, so a text seen once is not mistaken for one that came back. |
| `NoEditIsLost`, `FilesImplementTheDatabase` | `[]DataIsKept`; `DatabaseFiles` implements `DatabaseContract` | `FilesInv`: who owns the connection and the displaced copy at each point of start, replacement and rollback, and that the safety copy is held from the backup to the end of the restore. |
| `SlotsAreKept` | `[]PoolIsBounded` | `SlotInv` counts the living threads: a slot is taken with the thread and given back with it, whatever settles the call first. |
| `LastGoodIsKept` | `[]LastGoodContentIsKept` | `ReplacementInv`: at each call of the replacement, which of file, copy and part holds the last content answered for. |
| `StagedImportsAreAccounted` | `[]StagingIsAccounted` | `StagingInv`: bytes are the sizes of the staged tokens; their sum is counted as the cardinality of a union of disjoint sets (`BytesOfOne`), which needs no recursion. |
| `KeysAreUsedAsTold` | `[]KeyIsUsedAsTold` | `KeyInv`: what lies between two writes of one operation (`BetweenWrites`) is what told the user nothing yet. |
| `NewerBackupsStay` | `NewerOnesStay` | `BackupsInv` with an argument on the ranks of the retention's list: what is removed has as many newer ones before it as the policy keeps. |
| `PlatformStaysSound` | `[]PlatformIsSound` | the inductive invariants of the seven parts side by side (`EveryPartInv`): a step of one part leaves the others alone. `BackupsBounds` and `StagingBounds` add to the invariants of backups and imports what only the types say. For the assistant `RuntimesAreTaken`: a runtime is taken by a prompt that runs on it or failed as it began, so no second one begins there, and what is aborted is the prompt that runs. |
| `PromptsAreWellPacked` | `[]PromptIsWellPacked` | `PackInv`: while the optional parts are tried everything accepted waits in the queue, is in the prompt or was left out, each once; and what was left out would not fit (`Filled`). The last survives every later part because a text put between never makes the next one cheaper, for all rounding and separators (`BetweenCostsMore`, `WhatDidNotFit`). The estimate is a recursive function on sequences; that it is defined everywhere is shown from a least place where it would not be (`EstimatesAre`). |
| `ArchivesRoundTrip` | `[]ArchiveRoundTrips` | `ArchiveInv`; that the tables of readers, writers and schema agree is shown column by column (`ColumnsAreSound`), for any number of odd cells and copies. |
| `NotesAreOfOneRun` | `[]NotesComeFromOneRun` | `NotesInv`: who waits for a shared run waits for the one the notebook has under way, and while it has one the notebook is empty; what is in it is of one reading. |
| `ProposalsReplaceWhatWasAsked` | `ProposalReplacesWhatWasAsked` | `OutlineInv`: what a task goes on from after an interruption is the boundary it asked under, or nothing. |
| `ChangesAreAgreed` | `ChangesWereAgreed` | `ToolsInv`: calls that are active together are all of tools that only read. |
| `DiaryStays` | `[]DiaryIsKept` | `DiaryInv`: the progress in the file is what the accepted calls make of it; numbers of fragments are not used twice, and who saw a fragment that is still there saw it in no later version of the file. |
| `SavedFormsReplaceWhatTheyShow`, `ProjectsStayExportable`, `StartsArePreparedFor` | the properties of `project` | `GraphInv`: every link of a live row names a row of its project and of the kind its column speaks of (`SoundTable`), which requests keep by their checks and deletions by cascades; the form is the row of its version. The last theorem then compares three readings of the same rows: wizard, preflight and generation. |

### The window

`BoardInv`, `WorkbenchInv`, `DeskInv` and `PageInv` say of each answer under way
what it may still write: an answer with the current number is of the shown
project, an older one is dropped or repeated, and what the channel of the
assistant still holds continues the messages on the page.  `ListInv` says that what
is asked for under the current number, or under none, is of the last fetch, and
`FormsAreTheirs` that settings on their way are those of the project they are sent
to.  The theorems of `WindowProofs` follow for any number of clicks, calls and
answers in any order.

### Where a theorem needs a hypothesis

Six hypotheses on behaviours appear.  Each is the race of one disagreement of
section 5, so a theorem says that this race is the only way to the disagreement; the
run that violates the property without the hypothesis shows that it is needed.

| Hypothesis | Says that | Theorems | Run |
|---|---|---|---|
| `DrainsFindNoQueue` | no shutdown begins while candidates of the start-up scan wait for a worker | `LeasesFollow`, `DrainsAreQuiet`, those on attempts, `StopsAreRespected` | `drain_not_quiet` |
| `WaitingAreIdle` | the user resumes no candidate while it waits for a worker | `CallsAreConfirmed`, `ContractIsImplemented` | `stale_queue_replay` |
| `NoDeadlineWithoutLease` | what a deadline stops still has its lease | those on attempts | `attempt_leak` |
| `NoDeadlineAfterCancel` | a deadline ends nothing that the user cancelled | `CancelsAreRemembered`, `StopsAreRespected` | `cancel_forgotten` |
| `PageStaysForTheCalls` | the page goes to no other character while a list that a call asked for is on its way | `ListsAreOfTheLastFetch` | `stale_list` |
| `SavesWhatIsShown` | the settings form is saved only when it holds what the page shows | `SettingsStay` | `stale_settings` |

The first two hold of every behaviour in which the workers of the pool suffice
(`WorkersKeepUp`); nothing of the kind removes the next two, for the program arms a
deadline for every execution.  The run `recovery`, one task for two workers, is an
instance of `WithEnoughWorkers`; as it leaves the deadline out, no behaviour of it meets
the races of the next two.

### Assumptions

Constants carry the named assumptions of their modules, and TLC evaluates them in
the runs.  Most say that a bound is a number and a null value is no value.  Those
that carry an argument: task types and keys agree (`TaskAssumption`), there is a
worker (`BoundAssumption`), no asker is the number of "nobody"
(`NotesAssumption`), a day exists (`DiaryAssumption`), there is room for the one
backup of an older release (`BackupsAssumption`), facts have ids of their own and a
summary or a check has its chapter's body, which the generation service refuses
to be empty (`CompilerAssumption`), and a run of `ProjectGraph` begins with sound
rows (`StartsAssumption`); `NewProjectIsSound` proves the last of the rows a new
program has.

### Only model-checked

- `ExecutionsAndDrainsEnd`, `QueueServed` and `RestoresAndStopsEnd` are liveness
  under fairness, which needs ENABLED.
- The six violations are counterexamples, which a prover does not find.

## 5. Where code and documents disagree

1. **A shutdown over a running execution** (`drain_not_quiet`).  A start-up
   worker goes on to its next candidate when a completion settles, also while the
   program quits; the drain waits for the completions it saw at its start, so the
   session ends gracefully and the database closes under the new execution.
2. **A call repeated unasked** (`stale_queue_replay`).  Candidates are classified
   once.  One that the user resumes while it is in the list, that asks the model
   and then loses its lease keeps the class of before the call, and the worker
   claims it again.
3. **An attempt left open** (`attempt_leak`).  When the deadline fires after the
   lease was lost, `finishTimedOut` throws in every catch clause and
   `finishAttempt` is not reached.
4. **A cancel forgotten** (`cancel_forgotten`).  `finishTimedOut` clears
   cancel_requested; an outline cancelled during validation whose deadline is
   seen first is resumed by the next start.
5. **Another character's list** (`stale_list`).  A call of the list store applies
   its re-fetch under the fetch number of the moment the answer comes, so a
   change of character in between does not make it stale.
6. **Settings of another project** (`stale_settings`).  The settings form is
   filled when the lists arrive; a save between the switch and their arrival
   stores the old project's settings in the new one when the versions coincide.

For these reasons the run `recovery` is without the deadline, and the theorems these
races concern each name the one race as a hypothesis (section 4).

The other properties are stated so that they hold, and the exceptions they name
are worth knowing:

- A crash between the two renames of a replacement leaves no file at the
  database's path, and the next start opens an empty database beside the
  displaced one (`DataIsKept`, `Forget` of the contract).  What is edited between
  the backup a restore makes and its drain is lost with the old file.
- Retention may delete the backup that was just made when the policy is tighter
  than the day's automatic ones, although `shared/backup/types.ts` says a
  result's backup "is always on disk"; `protectedBackupIds` has no caller.
- A material that is deleted leaves its id inside the outlines that name it;
  export and generation then refuse.  It is the only deletion of this kind
  (`ExportBlockedOnlyByDeletedMaterial`).
- An update may empty a name or title that a creation refuses, or store a list
  entry longer than the archive allows; export is then refused with a message
  about an invalid file (`ArchiveRoundTrips` names each column).
- Two commits where one would do: `applyRevision` and `confirmVersion` over IPC,
  a foreshadow's status and its event.  A crash between them is what `torn`
  excepts in `AppliedOnce`.
- `deleteAll` leaves a key that still waits in plain text for its migration; it is
  usable again after the next start.
- Two first prompts of an assistant session create two runtimes, and both run.
- Agents of writing tasks carry the diary's tools without a way to ask: calls
  that destroy are blocked, calls that write run unconfirmed
  (`ChangesWereAgreed` states the rule by risk).
- The diary's files are read as empty when torn, and then overwritten; its pages
  send no version, so a second generation of a day replaces the first.
- Events of tasks that are not shown are ignored, so a task that ends between the
  two reads of a load stays "running" on the board until the next one.

## 6. What is not modelled

- **First chapter wizard, its page** (`renderer/pages/FirstChapterWizardPage.tsx`):
  its buttons send the requests of `ProjectGraph` one after the other; that a
  failed reading of the lists between two of them lets the next click make a
  second character or entry is not modelled, nor are the advice that blocks
  nothing and the review steps.
- **Diary: fragment workflow without callers** (`shared/fragment/*` scoring, undo
  and retroactive completion, blind matcher, tag recommender): reached by tests
  only, or scoring of texts.
- **React views, typed IPC forwarding, preload**: each forwards or draws.  The
  readers of arguments that change what is stored are in `ProjectArchive`,
  `StoredTask` and `ProjectGraph`; the gate that refuses calls while the database
  is down is in `DatabaseFiles`.
- **Release scripts**: build and packaging.
- **Texts**: prompts, parsing of fact reports, diffs, export of documents,
  diagnostic contents, messages of errors.
- **The agent library**: streaming, retries and tool loop belong to an external
  package; `Assistant` and `AgentTools` model what its hooks can observe.
- Inside modelled components: assistant tasks without a runner (they are never
  recovered), events of streamed text, verification of a backup's bytes and the
  scrub of credentials from it, test calls of a key, deletion of an outline under
  its draft, continuity reports (inserted only).

The share of the code the map covers counts what a definition translates; most of
what it leaves out is the views, the texts and validation of formats.

## 7. What could come next

1. Sessions of the assistant over restarts: the rows of its sessions and messages,
   of which `Assistant` keeps only which session is archived.
2. Polish tasks inside `TaskManager`, whose results are revisions and not versions.
3. The steps of the first chapter's wizard with their failures.

## 8. Running it

    tlc -config Recovery.cfg MCTaskManager
    tlc -config Liveness.cfg MCTaskManager
    tlc -config Manuscript.cfg MCManuscript
    tlc -config Platform.cfg MCPlatform
    tlc -config Studio.cfg MCStudio
    tlc -config Project.cfg MCProject
    tlapm TaskManagerProofs.tla
    tlapm RecoveryProofs.tla
    tlapm ManuscriptProofs.tla
    tlapm DatabaseProofs.tla
    tlapm PlatformProofs.tla
    tlapm StudioProofs.tla
    tlapm WindowProofs.tla
    tlapm ProjectProofs.tla
