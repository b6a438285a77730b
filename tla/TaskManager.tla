---------------------------- MODULE TaskManager -----------------------------
(***************************************************************************)
(* The task manager of the Electron main process                           *)
(* (src/main/tasks/taskManager.ts), the runners it drives for chapter and  *)
(* outline generation, the rows it keeps in SQLite, its runtime sessions   *)
(* and recovery attempts, graceful shutdown, crash and start-up recovery.  *)
(*                                                                         *)
(* The process is single-threaded: a handler, and an execution from one    *)
(* await to the next, runs alone.  Executions are therefore program        *)
(* counters between awaits; where a crash inside a synchronous stretch     *)
(* leaves a row of its own, the stretch is cut there.  The event loop      *)
(* takes its next turn (Turn) - a request, a timer, the answer of a worker *)
(* or of the model - only when no such stretch is left to run, and after   *)
(* what a settled promise wakes: a start-up worker, the end of a drain.    *)
(*                                                                         *)
(* A definition named X_Y is X with the defect that Y names.  No step uses *)
(* it: it takes the place of X to show that a property notices the defect. *)
(***************************************************************************)
EXTENDS TaskStore, FiniteSets

CONSTANTS
  Task,                \* task ids; a row is absent until its task is started
  TypeOf,              \* task_type of each task
  KeyOf,               \* idempotency_key of each task: type and target
  StartupConcurrency,  \* STARTUP_RECOVERY_CONCURRENCY
  MaxSession,          \* bound: runtime sessions in one behaviour
  Faults               \* what may go wrong in the run

FaultKinds == {"suspend", "timeout", "error", "boundary", "credential",
               "closeFails", "drainTimeout"}

ASSUME TaskAssumption ==
  /\ TypeOf \in [Task -> {"chapter-generation", "outline-generation"}]
  /\ \A t, u \in Task : KeyOf[t] = KeyOf[u] => TypeOf[t] = TypeOf[u]
ASSUME BoundAssumption ==
  /\ StartupConcurrency \in Nat \ {0}
  /\ MaxSession \in Nat
  /\ Faults \subseteq FaultKinds

VARIABLES
  \* The database.
  row,       \* the tasks table
  result,    \* is the chapter version, or the applied outline, stored?
  attempts,  \* recovery_attempts not finished, by task and session
  ended,     \* runtime_sessions: not begun, open, or how it ended
  \* The process.
  proc,      \* down, starting (session begun, rows not scanned) or up
  session,   \* number of the latest runtime session
  quitting,  \* admission is closed (quitting; recoveryGateOpen is its negation)
  draining,  \* quiesceForShutdown is awaiting
  pending,   \* the completions it awaits
  exec,      \* controllers, completions, tokens, timers and flags by task
  attempt,   \* attemptIds: the session of the current attempt, 0 for none
  queue,     \* candidates that the start-up workers have yet to take
  awaited,   \* candidates whose completion a start-up worker awaits
  \* History, read by no step.
  inDoubt,   \* a model call was made whose answer is not stored
  consent,   \* the user confirmed a retry and no call was made since
  stopped    \* the user cancelled and has not confirmed a retry since

db == <<row, result, attempts, ended>>
startup == <<queue, awaited>>
shutdown == <<quitting, draining, pending>>
history == <<inDoubt, consent, stopped>>
vars == <<db, proc, session, shutdown, exec, attempt, startup, history>>

Session == 1..MaxSession

AwaitPc == {"compile", "ready", "call", "validate"}
SyncPc == {"created", "launch", "save", "insert", "review", "finalize",
           "complete"}
Idle == [pc |-> "none", tok |-> NoToken, kind |-> "start", agent |-> FALSE,
         armed |-> FALSE, aborted |-> FALSE, timedOut |-> FALSE,
         lost |-> FALSE]
Exec == [pc : {"none"} \cup AwaitPc \cup SyncPc, tok : Token \cup {NoToken},
         kind : {"start", "auto", "manual"}, agent : BOOLEAN,
         armed : BOOLEAN, aborted : BOOLEAN, timedOut : BOOLEAN,
         lost : BOOLEAN]

Init ==
  /\ row = [t \in Task |-> Absent]
  /\ result = [t \in Task |-> FALSE]
  /\ attempts = [t \in Task |-> [s \in Session |-> 0]]
  /\ ended = [s \in Session |-> "unused"]
  /\ proc = "down" /\ session = 0
  /\ quitting = FALSE /\ draining = FALSE /\ pending = {}
  /\ exec = [t \in Task |-> Idle]
  /\ attempt = [t \in Task |-> 0]
  /\ queue = {} /\ awaited = {}
  /\ inDoubt = [t \in Task |-> FALSE]
  /\ consent = [t \in Task |-> FALSE]
  /\ stopped = [t \in Task |-> FALSE]

-----------------------------------------------------------------------------
(* Who may run, and what is known of a task.                               *)

Running(t) == exec[t].pc # "none"
Quiet == \A t \in Task : exec[t].pc \notin SyncPc
WorkerReady_OffByOne ==
  queue # {} /\ Cardinality(awaited) + 1 < StartupConcurrency
WorkerReady == queue # {} /\ Cardinality(awaited) < StartupConcurrency
DrainReady == proc = "up" /\ Quiet /\ ~WorkerReady /\ draining /\ pending = {}
Turn == proc = "up" /\ Quiet /\ ~WorkerReady /\ ~DrainReady

\* An execution goes on in the stretch it is in, when it is aborted, when its
\* agent is built, or with an answer from outside the process.
MayRun(t) ==
  \/ exec[t].pc \in SyncPc
  \/ Quiet /\ (exec[t].pc # "ready" /\ ~exec[t].aborted => Turn)

Holds(t) == Owned(row[t], exec[t].tok)
FreshToken(t) == Token \ {row[t].lease, exec[t].tok}
ChapterTask(t) == TypeOf[t] = "chapter-generation"
HasFinalEntity(t) == ChapterTask(t) /\ result[t]

\* hasUsableRuntimeCredential, which no task controls.
CredentialStates == IF "credential" \in Faults THEN BOOLEAN ELSE {TRUE}

\* classifyInternal on row r of task t.
Decide_ForgetsTerminal(t, r, credential) ==
  ClassifyTaskRecovery(
    [taskType |-> TypeOf[t], status |-> r.status, cancelRequested |-> r.cancel,
     phase |-> r.phase, checkpoint |-> r.ckpt, parse |-> "readable",
     metadata |-> "current", requestValid |-> TRUE, entity |-> result[t],
     attemptsLeft |-> r.count < MaxAttempts,
     graceful |-> r.shutdown = "graceful", projectExists |-> TRUE,
     targetExists |-> TRUE, credential |-> credential,
     gateOpen |-> ~quitting])
Decide(t, r, credential) ==
  IF TerminalNonRecoverable(r) THEN NonRecoverable
  ELSE ClassifyTaskRecovery(
    [taskType |-> TypeOf[t], status |-> r.status, cancelRequested |-> r.cancel,
     phase |-> r.phase, checkpoint |-> r.ckpt, parse |-> "readable",
     metadata |-> "current", requestValid |-> TRUE, entity |-> result[t],
     attemptsLeft |-> r.count < MaxAttempts,
     graceful |-> r.shutdown = "graceful", projectExists |-> TRUE,
     targetExists |-> TRUE, credential |-> credential,
     gateOpen |-> ~quitting])

\* persistClassification.
Classified(t, r, credential) ==
  [r EXCEPT !.class = Decide(t, r, credential).classification]

\* idx_tasks_active_idempotency: a statement that breaks it throws.
KeyFree(t) == \A u \in Task \ {t} : KeyOf[u] = KeyOf[t] => ~Active(row[u])

\* zeroModelFinish of claimAndStart.
ZeroModelFinish(t) ==
  IF ChapterTask(t) THEN result[t] \/ SavingComplete(row[t].ckpt)
  ELSE OutlineComplete(row[t].ckpt)

\* AbortController.abort of every execution in S.
Abort(S) == [t \in Task |-> IF t \in S /\ Running(t)
                            THEN [exec[t] EXCEPT !.aborted = TRUE]
                            ELSE exec[t]]
RunningTasks == {t \in Task : Running(t)}

-----------------------------------------------------------------------------
(* Starting, claiming and launching an execution.                          *)

\* start (startChapterGeneration, startOutlineGeneration): the row first ...
CreateTask_WhileQuitting(t) ==
  /\ Turn
  /\ row[t].status = "absent" /\ KeyFree(t)
  /\ ChapterTask(t) => \A u \in Task : ChapterTask(u) => ~Active(row[u])
  /\ row' = [row EXCEPT ![t] = Created(session)]
  /\ exec' = [exec EXCEPT ![t] = [Idle EXCEPT !.pc = "created"]]
  /\ UNCHANGED <<result, attempts, ended, proc, session, shutdown, attempt,
                 startup, history>>
CreateTask(t) ==
  /\ Turn /\ ~quitting
  /\ row[t].status = "absent" /\ KeyFree(t)
  /\ ChapterTask(t) => \A u \in Task : ChapterTask(u) => ~Active(row[u])
  /\ row' = [row EXCEPT ![t] = Created(session)]
  /\ exec' = [exec EXCEPT ![t] = [Idle EXCEPT !.pc = "created"]]
  /\ UNCHANGED <<result, attempts, ended, proc, session, shutdown, attempt,
                 startup, history>>

\* ... then its lease.
LeaseTask(t) ==
  /\ exec[t].pc = "created"
  /\ \E tok \in FreshToken(t) :
       /\ row' = [row EXCEPT ![t] = FirstLease(@, tok, session)]
       /\ exec' = [exec EXCEPT ![t].pc = "launch", ![t].tok = tok]
  /\ UNCHANGED <<result, attempts, ended, proc, session, shutdown, attempt,
                 startup, history>>

\* claimAndStart on row r of a task without a local execution.
CanClaim(t, r, manual) ==
  Claimable(r, manual, HasFinalEntity(t)) /\ KeyFree(t)

Claim(t, r, kind, tok) ==
  /\ row' = [row EXCEPT ![t] =
       ClaimedBy(r, tok, kind = "manual", HasFinalEntity(t), session)]
  /\ attempts' = [attempts EXCEPT ![t][session] = @ + 1]
  /\ attempt' = [attempt EXCEPT ![t] = session]
  /\ exec' = [exec EXCEPT ![t] =
       [Idle EXCEPT !.pc = "launch", !.tok = tok, !.kind = kind]]

\* resume and manualRetry: the classification is stored, then claimed from.
Resume(t) ==
  /\ Turn /\ ~quitting /\ ~Running(t)
  /\ row[t].status \notin {"absent", "completed"}
  /\ \E credential \in CredentialStates :
       LET r == Classified(t, row[t], credential)
       IN IF Decide(t, row[t], credential).auto /\ CanClaim(t, r, FALSE)
          THEN \E tok \in FreshToken(t) : Claim(t, r, "auto", tok)
          ELSE row' = [row EXCEPT ![t] = r]
               /\ UNCHANGED <<attempts, attempt, exec>>
  /\ UNCHANGED <<result, ended, proc, session, shutdown, startup, history>>

ManualRetry(t) ==
  /\ Turn /\ ~quitting /\ ~Running(t)
  /\ row[t].status \notin {"absent", "completed"}
  /\ \E credential \in CredentialStates :
       LET r == Classified(t, row[t], credential)
       IN IF Decide(t, row[t], credential).retry /\ CanClaim(t, r, TRUE)
          THEN /\ \E tok \in FreshToken(t) : Claim(t, r, "manual", tok)
               /\ consent' = [consent EXCEPT ![t] = TRUE]
               /\ stopped' = [stopped EXCEPT ![t] = FALSE]
          ELSE /\ row' = [row EXCEPT ![t] = r]
               /\ UNCHANGED <<attempts, attempt, exec, consent, stopped>>
  /\ UNCHANGED <<result, ended, proc, session, shutdown, startup, inDoubt>>

\* One turn of a start-up worker: it trusts the classification in the row.
WorkerNext(t) ==
  /\ proc = "up" /\ Quiet /\ WorkerReady /\ t \in queue
  /\ queue' = queue \ {t}
  /\ \/ /\ Running(t)
        /\ awaited' = awaited \cup {t}
        /\ UNCHANGED <<row, attempts, attempt, exec>>
     \/ /\ ~Running(t) /\ CanClaim(t, row[t], FALSE)
        /\ awaited' = awaited \cup {t}
        /\ \E tok \in FreshToken(t) : Claim(t, row[t], "auto", tok)
     \/ /\ ~Running(t) /\ ~CanClaim(t, row[t], FALSE)
        /\ UNCHANGED <<awaited, row, attempts, attempt, exec>>
  /\ UNCHANGED <<result, ended, proc, session, shutdown, history>>

\* The runner up to its first await; a stored result needs no await at all.
FirstPc(t) ==
  IF ~ChapterTask(t) THEN "compile"
  ELSE IF result[t] THEN "finalize"
  ELSE IF row[t].ckpt.stage \in {"saving", "review"} THEN "save"
  ELSE "compile"

Launch_Unarmed(t) ==
  /\ exec[t].pc = "launch"
  /\ row' = [row EXCEPT ![t] = Prepared(@)]
  /\ exec' = [exec EXCEPT ![t].pc = FirstPc(t)]
  /\ UNCHANGED <<result, attempts, ended, proc, session, shutdown, attempt,
                 startup, history>>
Launch(t) ==
  /\ exec[t].pc = "launch"
  /\ row' = [row EXCEPT ![t] = Prepared(@)]
  /\ exec' = [exec EXCEPT ![t].pc = FirstPc(t), ![t].armed = TRUE]
  /\ UNCHANGED <<result, attempts, ended, proc, session, shutdown, attempt,
                 startup, history>>

-----------------------------------------------------------------------------
(* The steps of a runner that still owns its row.                          *)

ProcessFields == <<attempts, ended, proc, session, shutdown, attempt, startup>>

Proceeds(t) == Holds(t) /\ ~exec[t].aborted

\* The compile worker answered: the checkpoint that precedes a first call.
CompileDone(t) ==
  /\ exec[t].pc = "compile" /\ Proceeds(t) /\ ~exec[t].agent
  /\ LET stage == row[t].ckpt.stage
     IN /\ row' = [row EXCEPT ![t].ckpt.stage =
             CASE ChapterTask(t) /\ stage = "null" -> "body"
               [] ~ChapterTask(t) /\ stage = "null" -> "prepared"
               [] OTHER -> stage]
        /\ exec' = [exec EXCEPT ![t].pc =
             CASE stage = "ready" -> "validate"
               [] stage = "applied" -> "complete"
               [] OTHER -> "ready"]
  /\ UNCHANGED <<result, ProcessFields, history>>

\* The agent exists: the phase is written, then the model is asked.
IssueCall_Unmarked(t) ==
  /\ exec[t].pc = "ready" \/ (exec[t].pc = "compile" /\ exec[t].agent)
  /\ Proceeds(t)
  /\ exec' = [exec EXCEPT ![t].pc = "call", ![t].agent = TRUE]
  /\ inDoubt' = [inDoubt EXCEPT ![t] = TRUE]
  /\ consent' = [consent EXCEPT ![t] = FALSE]
  /\ UNCHANGED <<row, result, ProcessFields, stopped>>
IssueCall(t) ==
  /\ exec[t].pc = "ready" \/ (exec[t].pc = "compile" /\ exec[t].agent)
  /\ Proceeds(t)
  /\ row' = [row EXCEPT ![t].phase = "model",
       ![t].ckpt.stage = IF ChapterTask(t) THEN @ ELSE "model"]
  /\ exec' = [exec EXCEPT ![t].pc = "call", ![t].agent = TRUE]
  /\ inDoubt' = [inDoubt EXCEPT ![t] = TRUE]
  /\ consent' = [consent EXCEPT ![t] = FALSE]
  /\ UNCHANGED <<result, ProcessFields, stopped>>

\* on_chunk: text streamed for the body goes to the checkpoint at once.
StreamChunk(t) ==
  /\ exec[t].pc = "call" /\ Holds(t)
  /\ row[t].ckpt.stage = "body" /\ ~row[t].ckpt.body
  /\ row' = [row EXCEPT ![t].ckpt.body = TRUE]
  /\ UNCHANGED <<result, exec, ProcessFields, history>>

\* The answer of the model is checkpointed; the next stage begins.
Answered(c, summarised) ==
  CASE c.stage = "body" -> [c EXCEPT !.stage = "summary", !.body = TRUE]
    [] c.stage = "summary" ->
         [c EXCEPT !.stage = "fact_check", !.summary = summarised]
    [] c.stage = "fact_check" -> [c EXCEPT !.stage = "saving"]
    [] OTHER -> [c EXCEPT !.stage = "ready"]

ModelReturns(t) ==
  /\ exec[t].pc = "call" /\ Proceeds(t)
  /\ \E summarised \in BOOLEAN :
       row' = [row EXCEPT ![t].ckpt = Answered(@, summarised)]
  /\ exec' = [exec EXCEPT ![t].pc =
       CASE ~ChapterTask(t) -> "validate"
         [] row[t].ckpt.stage = "fact_check" -> "save"
         [] OTHER -> "compile"]
  /\ inDoubt' = [inDoubt EXCEPT ![t] = FALSE]
  /\ UNCHANGED <<result, ProcessFields, consent, stopped>>

\* The saving block of a chapter: phase, fence and checkpoint ...
Save(t) ==
  /\ exec[t].pc = "save" /\ Proceeds(t)
  /\ row' = [row EXCEPT ![t].phase = "persisting_result",
                        ![t].ckpt.stage = "saving"]
  /\ exec' = [exec EXCEPT ![t].pc = "insert"]
  /\ UNCHANGED <<result, ProcessFields, history>>

\* ... the version, under the lease ...
InsertVersion(t) ==
  /\ exec[t].pc = "insert" /\ Proceeds(t)
  /\ result' = [result EXCEPT ![t] = TRUE]
  /\ exec' = [exec EXCEPT ![t].pc = "review"]
  /\ UNCHANGED <<row, ProcessFields, history>>

\* ... and what follows it, here or when a later execution finds it stored.
Review(t) ==
  /\ exec[t].pc \in {"review", "finalize"} /\ Proceeds(t)
  /\ row' = [row EXCEPT ![t].phase = "finalizing",
       ![t].ckpt = [@ EXCEPT !.stage = "review", !.entity = TRUE]]
  /\ exec' = [exec EXCEPT ![t].pc = "complete"]
  /\ UNCHANGED <<result, ProcessFields, history>>

\* The outline and its applied checkpoint, in one transaction.
Apply(t) ==
  /\ exec[t].pc = "validate" /\ Proceeds(t)
  /\ result' = [result EXCEPT ![t] = TRUE]
  /\ row' = [row EXCEPT ![t].phase = "persisting_result",
                        ![t].ckpt.stage = "applied"]
  /\ exec' = [exec EXCEPT ![t].pc = "complete"]
  /\ UNCHANGED <<ProcessFields, history>>

-----------------------------------------------------------------------------
(* How an execution ends.  The outcomes are tried in the order of execute  *)
(* and executeRunner: deadline, lost lease, abort, then the error.         *)

\* The execution is over: its row becomes r, less its lease, and the
\* promise that workers and a shutdown may be awaiting settles.
Settle(t, r) ==
  /\ row' = [row EXCEPT ![t] = ReleaseLease(r, exec[t].tok)]
  /\ exec' = [exec EXCEPT ![t] = Idle]
  /\ awaited' = awaited \ {t}
  /\ pending' = pending \ {t}
  /\ UNCHANGED <<result, ended, proc, session, quitting, draining, queue,
                 history>>

\* finishAttempt.
FinishAttempt(t) ==
  /\ attempts' = IF attempt[t] = 0 THEN attempts
                 ELSE [attempts EXCEPT ![t][attempt[t]] = @ - 1]
  /\ attempt' = [attempt EXCEPT ![t] = 0]

FailedRow(r) == [r EXCEPT !.status = "failed", !.phase = "failed"]

Complete(t) ==
  /\ exec[t].pc = "complete" /\ Proceeds(t)
  /\ Settle(t, [row[t] EXCEPT !.status = "completed", !.phase = "completed",
                              !.class = "null"])
  /\ FinishAttempt(t)

FinishTimedOut(t) ==
  /\ exec[t].pc \in AwaitPc /\ exec[t].timedOut /\ Holds(t)
  /\ Settle(t, [FailedRow(row[t]) EXCEPT !.class = "manual-retry-required",
                                         !.cancel = FALSE])
  /\ FinishAttempt(t)

\* finishTimedOut without the lease: its fenced write throws in every catch
\* clause, the completion rejects and finishAttempt is never reached.
RejectTimedOut(t) ==
  /\ exec[t].pc \in AwaitPc /\ exec[t].timedOut /\ ~Holds(t)
  /\ Settle(t, row[t])
  /\ UNCHANGED <<attempts, attempt>>

\* The next write of the execution, or its abort, finds the lease gone.
FinishLostLease(t) ==
  /\ exec[t].pc \in AwaitPc \cup {"save", "insert", "review", "finalize",
                                  "complete"}
  /\ ~exec[t].timedOut /\ ~Holds(t)
  /\ Settle(t, row[t])
  /\ FinishAttempt(t)

FinishCancelled(t) ==
  /\ exec[t].pc \in AwaitPc /\ Holds(t)
  /\ exec[t].aborted /\ ~exec[t].timedOut
  /\ Settle(t, [row[t] EXCEPT !.status = "cancelled", !.phase = "cancelled",
                              !.cancel = TRUE,
                              !.class = "manual-retry-required"])
  /\ FinishAttempt(t)

\* The worker, the agent or the model failed; the row is classified anew.
FinishFailed(t) ==
  /\ "error" \in Faults /\ exec[t].pc \in AwaitPc /\ Proceeds(t)
  /\ \E credential \in CredentialStates :
       Settle(t, Classified(t, FailedRow(row[t]), credential))
  /\ FinishAttempt(t)

\* A source changed under the execution, or the model's answer is unusable.
FinishNonRecoverable(t) ==
  /\ "boundary" \in Faults /\ Proceeds(t)
  /\ exec[t].pc \in {"compile", "call", "validate", "save", "finalize"}
  /\ Settle(t, [FailedRow(row[t]) EXCEPT !.class = "non-recoverable"])
  /\ FinishAttempt(t)

\* resolveCurrentCredential threw in claimAndStart, after the claim.
LaunchFails_AttemptOpen(t) ==
  /\ "credential" \in Faults /\ exec[t].pc = "launch"
  /\ exec[t].kind # "start" /\ ~ZeroModelFinish(t)
  /\ Settle(t, [FailedRow(row[t]) EXCEPT !.class = "manual-retry-required"])
  /\ UNCHANGED <<attempts, attempt>>
LaunchFails(t) ==
  /\ "credential" \in Faults /\ exec[t].pc = "launch"
  /\ exec[t].kind # "start" /\ ~ZeroModelFinish(t)
  /\ Settle(t, [FailedRow(row[t]) EXCEPT !.class = "manual-retry-required"])
  /\ FinishAttempt(t)

-----------------------------------------------------------------------------
(* The user, the clock and the operating system.                           *)

Cancel(t) ==
  /\ Turn /\ Cancellable(row[t])
  /\ row' = [row EXCEPT ![t] = CancelRequested(@)]
  /\ exec' = Abort({t})
  /\ stopped' = [stopped EXCEPT ![t] = TRUE]
  /\ UNCHANGED <<result, ProcessFields, inDoubt, consent>>

\* invalidateActiveRuntimes: the credentials were rotated.
InvalidateActiveRuntimes ==
  /\ Turn /\ "credential" \in Faults
  /\ exec' = Abort(Task)
  /\ UNCHANGED <<row, result, ProcessFields, history>>

\* The timer of armTimeout.
TimeoutFires(t) ==
  /\ Turn /\ "timeout" \in Faults
  /\ exec[t].pc \in AwaitPc /\ exec[t].armed /\ ~exec[t].timedOut
  /\ exec' = [exec EXCEPT ![t].timedOut = TRUE, ![t].aborted = TRUE]
  /\ UNCHANGED <<row, result, ProcessFields, history>>

\* The timer of armLeaseRenewal finds that the lease cannot be renewed; while
\* it can, renewing leaves it running.
RenewalFails(t) ==
  /\ Turn /\ exec[t].pc \in AwaitPc /\ exec[t].armed
  /\ ~Holds(t) /\ ~exec[t].lost
  /\ exec' = [exec EXCEPT ![t].lost = TRUE, ![t].aborted = TRUE]
  /\ UNCHANGED <<row, result, ProcessFields, history>>

\* Five minutes without renewal: the machine slept, the timer that renews was
\* cleared, or nobody holds the lease.
LeaseExpires(t) ==
  /\ row[t].live
  /\ Running(t) => /\ exec[t].pc \in AwaitPc
                   /\ "suspend" \in Faults \/ ~exec[t].armed
  /\ row' = [row EXCEPT ![t].live = FALSE]
  /\ UNCHANGED <<result, exec, ProcessFields, history>>

-----------------------------------------------------------------------------
(* Graceful shutdown (src/main/database/shutdown.ts) and its two failures. *)

BeginGracefulShutdown_AwaitsQueue ==
  /\ Turn /\ ~quitting
  /\ quitting' = TRUE /\ draining' = TRUE /\ pending' = RunningTasks \cup queue
  /\ exec' = Abort(Task)
  /\ row' = [t \in Task |-> GracefulShutdown(row[t], session)]
  /\ UNCHANGED <<result, attempts, ended, proc, session, attempt, startup,
                 history>>
BeginGracefulShutdown ==
  /\ Turn /\ ~quitting
  /\ quitting' = TRUE /\ draining' = TRUE /\ pending' = RunningTasks
  /\ exec' = Abort(Task)
  /\ row' = [t \in Task |-> GracefulShutdown(row[t], session)]
  /\ UNCHANGED <<result, attempts, ended, proc, session, attempt, startup,
                 history>>

\* The process is gone, and all it kept with it.
Gone ==
  /\ proc' = "down"
  /\ exec' = [t \in Task |-> Idle]
  /\ attempt' = [t \in Task |-> 0]
  /\ queue' = {} /\ awaited' = {}
  /\ quitting' = FALSE /\ draining' = FALSE /\ pending' = {}

\* Every awaited completion settled (DrainReady): the session ends, the
\* database closes and the process exits ...
Drained ==
  /\ DrainReady
  /\ ended' = [ended EXCEPT ![session] = "graceful"]
  /\ Gone
  /\ UNCHANGED <<row, result, attempts, session, history>>

\* ... or closing fails: a new session opens and tasks are admitted again.
DatabaseCloseFails ==
  /\ DrainReady /\ "closeFails" \in Faults /\ session < MaxSession
  /\ ended' = [ended EXCEPT ![session] = "graceful",
                            ![session + 1] = "open"]
  /\ session' = session + 1
  /\ quitting' = FALSE /\ draining' = FALSE
  /\ exec' = [t \in Task |-> [exec[t] EXCEPT !.armed = FALSE,
                                            !.timedOut = FALSE, !.lost = FALSE]]
  /\ UNCHANGED <<row, result, attempts, proc, pending, attempt, startup,
                 history>>

\* The drain took too long: resumeAfterAbortedShutdown in the same session.
DrainTimesOut ==
  /\ Turn /\ "drainTimeout" \in Faults /\ draining /\ pending # {}
  /\ quitting' = FALSE /\ draining' = FALSE /\ pending' = {}
  /\ UNCHANGED <<db, proc, session, exec, attempt, startup, history>>

Crash ==
  /\ proc # "down"
  /\ Gone
  /\ UNCHANGED <<db, session, history>>

-----------------------------------------------------------------------------
(* Start-up recovery.                                                      *)

\* reconcileCrashedAndStart, one transaction.
BeginRuntimeSession ==
  /\ proc = "down" /\ session < MaxSession
  /\ LET crashed == {s \in Session : ended[s] = "open"}
     IN /\ ended' = [s \in Session |->
             IF s \in crashed THEN "forced"
             ELSE IF s = session + 1 THEN "open" ELSE ended[s]]
        /\ row' = [t \in Task |->
             IF row[t].sess \in crashed THEN Released(row[t]) ELSE row[t]]
        /\ attempts' = [t \in Task |-> [s \in Session |->
             IF s \in crashed THEN 0 ELSE attempts[t][s]]]
  /\ session' = session + 1
  /\ proc' = "starting"
  /\ UNCHANGED <<result, shutdown, exec, attempt, startup, history>>

\* The scan of one candidate: how it ended, its class, and its end if it
\* has none.
Scanned(t, r, credential) ==
  LET seen == [r EXCEPT !.shutdown =
                 IF r.status = "running" /\ @ # "graceful" THEN "crash" ELSE @]
      c == Classified(t, seen, credential)
  IN IF c.class = "non-recoverable" THEN MarkedTerminal(c) ELSE c

\* scanAndRecoverOnStartup up to its workers.  What a row becomes depends on
\* that row alone, and the next scan writes it again.
ScanAndRecoverOnStartup ==
  /\ proc = "starting"
  /\ \E credential \in CredentialStates :
       /\ row' = [t \in Task |->
            LET r == ExpireLease(row[t])
            IN IF RecoveryCandidate(r) THEN Scanned(t, r, credential) ELSE r]
       /\ queue' = {t \in Task : RecoveryCandidate(row'[t])
                                /\ Decide(t, row'[t], credential).auto}
  /\ proc' = "up"
  /\ UNCHANGED <<result, attempts, ended, session, shutdown, exec, attempt,
                 awaited, history>>

-----------------------------------------------------------------------------

\* What the process does of its own accord for an execution.
Step(t) ==
  /\ MayRun(t)
  /\ \/ LeaseTask(t) \/ Launch(t) \/ LaunchFails(t)
     \/ CompileDone(t) \/ IssueCall(t)
     \/ Save(t) \/ InsertVersion(t) \/ Review(t) \/ Apply(t) \/ Complete(t)
     \/ FinishTimedOut(t) \/ RejectTimedOut(t) \/ FinishLostLease(t)
     \/ FinishCancelled(t) \/ FinishNonRecoverable(t)

\* What depends on the model's side of a call.
Model(t) == Turn /\ (StreamChunk(t) \/ ModelReturns(t) \/ FinishFailed(t))

User(t) == CreateTask(t) \/ Resume(t) \/ ManualRetry(t) \/ Cancel(t)

Timer(t) == TimeoutFires(t) \/ RenewalFails(t)

Lifecycle ==
  \/ InvalidateActiveRuntimes \/ BeginGracefulShutdown \/ Drained
  \/ DatabaseCloseFails \/ DrainTimesOut \/ Crash
  \/ BeginRuntimeSession \/ ScanAndRecoverOnStartup

Next ==
  \/ \E t \in Task : Step(t) \/ Model(t) \/ User(t) \/ Timer(t)
  \/ \E t \in Task : WorkerNext(t) \/ LeaseExpires(t)
  \/ Lifecycle

Spec == Init /\ [][Next]_vars

=============================================================================
