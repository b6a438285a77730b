------------------------ MODULE TaskManagerProperties -------------------------
(***************************************************************************)
(* What the task manager must get right: invariants, action properties,    *)
(* the contract it implements, and liveness.                               *)
(***************************************************************************)
EXTENDS TaskManager

(***************************************************************************)
(* Every variable has its type, and a task is claimed for recovery at most *)
(* MaxAttempts times, the finishes of a stored version apart.              *)
(***************************************************************************)
TypeOK ==
  /\ row \in [Task -> Row]
  /\ \A t \in Task : row[t].count <= MaxAttempts
  /\ result \in [Task -> BOOLEAN]
  /\ attempts \in [Task -> [Session -> Nat]]
  /\ ended \in [Session -> {"unused", "open", "graceful", "forced"}]
  /\ proc \in {"down", "starting", "up"}
  /\ session \in 0..MaxSession
  /\ quitting \in BOOLEAN /\ draining \in BOOLEAN
  /\ pending \in SUBSET Task
  /\ exec \in [Task -> Exec]
  /\ attempt \in [Task -> 0..MaxSession]
  /\ queue \in SUBSET Task /\ awaited \in SUBSET Task
  /\ inDoubt \in [Task -> BOOLEAN]
  /\ consent \in [Task -> BOOLEAN]
  /\ stopped \in [Task -> BOOLEAN]

(***************************************************************************)
(* While the process is up, a task row that is leased is leased to the     *)
(* execution that runs here: no execution works under a lease that was     *)
(* given to another, and no task is locked by a lease nobody will release  *)
(* or renew.                                                               *)
(***************************************************************************)
LeaseFollowsExecution ==
  proc = "up" => \A t \in Task :
    Leased(row[t]) => Running(t) /\ row[t].lease = exec[t].tok

(***************************************************************************)
(* The recovery attempts left open in the database are exactly those of    *)
(* the executions that run: what a lost lease, a failed launch, a cancel   *)
(* or a crash interrupts is closed, by the execution itself or by the next *)
(* session, and nothing is closed twice.                                   *)
(***************************************************************************)
AttemptsAccounted ==
  proc # "down" => \A t \in Task, s \in Session :
    attempts[t][s] = (IF attempt[t] = s /\ Running(t) THEN 1 ELSE 0)

(***************************************************************************)
(* A session that ended gracefully leaves nothing of itself behind: no     *)
(* open attempt, no lease, no unfinished task that the next start could    *)
(* take for the victim of a crash.                                         *)
(***************************************************************************)
GracefulEndIsClean ==
  \A s \in Session : ended[s] = "graceful" => \A t \in Task :
    /\ attempts[t][s] = 0
    /\ row[t].sess = s =>
         /\ ~Leased(row[t])
         /\ Active(row[t]) => row[t].shutdown = "graceful"

(***************************************************************************)
(* Nobody waits for what is not there: a start-up worker awaits, and a     *)
(* drain waits for, executions that still run, so that each wait is over   *)
(* when they end; and no more than StartupConcurrency workers wait.        *)
(***************************************************************************)
WaitsAreOnExecutions ==
  /\ awaited \subseteq RunningTasks
  /\ pending \subseteq RunningTasks
  /\ Cardinality(awaited) <= StartupConcurrency

\* The steps that the properties speak of.
CallIssued(t) == exec[t].pc # "call" /\ exec'[t].pc = "call"
ClaimedAuto(t) == ~Running(t) /\ exec'[t].pc = "launch"
                  /\ exec'[t].kind = "auto"
ClaimedAtStartup(t) == ClaimedAuto(t) /\ t \in queue
Drains(s) == ended[s] = "open" /\ ended'[s] = "graceful"

(***************************************************************************)
(* The lost-lease path finishes the recovery attempt of its owner: an      *)
(* execution that ends without its lease leaves no attempt open.           *)
(***************************************************************************)
LostLeaseEndsAttempt ==
  [][\A t \in Task :
       /\ Running(t) /\ ~Holds(t) /\ exec[t].pc # "created"
       /\ exec'[t].pc = "none" /\ proc' = "up"
       => attempts'[t][session] = 0]_vars

(***************************************************************************)
(* A model call whose answer never reached the database is not made again  *)
(* unless the user confirmed a retry, across crashes, cancels, lost leases *)
(* and restarts.                                                           *)
(***************************************************************************)
NoUnconfirmedReplay ==
  [][\A t \in Task : CallIssued(t) /\ inDoubt[t] => consent[t]]_vars

(***************************************************************************)
(* When a session ends gracefully no execution is left that could write to *)
(* the database about to be closed.                                        *)
(***************************************************************************)
DrainedIsQuiet == [][(\E s \in Session : Drains(s)) => RunningTasks = {}]_vars

(***************************************************************************)
(* A task the user cancelled never runs by itself again, and neither does  *)
(* one that a graceful exit stopped, but to finish a stored version.       *)
(***************************************************************************)
StopIsRespected ==
  [][\A t \in Task : ClaimedAuto(t) =>
       /\ ~stopped[t]
       /\ row[t].shutdown = "graceful" => HasFinalEntity(t)]_vars

(***************************************************************************)
(* The start-up scan alone: "the task was cancelled, automatic recovery is *)
(* forbidden" is the reason that TaskManager.cancel stores.                *)
(***************************************************************************)
CancelIsRemembered ==
  [][\A t \in Task : ClaimedAtStartup(t) => ~stopped[t]]_vars

(***************************************************************************)
(* A task that failed beyond recovery stays so: no scan, resume, retry or  *)
(* late write of an execution brings it back.                              *)
(***************************************************************************)
NonRecoverableIsFinal ==
  [][\A t \in Task :
       TerminalNonRecoverable(row[t]) => TerminalNonRecoverable(row'[t])]_vars

(***************************************************************************)
(* The start-up scan picks up every unfinished chapter whose version is    *)
(* stored, out of attempts, without a credential or gracefully stopped as  *)
(* it may be, unless the user cancelled it or it failed beyond recovery.   *)
(***************************************************************************)
StoredVersionIsResumed ==
  [][\A t \in Task :
       /\ proc = "starting" /\ proc' = "up"
       /\ HasFinalEntity(t) /\ RecoveryCandidate(row[t])
       => t \in queue']_vars

(***************************************************************************)
(* The task manager implements the contract of TaskContract.               *)
(***************************************************************************)
outcome == [t \in Task |->
  IF row[t].status = "completed" THEN "completed"
  ELSE IF result[t] THEN "stored" ELSE "open"]
asking == [t \in Task |-> exec[t].pc = "call"]
Contract == INSTANCE TaskContract WITH
  Task <- Task, outcome <- outcome, asking <- asking, inDoubt <- inDoubt,
  consent <- consent
ImplementsContract == Contract!Spec

-----------------------------------------------------------------------------

(***************************************************************************)
(* Fairness: while the event loop has something to run - an execution, a   *)
(* timer that is due, a worker, the end of a drain - it runs something.    *)
(* Nothing says what, the model may never answer, no user has to act and   *)
(* nothing has to fail or to crash.                                        *)
(***************************************************************************)
EventLoop ==
  \/ \E t \in Task : Step(t) \/ Timer(t) \/ WorkerNext(t)
  \/ Drained \/ ScanAndRecoverOnStartup
FairSpec == Spec /\ WF_vars(EventLoop)

(***************************************************************************)
(* Every execution ends, however the model behaves: a lost lease, an abort *)
(* or the deadline ends it when no answer does.                            *)
(***************************************************************************)
ExecutionsEnd == \A t \in Task : Running(t) ~> ~Running(t)

(***************************************************************************)
(* A graceful shutdown does not hang: the drain is over some day, though   *)
(* no model answers.                                                       *)
(***************************************************************************)
DrainEnds == draining ~> ~draining

(***************************************************************************)
(* Whoever waits for an execution, a worker or a drain, waits for an end.  *)
(***************************************************************************)
ExecutionsAndDrainsEnd == ExecutionsEnd /\ DrainEnds

(***************************************************************************)
(* Every task the scan chose is taken by a worker, or the process is gone. *)
(***************************************************************************)
QueueServed == \A t \in Task : t \in queue ~> t \notin queue

=============================================================================
