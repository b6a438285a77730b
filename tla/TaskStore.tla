----------------------------- MODULE TaskStore ------------------------------
(***************************************************************************)
(* One row of the tasks table and the statements of                        *)
(* src/main/database/repositories/taskRepository.ts on it, as functions    *)
(* from the row before to the row after.  Each is one SQLite statement or  *)
(* transaction, so each happens at once or not at all.                     *)
(*                                                                         *)
(* A row keeps what recovery reads.  Instants are abstracted: of a lease   *)
(* only whether it is still running (live).  lease_owner is not kept: one  *)
(* process runs at a time and lease tokens are never reused, so the token  *)
(* decides.  Reasons, errors, progress and the deadline are left out.      *)
(*                                                                         *)
(* A definition named X_Y is X with the defect that Y names, as in         *)
(* TaskManager.                                                            *)
(***************************************************************************)
EXTENDS Naturals, RecoveryClassifier

CONSTANTS
  Token,        \* lease tokens
  NoToken,      \* lease_token IS NULL
  MaxAttempts   \* DEFAULT_MAX_RECOVERY_ATTEMPTS

ASSUME TokenAssumption == NoToken \notin Token
ASSUME AttemptAssumption == MaxAttempts \in Nat

Row ==
  [status : Status \cup {"absent"}, cancel : BOOLEAN, phase : Phase,
   ckpt : CheckpointRecord, class : Classification \cup {"null"},
   count : Nat, lease : Token \cup {NoToken}, live : BOOLEAN,
   shutdown : {"null", "crash", "graceful"}, sess : Nat]

\* A task that was not created yet.
Absent ==
  [status |-> "absent", cancel |-> FALSE, phase |-> "queued",
   ckpt |-> NoCheckpoint, class |-> "null", count |-> 0, lease |-> NoToken,
   live |-> FALSE, shutdown |-> "null", sess |-> 0]

Active(r) == r.status \in {"pending", "running"}
Leased(r) == r.lease # NoToken
\* The fence of updateOwned and runOwnedTransaction.
Owned(r, tok) == r.lease = tok /\ r.live /\ tok # NoToken
\* The weaker test of assertOwnsExecution: the token, not the expiry.
HasToken(r, tok) == r.lease = tok /\ tok # NoToken

-----------------------------------------------------------------------------

\* create: the row of a new task, made in session s.
Created(s) == [Absent EXCEPT !.status = "pending", !.sess = s]

\* The update that follows create in TaskManager.start.
FirstLease(r, tok, s) ==
  [r EXCEPT !.status = "running", !.lease = tok, !.live = TRUE, !.sess = s]

\* requestCancellation, then the classification TaskManager.cancel writes.
Cancellable(r) == Active(r)
CancelRequested(r) ==
  [r EXCEPT !.cancel = TRUE, !.phase = "cancelled",
            !.class = "manual-retry-required"]

Released(r) == [r EXCEPT !.lease = NoToken, !.live = FALSE]

\* releaseLease: only the holder's own lease, live or not.
ReleaseLease_OnlyLive(r, tok) == IF Owned(r, tok) THEN Released(r) ELSE r
ReleaseLease(r, tok) == IF HasToken(r, tok) THEN Released(r) ELSE r

\* expireLeases, which reads the clock once.
ExpireLease(r) == IF Leased(r) /\ ~r.live THEN Released(r) ELSE r

(***************************************************************************)
(* claimForRecovery.  `manual' is manualConfirmed, `final' is              *)
(* ignoreAttemptLimit: the finish of a stored result is not counted.       *)
(***************************************************************************)
AutoClasses == {"resumable", "restartable"}
Claimable_NoLimit(r, manual, final) ==
  /\ r.status \in {"pending", "running", "failed", "cancelled"}
  /\ manual \/ ~r.cancel
  /\ ~Leased(r) \/ ~r.live
  /\ r.class \in AutoClasses
       \cup (IF manual THEN {"manual-retry-required"} ELSE {})
Claimable(r, manual, final) ==
  /\ r.status \in {"pending", "running", "failed", "cancelled"}
  /\ manual \/ ~r.cancel
  /\ final \/ r.count < MaxAttempts
  /\ ~Leased(r) \/ ~r.live
  /\ r.class \in AutoClasses
       \cup (IF manual THEN {"manual-retry-required"} ELSE {})

ClaimedBy(r, tok, manual, final, s) ==
  LET claimed == [r EXCEPT !.lease = tok, !.live = TRUE, !.status = "running",
                           !.count = IF final THEN @ ELSE @ + 1,
                           !.sess = s, !.shutdown = "null"]
  IN IF ~manual THEN claimed
     ELSE [claimed EXCEPT !.cancel = FALSE, !.phase = "queued",
                          !.class = IF @ \in AutoClasses THEN @
                                    ELSE "restartable"]

\* The claim and the update by which claimAndStart prepares the execution.
Prepared(r) ==
  [r EXCEPT !.status = "running", !.cancel = FALSE, !.phase = "preparing"]

\* markGracefulShutdown of session s.
GracefulShutdown_Unmarked(r, s) ==
  IF Active(r) /\ r.sess = s
  THEN [Released(r) EXCEPT !.phase = "queued"]
  ELSE r
GracefulShutdown(r, s) ==
  IF Active(r) /\ r.sess = s
  THEN [Released(r) EXCEPT !.shutdown = "graceful", !.phase = "queued"]
  ELSE r

\* listRecoveryCandidates.
TerminalNonRecoverable(r) ==
  r.status = "failed" /\ r.class = "non-recoverable"
RecoveryCandidate(r) ==
  /\ Active(r) \/ r.status = "failed"
  /\ ~r.cancel
  /\ ~TerminalNonRecoverable(r)

\* markTerminalNonRecoverable.
MarkedTerminal(r) ==
  IF Active(r) \/ r.status = "failed"
  THEN [Released(r) EXCEPT !.status = "failed", !.phase = "failed",
                           !.class = "non-recoverable"]
  ELSE r

=============================================================================
