-------------------------- MODULE TaskManagerProofs --------------------------
(***************************************************************************)
(* Theorems about the task manager, for any set of tasks, any number of    *)
(* sessions and attempts and any faults.                                   *)
(***************************************************************************)
EXTENDS TaskManagerProperties, FiniteSetTheorems, TLAPS

-----------------------------------------------------------------------------
(* The classifier and the operators of TaskStore.                          *)

Decisions == {NonRecoverable, ManualRequired(TRUE), ManualRequired(FALSE),
              Resumable, Restartable}

(***************************************************************************)
(* The classifier answers with one of five decisions.                      *)
(***************************************************************************)
LEMMA DecisionIsOneOfFive ==
  ASSUME NEW f PROVE ClassifyTaskRecovery(f) \in Decisions
<1>1. ClassifyByType(f) \in Decisions
  BY DEF ClassifyByType, ClassifyChapterGeneration, ClassifyOutlineGeneration,
         ClassifyChapterPolish, Decisions
<1>2. ASSUME NEW d \in Decisions PROVE NeedsCredential(f, d) \in Decisions
  BY <1>2 DEF NeedsCredential, Decisions
<1>. QED
  BY <1>1, <1>2 DEF ClassifyTaskRecovery, Decisions

(***************************************************************************)
(* A decision has a class, allows a run by itself exactly when its class   *)
(* is automatic, and allows nothing at all beyond recovery.                *)
(***************************************************************************)
LEMMA DecisionsCoherent ==
  ASSUME NEW d \in Decisions
  PROVE  /\ d.classification \in Classification
         /\ d.auto <=> d.classification \in AutoClasses
         /\ d.classification = "non-recoverable" => ~d.retry
BY DEF Decisions, NonRecoverable, ManualRequired, Resumable, Restartable,
       Decision, Classification, AutoClasses

\* Decide, which puts final failures first, decides coherently too.
LEMMA DecideIsCoherent ==
  ASSUME NEW t, NEW r, NEW credential
  PROVE  Decide(t, r, credential) \in Decisions
BY DecisionIsOneOfFive DEF Decide, Decisions

(***************************************************************************)
(* The statements on a row keep its type.                                  *)
(***************************************************************************)
LEMMA RowStatements ==
  ASSUME NEW r \in Row, NEW tok \in Token \cup {NoToken}, NEW s \in Nat,
         NEW manual \in BOOLEAN, NEW final \in BOOLEAN
  PROVE  /\ Created(s) \in Row
         /\ FirstLease(r, tok, s) \in Row
         /\ CancelRequested(r) \in Row
         /\ Released(r) \in Row
         /\ ReleaseLease(r, tok) \in Row
         /\ ExpireLease(r) \in Row
         /\ ClaimedBy(r, tok, manual, final, s) \in Row
         /\ Prepared(r) \in Row
         /\ GracefulShutdown(r, s) \in Row
         /\ MarkedTerminal(r) \in Row
         /\ FailedRow(r) \in Row
<1>11. /\ {"queued", "preparing", "failed"} \subseteq Phase
       /\ {"running", "failed"} \subseteq Status
       /\ "non-recoverable" \in Classification
  BY DEF Phase, Status, Classification
<1>1. Created(s) \in Row
  BY DEF Row, Created, Absent, Status, Phase, CheckpointRecord, NoCheckpoint,
         Checkpoint
<1>2. FirstLease(r, tok, s) \in Row
  BY DEF Row, FirstLease, Status
<1>3. CancelRequested(r) \in Row
  BY DEF Row, CancelRequested, Phase, Classification
<1>4. ASSUME NEW q \in Row PROVE Released(q) \in Row
  BY <1>4 DEF Row, Released
<1>5. ReleaseLease(r, tok) \in Row /\ ExpireLease(r) \in Row
  BY <1>4 DEF ReleaseLease, ExpireLease
<1>6. ClaimedBy(r, tok, manual, final, s) \in Row
  <2>. DEFINE claimed ==
         [r EXCEPT !.lease = tok, !.live = TRUE, !.status = "running",
                   !.count = IF final THEN @ ELSE @ + 1,
                   !.sess = s, !.shutdown = "null"]
  <2>1. claimed \in Row
    <3>1. ASSUME NEW n \in Nat
          PROVE  [r EXCEPT !.lease = tok, !.live = TRUE, !.status = "running",
                           !.count = n, !.sess = s, !.shutdown = "null"] \in Row
      BY <1>11, <3>1 DEF Row
    <3>2. (IF final THEN r.count ELSE r.count + 1) \in Nat
      BY DEF Row
    <3>. QED
      BY <3>1, <3>2
  <2>2. ASSUME NEW q \in Row
        PROVE  [q EXCEPT !.cancel = FALSE, !.phase = "queued",
                         !.class = IF @ \in AutoClasses THEN @
                                   ELSE "restartable"] \in Row
    <3>1. ASSUME NEW c \in Classification
          PROVE  [q EXCEPT !.cancel = FALSE, !.phase = "queued", !.class = c]
                   \in Row
      BY <1>11, <2>2, <3>1 DEF Row
    <3>2. (IF q.class \in AutoClasses THEN q.class ELSE "restartable")
            \in Classification
      BY DEF AutoClasses, Classification
    <3>. QED
      BY <3>1, <3>2
  <2>. QED
    BY <2>1, <2>2 DEF ClaimedBy
<1>7. Prepared(r) \in Row
  BY <1>11 DEF Row, Prepared
<1>8. GracefulShutdown(r, s) \in Row
  BY <1>4, <1>11 DEF Row, GracefulShutdown
<1>9. MarkedTerminal(r) \in Row
  <2>1. ASSUME NEW q \in Row
        PROVE  [q EXCEPT !.status = "failed", !.phase = "failed",
                         !.class = "non-recoverable"] \in Row
    BY <1>11, <2>1 DEF Row
  <2>. QED
    BY <1>4, <2>1 DEF MarkedTerminal
<1>10. FailedRow(r) \in Row
  BY <1>11 DEF Row, FailedRow
<1>. QED
  BY <1>1, <1>2, <1>3, <1>4, <1>5, <1>6, <1>7, <1>8, <1>9, <1>10

\* A row is still a row when its classification is stored.
LEMMA ClassifiedRow ==
  ASSUME NEW t, NEW r \in Row, NEW credential
  PROVE  Classified(t, r, credential) \in Row
BY DecideIsCoherent, DecisionsCoherent DEF Classified, Row

(***************************************************************************)
(* They never raise the count of attempts above the limit: a claim counts  *)
(* only while an attempt is left.                                          *)
(***************************************************************************)
LEMMA RowCounts ==
  ASSUME NEW r \in Row, r.count <= MaxAttempts,
         NEW tok, NEW s, NEW manual, NEW final
  PROVE  /\ Created(s).count = 0
         /\ FirstLease(r, tok, s).count = r.count
         /\ CancelRequested(r).count = r.count
         /\ Released(r).count = r.count
         /\ ReleaseLease(r, tok).count = r.count
         /\ ExpireLease(r).count = r.count
         /\ Claimable(r, manual, final) =>
              ClaimedBy(r, tok, manual, final, s).count <= MaxAttempts
         /\ Prepared(r).count = r.count
         /\ GracefulShutdown(r, s).count = r.count
         /\ MarkedTerminal(r).count = r.count
         /\ FailedRow(r).count = r.count
<1>1. Claimable(r, manual, final) =>
        ClaimedBy(r, tok, manual, final, s).count <= MaxAttempts
  <2>. SUFFICES ASSUME Claimable(r, manual, final)
                PROVE  ClaimedBy(r, tok, manual, final, s).count <= MaxAttempts
    OBVIOUS
  <2>. DEFINE claimed ==
         [r EXCEPT !.lease = tok, !.live = TRUE, !.status = "running",
                   !.count = IF final THEN @ ELSE @ + 1,
                   !.sess = s, !.shutdown = "null"]
  <2>1. claimed.count <= MaxAttempts
    BY AttemptAssumption DEF Row, Claimable
  <2>2. ClaimedBy(r, tok, manual, final, s).count = claimed.count
    BY DEF ClaimedBy, Row
  <2>. QED
    BY <2>1, <2>2
<1>2. ReleaseLease(r, tok).count = r.count /\ ExpireLease(r).count = r.count
  BY DEF Row, ReleaseLease, ExpireLease, Released
<1>3. /\ GracefulShutdown(r, s).count = r.count
      /\ MarkedTerminal(r).count = r.count
  BY DEF Row, GracefulShutdown, MarkedTerminal, Released
<1>. QED
  BY <1>1, <1>2, <1>3 DEF Row, Created, Absent, FirstLease, CancelRequested,
     Released, Prepared, FailedRow

-----------------------------------------------------------------------------
(* Types.                                                                  *)

\* The types alone are not inductive: a claim needs a session to count in,
\* the end of an execution an attempt to close.
SessionBegun == proc # "down" => session \in Session
AttemptIsOpen ==
  \A t \in Task : attempt[t] # 0 => attempts[t][attempt[t]] > 0
NothingRunsUnlessUp ==
  proc # "up" => \A t \in Task : attempt[t] = 0 /\ ~Running(t)
TypeInv == TypeOK /\ SessionBegun /\ AttemptIsOpen /\ NothingRunsUnlessUp

\* The invariant holds when the database is new and no process runs.
LEMMA TypeInit == Init => TypeInv
<1>. SUFFICES ASSUME Init PROVE TypeInv
  OBVIOUS
<1>. USE BoundAssumption, AttemptAssumption
<1>1. Absent \in Row /\ Absent.count = 0
  BY DEF Absent, Row, Status, Phase, CheckpointRecord, NoCheckpoint, Checkpoint
<1>2. Idle \in Exec /\ Idle.pc = "none"
  BY DEF Idle, Exec
<1>3. row \in [Task -> Row] /\ \A t \in Task : row[t].count <= MaxAttempts
  BY <1>1 DEF Init
<1>4. exec \in [Task -> Exec] /\ \A t \in Task : ~Running(t)
  BY <1>2 DEF Init, Running
<1>5. /\ attempts \in [Task -> [Session -> Nat]]
      /\ attempt = [t \in Task |-> 0] /\ session = 0 /\ proc = "down"
      /\ ended \in [Session -> {"unused", "open", "graceful", "forced"}]
  BY DEF Init
<1>6. session \in 0..MaxSession /\ attempt \in [Task -> 0..MaxSession]
  BY <1>5
<1>7. /\ result \in [Task -> BOOLEAN] /\ inDoubt \in [Task -> BOOLEAN]
      /\ consent \in [Task -> BOOLEAN] /\ stopped \in [Task -> BOOLEAN]
      /\ quitting \in BOOLEAN /\ draining \in BOOLEAN
      /\ pending \in SUBSET Task /\ queue \in SUBSET Task
      /\ awaited \in SUBSET Task
  BY DEF Init
<1>8. TypeOK
  BY <1>3, <1>4, <1>5, <1>6, <1>7 DEF TypeOK
<1>. QED
  BY <1>4, <1>5, <1>8 DEF TypeInv, SessionBegun, AttemptIsOpen,
     NothingRunsUnlessUp

(***************************************************************************)
(* An execution that ends leaves every variable well typed.                *)
(***************************************************************************)
LEMMA SettleType ==
  ASSUME TypeInv, NEW t \in Task, exec[t].pc # "none",
         NEW r \in Row, r.count <= MaxAttempts, Settle(t, r),
         FinishAttempt(t) \/ UNCHANGED <<attempts, attempt>>
  PROVE  TypeInv'
<1>. USE BoundAssumption DEF Session
<1>1. proc = "up" /\ session \in Session
  BY DEF TypeInv, TypeOK, SessionBegun, NothingRunsUnlessUp, Running
<1>2. /\ row' \in [Task -> Row]
      /\ \A u \in Task : row'[u].count <= MaxAttempts
  <2>1. exec[t].tok \in Token \cup {NoToken}
    BY DEF TypeInv, TypeOK, Exec
  <2>2. ReleaseLease(r, exec[t].tok) \in Row
    BY <2>1 DEF ReleaseLease, Released, Row
  <2>3. ReleaseLease(r, exec[t].tok).count <= MaxAttempts
    BY RowCounts
  <2>. QED
    BY <2>2, <2>3 DEF TypeInv, TypeOK, Settle
<1>3. /\ exec' \in [Task -> Exec]
      /\ awaited' \in SUBSET Task /\ pending' \in SUBSET Task
  BY DEF TypeInv, TypeOK, Settle, Idle, Exec
<1>4. /\ attempts' \in [Task -> [Session -> Nat]]
      /\ attempt' \in [Task -> 0..MaxSession]
      /\ AttemptIsOpen'
  <2>1. CASE UNCHANGED <<attempts, attempt>>
    BY <2>1 DEF TypeInv, TypeOK, AttemptIsOpen
  <2>2. CASE FinishAttempt(t) /\ attempt[t] = 0
    BY <2>2 DEF TypeInv, TypeOK, AttemptIsOpen, FinishAttempt
  <2>3. CASE FinishAttempt(t) /\ attempt[t] # 0
    <3>1. attempt[t] \in Session /\ attempts[t][attempt[t]] - 1 \in Nat
      BY <2>3 DEF TypeInv, TypeOK, AttemptIsOpen
    <3>. QED
      BY <2>3, <3>1 DEF TypeInv, TypeOK, AttemptIsOpen, FinishAttempt
  <2>. QED
    BY <2>1, <2>2, <2>3
<1>. QED
  BY <1>1, <1>2, <1>3, <1>4
     DEF TypeInv, TypeOK, Settle, SessionBegun, NothingRunsUnlessUp, history

(***************************************************************************)
(* A claim leaves every variable well typed.                               *)
(***************************************************************************)
LEMMA ClaimType ==
  ASSUME TypeInv, NEW t \in Task, NEW r \in Row, r.count <= MaxAttempts,
         NEW kind \in {"auto", "manual"}, NEW tok \in Token,
         proc = "up", CanClaim(t, r, kind = "manual"), Claim(t, r, kind, tok),
         HasFinalEntity(t) \in BOOLEAN
  PROVE  /\ row' \in [Task -> Row]
         /\ \A u \in Task : row'[u].count <= MaxAttempts
         /\ attempts' \in [Task -> [Session -> Nat]]
         /\ attempt' \in [Task -> 0..MaxSession]
         /\ exec' \in [Task -> Exec]
         /\ AttemptIsOpen'
<1>. USE BoundAssumption DEF Session
<1>1. session \in Session /\ session # 0 /\ session \in Nat
  BY DEF TypeInv, TypeOK, SessionBegun
<1>. DEFINE claimed ==
       ClaimedBy(r, tok, kind = "manual", HasFinalEntity(t), session)
<1>2. claimed \in Row
  BY <1>1, RowStatements
<1>3. claimed.count <= MaxAttempts
  BY RowCounts DEF CanClaim
<1>4. row' \in [Task -> Row] /\ \A u \in Task : row'[u].count <= MaxAttempts
  BY <1>2, <1>3 DEF Claim, TypeInv, TypeOK
<1>5. exec' \in [Task -> Exec]
  BY DEF Claim, TypeInv, TypeOK, Exec, Idle, SyncPc
<1>6. /\ attempts' \in [Task -> [Session -> Nat]]
      /\ attempt' \in [Task -> 0..MaxSession]
      /\ AttemptIsOpen'
  BY <1>1 DEF Claim, TypeInv, TypeOK, AttemptIsOpen
<1>. QED
  BY <1>4, <1>5, <1>6

(***************************************************************************)
(* So does a step of an execution that touches no bookkeeping of the       *)
(* process, if rows and executions keep their types.                       *)
(***************************************************************************)
LEMMA FrameType ==
  ASSUME TypeInv, proc = "up", UNCHANGED ProcessFields,
         row' \in [Task -> Row], \A u \in Task : row'[u].count <= MaxAttempts,
         exec' \in [Task -> Exec], result' \in [Task -> BOOLEAN],
         inDoubt' \in [Task -> BOOLEAN], consent' \in [Task -> BOOLEAN],
         stopped' \in [Task -> BOOLEAN]
  PROVE  TypeInv'
<1>1. TypeOK'
  BY DEF TypeInv, TypeOK, ProcessFields, shutdown, startup, Session
<1>2. SessionBegun' /\ AttemptIsOpen' /\ NothingRunsUnlessUp'
  BY DEF TypeInv, SessionBegun, AttemptIsOpen, NothingRunsUnlessUp,
     ProcessFields, Session
<1>. QED
  BY <1>1, <1>2 DEF TypeInv

(***************************************************************************)
(* So does every step of an execution.                                     *)
(***************************************************************************)
LEMMA StepType ==
  ASSUME TypeInv, NEW t \in Task, Step(t) \/ Model(t) PROVE TypeInv'
<1>1. /\ row[t] \in Row /\ row[t].count <= MaxAttempts
      /\ exec[t] \in Exec /\ row[t].ckpt \in CheckpointRecord
      /\ session \in Nat
  BY DEF TypeInv, TypeOK, Row
<1>. DEFINE row1(r) == r \in Row /\ r.count <= MaxAttempts
            Framed(r, e) ==
              /\ row1(r) /\ row' = [row EXCEPT ![t] = r]
              /\ e \in Exec /\ exec' = [exec EXCEPT ![t] = e]
              /\ exec[t].pc # "none" /\ UNCHANGED ProcessFields
              /\ result' \in [Task -> BOOLEAN]
              /\ inDoubt' \in [Task -> BOOLEAN]
              /\ consent' \in [Task -> BOOLEAN]
              /\ stopped' \in [Task -> BOOLEAN]
<1>2. ASSUME NEW r, NEW e, Framed(r, e) PROVE TypeInv'
  <2>1. proc = "up"
    BY <1>2 DEF TypeInv, NothingRunsUnlessUp, Running
  <2>2. /\ row' \in [Task -> Row]
        /\ \A u \in Task : row'[u].count <= MaxAttempts
    BY <1>2 DEF TypeInv, TypeOK
  <2>3. exec' \in [Task -> Exec]
    BY <1>2 DEF TypeInv, TypeOK
  <2>. QED
    BY <1>2, <2>1, <2>2, <2>3, FrameType
<1>3. ASSUME NEW stage \in {"null"} \cup ChapterStage \cup OutlineStage
                           \cup PolishStage, NEW phase \in Phase
      PROVE  row1([row[t] EXCEPT !.phase = phase, !.ckpt.stage = stage])
  <2>1. [row[t].ckpt EXCEPT !.stage = stage] \in CheckpointRecord
    BY <1>1 DEF CheckpointRecord
  <2>2. row1([row[t] EXCEPT !.phase = phase,
                            !.ckpt = [@ EXCEPT !.stage = stage]])
    BY <1>1, <2>1 DEF Row
  <2>. QED
    BY <2>2
<1>4. UNCHANGED history => /\ inDoubt' \in [Task -> BOOLEAN]
                           /\ consent' \in [Task -> BOOLEAN]
                           /\ stopped' \in [Task -> BOOLEAN]
  BY DEF history, TypeInv, TypeOK
<1>5. result \in [Task -> BOOLEAN] /\ inDoubt \in [Task -> BOOLEAN]
      /\ consent \in [Task -> BOOLEAN] /\ stopped \in [Task -> BOOLEAN]
  BY DEF TypeInv, TypeOK
<1>6. CASE LeaseTask(t)
  <2>1. PICK tok \in Token :
          /\ row' = [row EXCEPT ![t] = FirstLease(@, tok, session)]
          /\ exec' = [exec EXCEPT ![t].pc = "launch", ![t].tok = tok]
    BY <1>6 DEF LeaseTask, FreshToken
  <2>2. row1(FirstLease(row[t], tok, session))
    <3>1. FirstLease(row[t], tok, session) \in Row
      BY <1>1, RowStatements
    <3>. QED
      BY <1>1, <3>1 DEF FirstLease, Row
  <2>3. [exec[t] EXCEPT !.pc = "launch", !.tok = tok] \in Exec
    BY <1>1 DEF Exec, SyncPc
  <2>4. Framed(FirstLease(row[t], tok, session),
               [exec[t] EXCEPT !.pc = "launch", !.tok = tok])
    BY <1>4, <1>5, <1>6, <2>1, <2>2, <2>3
       DEF LeaseTask, ProcessFields, TypeInv, TypeOK
  <2>. QED
    BY <1>2, <2>4
<1>7. CASE Launch(t)
  <2>1. row1(Prepared(row[t]))
    BY <1>1, RowStatements, RowCounts
  <2>2. [exec[t] EXCEPT !.pc = FirstPc(t), !.armed = TRUE] \in Exec
    BY <1>1 DEF Exec, SyncPc, AwaitPc, FirstPc
  <2>3. Framed(Prepared(row[t]),
               [exec[t] EXCEPT !.pc = FirstPc(t), !.armed = TRUE])
    BY <1>4, <1>5, <1>7, <2>1, <2>2
       DEF Launch, ProcessFields, TypeInv, TypeOK
  <2>. QED
    BY <1>2, <2>3
<1>8. CASE CompileDone(t)
  <2>. DEFINE stage == row[t].ckpt.stage
              next == CASE ChapterTask(t) /\ stage = "null" -> "body"
                        [] ~ChapterTask(t) /\ stage = "null" -> "prepared"
                        [] OTHER -> stage
              pc == CASE stage = "ready" -> "validate"
                      [] stage = "applied" -> "complete"
                      [] OTHER -> "ready"
  <2>1. next \in {"null"} \cup ChapterStage \cup OutlineStage \cup PolishStage
    BY <1>1 DEF CheckpointRecord, ChapterStage, OutlineStage
  <2>2. row1([row[t] EXCEPT !.ckpt.stage = next])
    BY <1>1, <2>1 DEF Row, CheckpointRecord
  <2>3. [exec[t] EXCEPT !.pc = pc] \in Exec
    BY <1>1 DEF Exec, SyncPc, AwaitPc
  <2>4. Framed([row[t] EXCEPT !.ckpt.stage = next], [exec[t] EXCEPT !.pc = pc])
    BY <1>4, <1>5, <1>8, <2>2, <2>3 DEF CompileDone, TypeInv, TypeOK
  <2>. QED
    BY <1>2, <2>4
<1>9. CASE IssueCall(t)
  <2>. DEFINE stage == IF ChapterTask(t) THEN row[t].ckpt.stage ELSE "model"
              r == [row[t] EXCEPT !.phase = "model", !.ckpt.stage = stage]
              e == [exec[t] EXCEPT !.pc = "call", !.agent = TRUE]
  <2>1. stage \in {"null"} \cup ChapterStage \cup OutlineStage \cup PolishStage
    BY <1>1 DEF CheckpointRecord, OutlineStage
  <2>2. row1(r)
    BY <1>3, <2>1 DEF Phase
  <2>3. e \in Exec
    BY <1>1 DEF Exec, AwaitPc
  <2>4. Framed(r, e)
    BY <1>5, <1>9, <2>2, <2>3 DEF IssueCall, TypeInv, TypeOK
  <2>. QED
    BY <1>2, <2>4
<1>10. CASE StreamChunk(t)
  <2>1. row1([row[t] EXCEPT !.ckpt.body = TRUE])
    BY <1>1 DEF Row, CheckpointRecord
  <2>2. Framed([row[t] EXCEPT !.ckpt.body = TRUE], exec[t])
    BY <1>1, <1>4, <1>5, <1>10, <2>1 DEF StreamChunk, TypeInv, TypeOK
  <2>. QED
    BY <1>2, <2>2
<1>11. CASE ModelReturns(t)
  <2>. DEFINE pc == CASE ~ChapterTask(t) -> "validate"
                      [] row[t].ckpt.stage = "fact_check" -> "save"
                      [] OTHER -> "compile"
              e == [exec[t] EXCEPT !.pc = pc]
  <2>1. PICK summarised \in BOOLEAN :
          row' = [row EXCEPT ![t].ckpt = Answered(@, summarised)]
    BY <1>11 DEF ModelReturns
  <2>2. Answered(row[t].ckpt, summarised) \in CheckpointRecord
    BY <1>1 DEF Answered, CheckpointRecord, ChapterStage, OutlineStage
  <2>3. row1([row[t] EXCEPT !.ckpt = Answered(@, summarised)])
    BY <1>1, <2>2 DEF Row
  <2>4. e \in Exec
    BY <1>1 DEF Exec, AwaitPc, SyncPc
  <2>5. Framed([row[t] EXCEPT !.ckpt = Answered(@, summarised)], e)
    BY <1>5, <1>11, <2>1, <2>3, <2>4 DEF ModelReturns, TypeInv, TypeOK
  <2>. QED
    BY <1>2, <2>5
<1>12. CASE Save(t)
  <2>. DEFINE r == [row[t] EXCEPT !.phase = "persisting_result",
                                  !.ckpt.stage = "saving"]
              e == [exec[t] EXCEPT !.pc = "insert"]
  <2>1. row1(r) /\ e \in Exec
    <3>1. row1(r)
      BY <1>3 DEF ChapterStage, Phase
    <3>2. e \in Exec
      BY <1>1 DEF Exec, SyncPc
    <3>. QED
      BY <3>1, <3>2
  <2>2. row' = [row EXCEPT ![t] = r] /\ exec' = [exec EXCEPT ![t] = e]
    BY <1>12 DEF Save, TypeInv, TypeOK
  <2>3. Framed(r, e)
    BY <1>4, <1>5, <1>12, <2>1, <2>2 DEF Save
  <2>. QED
    BY <1>2, <2>3
<1>13. CASE InsertVersion(t)
  <2>. DEFINE e == [exec[t] EXCEPT !.pc = "review"]
  <2>1. e \in Exec
    BY <1>1 DEF Exec, SyncPc
  <2>2. result' \in [Task -> BOOLEAN]
    BY <1>5, <1>13 DEF InsertVersion
  <2>3. row' = [row EXCEPT ![t] = row[t]]
    BY <1>13 DEF InsertVersion, TypeInv, TypeOK
  <2>4. Framed(row[t], e)
    BY <1>1, <1>4, <1>13, <2>1, <2>2, <2>3 DEF InsertVersion
  <2>. QED
    BY <1>2, <2>4
<1>14. CASE Review(t)
  <2>. DEFINE r == [row[t] EXCEPT !.phase = "finalizing",
                      !.ckpt = [@ EXCEPT !.stage = "review", !.entity = TRUE]]
              e == [exec[t] EXCEPT !.pc = "complete"]
  <2>1. row1(r) /\ e \in Exec
    <3>1. [row[t].ckpt EXCEPT !.stage = "review", !.entity = TRUE]
            \in CheckpointRecord
      BY <1>1 DEF CheckpointRecord, ChapterStage
    <3>. QED
      BY <1>1, <3>1 DEF Row, Phase, Exec, SyncPc
  <2>2. Framed(r, e)
    BY <1>4, <1>5, <1>14, <2>1 DEF Review, TypeInv, TypeOK
  <2>. QED
    BY <1>2, <2>2
<1>15. CASE Apply(t)
  <2>. DEFINE r == [row[t] EXCEPT !.phase = "persisting_result",
                                  !.ckpt.stage = "applied"]
              e == [exec[t] EXCEPT !.pc = "complete"]
  <2>1. row1(r) /\ e \in Exec
    <3>1. row1(r)
      BY <1>3 DEF OutlineStage, Phase
    <3>2. e \in Exec
      BY <1>1 DEF Exec, SyncPc
    <3>. QED
      BY <3>1, <3>2
  <2>2. result' \in [Task -> BOOLEAN]
    BY <1>5, <1>15 DEF Apply
  <2>3. row' = [row EXCEPT ![t] = r] /\ exec' = [exec EXCEPT ![t] = e]
    BY <1>15 DEF Apply, TypeInv, TypeOK
  <2>4. Framed(r, e)
    BY <1>4, <1>15, <2>1, <2>2, <2>3 DEF Apply
  <2>. QED
    BY <1>2, <2>4
<1>16. CASE \/ Complete(t) \/ FinishTimedOut(t) \/ RejectTimedOut(t)
            \/ FinishLostLease(t) \/ FinishCancelled(t) \/ FinishFailed(t)
            \/ FinishNonRecoverable(t) \/ LaunchFails(t)
  <2>1. PICK r : Settle(t, r) /\ row1(r)
    <3>1. FailedRow(row[t]) \in Row /\ FailedRow(row[t]).count <= MaxAttempts
      BY <1>1, RowStatements, RowCounts
    <3>2. ASSUME NEW c \in Classification
          PROVE  /\ row1([FailedRow(row[t]) EXCEPT !.class = c])
                 /\ row1([FailedRow(row[t]) EXCEPT !.class = c,
                                                   !.cancel = FALSE])
      BY <3>1 DEF Row
    <3>3. ASSUME NEW credential
          PROVE  row1(Classified(t, FailedRow(row[t]), credential))
      BY <3>1, <3>2, DecideIsCoherent, DecisionsCoherent DEF Classified
    <3>4. /\ row1([row[t] EXCEPT !.status = "completed", !.phase = "completed",
                                 !.class = "null"])
          /\ row1([row[t] EXCEPT !.status = "cancelled", !.phase = "cancelled",
                                 !.cancel = TRUE,
                                 !.class = "manual-retry-required"])
      BY <1>1 DEF Row, Status, Phase, Classification
    <3>5. {"manual-retry-required", "non-recoverable"} \subseteq Classification
      BY DEF Classification
    <3>6. CASE Complete(t)
      BY <3>4, <3>6 DEF Complete
    <3>7. CASE FinishTimedOut(t)
      BY <3>2, <3>5, <3>7 DEF FinishTimedOut
    <3>8. CASE RejectTimedOut(t) \/ FinishLostLease(t)
      BY <1>1, <3>8 DEF RejectTimedOut, FinishLostLease
    <3>9. CASE FinishCancelled(t)
      BY <3>4, <3>9 DEF FinishCancelled
    <3>10. CASE FinishFailed(t)
      BY <3>3, <3>10 DEF FinishFailed
    <3>11. CASE FinishNonRecoverable(t) \/ LaunchFails(t)
      BY <3>2, <3>5, <3>11 DEF FinishNonRecoverable, LaunchFails
    <3>. QED
      BY <1>16, <3>6, <3>7, <3>8, <3>9, <3>10, <3>11
  <2>2. /\ exec[t].pc # "none"
        /\ FinishAttempt(t) \/ UNCHANGED <<attempts, attempt>>
    BY <1>16 DEF Complete, FinishTimedOut, RejectTimedOut, FinishLostLease,
       FinishCancelled, FinishFailed, FinishNonRecoverable, LaunchFails,
       AwaitPc
  <2>. QED
    BY <2>1, <2>2, SettleType
<1>. QED
  BY <1>6, <1>7, <1>8, <1>9, <1>10, <1>11, <1>12, <1>13, <1>14, <1>15, <1>16
     DEF Step, Model

(***************************************************************************)
(* Every step keeps TypeInv.                                               *)
(***************************************************************************)
LEMMA TypeStep == TypeInv /\ [Next]_vars => TypeInv'
<1>. SUFFICES ASSUME TypeInv, [Next]_vars PROVE TypeInv'
  OBVIOUS
<1>. USE BoundAssumption DEF Session
<1>1. ASSUME NEW t \in Task
      PROVE  /\ row[t] \in Row /\ row[t].count <= MaxAttempts
             /\ exec[t] \in Exec /\ HasFinalEntity(t) \in BOOLEAN
  BY <1>1 DEF TypeInv, TypeOK, Row, HasFinalEntity, ChapterTask
<1>2. session \in Nat
  BY DEF TypeInv, TypeOK
<1>3. ASSUME NEW t \in Task, NEW credential
      PROVE  /\ Classified(t, row[t], credential) \in Row
             /\ Classified(t, row[t], credential).count <= MaxAttempts
  BY <1>1, ClassifiedRow DEF Classified, Row
<1>4. ASSUME NEW t \in Task, NEW r \in Row, r.count <= MaxAttempts
      PROVE  /\ [row EXCEPT ![t] = r] \in [Task -> Row]
             /\ \A u \in Task : [row EXCEPT ![t] = r][u].count <= MaxAttempts
  BY <1>4 DEF TypeInv, TypeOK
<1>5. ASSUME NEW S PROVE Abort(S) \in [Task -> Exec]
  BY <1>1 DEF Abort, Exec
<1>6. ASSUME NEW t \in Task, CreateTask(t) PROVE TypeInv'
  <2>1. Created(session) \in Row /\ Created(session).count <= MaxAttempts
    <3>1. Created(session) \in Row
      BY <1>2 DEF Created, Absent, Row, Status, Phase, CheckpointRecord,
         NoCheckpoint, Checkpoint
    <3>2. Created(session).count = 0
      BY DEF Created, Absent
    <3>. QED
      BY <3>1, <3>2, AttemptAssumption
  <2>2. [Idle EXCEPT !.pc = "created"] \in Exec
    BY DEF Idle, Exec, SyncPc
  <2>3. exec' \in [Task -> Exec] /\ proc = "up"
    BY <1>6, <2>2 DEF CreateTask, Turn, TypeInv, TypeOK
  <2>. QED
    BY <1>4, <1>6, <2>1, <2>3, FrameType
       DEF CreateTask, ProcessFields, history, TypeInv, TypeOK
<1>7. ASSUME NEW t \in Task, Cancel(t) PROVE TypeInv'
  <2>1. /\ CancelRequested(row[t]) \in Row
        /\ CancelRequested(row[t]).count <= MaxAttempts
    BY <1>1 DEF CancelRequested, Row, Phase, Classification
  <2>. QED
    BY <1>4, <1>5, <1>7, <2>1, FrameType
       DEF Cancel, Turn, ProcessFields, TypeInv, TypeOK
<1>8. ASSUME NEW t \in Task, Timer(t) PROVE TypeInv'
  <2>1. exec' \in [Task -> Exec] /\ proc = "up"
    <3>1. CASE TimeoutFires(t)
      <4>1. [exec[t] EXCEPT !.timedOut = TRUE, !.aborted = TRUE] \in Exec
        BY <1>1 DEF Exec
      <4>. QED
        BY <3>1, <4>1 DEF TimeoutFires, Turn, TypeInv, TypeOK
    <3>2. CASE RenewalFails(t)
      <4>1. [exec[t] EXCEPT !.lost = TRUE, !.aborted = TRUE] \in Exec
        BY <1>1 DEF Exec
      <4>. QED
        BY <3>2, <4>1 DEF RenewalFails, Turn, TypeInv, TypeOK
    <3>. QED
      BY <1>8, <3>1, <3>2 DEF Timer
  <2>2. UNCHANGED <<row, result, ProcessFields, history>>
    BY <1>8 DEF Timer, TimeoutFires, RenewalFails
  <2>. QED
    BY <2>1, <2>2, FrameType DEF history, TypeInv, TypeOK
<1>9. ASSUME NEW t \in Task, LeaseExpires(t) PROVE TypeInv'
  <2>1. [row[t] EXCEPT !.live = FALSE] \in Row
    BY <1>1 DEF Row
  <2>2. /\ row' \in [Task -> Row]
        /\ \A u \in Task : row'[u].count <= MaxAttempts
    BY <1>1, <1>9, <2>1 DEF LeaseExpires, TypeInv, TypeOK, Row
  <2>. QED
    BY <1>9, <2>2 DEF LeaseExpires, ProcessFields, shutdown, startup, history,
       TypeInv, TypeOK, SessionBegun, AttemptIsOpen, NothingRunsUnlessUp,
       Running
<1>10. ASSUME NEW t \in Task, Resume(t) PROVE TypeInv'
  <2>1. PICK credential \in CredentialStates :
          LET r == Classified(t, row[t], credential)
          IN \/ /\ CanClaim(t, r, FALSE)
                /\ \E tok \in FreshToken(t) : Claim(t, r, "auto", tok)
             \/ row' = [row EXCEPT ![t] = r] /\ UNCHANGED <<attempts, attempt, exec>>
    BY <1>10 DEF Resume
  <2>. DEFINE r == Classified(t, row[t], credential)
  <2>2. /\ row' \in [Task -> Row]
        /\ \A u \in Task : row'[u].count <= MaxAttempts
        /\ attempts' \in [Task -> [Session -> Nat]]
        /\ attempt' \in [Task -> 0..MaxSession]
        /\ exec' \in [Task -> Exec]
        /\ AttemptIsOpen'
    <3>1. CASE CanClaim(t, r, FALSE)
               /\ \E tok \in FreshToken(t) : Claim(t, r, "auto", tok)
      <4>1. PICK tok \in Token : Claim(t, r, "auto", tok)
        BY <3>1 DEF FreshToken
      <4>2. proc = "up" /\ CanClaim(t, r, "auto" = "manual")
        BY <1>10, <3>1 DEF Resume, Turn
      <4>. QED
        BY <1>1, <1>3, <4>1, <4>2, ClaimType
    <3>2. CASE row' = [row EXCEPT ![t] = r]
               /\ UNCHANGED <<attempts, attempt, exec>>
      BY <1>3, <1>4, <3>2 DEF TypeInv, TypeOK, AttemptIsOpen
    <3>. QED
      BY <2>1, <3>1, <3>2
  <2>. QED
    BY <1>10, <2>2 DEF Resume, Turn, shutdown, startup, history, TypeInv,
       TypeOK, SessionBegun, NothingRunsUnlessUp
<1>11. ASSUME NEW t \in Task, ManualRetry(t) PROVE TypeInv'
  <2>1. PICK credential \in CredentialStates :
          LET r == Classified(t, row[t], credential)
          IN \/ /\ CanClaim(t, r, TRUE)
                /\ \E tok \in FreshToken(t) : Claim(t, r, "manual", tok)
             \/ row' = [row EXCEPT ![t] = r] /\ UNCHANGED <<attempts, attempt, exec>>
    BY <1>11 DEF ManualRetry
  <2>. DEFINE r == Classified(t, row[t], credential)
  <2>2. /\ row' \in [Task -> Row]
        /\ \A u \in Task : row'[u].count <= MaxAttempts
        /\ attempts' \in [Task -> [Session -> Nat]]
        /\ attempt' \in [Task -> 0..MaxSession]
        /\ exec' \in [Task -> Exec]
        /\ AttemptIsOpen'
    <3>1. CASE CanClaim(t, r, TRUE)
               /\ \E tok \in FreshToken(t) : Claim(t, r, "manual", tok)
      <4>1. PICK tok \in Token : Claim(t, r, "manual", tok)
        BY <3>1 DEF FreshToken
      <4>2. proc = "up" /\ CanClaim(t, r, "manual" = "manual")
        BY <1>11, <3>1 DEF ManualRetry, Turn
      <4>. QED
        BY <1>1, <1>3, <4>1, <4>2, ClaimType
    <3>2. CASE row' = [row EXCEPT ![t] = r]
               /\ UNCHANGED <<attempts, attempt, exec>>
      BY <1>3, <1>4, <3>2 DEF TypeInv, TypeOK, AttemptIsOpen
    <3>. QED
      BY <2>1, <3>1, <3>2
  <2>3. consent' \in [Task -> BOOLEAN] /\ stopped' \in [Task -> BOOLEAN]
    BY <1>11 DEF ManualRetry, TypeInv, TypeOK
  <2>. QED
    BY <1>11, <2>2, <2>3 DEF ManualRetry, Turn, shutdown, startup, TypeInv,
       TypeOK, SessionBegun, NothingRunsUnlessUp
<1>12. ASSUME NEW t \in Task, WorkerNext(t) PROVE TypeInv'
  <2>1. /\ row' \in [Task -> Row]
        /\ \A u \in Task : row'[u].count <= MaxAttempts
        /\ attempts' \in [Task -> [Session -> Nat]]
        /\ attempt' \in [Task -> 0..MaxSession]
        /\ exec' \in [Task -> Exec]
        /\ AttemptIsOpen'
    <3>1. CASE UNCHANGED <<row, attempts, attempt, exec>>
      BY <3>1 DEF TypeInv, TypeOK, AttemptIsOpen
    <3>2. CASE CanClaim(t, row[t], FALSE)
               /\ \E tok \in FreshToken(t) : Claim(t, row[t], "auto", tok)
      <4>1. PICK tok \in Token : Claim(t, row[t], "auto", tok)
        BY <3>2 DEF FreshToken
      <4>2. proc = "up" /\ CanClaim(t, row[t], "auto" = "manual")
        BY <1>12, <3>2 DEF WorkerNext
      <4>. QED
        BY <1>1, <4>1, <4>2, ClaimType
    <3>. QED
      BY <1>12, <3>1, <3>2 DEF WorkerNext
  <2>2. queue' \in SUBSET Task /\ awaited' \in SUBSET Task
    BY <1>12 DEF WorkerNext, TypeInv, TypeOK
  <2>. QED
    BY <1>12, <2>1, <2>2 DEF WorkerNext, shutdown, history, TypeInv, TypeOK,
       SessionBegun, NothingRunsUnlessUp
<1>13. Idle \in Exec /\ Idle.pc = "none"
  BY DEF Idle, Exec
<1>14. Gone => /\ exec' \in [Task -> Exec] /\ attempt' \in [Task -> 0..MaxSession]
               /\ queue' \in SUBSET Task /\ awaited' \in SUBSET Task
               /\ pending' \in SUBSET Task /\ AttemptIsOpen'
               /\ quitting' \in BOOLEAN /\ draining' \in BOOLEAN
               /\ proc' = "down" /\ SessionBegun' /\ NothingRunsUnlessUp'
  <2>. SUFFICES ASSUME Gone
                PROVE  /\ exec' \in [Task -> Exec]
                       /\ attempt' \in [Task -> 0..MaxSession]
                       /\ queue' \in SUBSET Task /\ awaited' \in SUBSET Task
                       /\ pending' \in SUBSET Task /\ AttemptIsOpen'
                       /\ quitting' \in BOOLEAN /\ draining' \in BOOLEAN
                       /\ proc' = "down" /\ SessionBegun'
                       /\ NothingRunsUnlessUp'
    OBVIOUS
  <2>1. /\ proc' = "down"
        /\ exec' = [t \in Task |-> Idle] /\ attempt' = [t \in Task |-> 0]
        /\ queue' = {} /\ awaited' = {} /\ pending' = {}
        /\ quitting' = FALSE /\ draining' = FALSE
    BY DEF Gone
  <2>2. exec' \in [Task -> Exec] /\ attempt' \in [Task -> 0..MaxSession]
    BY <1>13, <2>1
  <2>3. \A t \in Task : exec'[t].pc = "none" /\ attempt'[t] = 0
    BY <1>13, <2>1
  <2>4. SessionBegun' /\ NothingRunsUnlessUp' /\ AttemptIsOpen'
    BY <2>1, <2>3 DEF SessionBegun, NothingRunsUnlessUp, Running, AttemptIsOpen
  <2>. QED
    BY <2>1, <2>2, <2>4
<1>15. CASE BeginGracefulShutdown
  <2>1. ASSUME NEW t \in Task
        PROVE  /\ GracefulShutdown(row[t], session) \in Row
               /\ GracefulShutdown(row[t], session).count <= MaxAttempts
    <3>1. Released(row[t]) \in Row /\ Released(row[t]).count <= MaxAttempts
      BY <1>1, <2>1 DEF Released, Row
    <3>. QED
      BY <1>1, <2>1, <3>1 DEF GracefulShutdown, Row, Phase
  <2>2. /\ row' \in [Task -> Row]
        /\ \A u \in Task : row'[u].count <= MaxAttempts
    BY <1>15, <2>1 DEF BeginGracefulShutdown
  <2>3. pending' \in SUBSET Task
    BY <1>15 DEF BeginGracefulShutdown, RunningTasks
  <2>. QED
    BY <1>5, <1>15, <2>2, <2>3 DEF BeginGracefulShutdown, Turn, startup,
       history, TypeInv, TypeOK, SessionBegun, AttemptIsOpen,
       NothingRunsUnlessUp
<1>16. CASE Drained
  BY <1>14, <1>16 DEF Drained, history, TypeInv, TypeOK
<1>17. CASE Crash
  BY <1>14, <1>17 DEF Crash, db, history, TypeInv, TypeOK
<1>18. CASE DatabaseCloseFails
  <2>1. exec' \in [Task -> Exec]
    <3>1. ASSUME NEW t \in Task
          PROVE  [exec[t] EXCEPT !.armed = FALSE, !.timedOut = FALSE,
                                 !.lost = FALSE] \in Exec
      BY <1>1, <3>1 DEF Exec
    <3>. QED
      BY <1>18, <3>1 DEF DatabaseCloseFails
  <2>2. session + 1 \in Session /\ session + 1 \in 0..MaxSession
    <3>1. session \in Nat /\ session < MaxSession /\ MaxSession \in Nat
      BY <1>2, <1>18 DEF DatabaseCloseFails
    <3>. QED
      BY <3>1
  <2>3. ended' \in [Session -> {"unused", "open", "graceful", "forced"}]
    BY <1>18 DEF DatabaseCloseFails, TypeInv, TypeOK
  <2>4. /\ proc = "up" /\ proc' = "up" /\ session' = session + 1
        /\ UNCHANGED <<row, result, attempts, pending, attempt, queue, awaited,
                       inDoubt, consent, stopped>>
        /\ quitting' = FALSE /\ draining' = FALSE
    BY <1>18 DEF DatabaseCloseFails, DrainReady, startup, history
  <2>5. SessionBegun' /\ NothingRunsUnlessUp' /\ AttemptIsOpen'
    BY <2>2, <2>4 DEF SessionBegun, NothingRunsUnlessUp, AttemptIsOpen,
       TypeInv
  <2>. QED
    BY <2>1, <2>2, <2>3, <2>4, <2>5 DEF TypeInv, TypeOK
<1>19. CASE DrainTimesOut
  BY <1>19 DEF DrainTimesOut, db, startup, history, TypeInv, TypeOK,
     SessionBegun, AttemptIsOpen, NothingRunsUnlessUp, Running
<1>20. CASE BeginRuntimeSession
  <2>1. /\ row' \in [Task -> Row]
        /\ \A u \in Task : row'[u].count <= MaxAttempts
    <3>1. ASSUME NEW t \in Task
          PROVE  Released(row[t]) \in Row /\ Released(row[t]).count <= MaxAttempts
      BY <1>1, <3>1 DEF Released, Row
    <3>. QED
      BY <1>1, <1>20, <3>1 DEF BeginRuntimeSession
  <2>2. attempts' \in [Task -> [Session -> Nat]]
    BY <1>20 DEF BeginRuntimeSession, TypeInv, TypeOK
  <2>3. ended' \in [Session -> {"unused", "open", "graceful", "forced"}]
    BY <1>20 DEF BeginRuntimeSession, TypeInv, TypeOK
  <2>4. session' \in Session /\ session' \in 0..MaxSession
    BY <1>20 DEF BeginRuntimeSession, TypeInv, TypeOK
  <2>5. \A t \in Task : attempt[t] = 0 /\ ~Running(t)
    BY <1>20 DEF BeginRuntimeSession, TypeInv, NothingRunsUnlessUp
  <2>. QED
    BY <1>20, <2>1, <2>2, <2>3, <2>4, <2>5 DEF BeginRuntimeSession, shutdown,
       startup, history, TypeInv, TypeOK, SessionBegun, AttemptIsOpen,
       NothingRunsUnlessUp, Running
<1>21. CASE ScanAndRecoverOnStartup
  <2>1. PICK credential \in CredentialStates :
          /\ row' = [t \in Task |->
               LET r == ExpireLease(row[t])
               IN IF RecoveryCandidate(r) THEN Scanned(t, r, credential) ELSE r]
          /\ queue' = {t \in Task : RecoveryCandidate(row'[t])
                                   /\ Decide(t, row'[t], credential).auto}
    BY <1>21 DEF ScanAndRecoverOnStartup
  <2>2. ASSUME NEW t \in Task
        PROVE  /\ ExpireLease(row[t]) \in Row
               /\ ExpireLease(row[t]).count <= MaxAttempts
    BY <1>1, <2>2 DEF ExpireLease, Released, Row
  <2>3. ASSUME NEW t \in Task, NEW r \in Row, r.count <= MaxAttempts
        PROVE  /\ Scanned(t, r, credential) \in Row
               /\ Scanned(t, r, credential).count <= MaxAttempts
    <3>. DEFINE kind == IF r.status = "running" /\ r.shutdown # "graceful"
                        THEN "crash" ELSE r.shutdown
                seen == [r EXCEPT !.shutdown = kind]
                c == Classified(t, seen, credential)
    <3>1. kind \in {"null", "crash", "graceful"}
      BY DEF Row
    <3>2. seen \in Row /\ seen.count <= MaxAttempts
      BY <2>3, <3>1 DEF Row
    <3>3. c \in Row /\ c.count <= MaxAttempts
      <4>1. c \in Row
        BY <3>2, ClassifiedRow
      <4>2. c.count = seen.count
        BY <3>2 DEF Classified, Row
      <4>. QED
        BY <3>2, <4>1, <4>2
    <3>4. MarkedTerminal(c) \in Row /\ MarkedTerminal(c).count <= MaxAttempts
      BY <3>3, RowStatements, RowCounts
    <3>. QED
      BY <3>3, <3>4 DEF Scanned
  <2>4. /\ row' \in [Task -> Row]
        /\ \A u \in Task : row'[u].count <= MaxAttempts
    BY <2>1, <2>2, <2>3
  <2>5. queue' \in SUBSET Task
    BY <2>1
  <2>. QED
    BY <1>21, <2>4, <2>5 DEF ScanAndRecoverOnStartup, shutdown, history,
       TypeInv, TypeOK, SessionBegun, AttemptIsOpen, NothingRunsUnlessUp
<1>22. CASE UNCHANGED vars
  BY <1>22 DEF vars, db, shutdown, startup, history, TypeInv, TypeOK,
     SessionBegun, AttemptIsOpen, NothingRunsUnlessUp, Running
<1>23. ASSUME NEW t \in Task, Step(t) \/ Model(t) \/ User(t) \/ Timer(t)
       PROVE  TypeInv'
  BY <1>6, <1>7, <1>8, <1>10, <1>11, <1>23, StepType DEF User
<1>24. CASE Lifecycle
  <2>1. CASE InvalidateActiveRuntimes
    <3>1. exec' \in [Task -> Exec] /\ proc = "up"
      BY <1>5, <2>1 DEF InvalidateActiveRuntimes, Turn
    <3>. QED
      BY <2>1, <3>1, FrameType DEF InvalidateActiveRuntimes, history, TypeInv,
         TypeOK
  <2>. QED
    BY <1>15, <1>16, <1>17, <1>18, <1>19, <1>20, <1>21, <1>24, <2>1
       DEF Lifecycle
<1>. QED
  BY <1>9, <1>12, <1>22, <1>23, <1>24 DEF Next

\* TypeInv is inductive, so it holds in every reachable state.
LEMMA TypeAlways == Spec => []TypeInv
BY TypeInit, TypeStep, PTL DEF Spec

(***************************************************************************)
(* Type correctness and the attempt limit of claimForRecovery: for every   *)
(* set of tasks, limit and faults the variables keep their types and no    *)
(* row counts more than MaxAttempts claims.                                *)
(***************************************************************************)
THEOREM TypesHold == Spec => []TypeOK
<1>1. TypeInv => TypeOK
  BY DEF TypeInv
<1>. QED
  BY <1>1, TypeAlways, PTL

-----------------------------------------------------------------------------
(* A task that failed beyond recovery.                                     *)

\* Why no late write can reach such a task: whatever runs is pending or
\* running in the database too, so a failed task does not run.
RunningIsActive == \A t \in Task : Running(t) => Active(row[t])
FinalInv == TypeInv /\ RunningIsActive

(***************************************************************************)
(* A step of an execution touches the row and the state of one task that   *)
(* runs, and leaves it ended or still active.                              *)
(***************************************************************************)
LEMMA ExecutionStep ==
  ASSUME TypeInv, NEW t \in Task, Step(t) \/ Model(t) \/ Timer(t)
  PROVE  /\ Running(t)
         /\ \A u \in Task \ {t} : row'[u] = row[u] /\ exec'[u] = exec[u]
         /\ Running(t)' => \/ row'[t].status = row[t].status
                           \/ row'[t].status = "running"
<1>. USE DEF Running
<1>1. row \in [Task -> Row] /\ exec \in [Task -> Exec]
  BY DEF TypeInv, TypeOK
<1>2. row[t] \in Row /\ exec[t] \in Exec
  BY <1>1
<1>3. CASE LeaseTask(t)
  BY <1>1, <1>2, <1>3 DEF LeaseTask, FirstLease, Row
<1>4. CASE Launch(t)
  BY <1>1, <1>2, <1>4 DEF Launch, Prepared, Row
<1>5. CASE CompileDone(t) \/ IssueCall(t) \/ StreamChunk(t)
  BY <1>1, <1>2, <1>5 DEF CompileDone, IssueCall, StreamChunk, Row
<1>6. CASE ModelReturns(t)
  BY <1>1, <1>2, <1>6 DEF ModelReturns, Row
<1>7. CASE Save(t) \/ InsertVersion(t) \/ Review(t) \/ Apply(t)
  BY <1>1, <1>2, <1>7 DEF Save, InsertVersion, Review, Apply, Row
<1>8. CASE Timer(t)
  BY <1>1, <1>2, <1>8 DEF Timer, TimeoutFires, RenewalFails, AwaitPc
<1>9. ASSUME exec[t].pc # "none", NEW r, Settle(t, r)
      PROVE  /\ Running(t)
             /\ \A u \in Task \ {t} : row'[u] = row[u] /\ exec'[u] = exec[u]
             /\ ~Running(t)'
  BY <1>1, <1>9 DEF Settle, Idle
<1>10. CASE Complete(t) \/ FinishTimedOut(t) \/ RejectTimedOut(t)
            \/ FinishLostLease(t) \/ FinishCancelled(t) \/ FinishFailed(t)
            \/ FinishNonRecoverable(t) \/ LaunchFails(t)
  <2>1. exec[t].pc # "none" /\ \E r : Settle(t, r)
    BY <1>10 DEF Complete, FinishTimedOut, RejectTimedOut, FinishLostLease,
       FinishCancelled, FinishFailed, FinishNonRecoverable, LaunchFails,
       AwaitPc
  <2>. QED
    BY <1>9, <2>1
<1>. QED
  BY <1>3, <1>4, <1>5, <1>6, <1>7, <1>8, <1>10 DEF Step, Model

\* A claim leaves the row running; what a row is claimed from never failed
\* beyond recovery.
LEMMA ClaimActive ==
  ASSUME row \in [Task -> Row], exec \in [Task -> Exec],
         NEW t \in Task, NEW r \in Row, NEW kind, NEW tok,
         Claim(t, r, kind, tok)
  PROVE  /\ Active(row'[t])
         /\ \A u \in Task \ {t} : row'[u] = row[u] /\ exec'[u] = exec[u]
<1>1. ClaimedBy(r, tok, kind = "manual", HasFinalEntity(t), session).status
        = "running"
  BY DEF ClaimedBy, Row
<1>. QED
  BY <1>1 DEF Claim, Active

\* Nothing runs at first.
LEMMA FinalInit == Init => RunningIsActive
BY DEF Init, RunningIsActive, Running, Idle

\* Every step keeps the rows of the executions that run active.
LEMMA FinalStep == FinalInv /\ [Next]_vars => RunningIsActive'
<1>. SUFFICES ASSUME FinalInv, [Next]_vars PROVE RunningIsActive'
  OBVIOUS
<1>1. /\ row \in [Task -> Row] /\ exec \in [Task -> Exec]
      /\ \A t \in Task : Running(t) => Active(row[t])
      /\ proc # "up" => \A t \in Task : ~Running(t)
  BY DEF FinalInv, TypeInv, TypeOK, RunningIsActive, NothingRunsUnlessUp
<1>2. ASSUME NEW t \in Task, Step(t) \/ Model(t) \/ Timer(t)
      PROVE  RunningIsActive'
  <2>1. /\ Running(t)
        /\ \A u \in Task \ {t} : row'[u] = row[u] /\ exec'[u] = exec[u]
        /\ Running(t)' => \/ row'[t].status = row[t].status
                          \/ row'[t].status = "running"
    BY <1>2, ExecutionStep DEF FinalInv
  <2>. QED
    BY <1>1, <2>1 DEF RunningIsActive, Running, Active
<1>3. ASSUME NEW t \in Task, CreateTask(t) PROVE RunningIsActive'
  BY <1>1, <1>3 DEF CreateTask, RunningIsActive, Running, Active, Created,
     Absent, Idle
<1>4. ASSUME NEW t \in Task, NEW r \in Row, NEW kind, NEW tok,
             Claim(t, r, kind, tok)
      PROVE  RunningIsActive'
  BY <1>1, <1>4, ClaimActive DEF RunningIsActive, Running
<1>5. ASSUME NEW t \in Task, NEW r, row' = [row EXCEPT ![t] = r],
             UNCHANGED exec, ~Running(t)
      PROVE  RunningIsActive'
  BY <1>1, <1>5 DEF RunningIsActive, Running
<1>6. ASSUME NEW t \in Task, NEW credential
      PROVE  Classified(t, row[t], credential) \in Row
  BY <1>1, <1>6, ClassifiedRow
<1>7. ASSUME NEW t \in Task, Resume(t) \/ ManualRetry(t)
      PROVE  RunningIsActive'
  BY <1>4, <1>5, <1>6, <1>7 DEF Resume, ManualRetry
<1>8. ASSUME NEW t \in Task, WorkerNext(t) PROVE RunningIsActive'
  BY <1>1, <1>4, <1>8 DEF WorkerNext, RunningIsActive, Running
<1>9. ASSUME NEW t \in Task, Cancel(t) PROVE RunningIsActive'
  <2>1. \A u \in Task : exec'[u].pc = exec[u].pc
    BY <1>1, <1>9 DEF Cancel, Abort, Exec
  <2>2. row'[t].status = row[t].status
    BY <1>1, <1>9 DEF Cancel, CancelRequested, Row
  <2>. QED
    BY <1>1, <1>9, <2>1, <2>2 DEF Cancel, RunningIsActive, Running, Active
<1>10. ASSUME NEW t \in Task, LeaseExpires(t) PROVE RunningIsActive'
  BY <1>1, <1>10 DEF LeaseExpires, RunningIsActive, Running, Active, Row
<1>11. CASE InvalidateActiveRuntimes \/ DatabaseCloseFails
  <2>1. \A u \in Task : exec'[u].pc = exec[u].pc
    <3>1. CASE InvalidateActiveRuntimes
      BY <1>1, <3>1 DEF InvalidateActiveRuntimes, Abort, Exec
    <3>2. CASE DatabaseCloseFails
      <4>1. exec' = [t \in Task |->
              [exec[t] EXCEPT !.armed = FALSE, !.timedOut = FALSE,
                              !.lost = FALSE]]
        BY <3>2 DEF DatabaseCloseFails
      <4>. QED
        BY <1>1, <4>1 DEF Exec
    <3>. QED
      BY <1>11, <3>1, <3>2
  <2>. QED
    BY <1>1, <1>11, <2>1 DEF InvalidateActiveRuntimes, DatabaseCloseFails,
       RunningIsActive, Running
<1>12. CASE BeginGracefulShutdown
  <2>1. \A u \in Task : exec'[u].pc = exec[u].pc
    BY <1>1, <1>12 DEF BeginGracefulShutdown, Abort, Exec
  <2>2. ASSUME NEW u \in Task PROVE row'[u].status = row[u].status
    <3>1. row'[u] = GracefulShutdown(row[u], session) /\ row[u] \in Row
      BY <1>1, <1>12, <2>2 DEF BeginGracefulShutdown
    <3>. QED
      BY <3>1 DEF GracefulShutdown, Released, Row
  <2>. QED
    BY <1>1, <2>1, <2>2 DEF RunningIsActive, Running, Active
<1>13. CASE Drained \/ Crash
  BY <1>13 DEF Drained, Crash, Gone, RunningIsActive, Running, Idle
<1>14. CASE DrainTimesOut \/ UNCHANGED vars
  BY <1>1, <1>14 DEF DrainTimesOut, db, vars, RunningIsActive, Running
<1>15. CASE BeginRuntimeSession \/ ScanAndRecoverOnStartup
  BY <1>1, <1>15 DEF BeginRuntimeSession, ScanAndRecoverOnStartup,
     RunningIsActive, Running
<1>. QED
  BY <1>2, <1>3, <1>7, <1>8, <1>9, <1>10, <1>11, <1>12, <1>13, <1>14, <1>15
     DEF Next, User, Lifecycle

(***************************************************************************)
(* No step brings back a task that failed beyond recovery: what would      *)
(* claim it asks the classifier first, which neither resumes nor retries   *)
(* it, and what would write to it runs, so its row is active.              *)
(***************************************************************************)
LEMMA FinalKept ==
  ASSUME FinalInv, FinalInv', [Next]_vars, NEW t \in Task,
         TerminalNonRecoverable(row[t])
  PROVE  TerminalNonRecoverable(row'[t])
<1>1. /\ row \in [Task -> Row] /\ exec \in [Task -> Exec]
      /\ row[t] \in Row /\ row[t].status = "failed"
      /\ row[t].class = "non-recoverable"
      /\ ~Active(row[t]) /\ ~Running(t)
  BY DEF FinalInv, TypeInv, TypeOK, TerminalNonRecoverable, Active,
     RunningIsActive
<1>2. ASSUME NEW credential
      PROVE  /\ Decide(t, row[t], credential) = NonRecoverable
             /\ TerminalNonRecoverable(Classified(t, row[t], credential))
  BY <1>1 DEF Decide, Classified, NonRecoverable, Decision,
     TerminalNonRecoverable, Row
<1>3. ~NonRecoverable.auto /\ ~NonRecoverable.retry
  BY DEF NonRecoverable, Decision
<1>4. CASE \E u \in Task : Step(u) \/ Model(u) \/ Timer(u)
  <2>1. PICK u \in Task : Step(u) \/ Model(u) \/ Timer(u)
    BY <1>4
  <2>2. Running(u) /\ \A v \in Task \ {u} : row'[v] = row[v]
    BY <2>1, ExecutionStep DEF FinalInv
  <2>. QED
    BY <1>1, <2>2 DEF TerminalNonRecoverable
<1>5. CASE \E u \in Task : CreateTask(u) \/ Cancel(u)
  BY <1>1, <1>5 DEF CreateTask, Cancel, Cancellable, TerminalNonRecoverable
<1>6. ASSUME NEW u \in Task, Resume(u) \/ ManualRetry(u)
      PROVE  TerminalNonRecoverable(row'[t])
  <2>1. CASE u = t
    <3>1. CASE Resume(t)
      BY <1>1, <1>2, <1>3, <3>1 DEF Resume
    <3>2. CASE ManualRetry(t)
      BY <1>1, <1>2, <1>3, <3>2 DEF ManualRetry
    <3>. QED
      BY <1>6, <2>1, <3>1, <3>2
  <2>2. CASE u # t
    BY <1>1, <1>6, <2>2 DEF Resume, ManualRetry, Claim, TerminalNonRecoverable
  <2>. QED
    BY <2>1, <2>2
<1>7. ASSUME NEW u \in Task, WorkerNext(u)
      PROVE  TerminalNonRecoverable(row'[t])
  <2>1. ~CanClaim(t, row[t], FALSE)
    BY <1>1 DEF CanClaim, Claimable, AutoClasses
  <2>. QED
    BY <1>1, <1>7, <2>1 DEF WorkerNext, Claim, TerminalNonRecoverable
<1>8. ASSUME NEW u \in Task, LeaseExpires(u)
      PROVE  TerminalNonRecoverable(row'[t])
  BY <1>1, <1>8 DEF LeaseExpires, TerminalNonRecoverable, Row
<1>9. ASSUME NEW r \in Row PROVE Released(r).status = r.status
                                  /\ Released(r).class = r.class
  BY <1>9 DEF Released, Row
<1>10. CASE BeginGracefulShutdown
  BY <1>1, <1>10 DEF BeginGracefulShutdown, GracefulShutdown,
     TerminalNonRecoverable
<1>11. CASE BeginRuntimeSession
  BY <1>1, <1>9, <1>11 DEF BeginRuntimeSession, TerminalNonRecoverable
<1>12. CASE ScanAndRecoverOnStartup
  <2>1. /\ ExpireLease(row[t]).status = "failed"
        /\ ExpireLease(row[t]).class = "non-recoverable"
    BY <1>1, <1>9 DEF ExpireLease
  <2>2. ~RecoveryCandidate(ExpireLease(row[t]))
    BY <2>1 DEF RecoveryCandidate, TerminalNonRecoverable
  <2>3. row'[t] = ExpireLease(row[t])
    BY <1>12, <2>2 DEF ScanAndRecoverOnStartup
  <2>. QED
    BY <2>1, <2>3 DEF TerminalNonRecoverable
<1>13. CASE \/ InvalidateActiveRuntimes \/ Drained \/ DatabaseCloseFails
            \/ DrainTimesOut \/ Crash \/ UNCHANGED vars
  BY <1>1, <1>13 DEF InvalidateActiveRuntimes, Drained, DatabaseCloseFails,
     DrainTimesOut, Crash, vars, db, TerminalNonRecoverable
<1>. QED
  BY <1>4, <1>5, <1>6, <1>7, <1>8, <1>10, <1>11, <1>12, <1>13
     DEF Next, User, Lifecycle

(***************************************************************************)
(* NonRecoverableIsFinal of TaskManagerProperties holds for every set of   *)
(* tasks and whatever fails: no scan, resume, retry or late write revives  *)
(* a task that claimAndStart, a runner or the scan gave up for good.       *)
(***************************************************************************)
THEOREM FailureIsFinal == Spec => NonRecoverableIsFinal
<1>1. Init => FinalInv
  BY TypeInit, FinalInit DEF FinalInv
<1>2. FinalInv /\ [Next]_vars => FinalInv'
  BY TypeStep, FinalStep DEF FinalInv
<1>3. FinalInv /\ FinalInv' /\ [Next]_vars =>
        [\A t \in Task : TerminalNonRecoverable(row[t])
                           => TerminalNonRecoverable(row'[t])]_vars
  BY FinalKept
<1>. QED
  BY <1>1, <1>2, <1>3, PTL DEF Spec, NonRecoverableIsFinal

-----------------------------------------------------------------------------
(* Who waits for whom.                                                     *)

WaitInv == TypeInv /\ WaitsAreOnExecutions /\ IsFiniteSet(awaited)

\* Nobody waits at first.
LEMMA WaitInit == Init => WaitsAreOnExecutions /\ IsFiniteSet(awaited)
BY BoundAssumption, FS_EmptySet DEF Init, WaitsAreOnExecutions

(***************************************************************************)
(* Who awaits an execution awaits it until it ends, and then no longer.    *)
(***************************************************************************)
LEMMA ExecutionWaits ==
  ASSUME exec \in [Task -> Exec], NEW t \in Task,
         Step(t) \/ Model(t) \/ Timer(t)
  PROVE  \/ Running(t)' /\ UNCHANGED <<awaited, pending>>
         \/ awaited' = awaited \ {t} /\ pending' = pending \ {t}
<1>. USE DEF Running, ProcessFields, startup, shutdown
<1>1. CASE LeaseTask(t)
  BY <1>1 DEF LeaseTask
<1>2. CASE Launch(t)
  <2>1. FirstPc(t) # "none"
    BY DEF FirstPc
  <2>. QED
    BY <1>2, <2>1 DEF Launch
<1>3. CASE CompileDone(t)
  <2>1. \E pc \in {"validate", "complete", "ready"} :
          exec' = [exec EXCEPT ![t].pc = pc]
    BY <1>3 DEF CompileDone
  <2>2. Running(t)'
    BY <2>1
  <2>. QED
    BY <1>3, <2>2 DEF CompileDone
<1>4. CASE IssueCall(t) \/ StreamChunk(t)
  <2>1. exec'[t].pc = "call"
    BY <1>4 DEF IssueCall, StreamChunk, Exec
  <2>2. UNCHANGED <<awaited, pending>>
    BY <1>4 DEF IssueCall, StreamChunk
  <2>. QED
    BY <2>1, <2>2
<1>5. CASE ModelReturns(t)
  <2>. DEFINE pc == CASE ~ChapterTask(t) -> "validate"
                      [] row[t].ckpt.stage = "fact_check" -> "save"
                      [] OTHER -> "compile"
  <2>1. exec' = [exec EXCEPT ![t].pc = pc] /\ UNCHANGED <<awaited, pending>>
    BY <1>5 DEF ModelReturns
  <2>2. pc # "none"
    OBVIOUS
  <2>. HIDE DEF pc
  <2>3. exec'[t].pc = pc
    BY <2>1 DEF Exec
  <2>. QED
    BY <2>1, <2>2, <2>3
<1>6. CASE Save(t) \/ InsertVersion(t) \/ Review(t) \/ Apply(t)
  <2>1. exec'[t].pc \in {"insert", "review", "complete"}
    BY <1>6 DEF Save, InsertVersion, Review, Apply, Exec
  <2>2. UNCHANGED <<awaited, pending>>
    BY <1>6 DEF Save, InsertVersion, Review, Apply
  <2>. QED
    BY <2>1, <2>2
<1>7. CASE Timer(t)
  <2>1. exec'[t].pc = exec[t].pc /\ exec[t].pc \in AwaitPc
    BY <1>7 DEF Timer, TimeoutFires, RenewalFails, Exec
  <2>. QED
    BY <1>7, <2>1 DEF Timer, TimeoutFires, RenewalFails, AwaitPc
<1>8. CASE Complete(t) \/ FinishTimedOut(t) \/ RejectTimedOut(t)
           \/ FinishLostLease(t) \/ FinishCancelled(t) \/ FinishFailed(t)
           \/ FinishNonRecoverable(t) \/ LaunchFails(t)
  <2>1. \E r : Settle(t, r)
    BY <1>8 DEF Complete, FinishTimedOut, RejectTimedOut, FinishLostLease,
       FinishCancelled, FinishFailed, FinishNonRecoverable, LaunchFails
  <2>. QED
    BY <2>1 DEF Settle
<1>. QED
  BY <1>1, <1>2, <1>3, <1>4, <1>5, <1>6, <1>7, <1>8 DEF Step, Model

(***************************************************************************)
(* An execution that goes on is awaited as before, one that ends by nobody *)
(* any more, and a worker awaits only what runs when it looks.             *)
(***************************************************************************)
LEMMA WaitStep ==
  WaitInv /\ [Next]_vars => WaitsAreOnExecutions' /\ IsFiniteSet(awaited')
<1>. SUFFICES ASSUME WaitInv, [Next]_vars
              PROVE  WaitsAreOnExecutions' /\ IsFiniteSet(awaited')
  OBVIOUS
<1>1. /\ exec \in [Task -> Exec]
      /\ awaited \subseteq RunningTasks /\ pending \subseteq RunningTasks
      /\ Cardinality(awaited) <= StartupConcurrency
      /\ IsFiniteSet(awaited) /\ Cardinality(awaited) \in Nat
      /\ StartupConcurrency \in Nat
  BY BoundAssumption, FS_CardinalityType
     DEF WaitInv, TypeInv, TypeOK, WaitsAreOnExecutions
<1>2. ASSUME UNCHANGED awaited, pending' \in {pending, RunningTasks, {}},
             \A u \in Task : Running(u) => Running(u)'
      PROVE  WaitsAreOnExecutions' /\ IsFiniteSet(awaited')
  BY <1>1, <1>2 DEF WaitsAreOnExecutions, RunningTasks
<1>3. ASSUME NEW t \in Task, Step(t) \/ Model(t) \/ Timer(t)
      PROVE  WaitsAreOnExecutions' /\ IsFiniteSet(awaited')
  <2>1. /\ Running(t)
        /\ \A u \in Task \ {t} : exec'[u] = exec[u]
        /\ \/ Running(t)' /\ UNCHANGED <<awaited, pending>>
           \/ awaited' = awaited \ {t} /\ pending' = pending \ {t}
    BY <1>1, <1>3, ExecutionStep, ExecutionWaits DEF WaitInv
  <2>2. \A u \in Task \ {t} : Running(u)' <=> Running(u)
    BY <2>1 DEF Running
  <2>3. CASE Running(t)' /\ UNCHANGED <<awaited, pending>>
    BY <1>2, <2>1, <2>2, <2>3
  <2>4. CASE awaited' = awaited \ {t} /\ pending' = pending \ {t}
    <3>1. awaited' \subseteq RunningTasks' /\ pending' \subseteq RunningTasks'
      BY <1>1, <2>2, <2>4 DEF RunningTasks
    <3>2. /\ IsFiniteSet(awaited \ {t})
          /\ Cardinality(awaited \ {t})
               \in {Cardinality(awaited), Cardinality(awaited) - 1}
      BY <1>1, FS_RemoveElement
    <3>3. Cardinality(awaited \ {t}) <= StartupConcurrency
      BY <1>1, <3>2
    <3>. QED
      BY <2>4, <3>1, <3>2, <3>3 DEF WaitsAreOnExecutions
  <2>. QED
    BY <2>1, <2>3, <2>4
<1>4. ASSUME NEW t \in Task, User(t)
      PROVE  WaitsAreOnExecutions' /\ IsFiniteSet(awaited')
  <2>1. UNCHANGED <<awaited, pending>>
    BY <1>4 DEF User, CreateTask, Resume, ManualRetry, Cancel, ProcessFields,
       startup, shutdown
  <2>2. \A u \in Task : Running(u) => Running(u)'
    <3>1. CASE CreateTask(t)
      BY <1>1, <3>1 DEF CreateTask, Running, Idle
    <3>2. CASE Resume(t) \/ ManualRetry(t)
      BY <1>1, <3>2 DEF Resume, ManualRetry, Claim, Running
    <3>3. CASE Cancel(t)
      BY <1>1, <3>3 DEF Cancel, Abort, Running, Exec
    <3>. QED
      BY <1>4, <3>1, <3>2, <3>3 DEF User
  <2>. QED
    BY <1>2, <2>1, <2>2
<1>5. ASSUME NEW t \in Task, WorkerNext(t)
      PROVE  WaitsAreOnExecutions' /\ IsFiniteSet(awaited')
  <2>1. /\ Cardinality(awaited) < StartupConcurrency
        /\ UNCHANGED pending
        /\ UNCHANGED exec \/ \E r, tok : Claim(t, r, "auto", tok)
        /\ \/ UNCHANGED awaited
           \/ /\ awaited' = awaited \cup {t}
              /\ \/ Running(t) /\ UNCHANGED exec
                 \/ \E r, tok : Claim(t, r, "auto", tok)
    BY <1>5 DEF WorkerNext, WorkerReady, shutdown
  <2>2. ASSUME NEW r, NEW tok, Claim(t, r, "auto", tok)
        PROVE  Running(t)' /\ \A u \in Task \ {t} : exec'[u] = exec[u]
    BY <1>1, <2>2 DEF Claim, Running
  <2>3. \A u \in Task : Running(u) => Running(u)'
    BY <2>1, <2>2 DEF Running
  <2>4. CASE UNCHANGED awaited
    BY <1>2, <2>1, <2>3, <2>4
  <2>5. CASE awaited' = awaited \cup {t} /\ Running(t)'
    <3>1. IsFiniteSet(awaited')
      BY <1>1, <2>5, FS_AddElement
    <3>2. Cardinality(awaited') <= Cardinality(awaited) + 1
      BY <1>1, <2>5, FS_AddElement
    <3>3. Cardinality(awaited') \in Nat
      BY <3>1, FS_CardinalityType
    <3>4. Cardinality(awaited') <= StartupConcurrency
      BY <1>1, <2>1, <3>2, <3>3
    <3>. QED
      BY <1>1, <2>1, <2>3, <2>5, <3>1, <3>4 DEF WaitsAreOnExecutions, RunningTasks
  <2>. QED
    BY <2>1, <2>2, <2>3, <2>4, <2>5
<1>6. ASSUME NEW t \in Task, LeaseExpires(t)
      PROVE  WaitsAreOnExecutions' /\ IsFiniteSet(awaited')
  BY <1>2, <1>6 DEF LeaseExpires, ProcessFields, startup, shutdown, Running
<1>7. CASE BeginGracefulShutdown \/ InvalidateActiveRuntimes
  <2>1. \A u \in Task : Running(u) => Running(u)'
    BY <1>1, <1>7 DEF BeginGracefulShutdown, InvalidateActiveRuntimes, Abort,
       Running, Exec
  <2>. QED
    BY <1>2, <1>7, <2>1 DEF BeginGracefulShutdown, InvalidateActiveRuntimes,
       ProcessFields, startup, shutdown
<1>8. CASE Drained \/ Crash
  BY <1>8, FS_EmptySet, BoundAssumption
     DEF Drained, Crash, Gone, WaitsAreOnExecutions
<1>9. CASE DatabaseCloseFails
  <2>1. exec' = [t \in Task |->
          [exec[t] EXCEPT !.armed = FALSE, !.timedOut = FALSE, !.lost = FALSE]]
    BY <1>9 DEF DatabaseCloseFails
  <2>2. \A u \in Task : Running(u) => Running(u)'
    BY <1>1, <2>1 DEF Running, Exec
  <2>. QED
    BY <1>2, <1>9, <2>2 DEF DatabaseCloseFails, startup
<1>10. CASE \/ DrainTimesOut \/ BeginRuntimeSession
            \/ ScanAndRecoverOnStartup \/ UNCHANGED vars
  BY <1>2, <1>10 DEF DrainTimesOut, BeginRuntimeSession,
     ScanAndRecoverOnStartup, vars, startup, shutdown, Running
<1>. QED
  BY <1>3, <1>4, <1>5, <1>6, <1>7, <1>8, <1>9, <1>10 DEF Next, Lifecycle

(***************************************************************************)
(* WaitsAreOnExecutions of TaskManagerProperties holds for any number of   *)
(* tasks and workers: runStartupRecoveryWorker and quiesceForShutdown      *)
(* await only completions that will still settle.                          *)
(***************************************************************************)
THEOREM WaitsHold == Spec => []WaitsAreOnExecutions
<1>1. Init => WaitInv
  BY TypeInit, WaitInit DEF WaitInv
<1>2. WaitInv /\ [Next]_vars => WaitInv'
  BY TypeStep, WaitStep DEF WaitInv
<1>3. WaitInv => WaitsAreOnExecutions
  BY DEF WaitInv
<1>. QED
  BY <1>1, <1>2, <1>3, PTL DEF Spec

=============================================================================
