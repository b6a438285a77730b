--------------------------- MODULE RecoveryProofs ---------------------------
(***************************************************************************)
(* Theorems about sessions, leases, attempts and paid calls of the task    *)
(* manager, for any set of tasks.  The runs that expect a violation show   *)
(* four races that break what the manager should keep; a theorem here      *)
(* excludes the one race that breaks its property, and no other behaviour. *)
(* The last theorems show when those races cannot come about.              *)
(***************************************************************************)
EXTENDS TaskManagerProofs

(***************************************************************************)
(* The race of drain_not_quiet does not come about: no shutdown begins     *)
(* while candidates of the scan wait for a worker.                         *)
(***************************************************************************)
DrainsFindNoQueue == quitting => queue = {}

(***************************************************************************)
(* Nor that of stale_queue_replay: the user resumes no candidate while it  *)
(* waits for a worker.                                                     *)
(***************************************************************************)
WaitingAreIdle == \A t \in queue : ~Running(t)

(***************************************************************************)
(* Nor that of attempt_leak: an execution that its deadline stops still    *)
(* has its lease.                                                          *)
(***************************************************************************)
NoDeadlineWithoutLease == [][\A t \in Task : ~RejectTimedOut(t)]_vars

(***************************************************************************)
(* Nor that of cancel_forgotten: the deadline ends no execution that the   *)
(* user cancelled.                                                         *)
(***************************************************************************)
NoDeadlineAfterCancel ==
  [][\A t \in Task : stopped[t] => ~FinishTimedOut(t)]_vars

-----------------------------------------------------------------------------
(* Sessions and leases.                                                    *)

\* The process and its session: quitting is a drain of the running process
\* after its queue was taken, and only the latest session can be open.
ProcessInSession ==
  /\ quitting => proc = "up" /\ queue = {}
  /\ draining = quitting
  /\ \A s \in Session : ended[s] = "open" => s = session
  /\ proc # "down" => ended[session] = "open"

\* A task in it: whoever holds its lease runs here, in the session its row
\* names; a drain has taken the leases of what runs and awaits it; and what
\* a session that ended gracefully left unfinished is marked.
TaskInSession(t) ==
  /\ Leased(row[t]) =>
       /\ session \in Session /\ row[t].sess = session
       /\ ended[session] = "open" /\ proc # "starting"
       /\ proc = "up" => Running(t) /\ row[t].lease = exec[t].tok
  /\ Running(t) => row[t].sess = session
  /\ exec[t].pc = "created" => ~Leased(row[t])
  /\ quitting =>
       /\ row[t].sess = session /\ Active(row[t]) => row[t].shutdown = "graceful"
       /\ Running(t) => t \in pending /\ ~Leased(row[t])
                        /\ exec[t].pc # "created"
  /\ \A s \in Session :
       ended[s] = "graceful" /\ row[t].sess = s /\ Active(row[t])
         => row[t].shutdown = "graceful"

SessionInv ==
  FinalInv /\ ProcessInSession /\ \A t \in Task : TaskInSession(t)

\* What a step of t's execution may do to its row: begin under a fresh lease,
\* go on under the lease it has, or end and release that lease.
Begins(t) ==
  /\ exec[t].pc = "created" /\ row'[t].lease = exec'[t].tok
  /\ row'[t].sess = session /\ Running(t)'
GoesOn(t) ==
  /\ row'[t].lease = row[t].lease /\ exec'[t].tok = exec[t].tok
  /\ row'[t].sess = row[t].sess /\ Running(t)'
Ends(t) ==
  /\ row'[t].lease \in {row[t].lease, NoToken}
  /\ row'[t].lease = exec[t].tok => row'[t].lease = NoToken
  /\ row'[t].sess = row[t].sess /\ ~Running(t)'

(***************************************************************************)
(* Every statement that an execution writes with keeps the session, the    *)
(* lease and the end that the row names, but for the lease it releases.    *)
(***************************************************************************)
LEMMA ExecutionKeepsLease ==
  ASSUME TypeInv, NEW t \in Task, Step(t) \/ Model(t) \/ Timer(t)
  PROVE  /\ Begins(t) \/ GoesOn(t) \/ Ends(t)
         /\ row'[t].shutdown = row[t].shutdown
         /\ exec'[t].pc # "created"
         /\ UNCHANGED <<ended, proc, session, quitting, draining, queue>>
         /\ Running(t)' => UNCHANGED <<pending, attempts, attempt>>
         /\ pending \subseteq pending' \cup {t}
<1>. DEFINE Goal ==
         /\ Begins(t) \/ GoesOn(t) \/ Ends(t)
         /\ row'[t].shutdown = row[t].shutdown
         /\ exec'[t].pc # "created"
         /\ UNCHANGED <<ended, proc, session, quitting, draining, queue>>
         /\ Running(t)' => UNCHANGED <<pending, attempts, attempt>>
         /\ pending \subseteq pending' \cup {t}
<1>. USE DEF Running, ProcessFields, startup, shutdown
<1>1. row \in [Task -> Row] /\ exec \in [Task -> Exec]
  BY DEF TypeInv, TypeOK
<1>2. row[t] \in Row /\ exec[t] \in Exec
  BY <1>1
<1>3. CASE LeaseTask(t)
  BY <1>1, <1>2, <1>3 DEF LeaseTask, FirstLease, Row, Exec, Begins
<1>4. CASE Launch(t)
  <2>1. FirstPc(t) \notin {"none", "created"}
    BY DEF FirstPc
  <2>2. exec' = [exec EXCEPT ![t].pc = FirstPc(t), ![t].armed = TRUE]
        /\ row' = [row EXCEPT ![t] = Prepared(@)]
        /\ UNCHANGED <<ended, proc, session, quitting, draining, queue,
                       pending, attempts, attempt>>
    BY <1>4 DEF Launch
  <2>3. row'[t].lease = row[t].lease /\ row'[t].sess = row[t].sess
        /\ row'[t].shutdown = row[t].shutdown
    BY <1>1, <1>2, <2>2 DEF Prepared, Row
  <2>4. exec'[t].tok = exec[t].tok /\ exec'[t].pc = FirstPc(t)
    BY <1>1, <1>2, <2>2 DEF Exec
  <2>. QED
    BY <2>1, <2>2, <2>3, <2>4 DEF GoesOn
<1>5. CASE CompileDone(t)
  <2>1. \E pc \in {"validate", "complete", "ready"} :
          exec' = [exec EXCEPT ![t].pc = pc]
    BY <1>5 DEF CompileDone
  <2>2. /\ row'[t].lease = row[t].lease /\ row'[t].sess = row[t].sess
        /\ row'[t].shutdown = row[t].shutdown
    BY <1>1, <1>2, <1>5 DEF CompileDone, Row
  <2>3. UNCHANGED <<ended, proc, session, quitting, draining, queue,
                    pending, attempts, attempt>>
    BY <1>5 DEF CompileDone
  <2>4. exec'[t].tok = exec[t].tok /\ exec'[t].pc \notin {"none", "created"}
    BY <1>1, <1>2, <2>1 DEF Exec
  <2>. QED
    BY <2>2, <2>3, <2>4 DEF GoesOn
<1>6. CASE IssueCall(t) \/ StreamChunk(t) \/ Save(t) \/ InsertVersion(t)
           \/ Review(t) \/ Apply(t)
  <2>1. /\ row'[t].lease = row[t].lease /\ row'[t].sess = row[t].sess
        /\ row'[t].shutdown = row[t].shutdown
    BY <1>1, <1>2, <1>6 DEF IssueCall, StreamChunk, Save, InsertVersion,
       Review, Apply, Row
  <2>2. exec'[t].tok = exec[t].tok /\ exec'[t].pc \notin {"none", "created"}
    BY <1>1, <1>2, <1>6 DEF IssueCall, StreamChunk, Save, InsertVersion,
       Review, Apply, Exec
  <2>3. UNCHANGED <<ended, proc, session, quitting, draining, queue,
                    pending, attempts, attempt>>
    BY <1>6 DEF IssueCall, StreamChunk, Save, InsertVersion, Review, Apply
  <2>. QED
    BY <2>1, <2>2, <2>3 DEF GoesOn
<1>7. CASE ModelReturns(t)
  <2>. DEFINE next == CASE ~ChapterTask(t) -> "validate"
                        [] row[t].ckpt.stage = "fact_check" -> "save"
                        [] OTHER -> "compile"
  <2>1. \E pc \in {"validate", "save", "compile"} :
          exec' = [exec EXCEPT ![t].pc = pc]
    <3>1. exec' = [exec EXCEPT ![t].pc = next]
      BY <1>7 DEF ModelReturns
    <3>2. next \in {"validate", "save", "compile"}
      OBVIOUS
    <3>. QED
      BY <3>1, <3>2
  <2>2. /\ row'[t].lease = row[t].lease /\ row'[t].sess = row[t].sess
        /\ row'[t].shutdown = row[t].shutdown
    BY <1>1, <1>2, <1>7 DEF ModelReturns, Row
  <2>3. UNCHANGED <<ended, proc, session, quitting, draining, queue,
                    pending, attempts, attempt>>
    BY <1>7 DEF ModelReturns
  <2>4. exec'[t].tok = exec[t].tok /\ exec'[t].pc \notin {"none", "created"}
    BY <1>1, <1>2, <2>1 DEF Exec
  <2>. QED
    BY <2>2, <2>3, <2>4 DEF GoesOn
<1>8. CASE Timer(t)
  BY <1>1, <1>2, <1>8 DEF Timer, TimeoutFires, RenewalFails, Exec, AwaitPc,
     GoesOn
<1>9. ASSUME NEW r \in Row, r.lease = row[t].lease, r.sess = row[t].sess,
             r.shutdown = row[t].shutdown, Settle(t, r)
      PROVE  Goal
  <2>1. /\ row'[t] = ReleaseLease(r, exec[t].tok) /\ exec'[t].pc = "none"
        /\ UNCHANGED <<ended, proc, session, quitting, draining, queue>>
        /\ pending' = pending \ {t}
    BY <1>1, <1>9 DEF Settle, Idle
  <2>2. /\ ReleaseLease(r, exec[t].tok).lease \in {row[t].lease, NoToken}
        /\ ReleaseLease(r, exec[t].tok).lease = exec[t].tok
             => ReleaseLease(r, exec[t].tok).lease = NoToken
        /\ ReleaseLease(r, exec[t].tok).sess = row[t].sess
        /\ ReleaseLease(r, exec[t].tok).shutdown = row[t].shutdown
    BY <1>9 DEF ReleaseLease, Released, HasToken, Row
  <2>. QED
    BY <2>1, <2>2 DEF Ends
<1>10. CASE Complete(t) \/ FinishTimedOut(t) \/ RejectTimedOut(t)
            \/ FinishLostLease(t) \/ FinishCancelled(t) \/ FinishFailed(t)
            \/ FinishNonRecoverable(t) \/ LaunchFails(t)
  <2>. DEFINE Same(r) == /\ r \in Row /\ r.lease = row[t].lease
                         /\ r.sess = row[t].sess
                         /\ r.shutdown = row[t].shutdown
  <2>1. \E r : Settle(t, r) /\ Same(r)
    <3>1. Same(FailedRow(row[t]))
      BY <1>2 DEF FailedRow, Row, Status, Phase
    <3>2. ASSUME NEW c \in Classification
          PROVE  /\ Same([FailedRow(row[t]) EXCEPT !.class = c])
                 /\ Same([FailedRow(row[t]) EXCEPT !.class = c,
                                                   !.cancel = FALSE])
      BY <3>1 DEF Row
    <3>3. ASSUME NEW credential
          PROVE  Same(Classified(t, FailedRow(row[t]), credential))
      BY <3>2, DecideIsCoherent, DecisionsCoherent DEF Classified
    <3>4. /\ Same([row[t] EXCEPT !.status = "completed", !.phase = "completed",
                                 !.class = "null"])
          /\ Same([row[t] EXCEPT !.status = "cancelled", !.phase = "cancelled",
                                 !.cancel = TRUE,
                                 !.class = "manual-retry-required"])
      BY <1>2 DEF Row, Status, Phase, Classification
    <3>5. {"manual-retry-required", "non-recoverable"} \subseteq Classification
      BY DEF Classification
    <3>6. CASE Complete(t)
      BY <3>4, <3>6 DEF Complete
    <3>7. CASE FinishTimedOut(t)
      BY <3>2, <3>5, <3>7 DEF FinishTimedOut
    <3>8. CASE RejectTimedOut(t) \/ FinishLostLease(t)
      BY <1>2, <3>8 DEF RejectTimedOut, FinishLostLease
    <3>9. CASE FinishCancelled(t)
      BY <3>4, <3>9 DEF FinishCancelled
    <3>10. CASE FinishFailed(t)
      BY <3>3, <3>10 DEF FinishFailed
    <3>11. CASE FinishNonRecoverable(t) \/ LaunchFails(t)
      BY <3>2, <3>5, <3>11 DEF FinishNonRecoverable, LaunchFails
    <3>. QED
      BY <1>10, <3>6, <3>7, <3>8, <3>9, <3>10, <3>11
  <2>. QED
    BY <1>9, <2>1
<1>. QED
  BY <1>3, <1>4, <1>5, <1>6, <1>7, <1>8, <1>10 DEF Step, Model

(***************************************************************************)
(* A task whose row and execution keep what TaskInSession speaks of stays  *)
(* in its session.                                                         *)
(***************************************************************************)
LEMMA TaskKept ==
  ASSUME NEW t \in Task, TaskInSession(t),
         UNCHANGED <<ended, proc, session, quitting>>,
         UNCHANGED <<row[t].lease, row[t].sess, exec[t].pc, exec[t].tok>>,
         Active(row'[t]) => Active(row[t]) /\ row'[t].shutdown = row[t].shutdown,
         t \in pending => t \in pending'
  PROVE  TaskInSession(t)'
BY DEF TaskInSession, Leased, Active, Running

(***************************************************************************)
(* So does one that an execution works on, and one that is claimed or      *)
(* created while the process admits tasks.                                 *)
(***************************************************************************)
LEMMA TaskWorkedOn ==
  ASSUME SessionInv, NEW t \in Task, Step(t) \/ Model(t) \/ Timer(t)
  PROVE  SessionInv'
<1>1. /\ Begins(t) \/ GoesOn(t) \/ Ends(t)
      /\ row'[t].shutdown = row[t].shutdown
      /\ exec'[t].pc # "created"
      /\ UNCHANGED <<ended, proc, session, quitting, draining, queue>>
      /\ Running(t)' => UNCHANGED pending
      /\ pending \subseteq pending' \cup {t}
  BY ExecutionKeepsLease DEF SessionInv, FinalInv
<1>2. /\ Running(t)
      /\ \A u \in Task \ {t} : row'[u] = row[u] /\ exec'[u] = exec[u]
  BY ExecutionStep DEF SessionInv, FinalInv
<1>3. FinalInv' /\ ProcessInSession'
  <2>1. [Next]_vars
    BY DEF Next
  <2>2. FinalInv'
    BY <2>1, TypeStep, FinalStep DEF SessionInv, FinalInv
  <2>3. ProcessInSession'
    BY <1>1 DEF SessionInv, ProcessInSession
  <2>. QED
    BY <2>2, <2>3
<1>4. ASSUME NEW u \in Task \ {t} PROVE TaskInSession(u)'
  BY <1>1, <1>2, <1>4, TaskKept DEF SessionInv
<1>5. /\ TaskInSession(t) /\ Active(row[t]) /\ proc = "up"
      /\ session \in Session /\ ended[session] = "open"
      /\ row[t].sess = session
  BY <1>2 DEF SessionInv, FinalInv, TypeInv, NothingRunsUnlessUp, SessionBegun,
     RunningIsActive, ProcessInSession, TaskInSession
<1>6. row'[t].sess = session
  BY <1>1, <1>5 DEF Begins, GoesOn, Ends
<1>7. Leased(row[t]) => row[t].lease = exec[t].tok
  BY <1>5 DEF TaskInSession
<1>8. Leased(row'[t]) => Running(t)' /\ row'[t].lease = exec'[t].tok
  BY <1>1, <1>7 DEF Begins, GoesOn, Ends, Leased
<1>9. quitting => /\ row[t].shutdown = "graceful" /\ ~Leased(row[t])
                  /\ t \in pending /\ exec[t].pc # "created"
  BY <1>2, <1>5 DEF TaskInSession
<1>10. quitting /\ Running(t)' => t \in pending' /\ ~Leased(row'[t])
  BY <1>1, <1>9 DEF Begins, GoesOn, Ends, Leased
<1>11. TaskInSession(t)'
  BY <1>1, <1>5, <1>6, <1>8, <1>9, <1>10 DEF TaskInSession
<1>. QED
  BY <1>3, <1>4, <1>11 DEF SessionInv

\* The invariant holds before the first session.
LEMMA SessionInit == Init => SessionInv
<1>. SUFFICES ASSUME Init PROVE SessionInv
  OBVIOUS
<1>1. FinalInv
  BY TypeInit, FinalInit DEF FinalInv
<1>2. ProcessInSession
  BY DEF Init, ProcessInSession
<1>3. ASSUME NEW t \in Task PROVE TaskInSession(t)
  BY <1>3 DEF Init, TaskInSession, Leased, Absent, Running, Active, Idle
<1>. QED
  BY <1>1, <1>2, <1>3 DEF SessionInv

(***************************************************************************)
(* A claim gives the task to this process and this session.                *)
(***************************************************************************)
LEMMA ClaimInSession ==
  ASSUME SessionInv, NEW t \in Task, NEW r \in Row, NEW kind, NEW tok,
         Claim(t, r, kind, tok), proc = "up", ~quitting,
         UNCHANGED <<ended, proc, session, quitting>>
  PROVE  TaskInSession(t)'
<1>1. /\ row \in [Task -> Row] /\ exec \in [Task -> Exec]
      /\ session \in Session /\ ended[session] = "open"
  BY DEF SessionInv, FinalInv, TypeInv, TypeOK, SessionBegun, ProcessInSession
<1>2. /\ row'[t] = ClaimedBy(r, tok, kind = "manual", HasFinalEntity(t), session)
      /\ exec'[t].pc = "launch" /\ exec'[t].tok = tok
  BY <1>1 DEF Claim, Idle
<1>3. row'[t].lease = tok /\ row'[t].sess = session
  BY <1>2 DEF ClaimedBy, Row
<1>. QED
  BY <1>1, <1>2, <1>3 DEF TaskInSession, Leased, Running

(***************************************************************************)
(* Every step keeps the leases, the executions and the marks of the ended  *)
(* sessions in order, while no shutdown begins over waiting candidates.    *)
(***************************************************************************)
LEMMA SessionStep ==
  SessionInv /\ DrainsFindNoQueue' /\ [Next]_vars => SessionInv'
<1>. SUFFICES ASSUME SessionInv, DrainsFindNoQueue', [Next]_vars
              PROVE  SessionInv'
  OBVIOUS
<1>1. /\ row \in [Task -> Row] /\ exec \in [Task -> Exec] /\ TypeInv
      /\ \A t \in Task : TaskInSession(t)
      /\ \A t \in Task : row[t] \in Row /\ exec[t] \in Exec
      /\ ProcessInSession /\ RunningIsActive
      /\ \A t \in Task : proc # "up" => ~Running(t)
      /\ proc # "down" => session \in Session
  BY DEF SessionInv, FinalInv, TypeInv, TypeOK, NothingRunsUnlessUp,
     SessionBegun
<1>2. FinalInv'
  BY TypeStep, FinalStep DEF SessionInv, FinalInv
<1>3. ASSUME UNCHANGED <<ended, proc, session, quitting, draining>>,
             queue' \subseteq queue, \A t \in Task : TaskInSession(t)'
      PROVE  SessionInv'
  BY <1>1, <1>2, <1>3 DEF SessionInv, ProcessInSession
<1>4. ASSUME UNCHANGED <<ended, proc, session, quitting, draining, pending>>,
             queue' \subseteq queue, NEW t \in Task, TaskInSession(t)',
             \A u \in Task \ {t} : row'[u] = row[u] /\ exec'[u] = exec[u]
      PROVE  SessionInv'
  BY <1>1, <1>3, <1>4, TaskKept
<1>5. quitting' => queue' = {}
  BY DEF DrainsFindNoQueue
<1>6. ASSUME NEW t \in Task, Step(t) \/ Model(t) \/ Timer(t) PROVE SessionInv'
  BY <1>6, TaskWorkedOn
<1>7. ASSUME NEW t \in Task, CreateTask(t) PROVE SessionInv'
  <2>1. /\ UNCHANGED <<ended, proc, session, quitting, draining, pending, queue>>
        /\ ~quitting /\ proc = "up"
        /\ \A u \in Task \ {t} : row'[u] = row[u] /\ exec'[u] = exec[u]
        /\ row'[t] = Created(session) /\ exec'[t].pc = "created"
    BY <1>1, <1>7 DEF CreateTask, Turn, shutdown, startup, Idle
  <2>2. ~Leased(Created(session)) /\ Created(session).sess = session
    BY DEF Leased, Created, Absent
  <2>3. ended[session] = "open"
    BY <1>1, <2>1 DEF ProcessInSession
  <2>4. TaskInSession(t)'
    BY <1>1, <2>1, <2>2, <2>3 DEF TaskInSession, Running
  <2>. QED
    BY <1>4, <2>1, <2>4
<1>8. ASSUME NEW t \in Task, NEW r \in Row, NEW kind, NEW tok,
             Claim(t, r, kind, tok), proc = "up", ~quitting,
             UNCHANGED <<ended, proc, session, quitting, draining, pending>>,
             queue' \subseteq queue
      PROVE  SessionInv'
  BY <1>1, <1>4, <1>8, ClaimInSession DEF Claim
<1>9. ASSUME NEW t \in Task, NEW r, row' = [row EXCEPT ![t] = r],
             UNCHANGED exec, ~Running(t), r.lease = row[t].lease,
             r.sess = row[t].sess, r.status = row[t].status,
             r.shutdown = row[t].shutdown,
             UNCHANGED <<ended, proc, session, quitting, draining, pending>>,
             queue' \subseteq queue
      PROVE  SessionInv'
  BY <1>1, <1>4, <1>9, TaskKept DEF Active
<1>10. ASSUME NEW t \in Task, NEW q \in Row, NEW credential
       PROVE  LET r == Classified(t, q, credential)
              IN /\ r \in Row /\ r.lease = q.lease
                 /\ r.sess = q.sess /\ r.status = q.status
                 /\ r.shutdown = q.shutdown
  BY <1>10, ClassifiedRow DEF Classified, Row
<1>11. ASSUME NEW t \in Task, Resume(t) \/ ManualRetry(t) PROVE SessionInv'
  <2>1. /\ UNCHANGED <<ended, proc, session, quitting, draining, pending, queue>>
        /\ ~quitting /\ proc = "up" /\ ~Running(t)
    BY <1>11 DEF Resume, ManualRetry, Turn, shutdown, startup
  <2>2. PICK credential \in CredentialStates :
          LET r == Classified(t, row[t], credential)
          IN \/ \E kind, tok : Claim(t, r, kind, tok)
             \/ row' = [row EXCEPT ![t] = r] /\ UNCHANGED exec
    BY <1>11 DEF Resume, ManualRetry
  <2>. QED
    BY <1>1, <1>8, <1>9, <1>10, <2>1, <2>2
<1>12. ASSUME NEW t \in Task, WorkerNext(t) PROVE SessionInv'
  <2>1. /\ UNCHANGED <<ended, proc, session, quitting, draining, pending>>
        /\ queue' \subseteq queue /\ queue # {} /\ proc = "up"
    BY <1>12 DEF WorkerNext, shutdown
  <2>2. ~quitting
    BY <1>1, <2>1 DEF ProcessInSession
  <2>3. CASE \E tok : Claim(t, row[t], "auto", tok)
    BY <1>1, <1>8, <2>1, <2>2, <2>3
  <2>4. CASE UNCHANGED <<row, exec>>
    BY <1>1, <1>4, <2>1, <2>4, TaskKept
  <2>. QED
    BY <1>12, <2>3, <2>4 DEF WorkerNext
<1>13. ASSUME NEW t \in Task, Cancel(t) PROVE SessionInv'
  <2>1. /\ UNCHANGED <<ended, proc, session, quitting, draining, pending, queue>>
        /\ row' = [row EXCEPT ![t] = CancelRequested(@)]
        /\ \A u \in Task : /\ exec'[u].pc = exec[u].pc
                           /\ exec'[u].tok = exec[u].tok
    BY <1>1, <1>13 DEF Cancel, Abort, ProcessFields, shutdown, startup, Exec
  <2>2. \A u \in Task : /\ row'[u].lease = row[u].lease
                        /\ row'[u].sess = row[u].sess
                        /\ row'[u].status = row[u].status
                        /\ row'[u].shutdown = row[u].shutdown
    BY <1>1, <2>1 DEF CancelRequested, Row
  <2>. QED
    BY <1>1, <1>3, <2>1, <2>2, TaskKept DEF Active
<1>14. ASSUME NEW t \in Task, LeaseExpires(t) PROVE SessionInv'
  <2>1. /\ UNCHANGED <<ended, proc, session, quitting, draining, pending, queue>>
        /\ row' = [row EXCEPT ![t].live = FALSE] /\ UNCHANGED exec
    BY <1>14 DEF LeaseExpires, ProcessFields, shutdown, startup
  <2>2. \A u \in Task : /\ row'[u].lease = row[u].lease
                        /\ row'[u].sess = row[u].sess
                        /\ row'[u].status = row[u].status
                        /\ row'[u].shutdown = row[u].shutdown
    BY <1>1, <2>1 DEF Row
  <2>. QED
    BY <1>1, <1>3, <2>1, <2>2, TaskKept DEF Active
<1>15. CASE InvalidateActiveRuntimes
  <2>1. /\ UNCHANGED <<row, ended, proc, session, quitting, draining, pending,
                       queue>>
        /\ \A u \in Task : /\ exec'[u].pc = exec[u].pc
                           /\ exec'[u].tok = exec[u].tok
    BY <1>1, <1>15 DEF InvalidateActiveRuntimes, Abort, ProcessFields,
       shutdown, startup, Exec
  <2>. QED
    BY <1>1, <1>3, <2>1, TaskKept
<1>16. CASE BeginGracefulShutdown
  <2>1. /\ proc = "up" /\ UNCHANGED <<proc, ended, session, queue>>
        /\ queue = {} /\ quitting' /\ draining' = quitting'
        /\ pending' = RunningTasks
        /\ \A u \in Task : row'[u] = GracefulShutdown(row[u], session)
        /\ \A u \in Task : /\ exec'[u].pc = exec[u].pc
                           /\ exec'[u].tok = exec[u].tok
                           /\ exec[u].pc # "created"
    BY <1>1, <1>5, <1>16 DEF BeginGracefulShutdown, Turn, Quiet, SyncPc,
       Abort, startup, Exec
  <2>2. ProcessInSession'
    BY <1>1, <2>1 DEF ProcessInSession
  <2>3. ASSUME NEW u \in Task PROVE TaskInSession(u)'
    <3>1. \/ /\ Active(row[u]) /\ row[u].sess = session
             /\ row'[u] = [Released(row[u]) EXCEPT !.shutdown = "graceful",
                                                   !.phase = "queued"]
          \/ /\ ~Active(row[u]) \/ row[u].sess # session
             /\ row'[u] = row[u]
      BY <2>1, <2>3 DEF GracefulShutdown
    <3>2. CASE Active(row[u]) /\ row[u].sess = session
      <4>1. /\ ~Leased(row'[u]) /\ row'[u].sess = row[u].sess
            /\ row'[u].shutdown = "graceful"
        BY <1>1, <3>1, <3>2 DEF Released, Row, Leased
      <4>. QED
        BY <1>1, <2>1, <3>2, <4>1 DEF TaskInSession, Running, RunningTasks
    <3>3. CASE ~Active(row[u]) \/ row[u].sess # session
      <4>1. ~Running(u)
        BY <1>1, <3>3 DEF TaskInSession, RunningIsActive
      <4>. QED
        BY <1>1, <2>1, <3>1, <3>3, <4>1 DEF TaskInSession, Running
    <3>. QED
      BY <3>2, <3>3
  <2>. QED
    BY <1>2, <2>2, <2>3 DEF SessionInv
<1>17. DrainReady => \A u \in Task : ~Running(u) /\ ~Leased(row[u])
  BY <1>1 DEF DrainReady, ProcessInSession, TaskInSession
<1>18. DrainReady => \A u \in Task :
         row[u].sess = session /\ Active(row[u]) => row[u].shutdown = "graceful"
  BY <1>1 DEF DrainReady, ProcessInSession, TaskInSession
<1>19. CASE Drained
  <2>1. /\ proc' = "down" /\ ~quitting' /\ draining' = quitting'
        /\ ended' = [ended EXCEPT ![session] = "graceful"]
        /\ UNCHANGED <<row, session>> /\ DrainReady
        /\ \A u \in Task : exec'[u].pc = "none"
    BY <1>19 DEF Drained, Gone, Idle
  <2>2. ended \in [Session -> {"unused", "open", "graceful", "forced"}]
    BY <1>1 DEF TypeInv, TypeOK
  <2>3. ProcessInSession'
    BY <1>1, <2>1, <2>2 DEF ProcessInSession
  <2>4. ASSUME NEW u \in Task PROVE TaskInSession(u)'
    BY <1>1, <1>17, <1>18, <2>1, <2>2, <2>4 DEF TaskInSession, Running
  <2>. QED
    BY <1>2, <2>3, <2>4 DEF SessionInv
<1>20. CASE DatabaseCloseFails
  <2>1. /\ proc' = "up" /\ ~quitting' /\ draining' = quitting'
        /\ ended' = [ended EXCEPT ![session] = "graceful",
                                  ![session + 1] = "open"]
        /\ session' = session + 1 /\ UNCHANGED row /\ DrainReady
        /\ \A u \in Task : exec'[u].pc = exec[u].pc
    BY <1>1, <1>20 DEF DatabaseCloseFails, DrainReady, Exec
  <2>2. /\ ended \in [Session -> {"unused", "open", "graceful", "forced"}]
        /\ session \in Nat /\ session + 1 \in Session /\ session \in Session
    <3>1. /\ session \in 0..MaxSession /\ session < MaxSession
          /\ MaxSession \in Nat
      BY <1>1, <1>20, BoundAssumption DEF DatabaseCloseFails, TypeInv, TypeOK
    <3>2. session \in Session
      BY <1>1, <2>1 DEF DrainReady
    <3>3. ended \in [Session -> {"unused", "open", "graceful", "forced"}]
      BY <1>1 DEF TypeInv, TypeOK
    <3>. QED
      BY <3>1, <3>2, <3>3 DEF Session
  <2>3. ProcessInSession'
    BY <1>1, <2>1, <2>2 DEF ProcessInSession
  <2>4. ASSUME NEW u \in Task PROVE TaskInSession(u)'
    BY <1>1, <1>17, <1>18, <2>1, <2>2, <2>4 DEF TaskInSession, Running
  <2>. QED
    BY <1>2, <2>3, <2>4 DEF SessionInv
<1>21. CASE DrainTimesOut
  <2>1. /\ UNCHANGED <<row, exec, ended, proc, session, queue>>
        /\ ~quitting' /\ draining' = quitting'
    BY <1>21 DEF DrainTimesOut, db, startup
  <2>2. ASSUME NEW u \in Task PROVE TaskInSession(u)'
    BY <1>1, <2>1, <2>2 DEF TaskInSession, Running
  <2>. QED
    BY <1>1, <1>2, <2>1, <2>2 DEF SessionInv, ProcessInSession
<1>22. CASE Crash
  <2>1. /\ proc' = "down" /\ ~quitting' /\ draining' = quitting'
        /\ UNCHANGED <<row, ended, session>>
        /\ \A u \in Task : exec'[u].pc = "none"
    BY <1>22 DEF Crash, Gone, Idle, db
  <2>2. ASSUME NEW u \in Task PROVE TaskInSession(u)'
    BY <1>1, <2>1, <2>2 DEF TaskInSession, Running
  <2>. QED
    BY <1>1, <1>2, <2>1, <2>2 DEF SessionInv, ProcessInSession
<1>23. CASE BeginRuntimeSession
  <2>. DEFINE crashed == {s \in Session : ended[s] = "open"}
  <2>1. /\ proc = "down" /\ proc' = "starting" /\ session' = session + 1
        /\ ended' = [s \in Session |->
             IF s \in crashed THEN "forced"
             ELSE IF s = session + 1 THEN "open" ELSE ended[s]]
        /\ row' = [t \in Task |->
             IF row[t].sess \in crashed THEN Released(row[t]) ELSE row[t]]
        /\ UNCHANGED <<quitting, draining, exec, queue>>
    BY <1>23 DEF BeginRuntimeSession, shutdown, startup
  <2>2. session \in Nat /\ session + 1 \in Session
    BY <1>1, <1>23, BoundAssumption
       DEF BeginRuntimeSession, TypeInv, TypeOK, Session
  <2>3. session + 1 \notin crashed /\ ~quitting
    BY <1>1, <2>1, <2>2 DEF ProcessInSession
  <2>4. ProcessInSession'
    BY <1>1, <2>1, <2>2, <2>3 DEF ProcessInSession
  <2>5. ASSUME NEW u \in Task PROVE TaskInSession(u)'
    <3>1. Leased(row[u]) => row[u].sess \in crashed
      BY <1>1 DEF TaskInSession
    <3>2. /\ ~Leased(row'[u]) /\ row'[u].sess = row[u].sess
          /\ row'[u].status = row[u].status
          /\ row'[u].shutdown = row[u].shutdown
      BY <1>1, <2>1, <2>5, <3>1 DEF Released, Row, Leased
    <3>3. \A s \in Session : ended'[s] = "graceful" => ended[s] = "graceful"
      BY <2>1
    <3>4. ~Running(u) /\ ~Running(u)'
      BY <1>1, <2>1 DEF Running
    <3>. QED
      BY <1>1, <2>1, <2>3, <3>2, <3>3, <3>4
         DEF TaskInSession, Active, Running
  <2>. QED
    BY <1>2, <2>4, <2>5 DEF SessionInv
<1>24. CASE ScanAndRecoverOnStartup
  <2>1. PICK credential \in CredentialStates :
          row' = [t \in Task |->
            LET r == ExpireLease(row[t])
            IN IF RecoveryCandidate(r) THEN Scanned(t, r, credential) ELSE r]
    BY <1>24 DEF ScanAndRecoverOnStartup
  <2>2. /\ proc = "starting" /\ proc' = "up" /\ ~quitting
        /\ UNCHANGED <<ended, session, quitting, draining, exec>>
    BY <1>1, <1>24 DEF ScanAndRecoverOnStartup, shutdown, ProcessInSession
  <2>3. ProcessInSession'
    BY <1>1, <2>2 DEF ProcessInSession
  <2>4. ASSUME NEW u \in Task PROVE TaskInSession(u)'
    <3>1. ~Leased(row[u]) /\ ExpireLease(row[u]) = row[u]
      BY <1>1, <2>2 DEF TaskInSession, ExpireLease
    <3>2. \/ row'[u] = row[u]
          \/ row'[u] = Scanned(u, row[u], credential)
      BY <2>1, <2>4, <3>1
    <3>3. /\ ~Leased(Scanned(u, row[u], credential))
          /\ Scanned(u, row[u], credential).sess = row[u].sess
          /\ Active(Scanned(u, row[u], credential)) =>
               /\ Active(row[u])
               /\ row[u].shutdown = "graceful" =>
                    Scanned(u, row[u], credential).shutdown = "graceful"
      <4>. DEFINE ending == IF row[u].status = "running"
                               /\ row[u].shutdown # "graceful"
                            THEN "crash" ELSE row[u].shutdown
                  seen == [row[u] EXCEPT !.shutdown = ending]
                  c == Classified(u, seen, credential)
      <4>1. /\ seen \in Row /\ seen.lease = row[u].lease
            /\ seen.sess = row[u].sess /\ seen.status = row[u].status
            /\ row[u].shutdown = "graceful" => seen.shutdown = "graceful"
        BY <1>1 DEF Row
      <4>. HIDE DEF seen, ending
      <4>2. /\ c.lease = row[u].lease /\ c.sess = row[u].sess
            /\ c.status = row[u].status /\ c.shutdown = seen.shutdown
            /\ c \in Row
        BY <1>10, <4>1
      <4>3. /\ ~Leased(MarkedTerminal(c)) /\ MarkedTerminal(c).sess = row[u].sess
            /\ Active(MarkedTerminal(c)) => FALSE
        BY <3>1, <4>2 DEF MarkedTerminal, Released, Leased, Row, Active
      <4>4. Scanned(u, row[u], credential) \in {c, MarkedTerminal(c)}
        BY DEF Scanned, seen, ending
      <4>. QED
        BY <3>1, <4>1, <4>2, <4>3, <4>4 DEF Leased, Active
    <3>4. ~Running(u)'
      BY <1>1, <2>2 DEF Running
    <3>. QED
      BY <1>1, <2>2, <3>1, <3>2, <3>3, <3>4 DEF TaskInSession, Running
  <2>. QED
    BY <1>2, <2>3, <2>4 DEF SessionInv
<1>25. CASE UNCHANGED vars
  <2>1. UNCHANGED <<row, exec, ended, proc, session, quitting, draining,
                    pending, queue>>
    BY <1>25 DEF vars, db, shutdown, startup
  <2>. QED
    BY <1>1, <1>3, <2>1, TaskKept
<1>. QED
  BY <1>6, <1>7, <1>11, <1>12, <1>13, <1>14, <1>15, <1>16, <1>19, <1>20,
     <1>21, <1>22, <1>23, <1>24, <1>25 DEF Next, User, Lifecycle

-----------------------------------------------------------------------------
(* Recovery attempts.                                                      *)

\* The attempt of a task is open in the database exactly while an execution
\* runs it; a process that is gone leaves open attempts only to a session
\* that is still open.
AttemptInSession(t) ==
  /\ attempt[t] # 0 => attempt[t] = session /\ Running(t)
  /\ \A s \in Session :
       IF proc = "down" THEN attempts[t][s] # 0 => ended[s] = "open"
       ELSE attempts[t][s] = IF attempt[t] = s /\ Running(t) THEN 1 ELSE 0

AttemptInv == SessionInv /\ \A t \in Task : AttemptInSession(t)

(***************************************************************************)
(* But for the rejection of finishTimedOut an execution finishes its       *)
(* attempt when it ends, and touches no attempt before.                    *)
(***************************************************************************)
LEMMA ExecutionFinishesAttempt ==
  ASSUME TypeInv, NEW t \in Task, ~RejectTimedOut(t),
         Step(t) \/ Model(t) \/ Timer(t)
  PROVE  \/ Running(t)' /\ UNCHANGED <<attempts, attempt>>
         \/ ~Running(t)' /\ FinishAttempt(t)
<1>1. Running(t)' => UNCHANGED <<attempts, attempt>>
  BY ExecutionKeepsLease
<1>2. exec \in [Task -> Exec] /\ exec[t] \in Exec
  BY DEF TypeInv, TypeOK
<1>3. CASE LeaseTask(t) \/ Launch(t) \/ IssueCall(t) \/ StreamChunk(t)
           \/ Save(t) \/ InsertVersion(t) \/ Review(t) \/ Apply(t)
  <2>1. FirstPc(t) # "none"
    BY DEF FirstPc
  <2>2. Running(t)'
    BY <1>2, <1>3, <2>1 DEF LeaseTask, Launch, IssueCall, StreamChunk, Save,
       InsertVersion, Review, Apply, Exec, Running
  <2>. QED
    BY <1>1, <2>2
<1>4. CASE CompileDone(t) \/ ModelReturns(t)
  <2>1. \E pc \in {"validate", "complete", "ready", "save", "compile"} :
          exec' = [exec EXCEPT ![t].pc = pc]
    <3>1. CASE CompileDone(t)
      <4>. DEFINE pc == CASE row[t].ckpt.stage = "ready" -> "validate"
                          [] row[t].ckpt.stage = "applied" -> "complete"
                          [] OTHER -> "ready"
      <4>1. exec' = [exec EXCEPT ![t].pc = pc]
        BY <3>1 DEF CompileDone
      <4>2. pc \in {"validate", "complete", "ready"}
        OBVIOUS
      <4>. QED
        BY <4>1, <4>2
    <3>2. CASE ModelReturns(t)
      <4>. DEFINE pc == CASE ~ChapterTask(t) -> "validate"
                          [] row[t].ckpt.stage = "fact_check" -> "save"
                          [] OTHER -> "compile"
      <4>1. exec' = [exec EXCEPT ![t].pc = pc]
        BY <3>2 DEF ModelReturns
      <4>2. pc \in {"validate", "save", "compile"}
        OBVIOUS
      <4>. QED
        BY <4>1, <4>2
    <3>. QED
      BY <1>4, <3>1, <3>2
  <2>2. Running(t)'
    BY <1>2, <2>1 DEF Exec, Running
  <2>. QED
    BY <1>1, <2>2
<1>5. CASE Timer(t)
  BY <1>2, <1>5 DEF Timer, TimeoutFires, RenewalFails, ProcessFields, Exec,
     Running, AwaitPc
<1>6. CASE Complete(t) \/ FinishTimedOut(t) \/ FinishLostLease(t)
           \/ FinishCancelled(t) \/ FinishFailed(t)
           \/ FinishNonRecoverable(t) \/ LaunchFails(t)
  <2>1. FinishAttempt(t) /\ \E r : Settle(t, r)
    BY <1>6 DEF Complete, FinishTimedOut, FinishLostLease,
       FinishCancelled, FinishFailed, FinishNonRecoverable, LaunchFails
  <2>2. exec'[t] = Idle
    BY <1>2, <2>1 DEF Settle
  <2>. QED
    BY <2>1, <2>2 DEF Idle, Running
<1>. QED
  BY <1>3, <1>4, <1>5, <1>6 DEF Step, Model

\* No attempt is open before the first session.
LEMMA AttemptInit == Init => AttemptInv
BY SessionInit DEF Init, AttemptInv, AttemptInSession, Idle

(***************************************************************************)
(* Every step but that rejection keeps the attempts in step with the       *)
(* executions.                                                             *)
(***************************************************************************)
LEMMA AttemptStep ==
  /\ AttemptInv /\ DrainsFindNoQueue' /\ [Next]_vars
  /\ [\A t \in Task : ~RejectTimedOut(t)]_vars
  => AttemptInv'
<1>. SUFFICES ASSUME AttemptInv, DrainsFindNoQueue', [Next]_vars,
                     [\A t \in Task : ~RejectTimedOut(t)]_vars
              PROVE  \A t \in Task : AttemptInSession(t)'
  BY SessionStep DEF AttemptInv
<1>1. /\ exec \in [Task -> Exec] /\ TypeInv /\ SessionInv
      /\ attempts \in [Task -> [Session -> Nat]]
      /\ attempt \in [Task -> 0..MaxSession]
      /\ \A t \in Task : AttemptInSession(t) /\ exec[t] \in Exec
      /\ \A t \in Task : proc # "up" => ~Running(t) /\ attempt[t] = 0
      /\ proc # "down" => session \in Session
      /\ 0 \notin Session
  BY DEF AttemptInv, SessionInv, FinalInv, TypeInv, TypeOK,
     NothingRunsUnlessUp, SessionBegun, Session
<1>2. ASSUME UNCHANGED <<ended, proc, session>>, NEW t \in Task,
             UNCHANGED <<attempts[t], attempt[t], exec[t]>>
      PROVE  AttemptInSession(t)'
  BY <1>1, <1>2 DEF AttemptInSession, Running
<1>3. ASSUME UNCHANGED <<ended, proc, session, attempts, attempt>>,
             \A t \in Task : Running(t)' <=> Running(t)
      PROVE  \A t \in Task : AttemptInSession(t)'
  BY <1>1, <1>3 DEF AttemptInSession
<1>4. ASSUME \A t \in Task : ~RejectTimedOut(t),
             NEW t \in Task, Step(t) \/ Model(t) \/ Timer(t)
      PROVE  \A u \in Task : AttemptInSession(u)'
  <2>1. /\ UNCHANGED <<ended, proc, session>>
        /\ \A u \in Task \ {t} : exec'[u] = exec[u]
        /\ Running(t) /\ proc = "up"
    BY <1>1, <1>4, ExecutionKeepsLease, ExecutionStep
  <2>2. \/ Running(t)' /\ UNCHANGED <<attempts, attempt>>
        \/ ~Running(t)' /\ FinishAttempt(t)
    BY <1>1, <1>4, ExecutionFinishesAttempt
  <2>3. \A u \in Task \ {t} : /\ attempts'[u] = attempts[u]
                              /\ attempt'[u] = attempt[u]
    BY <1>1, <2>2 DEF FinishAttempt
  <2>4. CASE Running(t)' /\ UNCHANGED <<attempts, attempt>>
    BY <1>1, <1>2, <2>1, <2>4 DEF AttemptInSession
  <2>5. CASE ~Running(t)' /\ FinishAttempt(t)
    <3>1. attempt'[t] = 0
      BY <1>1, <2>5 DEF FinishAttempt
    <3>2. ASSUME NEW s \in Session PROVE attempts'[t][s] = 0
      <4>1. CASE attempt[t] = 0
        BY <1>1, <2>1, <2>5, <4>1 DEF FinishAttempt, AttemptInSession
      <4>2. CASE attempt[t] # 0
        <5>1. attempts' = [attempts EXCEPT ![t][session] = @ - 1]
              /\ attempt[t] = session
          BY <1>1, <2>5, <4>2 DEF FinishAttempt, AttemptInSession
        <5>2. attempts[t][s] = IF s = session THEN 1 ELSE 0
          BY <1>1, <2>1, <5>1 DEF AttemptInSession
        <5>. QED
          BY <1>1, <2>1, <5>1, <5>2
      <4>. QED
        BY <4>1, <4>2
    <3>3. AttemptInSession(t)'
      BY <2>1, <2>5, <3>1, <3>2 DEF AttemptInSession
    <3>. QED
      BY <1>2, <2>1, <2>3, <3>3
  <2>. QED
    BY <2>2, <2>4, <2>5
<1>5. ASSUME NEW t \in Task, NEW r, NEW kind, NEW tok, Claim(t, r, kind, tok),
             ~Running(t), proc = "up", UNCHANGED <<ended, proc, session>>
      PROVE  \A u \in Task : AttemptInSession(u)'
  <2>1. /\ \A u \in Task \ {t} : /\ attempts'[u] = attempts[u]
                                 /\ attempt'[u] = attempt[u]
                                 /\ exec'[u] = exec[u]
        /\ attempts'[t] = [attempts[t] EXCEPT ![session] = @ + 1]
        /\ attempt'[t] = session
        /\ Running(t)'
    BY <1>1, <1>5 DEF Claim, Idle, Running
  <2>2. \A s \in Session : attempts[t][s] = 0
    BY <1>1, <1>5 DEF AttemptInSession
  <2>3. AttemptInSession(t)'
    BY <1>1, <1>5, <2>1, <2>2 DEF AttemptInSession
  <2>. QED
    BY <1>2, <1>5, <2>1, <2>3
<1>6. ASSUME NEW t \in Task, CreateTask(t)
      PROVE  \A u \in Task : AttemptInSession(u)'
  <2>1. /\ UNCHANGED <<ended, proc, session, attempts, attempt>>
        /\ \A u \in Task \ {t} : exec'[u] = exec[u]
        /\ exec'[t].pc = "created"
        /\ row[t].status = "absent" /\ proc = "up"
    BY <1>1, <1>6 DEF CreateTask, Idle, Turn
  <2>2. ~Running(t)
    BY <1>1, <2>1 DEF SessionInv, FinalInv, RunningIsActive, Active
  <2>3. AttemptInSession(t)'
    BY <1>1, <2>1, <2>2 DEF AttemptInSession, Running
  <2>. QED
    BY <1>2, <2>1, <2>3
<1>7. ASSUME NEW t \in Task, Resume(t) \/ ManualRetry(t)
      PROVE  \A u \in Task : AttemptInSession(u)'
  <2>1. /\ UNCHANGED <<ended, proc, session>> /\ proc = "up" /\ ~Running(t)
        /\ \/ \E r, kind, tok : Claim(t, r, kind, tok)
           \/ UNCHANGED <<attempts, attempt, exec>>
    BY <1>7 DEF Resume, ManualRetry, Turn
  <2>. QED
    BY <1>2, <1>5, <2>1
<1>8. ASSUME NEW t \in Task, WorkerNext(t)
      PROVE  \A u \in Task : AttemptInSession(u)'
  <2>1. /\ UNCHANGED <<ended, proc, session>> /\ proc = "up"
        /\ \/ ~Running(t) /\ \E r, tok : Claim(t, r, "auto", tok)
           \/ UNCHANGED <<attempts, attempt, exec>>
    BY <1>8 DEF WorkerNext
  <2>. QED
    BY <1>2, <1>5, <2>1
<1>9. ASSUME \/ \E t \in Task : Cancel(t)
             \/ InvalidateActiveRuntimes \/ BeginGracefulShutdown
      PROVE  \A u \in Task : AttemptInSession(u)'
  <2>1. /\ UNCHANGED <<ended, proc, session, attempts, attempt>>
        /\ \E S : exec' = Abort(S)
    BY <1>9 DEF Cancel, InvalidateActiveRuntimes, BeginGracefulShutdown,
       ProcessFields
  <2>2. \A u \in Task : Running(u)' <=> Running(u)
    BY <1>1, <2>1 DEF Abort, Exec, Running
  <2>. QED
    BY <1>3, <2>1, <2>2
<1>10. ASSUME \/ \E t \in Task : LeaseExpires(t)
              \/ DrainTimesOut \/ UNCHANGED vars
       PROVE  \A u \in Task : AttemptInSession(u)'
  BY <1>2, <1>10 DEF LeaseExpires, ProcessFields, DrainTimesOut, db, vars
<1>11. DrainReady => \A u \in Task : ~Running(u) /\ attempt[u] = 0
                       /\ \A s \in Session : attempts[u][s] = 0
  BY <1>1 DEF DrainReady, SessionInv, ProcessInSession, TaskInSession,
     AttemptInSession
<1>12. CASE Drained
  <2>1. /\ proc' = "down" /\ DrainReady /\ UNCHANGED attempts
        /\ \A u \in Task : exec'[u].pc = "none" /\ attempt'[u] = 0
    BY <1>12 DEF Drained, Gone, Idle
  <2>. QED
    BY <1>11, <2>1 DEF AttemptInSession
<1>13. CASE DatabaseCloseFails
  <2>1. /\ proc' = "up" /\ DrainReady /\ UNCHANGED <<attempts, attempt>>
        /\ \A u \in Task : exec'[u].pc = exec[u].pc
    BY <1>1, <1>13 DEF DatabaseCloseFails, DrainReady, Exec
  <2>. QED
    BY <1>11, <2>1 DEF AttemptInSession, Running
<1>14. CASE Crash
  <2>1. /\ proc # "down" /\ proc' = "down" /\ UNCHANGED <<attempts, ended>>
        /\ \A u \in Task : exec'[u].pc = "none" /\ attempt'[u] = 0
    BY <1>14 DEF Crash, Gone, Idle, db
  <2>2. ended[session] = "open"
    BY <1>1, <2>1 DEF SessionInv, ProcessInSession
  <2>3. ASSUME NEW u \in Task PROVE AttemptInSession(u)'
    BY <1>1, <2>1, <2>2, <2>3 DEF AttemptInSession
  <2>. QED
    BY <2>3
<1>15. CASE BeginRuntimeSession
  <2>1. /\ proc = "down" /\ proc' = "starting" /\ UNCHANGED <<exec, attempt>>
        /\ \A u \in Task, s \in Session :
             attempts'[u][s] = IF ended[s] = "open" THEN 0 ELSE attempts[u][s]
    BY <1>15 DEF BeginRuntimeSession
  <2>2. ASSUME NEW u \in Task PROVE AttemptInSession(u)'
    BY <1>1, <2>1, <2>2 DEF AttemptInSession, Running
  <2>. QED
    BY <2>2
<1>16. CASE ScanAndRecoverOnStartup
  <2>1. /\ proc = "starting" /\ proc' = "up"
        /\ UNCHANGED <<attempts, attempt, exec, ended, session>>
    BY <1>16 DEF ScanAndRecoverOnStartup
  <2>2. ASSUME NEW u \in Task PROVE AttemptInSession(u)'
    BY <1>1, <2>1, <2>2 DEF AttemptInSession, Running
  <2>. QED
    BY <2>2
<1>. QED
  BY <1>4, <1>6, <1>7, <1>8, <1>9, <1>10, <1>12, <1>13, <1>14, <1>15, <1>16
     DEF Next, User, Lifecycle

-----------------------------------------------------------------------------
(* What follows from them.                                                 *)

\* SessionInv holds throughout while no shutdown begins over candidates.
LEMMA SessionAlways == Spec /\ []DrainsFindNoQueue => []SessionInv
BY SessionInit, SessionStep, PTL DEF Spec

(***************************************************************************)
(* While no shutdown begins over waiting candidates, a lease in the        *)
(* database is the lease of the execution that runs here                   *)
(* (LeaseFollowsExecution): claims, releases, drains, crashes and          *)
(* reconcileCrashedAndStart leave none behind, whatever fails.             *)
(***************************************************************************)
THEOREM LeasesFollow == Spec /\ []DrainsFindNoQueue => []LeaseFollowsExecution
<1>1. SessionInv => LeaseFollowsExecution
  BY DEF SessionInv, TaskInSession, LeaseFollowsExecution
<1>. QED
  BY <1>1, SessionAlways, PTL

(***************************************************************************)
(* A graceful shutdown that begins over no waiting candidate closes the    *)
(* database only when nothing runs (DrainedIsQuiet,                        *)
(* beginGracefulShutdown): the race of drain_not_quiet is the only one.    *)
(***************************************************************************)
THEOREM DrainsAreQuiet == Spec /\ []DrainsFindNoQueue => DrainedIsQuiet
<1>1. SessionInv /\ [Next]_vars =>
        [(\E s \in Session : Drains(s)) => RunningTasks = {}]_vars
  <2>. SUFFICES ASSUME SessionInv, Next, NEW s \in Session, Drains(s)
                PROVE  RunningTasks = {}
    OBVIOUS
  <2>1. ended'[s] # ended[s] /\ ended'[s] = "graceful"
    BY DEF Drains
  <2>2. ASSUME NEW t \in Task, Step(t) \/ Model(t) \/ Timer(t) PROVE FALSE
    BY <2>1, <2>2, ExecutionKeepsLease DEF SessionInv, FinalInv
  <2>3. ASSUME NEW t \in Task, User(t) \/ WorkerNext(t) \/ LeaseExpires(t)
        PROVE  FALSE
    BY <2>1, <2>3 DEF User, CreateTask, Resume, ManualRetry, Cancel,
       WorkerNext, LeaseExpires, ProcessFields
  <2>4. Lifecycle
    BY <2>2, <2>3 DEF Next
  <2>5. ~BeginRuntimeSession
    BY <2>1 DEF BeginRuntimeSession
  <2>6. Drained \/ DatabaseCloseFails
    BY <2>1, <2>4, <2>5 DEF Lifecycle, InvalidateActiveRuntimes,
       BeginGracefulShutdown, DrainTimesOut, Crash, ScanAndRecoverOnStartup,
       ProcessFields, db
  <2>7. DrainReady
    BY <2>6 DEF Drained, DatabaseCloseFails
  <2>. QED
    BY <2>7 DEF DrainReady, SessionInv, ProcessInSession, TaskInSession,
       RunningTasks
<1>. QED
  BY <1>1, SessionAlways, PTL DEF Spec, DrainedIsQuiet

\* AttemptInv holds throughout while no deadline is rejected either.
LEMMA AttemptAlways ==
  Spec /\ []DrainsFindNoQueue /\ NoDeadlineWithoutLease => []AttemptInv
BY AttemptInit, AttemptStep, PTL DEF Spec, NoDeadlineWithoutLease

(***************************************************************************)
(* While every deadline finds its lease, the open recovery attempts are    *)
(* exactly those of the executions (AttemptsAccounted): claimAndStart      *)
(* opens one, finishAttempt or the next session closes it, once.           *)
(***************************************************************************)
THEOREM AttemptsAreAccounted ==
  Spec /\ []DrainsFindNoQueue /\ NoDeadlineWithoutLease => []AttemptsAccounted
<1>1. AttemptInv => AttemptsAccounted
  BY DEF AttemptInv, AttemptInSession, AttemptsAccounted
<1>. QED
  BY <1>1, AttemptAlways, PTL

(***************************************************************************)
(* The rejected deadline of attempt_leak is the only end of an execution   *)
(* without its lease that leaves its recovery attempt open                 *)
(* (LostLeaseEndsAttempt): every other one reaches finishAttempt.          *)
(***************************************************************************)
THEOREM LostLeasesEndAttempts ==
  Spec /\ []DrainsFindNoQueue /\ NoDeadlineWithoutLease => LostLeaseEndsAttempt
<1>1. AttemptInv /\ AttemptInv' /\ [Next]_vars =>
        [\A t \in Task :
           /\ Running(t) /\ ~Holds(t) /\ exec[t].pc # "created"
           /\ exec'[t].pc = "none" /\ proc' = "up"
           => attempts'[t][session] = 0]_vars
  <2>. SUFFICES ASSUME AttemptInv, AttemptInv', NEW t \in Task, Running(t),
                       exec'[t].pc = "none", proc' = "up"
                PROVE  attempts'[t][session] = 0
    OBVIOUS
  <2>1. session \in Session
    BY DEF AttemptInv, SessionInv, FinalInv, TypeInv, NothingRunsUnlessUp,
       SessionBegun
  <2>2. AttemptInSession(t)' /\ ~Running(t)'
    BY DEF AttemptInv, Running
  <2>. QED
    BY <2>1, <2>2 DEF AttemptInSession
<1>. QED
  BY <1>1, AttemptAlways, PTL DEF Spec, LostLeaseEndsAttempt

(***************************************************************************)
(* While every deadline finds its lease, a session that ended gracefully   *)
(* leaves no attempt, no lease and no unmarked task (GracefulEndIsClean),  *)
(* so the next start takes none of its tasks for the victim of a crash.    *)
(***************************************************************************)
THEOREM EndsAreClean ==
  Spec /\ []DrainsFindNoQueue /\ NoDeadlineWithoutLease => []GracefulEndIsClean
<1>1. AttemptInv => GracefulEndIsClean
  <2>. SUFFICES ASSUME AttemptInv, NEW s \in Session, ended[s] = "graceful",
                       NEW t \in Task
                PROVE  /\ attempts[t][s] = 0
                       /\ row[t].sess = s =>
                            /\ ~Leased(row[t])
                            /\ Active(row[t]) => row[t].shutdown = "graceful"
    BY DEF GracefulEndIsClean
  <2>1. /\ TaskInSession(t) /\ AttemptInSession(t)
        /\ proc # "down" => ended[session] = "open"
        /\ proc # "up" => attempt[t] = 0
    BY DEF AttemptInv, SessionInv, ProcessInSession, FinalInv, TypeInv,
       NothingRunsUnlessUp
  <2>2. attempts[t][s] = 0
    <3>1. CASE proc = "down"
      BY <2>1, <3>1 DEF AttemptInSession
    <3>2. CASE proc # "down"
      BY <2>1, <3>2 DEF AttemptInSession, Session
    <3>. QED
      BY <3>1, <3>2
  <2>. QED
    BY <2>1, <2>2 DEF TaskInSession
<1>. QED
  BY <1>1, AttemptAlways, PTL

-----------------------------------------------------------------------------
(* What is paid, and what is known of it.                                  *)

\* The model was asked for t, its answer is not stored and the user has not
\* agreed to ask again.
InDoubt(t) == inDoubt[t] /\ ~consent[t]

\* Where a chapter stands by its checkpoint, and what its execution and the
\* history may be there.
ChapterStands(t) ==
  LET c == row[t].ckpt.stage
      pc == exec[t].pc
  IN /\ c \in {"null"} \cup ChapterStage
     /\ result[t] => c \in {"saving", "review"}
     /\ c = "review" => result[t]
     /\ inDoubt[t] => c \in {"body", "summary", "fact_check"}
     /\ InDoubt(t) => \/ row[t].phase \notin BeforeModel
                      \/ row[t].shutdown = "graceful"
     /\ pc = "compile" => /\ c \in {"null", "body", "summary", "fact_check"}
                          /\ exec[t].agent => c # "null"
     /\ pc \in {"ready", "call"} => c \in {"body", "summary", "fact_check"}
     /\ pc \in {"save", "insert"} => c = "saving" /\ ~result[t]
     /\ pc \in {"review", "finalize", "complete"} => result[t]
     /\ pc # "validate"

\* The same for an outline, whose call is told by its checkpoint alone.
OutlineStands(t) ==
  LET c == row[t].ckpt.stage
      pc == exec[t].pc
  IN /\ c \in {"null"} \cup OutlineStage
     /\ result[t] <=> c = "applied"
     /\ inDoubt[t] <=> c = "model"
     /\ pc = "compile" => ~exec[t].agent
     /\ pc = "ready" => c \in {"prepared", "model"}
     /\ pc = "call" => c = "model"
     /\ pc = "validate" => c = "ready"
     /\ pc = "complete" => c = "applied"
     /\ pc \notin {"save", "insert", "review", "finalize"}

\* Both: a call is in doubt while it is awaited and no other execution runs
\* over a doubt; and what waits for a worker is not running and not in doubt.
TaskStands(t) ==
  /\ IF ChapterTask(t) THEN ChapterStands(t) ELSE OutlineStands(t)
  /\ row[t].status = "absent" => row[t].ckpt.stage = "null"
  /\ exec[t].pc \in {"created", "launch"} => ~exec[t].agent
  /\ exec[t].pc = "call" => InDoubt(t)
  /\ Running(t) /\ InDoubt(t) => exec[t].pc = "call"
  /\ t \in queue => ~Running(t) /\ ~InDoubt(t)

PaidInv == FinalInv /\ \A t \in Task : TaskStands(t)

(***************************************************************************)
(* The classifier resumes nothing by itself while the last call is in      *)
(* doubt: the phase, the checkpoint or the graceful end tells it.          *)
(***************************************************************************)
LEMMA DoubtNeedsTheUser ==
  ASSUME NEW t \in Task, TaskStands(t), NEW r, NEW credential,
         r.ckpt = row[t].ckpt,
         \/ r.phase \notin BeforeModel
         \/ r.shutdown = "graceful"
         \/ ~ChapterTask(t),
         InDoubt(t)
  PROVE  ~Decide(t, r, credential).auto
<1>1. ~ManualRequired(TRUE).auto /\ ~ManualRequired(FALSE).auto
      /\ ~NonRecoverable.auto
  BY DEF ManualRequired, NonRecoverable, Decision
<1>. DEFINE f == [taskType |-> TypeOf[t], status |-> r.status,
       cancelRequested |-> r.cancel, phase |-> r.phase, checkpoint |-> r.ckpt,
       parse |-> "readable", metadata |-> "current", requestValid |-> TRUE,
       entity |-> result[t], attemptsLeft |-> r.count < MaxAttempts,
       graceful |-> r.shutdown = "graceful", projectExists |-> TRUE,
       targetExists |-> TRUE, credential |-> credential,
       gateOpen |-> ~quitting]
<1>2. /\ f.taskType = TypeOf[t] /\ f.phase = r.phase /\ f.checkpoint = r.ckpt
      /\ f.entity = result[t] /\ f.graceful = (r.shutdown = "graceful")
      /\ f.parse = "readable" /\ f.requestValid /\ f.metadata = "current"
  OBVIOUS
<1>3. Decide(t, r, credential) \in {NonRecoverable, ClassifyTaskRecovery(f)}
  BY DEF Decide
<1>. HIDE DEF f
<1>4. CASE ChapterTask(t)
  <2>1. /\ ~result[t] /\ r.ckpt.stage \in {"body", "summary", "fact_check"}
        /\ f.taskType = "chapter-generation"
    BY <1>2, <1>4 DEF TaskStands, ChapterStands, InDoubt, ChapterTask
  <2>2. ~FinalEntity(f)
    BY <1>2, <2>1 DEF FinalEntity
  <2>3. ~f.graceful => ClassifyByType(f) \in {NonRecoverable, ManualRequired(TRUE)}
    BY <1>2, <1>4, <2>1, <2>2 DEF ClassifyByType, ClassifyChapterGeneration,
       SavingComplete
  <2>4. ClassifyTaskRecovery(f)
          \in {NonRecoverable, ManualRequired(TRUE), ManualRequired(FALSE)}
    BY <2>2, <2>3 DEF ClassifyTaskRecovery, NeedsCredential
  <2>. QED
    BY <1>1, <1>3, <2>4
<1>5. CASE ~ChapterTask(t)
  <2>1. r.ckpt.stage = "model" /\ f.taskType = "outline-generation"
    BY <1>2, <1>5, TaskAssumption DEF TaskStands, OutlineStands, InDoubt,
       ChapterTask
  <2>2. /\ ~FinalEntity(f)
        /\ ClassifyByType(f) \in {NonRecoverable, ManualRequired(TRUE)}
    BY <1>2, <2>1 DEF FinalEntity, TextTask, ClassifyByType,
       ClassifyOutlineGeneration, OutlineComplete
  <2>3. ClassifyTaskRecovery(f)
          \in {NonRecoverable, ManualRequired(TRUE), ManualRequired(FALSE)}
    BY <2>2 DEF ClassifyTaskRecovery, NeedsCredential
  <2>. QED
    BY <1>1, <1>3, <2>3
<1>. QED
  BY <1>4, <1>5

\* What a step leaves a task if it is not a step on its result or its calls.
DataKept(t) ==
  /\ row'[t].ckpt = row[t].ckpt /\ result'[t] = result[t]
  /\ inDoubt'[t] = inDoubt[t]
  /\ row'[t].status = "absent" => row[t].status = "absent"
DoubtMarked(t) ==
  InDoubt(t) => \/ row'[t].phase = row[t].phase
                   /\ row'[t].shutdown = row[t].shutdown
                \/ row'[t].phase \notin BeforeModel
                \/ row'[t].shutdown = "graceful"

(***************************************************************************)
(* Such a task stands where it stood if its execution does, if it ended,   *)
(* or if it was launched without a doubt.                                  *)
(***************************************************************************)
LEMMA TaskStandsOn ==
  ASSUME NEW t \in Task, TaskStands(t), DataKept(t),
         t \in queue' => t \in queue,
         \/ /\ DoubtMarked(t) /\ consent'[t] = consent[t]
            /\ UNCHANGED <<exec[t].pc, exec[t].agent>>
         \/ /\ DoubtMarked(t) /\ consent'[t] = consent[t]
            /\ exec'[t].pc = "none"
         \/ /\ exec'[t].pc = "launch" /\ ~exec'[t].agent
            /\ ~InDoubt(t)' /\ t \notin queue'
  PROVE  TaskStands(t)'
<1>. USE DEF TaskStands, DataKept, DoubtMarked, InDoubt, Running
<1>1. CASE ChapterTask(t)
  BY <1>1 DEF ChapterStands, ChapterTask
<1>2. CASE ~ChapterTask(t)
  BY <1>2 DEF OutlineStands, ChapterTask
<1>. QED
  BY <1>1, <1>2

(***************************************************************************)
(* The execution of a task keeps result, calls and checkpoint in step.     *)
(***************************************************************************)
LEMMA ExecutionStands ==
  ASSUME PaidInv, NEW t \in Task, Step(t) \/ Model(t) \/ Timer(t)
  PROVE  TaskStands(t)'
<1>1. /\ row \in [Task -> Row] /\ exec \in [Task -> Exec]
      /\ row[t] \in Row /\ exec[t] \in Exec /\ row[t].ckpt \in CheckpointRecord
      /\ result \in [Task -> BOOLEAN] /\ inDoubt \in [Task -> BOOLEAN]
      /\ consent \in [Task -> BOOLEAN] /\ TypeInv /\ TaskStands(t)
  BY DEF PaidInv, FinalInv, TypeInv, TypeOK, Row
<1>2. queue' = queue /\ Running(t) /\ t \notin queue /\ row[t].status # "absent"
  BY ExecutionKeepsLease, ExecutionStep
     DEF PaidInv, FinalInv, TaskStands, RunningIsActive, Active
<1>3. CASE LeaseTask(t)
  <2>1. /\ DataKept(t) /\ exec'[t].pc = "launch" /\ ~exec'[t].agent
        /\ UNCHANGED <<inDoubt, consent>>
    BY <1>1, <1>2, <1>3 DEF LeaseTask, FirstLease, DataKept, history, Row, Exec,
       TaskStands
  <2>2. ~InDoubt(t)
    BY <1>1, <1>2, <1>3 DEF LeaseTask, TaskStands
  <2>. QED
    BY <1>1, <1>2, <2>1, <2>2, TaskStandsOn DEF InDoubt
<1>4. CASE Launch(t)
  <2>1. /\ row'[t].ckpt = row[t].ckpt /\ row'[t].status # "absent"
        /\ exec'[t].pc = FirstPc(t) /\ exec'[t].agent = exec[t].agent
        /\ ~exec[t].agent
        /\ UNCHANGED <<result, inDoubt, consent>>
    BY <1>1, <1>4 DEF Launch, Prepared, history, Row, Exec, TaskStands
  <2>2. ~InDoubt(t)
    BY <1>1, <1>2, <1>4 DEF Launch, TaskStands
  <2>3. CASE ChapterTask(t)
    <3>1. ChapterStands(t)'
      BY <1>1, <2>1, <2>2, <2>3 DEF TaskStands, ChapterStands, FirstPc,
         InDoubt, ChapterStage
    <3>2. FirstPc(t) \notin {"created", "launch", "call"}
      BY DEF FirstPc
    <3>. QED
      BY <1>2, <2>1, <2>2, <2>3, <3>1, <3>2
         DEF TaskStands, InDoubt, ChapterTask, Running
  <2>4. CASE ~ChapterTask(t)
    BY <1>1, <1>2, <2>1, <2>2, <2>4 DEF TaskStands, OutlineStands, FirstPc,
       InDoubt, ChapterTask, Running
  <2>. QED
    BY <2>3, <2>4
<1>5. CASE CompileDone(t)
  <2>. DEFINE stage == row[t].ckpt.stage
              then == CASE ChapterTask(t) /\ stage = "null" -> "body"
                        [] ~ChapterTask(t) /\ stage = "null" -> "prepared"
                        [] OTHER -> stage
              next == CASE stage = "ready" -> "validate"
                        [] stage = "applied" -> "complete"
                        [] OTHER -> "ready"
  <2>1. /\ row' = [row EXCEPT ![t].ckpt.stage = then]
        /\ exec' = [exec EXCEPT ![t].pc = next]
        /\ exec[t].pc = "compile" /\ ~exec[t].agent
        /\ UNCHANGED <<result, inDoubt, consent>>
    BY <1>5 DEF CompileDone, history
  <2>2. /\ row'[t].ckpt.stage = then /\ row'[t].status # "absent"
        /\ row'[t].phase = row[t].phase
        /\ row'[t].shutdown = row[t].shutdown
    BY <1>1, <1>2, <2>1 DEF Row, CheckpointRecord
  <2>3. exec'[t].pc = next
    BY <1>1, <2>1 DEF Exec
  <2>4. ~InDoubt(t)
    BY <1>1, <1>2, <2>1 DEF TaskStands
  <2>5. CASE ChapterTask(t)
    <3>1. /\ then \in {"body", "summary", "fact_check"} /\ next = "ready"
          /\ ~result[t]
      BY <1>1, <2>1, <2>5 DEF TaskStands, ChapterStands
    <3>. HIDE DEF then, next
    <3>2. ChapterStands(t)'
      BY <1>1, <2>1, <2>2, <2>3, <2>4, <3>1
         DEF ChapterStands, InDoubt, ChapterStage
    <3>. QED
      BY <1>2, <2>1, <2>2, <2>3, <2>4, <2>5, <3>1, <3>2
         DEF TaskStands, InDoubt, ChapterTask, Running
  <2>6. CASE ~ChapterTask(t)
    <3>1. /\ then = (IF stage = "null" THEN "prepared" ELSE stage)
          /\ next = (IF stage = "ready" THEN "validate"
                     ELSE IF stage = "applied" THEN "complete" ELSE "ready")
          /\ stage \in {"null"} \cup OutlineStage
          /\ result[t] <=> stage = "applied"
          /\ inDoubt[t] <=> stage = "model"
      BY <1>1, <2>6 DEF TaskStands, OutlineStands
    <3>. HIDE DEF then, next, stage
    <3>2. OutlineStands(t)'
      BY <2>1, <2>2, <2>3, <3>1 DEF OutlineStands, OutlineStage
    <3>. QED
      BY <1>2, <2>1, <2>2, <2>3, <2>4, <2>6, <3>1, <3>2
         DEF TaskStands, InDoubt, ChapterTask, Running
  <2>. QED
    BY <2>5, <2>6
<1>6. CASE IssueCall(t)
  <2>1. /\ exec'[t].pc = "call" /\ inDoubt'[t] /\ ~consent'[t]
        /\ UNCHANGED result /\ row'[t].phase = "model"
        /\ row'[t].status # "absent"
        /\ row'[t].ckpt.stage = IF ChapterTask(t) THEN row[t].ckpt.stage
                                ELSE "model"
    BY <1>1, <1>2, <1>6 DEF IssueCall, Row, CheckpointRecord, Exec
  <2>2. exec[t].pc = "ready" \/ (exec[t].pc = "compile" /\ exec[t].agent)
    BY <1>6 DEF IssueCall
  <2>3. CASE ChapterTask(t)
    <3>1. ChapterStands(t)'
      BY <1>1, <2>1, <2>2, <2>3 DEF TaskStands, ChapterStands, InDoubt,
         BeforeModel, ChapterStage
    <3>. QED
      BY <1>2, <2>1, <2>3, <3>1 DEF TaskStands, InDoubt, ChapterTask, Running
  <2>4. CASE ~ChapterTask(t)
    <3>1. ~result[t]
      BY <1>1, <2>2, <2>4 DEF TaskStands, OutlineStands
    <3>2. OutlineStands(t)'
      BY <2>1, <2>4, <3>1 DEF OutlineStands, OutlineStage
    <3>. QED
      BY <1>2, <2>1, <2>4, <3>2 DEF TaskStands, InDoubt, ChapterTask, Running
  <2>. QED
    BY <2>3, <2>4
<1>7. CASE StreamChunk(t)
  <2>1. /\ row'[t].ckpt.stage = row[t].ckpt.stage
        /\ row'[t].phase = row[t].phase /\ row'[t].shutdown = row[t].shutdown
        /\ row'[t].status # "absent"
        /\ UNCHANGED <<result, exec, inDoubt, consent>>
    BY <1>1, <1>2, <1>7 DEF StreamChunk, history, Row, CheckpointRecord
  <2>. QED
    BY <1>1, <1>2, <2>1 DEF TaskStands, ChapterStands, OutlineStands, InDoubt,
       ChapterTask, Running
<1>8. CASE ModelReturns(t)
  <2>. DEFINE next == CASE ~ChapterTask(t) -> "validate"
                        [] row[t].ckpt.stage = "fact_check" -> "save"
                        [] OTHER -> "compile"
  <2>1. /\ exec[t].pc = "call"
        /\ exec' = [exec EXCEPT ![t].pc = next]
        /\ inDoubt' = [inDoubt EXCEPT ![t] = FALSE]
        /\ UNCHANGED <<result, consent>>
    BY <1>8 DEF ModelReturns
  <2>2. PICK summarised \in BOOLEAN :
          row' = [row EXCEPT ![t].ckpt = Answered(@, summarised)]
    BY <1>8 DEF ModelReturns
  <2>3. row'[t].ckpt = Answered(row[t].ckpt, summarised)
        /\ row'[t].status # "absent"
    BY <1>1, <1>2, <2>2 DEF Row
  <2>4. exec'[t].pc = next /\ ~inDoubt'[t]
    BY <1>1, <2>1 DEF Exec
  <2>5. CASE ChapterTask(t)
    <3>1. /\ row[t].ckpt.stage \in {"body", "summary", "fact_check"}
          /\ ~result[t]
      BY <1>1, <2>1, <2>5 DEF TaskStands, ChapterStands
    <3>2. \/ /\ row[t].ckpt.stage = "body"
             /\ Answered(row[t].ckpt, summarised).stage = "summary"
             /\ next = "compile"
          \/ /\ row[t].ckpt.stage = "summary"
             /\ Answered(row[t].ckpt, summarised).stage = "fact_check"
             /\ next = "compile"
          \/ /\ row[t].ckpt.stage = "fact_check"
             /\ Answered(row[t].ckpt, summarised).stage = "saving"
             /\ next = "save"
      BY <1>1, <2>5, <3>1 DEF Answered, CheckpointRecord
    <3>. HIDE DEF next
    <3>3. ChapterStands(t)'
      BY <2>1, <2>3, <2>4, <3>1, <3>2 DEF ChapterStands, InDoubt, ChapterStage
    <3>. QED
      BY <1>2, <2>1, <2>3, <2>4, <2>5, <3>2, <3>3
         DEF TaskStands, InDoubt, ChapterTask, Running
  <2>6. CASE ~ChapterTask(t)
    <3>1. row[t].ckpt.stage = "model" /\ ~result[t]
      BY <1>1, <2>1, <2>6 DEF TaskStands, OutlineStands
    <3>2. /\ Answered(row[t].ckpt, summarised).stage = "ready"
          /\ next = "validate"
      BY <1>1, <2>6, <3>1 DEF Answered, CheckpointRecord
    <3>. HIDE DEF next
    <3>3. OutlineStands(t)'
      BY <2>1, <2>3, <2>4, <3>1, <3>2 DEF OutlineStands, OutlineStage
    <3>. QED
      BY <1>2, <2>1, <2>3, <2>4, <2>6, <3>2, <3>3
         DEF TaskStands, InDoubt, ChapterTask, Running
  <2>. QED
    BY <2>5, <2>6
<1>9. CASE Save(t)
  <2>1. /\ exec[t].pc = "save" /\ exec'[t].pc = "insert"
        /\ row'[t].ckpt.stage = "saving" /\ row'[t].status # "absent"
        /\ UNCHANGED <<result, inDoubt, consent>>
    BY <1>1, <1>2, <1>9 DEF Save, history, Row, CheckpointRecord, Exec
  <2>2. ChapterTask(t)
    BY <1>1, <2>1 DEF TaskStands, OutlineStands
  <2>3. ~result[t] /\ ~inDoubt[t]
    BY <1>1, <2>1, <2>2 DEF TaskStands, ChapterStands
  <2>4. ChapterStands(t)'
    BY <2>1, <2>3 DEF ChapterStands, InDoubt, ChapterStage
  <2>. QED
    BY <1>2, <2>1, <2>2, <2>3, <2>4
       DEF TaskStands, InDoubt, ChapterTask, Running
<1>10. CASE InsertVersion(t)
  <2>1. /\ exec[t].pc = "insert" /\ exec'[t].pc = "review"
        /\ result'[t] /\ row'[t].status # "absent"
        /\ UNCHANGED <<row, inDoubt, consent>>
    BY <1>1, <1>2, <1>10 DEF InsertVersion, history, Exec
  <2>2. ChapterTask(t)
    BY <1>1, <2>1 DEF TaskStands, OutlineStands
  <2>3. row[t].ckpt.stage = "saving" /\ ~inDoubt[t]
    BY <1>1, <2>1, <2>2 DEF TaskStands, ChapterStands
  <2>4. ChapterStands(t)'
    BY <2>1, <2>3 DEF ChapterStands, InDoubt, ChapterStage
  <2>. QED
    BY <1>2, <2>1, <2>2, <2>3, <2>4
       DEF TaskStands, InDoubt, ChapterTask, Running
<1>11. CASE Review(t)
  <2>1. /\ exec[t].pc \in {"review", "finalize"} /\ exec'[t].pc = "complete"
        /\ UNCHANGED <<result, inDoubt, consent>>
    BY <1>1, <1>11 DEF Review, history, Exec
  <2>2. row'[t].ckpt.stage = "review" /\ row'[t].status # "absent"
    BY <1>1, <1>2, <1>11 DEF Review, Row, CheckpointRecord
  <2>3. ChapterTask(t)
    BY <1>1, <2>1 DEF TaskStands, OutlineStands
  <2>4. result[t] /\ ~inDoubt[t]
    BY <1>1, <2>1, <2>3 DEF TaskStands, ChapterStands
  <2>5. ChapterStands(t)'
    BY <2>1, <2>2, <2>4 DEF ChapterStands, InDoubt, ChapterStage
  <2>. QED
    BY <1>2, <2>1, <2>2, <2>3, <2>4, <2>5
       DEF TaskStands, InDoubt, ChapterTask, Running
<1>12. CASE Apply(t)
  <2>1. /\ exec[t].pc = "validate" /\ exec'[t].pc = "complete" /\ result'[t]
        /\ row'[t].ckpt.stage = "applied" /\ row'[t].status # "absent"
        /\ UNCHANGED <<inDoubt, consent>>
    BY <1>1, <1>2, <1>12 DEF Apply, history, Row, CheckpointRecord, Exec
  <2>2. ~ChapterTask(t)
    BY <1>1, <2>1 DEF TaskStands, ChapterStands
  <2>3. ~inDoubt[t]
    BY <1>1, <2>1, <2>2 DEF TaskStands, OutlineStands
  <2>4. OutlineStands(t)'
    BY <2>1, <2>3 DEF OutlineStands, OutlineStage
  <2>. QED
    BY <1>2, <2>1, <2>2, <2>3, <2>4
       DEF TaskStands, InDoubt, ChapterTask, Running
<1>13. CASE Timer(t)
  <2>1. /\ UNCHANGED <<row, result, inDoubt, consent, exec[t].pc, exec[t].agent>>
    BY <1>1, <1>13 DEF Timer, TimeoutFires, RenewalFails, history, Exec
  <2>. QED
    BY <1>1, <1>2, <2>1, TaskStandsOn DEF DataKept, DoubtMarked
<1>14. ASSUME NEW r \in Row, Settle(t, r), r.ckpt = row[t].ckpt,
              r.status # "absent",
              \/ r.phase = row[t].phase /\ r.shutdown = row[t].shutdown
              \/ r.phase \notin BeforeModel
       PROVE  TaskStands(t)'
  <2>1. /\ row'[t] = ReleaseLease(r, exec[t].tok) /\ exec'[t].pc = "none"
        /\ UNCHANGED <<result, inDoubt, consent>>
    BY <1>1, <1>14 DEF Settle, Idle, history
  <2>2. LET q == ReleaseLease(r, exec[t].tok)
        IN /\ q.ckpt = r.ckpt /\ q.status = r.status /\ q.phase = r.phase
           /\ q.shutdown = r.shutdown
    BY <1>14 DEF ReleaseLease, Released, Row
  <2>3. DataKept(t) /\ DoubtMarked(t)
    BY <1>14, <2>1, <2>2 DEF DataKept, DoubtMarked
  <2>. QED
    BY <1>1, <1>2, <2>1, <2>3, TaskStandsOn
<1>15. CASE Complete(t) \/ FinishTimedOut(t) \/ RejectTimedOut(t)
            \/ FinishLostLease(t) \/ FinishCancelled(t) \/ FinishFailed(t)
            \/ FinishNonRecoverable(t) \/ LaunchFails(t)
  <2>. DEFINE Over(r) == /\ r \in Row /\ r.ckpt = row[t].ckpt
                         /\ r.status # "absent"
                         /\ \/ r.phase = row[t].phase
                               /\ r.shutdown = row[t].shutdown
                            \/ r.phase \notin BeforeModel
  <2>1. \E r : Settle(t, r) /\ Over(r)
    <3>1. Over(FailedRow(row[t]))
      BY <1>1 DEF FailedRow, Row, Status, Phase, BeforeModel
    <3>2. ASSUME NEW c \in Classification
          PROVE  /\ Over([FailedRow(row[t]) EXCEPT !.class = c])
                 /\ Over([FailedRow(row[t]) EXCEPT !.class = c,
                                                   !.cancel = FALSE])
      BY <3>1 DEF Row
    <3>3. ASSUME NEW credential
          PROVE  Over(Classified(t, FailedRow(row[t]), credential))
      BY <3>2, DecideIsCoherent, DecisionsCoherent DEF Classified
    <3>4. /\ Over([row[t] EXCEPT !.status = "completed", !.phase = "completed",
                                 !.class = "null"])
          /\ Over([row[t] EXCEPT !.status = "cancelled", !.phase = "cancelled",
                                 !.cancel = TRUE,
                                 !.class = "manual-retry-required"])
      BY <1>1 DEF Row, Status, Phase, Classification, BeforeModel
    <3>5. {"manual-retry-required", "non-recoverable"} \subseteq Classification
      BY DEF Classification
    <3>6. CASE Complete(t)
      BY <3>4, <3>6 DEF Complete
    <3>7. CASE FinishTimedOut(t)
      BY <3>2, <3>5, <3>7 DEF FinishTimedOut
    <3>8. CASE RejectTimedOut(t) \/ FinishLostLease(t)
      BY <1>1, <1>2, <3>8 DEF RejectTimedOut, FinishLostLease
    <3>9. CASE FinishCancelled(t)
      BY <3>4, <3>9 DEF FinishCancelled
    <3>10. CASE FinishFailed(t)
      BY <3>3, <3>10 DEF FinishFailed
    <3>11. CASE FinishNonRecoverable(t) \/ LaunchFails(t)
      BY <3>2, <3>5, <3>11 DEF FinishNonRecoverable, LaunchFails
    <3>. QED
      BY <1>15, <3>6, <3>7, <3>8, <3>9, <3>10, <3>11
  <2>. QED
    BY <1>14, <2>1
<1>. QED
  BY <1>3, <1>4, <1>5, <1>6, <1>7, <1>8, <1>9, <1>10, <1>11, <1>12, <1>13,
     <1>15 DEF Step, Model

\* Nothing was asked or stored at first.
LEMMA PaidInit == Init => PaidInv
<1>. SUFFICES ASSUME Init PROVE PaidInv
  OBVIOUS
<1>1. FinalInv
  BY TypeInit, FinalInit DEF FinalInv
<1>2. ASSUME NEW t \in Task PROVE TaskStands(t)
  <2>1. /\ row[t] = Absent /\ exec[t] = Idle /\ ~result[t] /\ ~inDoubt[t]
        /\ queue = {}
    BY <1>2 DEF Init
  <2>. QED
    BY <2>1 DEF TaskStands, ChapterStands, OutlineStands, InDoubt, Running,
       Absent, Idle, NoCheckpoint, Checkpoint, ChapterStage, OutlineStage
<1>. QED
  BY <1>1, <1>2 DEF PaidInv

(***************************************************************************)
(* Every step of the process, the user and the start-up scan keeps them in *)
(* step too, while waiting candidates are not run: what runs by itself was *)
(* classified when no call of it was in doubt.                             *)
(***************************************************************************)
LEMMA PaidStep == PaidInv /\ WaitingAreIdle' /\ [Next]_vars => PaidInv'
<1>. SUFFICES ASSUME PaidInv, WaitingAreIdle', [Next]_vars
              PROVE  \A t \in Task : TaskStands(t)'
  BY TypeStep, FinalStep DEF PaidInv, FinalInv
<1>1. /\ row \in [Task -> Row] /\ exec \in [Task -> Exec] /\ TypeInv
      /\ \A t \in Task : TaskStands(t) /\ row[t] \in Row /\ exec[t] \in Exec
      /\ result \in [Task -> BOOLEAN] /\ inDoubt \in [Task -> BOOLEAN]
      /\ consent \in [Task -> BOOLEAN]
      /\ \A t \in Task : Running(t) => Active(row[t])
  BY DEF PaidInv, FinalInv, TypeInv, TypeOK, RunningIsActive
<1>2. ASSUME NEW t \in Task, UNCHANGED <<row[t], exec[t], result[t]>>,
             UNCHANGED <<inDoubt[t], consent[t]>>, queue' \subseteq queue
      PROVE  TaskStands(t)'
  BY <1>1, <1>2, TaskStandsOn DEF DataKept, DoubtMarked
<1>3. \A t \in Task : Running(t)' => t \notin queue'
  BY DEF WaitingAreIdle
<1>4. ASSUME NEW t \in Task, Step(t) \/ Model(t) \/ Timer(t)
      PROVE  \A u \in Task : TaskStands(u)'
  <2>1. \A u \in Task \ {t} : row'[u] = row[u] /\ exec'[u] = exec[u]
    BY <1>1, <1>4, ExecutionStep
  <2>2. \A u \in Task \ {t} : UNCHANGED <<result[u], inDoubt[u], consent[u]>>
    <3>1. CASE IssueCall(t) \/ ModelReturns(t) \/ InsertVersion(t) \/ Apply(t)
      BY <1>1, <3>1 DEF IssueCall, ModelReturns, InsertVersion, Apply, history
    <3>2. CASE \/ LeaseTask(t) \/ Launch(t) \/ CompileDone(t) \/ Save(t)
               \/ Review(t) \/ StreamChunk(t) \/ Timer(t)
      BY <3>2 DEF LeaseTask, Launch, CompileDone, Save, Review, StreamChunk,
         Timer, TimeoutFires, RenewalFails, history
    <3>3. ASSUME NEW r, Settle(t, r)
          PROVE  UNCHANGED <<result, inDoubt, consent>>
      BY <3>3 DEF Settle, history
    <3>4. CASE Complete(t) \/ FinishTimedOut(t) \/ RejectTimedOut(t)
               \/ FinishLostLease(t) \/ FinishCancelled(t) \/ FinishFailed(t)
               \/ FinishNonRecoverable(t) \/ LaunchFails(t)
      <4>1. \E r : Settle(t, r)
        BY <3>4 DEF Complete, FinishTimedOut, RejectTimedOut, FinishLostLease,
           FinishCancelled, FinishFailed, FinishNonRecoverable, LaunchFails
      <4>. QED
        BY <3>3, <4>1
    <3>. QED
      BY <1>4, <3>1, <3>2, <3>4 DEF Step, Model
  <2>3. queue' = queue
    BY <1>1, <1>4, ExecutionKeepsLease
  <2>. QED
    BY <1>2, <1>4, <2>1, <2>2, <2>3, ExecutionStands
<1>5. ASSUME NEW t \in Task, CreateTask(t)
      PROVE  \A u \in Task : TaskStands(u)'
  <2>1. /\ UNCHANGED <<result, inDoubt, consent, queue>> /\ t \notin queue'
        /\ \A u \in Task \ {t} : row'[u] = row[u] /\ exec'[u] = exec[u]
        /\ row'[t] = Created(session) /\ exec'[t].pc = "created"
        /\ ~exec'[t].agent /\ row[t].status = "absent"
    BY <1>1, <1>3, <1>5 DEF CreateTask, history, startup, Idle, Running
  <2>2. /\ Created(session).ckpt.stage = "null"
        /\ Created(session).status = "pending"
    BY DEF Created, Absent, NoCheckpoint, Checkpoint
  <2>3. /\ ~result[t] /\ ~inDoubt[t]
    <3>1. row[t].ckpt.stage = "null"
      BY <1>1, <2>1 DEF TaskStands
    <3>. QED
      BY <1>1, <3>1 DEF TaskStands, ChapterStands, OutlineStands
  <2>4. TaskStands(t)'
    BY <2>1, <2>2, <2>3 DEF TaskStands, ChapterStands, OutlineStands, InDoubt,
       Running, ChapterTask
  <2>. QED
    BY <1>2, <2>1, <2>4
<1>6. ASSUME NEW t \in Task, NEW r \in Row, NEW kind, NEW tok,
             Claim(t, r, kind, tok), r.ckpt = row[t].ckpt,
             UNCHANGED <<result, inDoubt>>, ~InDoubt(t)',
             \A u \in Task \ {t} : consent'[u] = consent[u],
             queue' \subseteq queue
      PROVE  \A u \in Task : TaskStands(u)'
  <2>1. /\ \A u \in Task \ {t} : row'[u] = row[u] /\ exec'[u] = exec[u]
        /\ exec'[t].pc = "launch" /\ ~exec'[t].agent
        /\ row'[t] =
             ClaimedBy(r, tok, kind = "manual", HasFinalEntity(t), session)
        /\ t \notin queue'
    BY <1>1, <1>3, <1>6 DEF Claim, Idle, Running
  <2>2. LET q == ClaimedBy(r, tok, kind = "manual", HasFinalEntity(t), session)
        IN q.ckpt = r.ckpt /\ q.status = "running"
    BY <1>6 DEF ClaimedBy, Row
  <2>3. DataKept(t)
    BY <1>6, <2>1, <2>2 DEF DataKept
  <2>4. TaskStands(t)'
    BY <1>1, <1>6, <2>1, <2>3, TaskStandsOn
  <2>. QED
    BY <1>2, <1>6, <2>1, <2>4
<1>7. ASSUME NEW t \in Task, NEW q \in Row, NEW credential
      PROVE  LET r == Classified(t, q, credential)
             IN /\ r \in Row /\ r.ckpt = q.ckpt /\ r.phase = q.phase
                /\ r.status = q.status /\ r.shutdown = q.shutdown
  BY <1>7, ClassifiedRow DEF Classified, Row
<1>8. ASSUME NEW t \in Task, NEW credential,
             row' = [row EXCEPT ![t] = Classified(t, row[t], credential)],
             UNCHANGED <<exec, result, inDoubt, consent, queue>>
      PROVE  \A u \in Task : TaskStands(u)'
  <2>1. DataKept(t) /\ DoubtMarked(t)
    BY <1>1, <1>7, <1>8 DEF DataKept, DoubtMarked
  <2>2. TaskStands(t)'
    BY <1>1, <1>8, <2>1, TaskStandsOn
  <2>. QED
    BY <1>1, <1>2, <1>8, <2>2
<1>9. ASSUME NEW t \in Task, NEW credential, Decide(t, row[t], credential).auto
      PROVE  ~InDoubt(t)
  <2>1. InDoubt(t) => \/ row[t].phase \notin BeforeModel
                      \/ row[t].shutdown = "graceful"
                      \/ ~ChapterTask(t)
    BY <1>1, <1>9 DEF TaskStands, ChapterStands
  <2>. QED
    BY <1>1, <1>9, <2>1, DoubtNeedsTheUser
<1>10. ASSUME NEW t \in Task, Resume(t)
       PROVE  \A u \in Task : TaskStands(u)'
  <2>1. UNCHANGED <<result, inDoubt, consent, queue>>
    BY <1>10 DEF Resume, startup, history
  <2>2. PICK credential \in CredentialStates :
          LET r == Classified(t, row[t], credential)
          IN \/ /\ Decide(t, row[t], credential).auto
                /\ \E tok : Claim(t, r, "auto", tok)
             \/ row' = [row EXCEPT ![t] = r] /\ UNCHANGED exec
    BY <1>10 DEF Resume
  <2>3. CASE Decide(t, row[t], credential).auto
             /\ \E tok : Claim(t, Classified(t, row[t], credential), "auto", tok)
    <3>1. ~InDoubt(t)'
      BY <1>9, <2>1, <2>3 DEF InDoubt
    <3>. QED
      BY <1>1, <1>6, <1>7, <2>1, <2>3, <3>1
  <2>. QED
    BY <1>8, <2>1, <2>2, <2>3
<1>11. ASSUME NEW t \in Task, ManualRetry(t)
       PROVE  \A u \in Task : TaskStands(u)'
  <2>1. UNCHANGED <<result, inDoubt, queue>>
    BY <1>11 DEF ManualRetry, startup
  <2>2. PICK credential \in CredentialStates :
          LET r == Classified(t, row[t], credential)
          IN \/ /\ consent' = [consent EXCEPT ![t] = TRUE]
                /\ \E tok : Claim(t, r, "manual", tok)
             \/ row' = [row EXCEPT ![t] = r] /\ UNCHANGED <<exec, consent>>
    BY <1>11 DEF ManualRetry
  <2>3. CASE /\ consent' = [consent EXCEPT ![t] = TRUE]
             /\ \E tok : Claim(t, Classified(t, row[t], credential), "manual",
                               tok)
    <3>1. ~InDoubt(t)' /\ \A u \in Task \ {t} : consent'[u] = consent[u]
      BY <1>1, <2>3 DEF InDoubt
    <3>. DEFINE r == Classified(t, row[t], credential)
    <3>2. PICK tok : Claim(t, r, "manual", tok)
      BY <2>3
    <3>3. r \in Row /\ r.ckpt = row[t].ckpt
      BY <1>1, <1>7
    <3>. HIDE DEF r
    <3>. QED
      BY <1>6, <2>1, <3>1, <3>2, <3>3
  <2>. QED
    BY <1>8, <2>1, <2>2, <2>3
<1>12. ASSUME NEW t \in Task, WorkerNext(t)
       PROVE  \A u \in Task : TaskStands(u)'
  <2>1. /\ UNCHANGED <<result, inDoubt, consent>>
        /\ queue' = queue \ {t} /\ t \in queue
    BY <1>12 DEF WorkerNext, history
  <2>2. ~InDoubt(t)'
    BY <1>1, <2>1 DEF TaskStands, InDoubt
  <2>3. CASE \E tok : Claim(t, row[t], "auto", tok)
    BY <1>1, <1>6, <2>1, <2>2, <2>3
  <2>4. CASE UNCHANGED <<row, exec>>
    BY <1>2, <2>1, <2>4
  <2>. QED
    BY <1>12, <2>3, <2>4 DEF WorkerNext
<1>13. ASSUME UNCHANGED <<result, inDoubt, consent>>, queue' \subseteq queue,
              \A u \in Task : /\ exec'[u].pc = exec[u].pc
                              /\ exec'[u].agent = exec[u].agent
                              /\ DataKept(u) /\ DoubtMarked(u)
       PROVE  \A u \in Task : TaskStands(u)'
  BY <1>1, <1>13, TaskStandsOn
<1>14. ASSUME NEW S
       PROVE  \A u \in Task : /\ Abort(S)[u].pc = exec[u].pc
                              /\ Abort(S)[u].agent = exec[u].agent
  BY <1>1 DEF Abort, Exec
<1>15. ASSUME NEW t \in Task, Cancel(t)
       PROVE  \A u \in Task : TaskStands(u)'
  <2>1. /\ UNCHANGED <<result, inDoubt, consent, queue>>
        /\ row' = [row EXCEPT ![t] = CancelRequested(@)] /\ exec' = Abort({t})
    BY <1>15 DEF Cancel, ProcessFields, startup
  <2>2. \A u \in Task : DataKept(u) /\ DoubtMarked(u)
    BY <1>1, <2>1 DEF CancelRequested, Row, DataKept, DoubtMarked, BeforeModel
  <2>. QED
    BY <1>13, <1>14, <2>1, <2>2
<1>16. ASSUME NEW t \in Task, LeaseExpires(t)
       PROVE  \A u \in Task : TaskStands(u)'
  <2>1. /\ UNCHANGED <<result, exec, inDoubt, consent, queue>>
        /\ row' = [row EXCEPT ![t].live = FALSE]
    BY <1>16 DEF LeaseExpires, ProcessFields, startup, history
  <2>2. \A u \in Task : DataKept(u) /\ DoubtMarked(u)
    BY <1>1, <2>1 DEF Row, DataKept, DoubtMarked
  <2>. QED
    BY <1>13, <2>1, <2>2
<1>17. CASE InvalidateActiveRuntimes
  BY <1>13, <1>14, <1>17 DEF InvalidateActiveRuntimes, ProcessFields, startup,
     history, DataKept, DoubtMarked
<1>18. CASE BeginGracefulShutdown
  <2>1. /\ UNCHANGED <<result, inDoubt, consent, queue>> /\ exec' = Abort(Task)
        /\ \A u \in Task : row'[u] = GracefulShutdown(row[u], session)
    BY <1>18 DEF BeginGracefulShutdown, startup, history
  <2>2. ASSUME NEW u \in Task
        PROVE  LET r == GracefulShutdown(row[u], session)
               IN /\ r.ckpt = row[u].ckpt /\ r.status = row[u].status
                  /\ r = row[u] \/ r.shutdown = "graceful"
    BY <1>1, <2>2 DEF GracefulShutdown, Released, Row
  <2>3. \A u \in Task : DataKept(u) /\ DoubtMarked(u)
    BY <2>1, <2>2 DEF DataKept, DoubtMarked
  <2>. QED
    BY <1>13, <1>14, <2>1, <2>3
<1>19. ASSUME Drained \/ Crash
       PROVE  \A u \in Task : TaskStands(u)'
  <2>1. /\ UNCHANGED <<row, result, inDoubt, consent>> /\ queue' = {}
        /\ \A u \in Task : exec'[u].pc = "none"
    BY <1>19 DEF Drained, Crash, Gone, Idle, history, db
  <2>2. \A u \in Task : DataKept(u) /\ DoubtMarked(u)
    BY <2>1 DEF DataKept, DoubtMarked
  <2>. QED
    BY <1>1, <2>1, <2>2, TaskStandsOn
<1>20. CASE DatabaseCloseFails
  <2>1. /\ UNCHANGED <<row, result, inDoubt, consent, queue>>
        /\ exec' = [t \in Task |-> [exec[t] EXCEPT !.armed = FALSE,
                                       !.timedOut = FALSE, !.lost = FALSE]]
    BY <1>20 DEF DatabaseCloseFails, startup, history
  <2>2. \A u \in Task : /\ exec'[u].pc = exec[u].pc
                        /\ exec'[u].agent = exec[u].agent
    BY <1>1, <2>1 DEF Exec
  <2>. QED
    BY <1>13, <2>1, <2>2 DEF DataKept, DoubtMarked
<1>21. CASE DrainTimesOut \/ UNCHANGED vars
  BY <1>2, <1>21 DEF DrainTimesOut, vars, db, startup, history
<1>22. CASE BeginRuntimeSession
  <2>1. /\ UNCHANGED <<result, exec, inDoubt, consent, queue>>
        /\ \A u \in Task : row'[u] \in {row[u], Released(row[u])}
    BY <1>22 DEF BeginRuntimeSession, startup, history
  <2>2. ASSUME NEW u \in Task
        PROVE  LET r == Released(row[u])
               IN /\ r.ckpt = row[u].ckpt /\ r.status = row[u].status
                  /\ r.phase = row[u].phase /\ r.shutdown = row[u].shutdown
    BY <1>1, <2>2 DEF Released, Row
  <2>3. \A u \in Task : DataKept(u) /\ DoubtMarked(u)
    BY <2>1, <2>2 DEF DataKept, DoubtMarked
  <2>. QED
    BY <1>13, <2>1, <2>3
<1>23. CASE ScanAndRecoverOnStartup
  <2>1. PICK credential \in CredentialStates :
          /\ row' = [t \in Task |->
               LET r == ExpireLease(row[t])
               IN IF RecoveryCandidate(r) THEN Scanned(t, r, credential) ELSE r]
          /\ queue' = {t \in Task : RecoveryCandidate(row'[t])
                                   /\ Decide(t, row'[t], credential).auto}
    BY <1>23 DEF ScanAndRecoverOnStartup
  <2>2. /\ proc = "starting"
        /\ UNCHANGED <<result, exec, inDoubt, consent, quitting>>
    BY <1>23 DEF ScanAndRecoverOnStartup, shutdown, history
  <2>3. ASSUME NEW u \in Task PROVE TaskStands(u)'
    <3>1. ~Running(u) /\ exec[u].pc = "none"
      BY <1>1, <2>2 DEF TypeInv, NothingRunsUnlessUp, Running
    <3>. DEFINE r == ExpireLease(row[u])
    <3>2. /\ r \in Row /\ r.ckpt = row[u].ckpt /\ r.status = row[u].status
          /\ r.phase = row[u].phase /\ r.shutdown = row[u].shutdown
      BY <1>1 DEF ExpireLease, Released, Row
    <3>. HIDE DEF r
    <3>3. RecoveryCandidate(r) =>
            /\ Scanned(u, r, credential).ckpt = r.ckpt
            /\ Scanned(u, r, credential).status # "absent"
            /\ \/ Scanned(u, r, credential).phase \notin BeforeModel
               \/ /\ Scanned(u, r, credential).phase = r.phase
                  /\ r.shutdown = "graceful" =>
                       Scanned(u, r, credential).shutdown = "graceful"
      <4>. SUFFICES ASSUME RecoveryCandidate(r)
                    PROVE  /\ Scanned(u, r, credential).ckpt = r.ckpt
                           /\ Scanned(u, r, credential).status # "absent"
                           /\ \/ Scanned(u, r, credential).phase \notin BeforeModel
                              \/ /\ Scanned(u, r, credential).phase = r.phase
                                 /\ r.shutdown = "graceful" =>
                                      Scanned(u, r, credential).shutdown
                                        = "graceful"
        OBVIOUS
      <4>. DEFINE ending == IF r.status = "running" /\ r.shutdown # "graceful"
                            THEN "crash" ELSE r.shutdown
                  seen == [r EXCEPT !.shutdown = ending]
                  c == Classified(u, seen, credential)
      <4>1. /\ seen \in Row /\ seen.ckpt = r.ckpt /\ seen.phase = r.phase
            /\ seen.status = r.status
            /\ r.shutdown = "graceful" => seen.shutdown = "graceful"
        BY <3>2 DEF Row
      <4>2. Scanned(u, r, credential) \in {c, MarkedTerminal(c)}
        BY DEF Scanned
      <4>. HIDE DEF seen, ending
      <4>3. /\ c \in Row /\ c.ckpt = r.ckpt /\ c.phase = r.phase
            /\ c.status = r.status
            /\ r.shutdown = "graceful" => c.shutdown = "graceful"
        BY <1>7, <4>1
      <4>. HIDE DEF c
      <4>4. r.status # "absent"
        BY DEF RecoveryCandidate, Active
      <4>5. \/ MarkedTerminal(c) = c
            \/ /\ MarkedTerminal(c).ckpt = c.ckpt
               /\ MarkedTerminal(c).status = "failed"
               /\ MarkedTerminal(c).phase = "failed"
        BY <4>3 DEF MarkedTerminal, Released, Row
      <4>. QED
        BY <4>2, <4>3, <4>4, <4>5 DEF BeforeModel
    <3>4. \/ row'[u] = r
          \/ RecoveryCandidate(r) /\ row'[u] = Scanned(u, r, credential)
      BY <2>1, <2>3 DEF r
    <3>5. /\ row'[u].ckpt = row[u].ckpt
          /\ row'[u].status = "absent" => row[u].status = "absent"
          /\ \/ row'[u].phase \notin BeforeModel
             \/ /\ row'[u].phase = row[u].phase
                /\ row[u].shutdown = "graceful" => row'[u].shutdown = "graceful"
      BY <3>2, <3>3, <3>4
    <3>6. InDoubt(u) => \/ row'[u].phase \notin BeforeModel
                        \/ row'[u].shutdown = "graceful"
                        \/ ~ChapterTask(u)
      BY <1>1, <3>5 DEF TaskStands, ChapterStands
    <3>7. u \in queue' => ~InDoubt(u)
      BY <1>1, <2>1, <3>5, <3>6, DoubtNeedsTheUser
    <3>8. CASE ChapterTask(u)
      <4>1. ChapterStands(u)'
        BY <1>1, <2>2, <3>1, <3>5, <3>6, <3>8
           DEF TaskStands, ChapterStands, InDoubt
      <4>. QED
        BY <1>1, <2>2, <3>1, <3>5, <3>7, <3>8, <4>1
           DEF TaskStands, InDoubt, ChapterTask, Running
    <3>9. CASE ~ChapterTask(u)
      <4>1. OutlineStands(u)'
        BY <1>1, <2>2, <3>1, <3>5, <3>9 DEF TaskStands, OutlineStands
      <4>. QED
        BY <1>1, <2>2, <3>1, <3>5, <3>7, <3>9, <4>1
           DEF TaskStands, InDoubt, ChapterTask, Running
    <3>. QED
      BY <3>8, <3>9
  <2>. QED
    BY <2>3
<1>. QED
  BY <1>4, <1>5, <1>10, <1>11, <1>12, <1>15, <1>16, <1>17, <1>18, <1>19,
     <1>20, <1>21, <1>22, <1>23 DEF Next, User, Lifecycle

\* PaidInv holds throughout while waiting candidates are not run.
LEMMA PaidAlways == Spec /\ []WaitingAreIdle => []PaidInv
BY PaidInit, PaidStep, PTL DEF Spec

(***************************************************************************)
(* While no candidate is resumed that waits in the queue, a model call     *)
(* whose answer was lost is made again only after the user confirmed it    *)
(* (NoUnconfirmedReplay), across every crash, cancel, lost lease, failure, *)
(* deadline and restart: the race of stale_queue_replay is the only one.   *)
(***************************************************************************)
THEOREM CallsAreConfirmed == Spec /\ []WaitingAreIdle => NoUnconfirmedReplay
<1>1. PaidInv /\ PaidInv' /\ [Next]_vars =>
        [\A t \in Task : CallIssued(t) /\ inDoubt[t] => consent[t]]_vars
  <2>. SUFFICES ASSUME PaidInv, PaidInv', Next, NEW t \in Task, CallIssued(t),
                       inDoubt[t]
                PROVE  consent[t]
    OBVIOUS
  <2>1. /\ exec[t].pc # "call" /\ exec'[t].pc = "call"
        /\ Running(t) /\ InDoubt(t) => exec[t].pc = "call"
        /\ exec \in [Task -> Exec] /\ TypeInv
    BY DEF CallIssued, PaidInv, TaskStands, FinalInv, TypeInv, TypeOK
  <2>2. SUFFICES Running(t)
    BY <2>1 DEF InDoubt
  <2>3. CASE \E u \in Task : Step(u) \/ Model(u) \/ Timer(u)
    BY <2>1, <2>3, ExecutionStep
  <2>4. CASE \E u \in Task : User(u) \/ WorkerNext(u)
    <3>1. ASSUME NEW u \in Task, NEW r, NEW kind, NEW tok,
                 Claim(u, r, kind, tok)
          PROVE  exec'[t] = exec[t] \/ exec'[t].pc = "launch"
      BY <2>1, <3>1 DEF Claim, Idle
    <3>2. ASSUME NEW u \in Task, Cancel(u) PROVE exec'[t].pc = exec[t].pc
      BY <2>1, <3>2 DEF Cancel, Abort, Exec
    <3>3. ASSUME NEW u \in Task, CreateTask(u)
          PROVE  exec'[t] = exec[t] \/ exec'[t].pc = "created"
      BY <2>1, <3>3 DEF CreateTask, Idle
    <3>. QED
      BY <2>1, <2>4, <3>1, <3>2, <3>3
         DEF User, Resume, ManualRetry, WorkerNext
  <2>5. CASE Lifecycle \/ \E u \in Task : LeaseExpires(u)
    <3>1. exec'[t].pc \in {exec[t].pc, "none"}
      <4>1. CASE InvalidateActiveRuntimes \/ BeginGracefulShutdown
        BY <2>1, <4>1 DEF InvalidateActiveRuntimes, BeginGracefulShutdown,
           Abort, Exec
      <4>2. CASE Drained \/ Crash
        BY <4>2 DEF Drained, Crash, Gone, Idle
      <4>3. CASE DatabaseCloseFails
        <5>1. exec' = [u \in Task |-> [exec[u] EXCEPT !.armed = FALSE,
                                         !.timedOut = FALSE, !.lost = FALSE]]
          BY <4>3 DEF DatabaseCloseFails
        <5>. QED
          BY <2>1, <5>1 DEF Exec
      <4>4. CASE \/ DrainTimesOut \/ BeginRuntimeSession
                 \/ ScanAndRecoverOnStartup \/ \E u \in Task : LeaseExpires(u)
        BY <4>4 DEF DrainTimesOut, BeginRuntimeSession,
           ScanAndRecoverOnStartup, LeaseExpires
      <4>. QED
        BY <2>5, <4>1, <4>2, <4>3, <4>4 DEF Lifecycle
    <3>. QED
      BY <2>1, <3>1
  <2>. QED
    BY <2>3, <2>4, <2>5 DEF Next
<1>. QED
  BY <1>1, PaidAlways, PTL DEF Spec, NoUnconfirmedReplay

-----------------------------------------------------------------------------
(* The contract.                                                           *)

(***************************************************************************)
(* An execution keeps the contract of its task: it asks, is answered,      *)
(* stores, finishes or gives up the call it waits for, or does nothing     *)
(* that the contract speaks of.                                            *)
(***************************************************************************)
LEMMA ExecutionKeepsContract ==
  ASSUME PaidInv, NEW t \in Task, Step(t) \/ Model(t) \/ Timer(t)
  PROVE  [Contract!Next]_(Contract!vars)
<1>1. /\ row \in [Task -> Row] /\ exec \in [Task -> Exec]
      /\ row[t] \in Row /\ exec[t] \in Exec /\ TypeInv
      /\ result \in [Task -> BOOLEAN] /\ inDoubt \in [Task -> BOOLEAN]
      /\ consent \in [Task -> BOOLEAN] /\ TaskStands(t)
  BY DEF PaidInv, FinalInv, TypeInv, TypeOK
<1>2. /\ Active(row[t]) /\ Running(t)
      /\ \A u \in Task \ {t} : row'[u] = row[u] /\ exec'[u] = exec[u]
      /\ Running(t)' => row'[t].status # "completed"
  BY <1>1, ExecutionStep DEF PaidInv, FinalInv, RunningIsActive, Active
<1>3. row[t].status # "completed"
  BY <1>2 DEF Active
<1>4. ASSUME \A u \in Task \ {t} : result'[u] = result[u]
      PROVE  /\ outcome' = [outcome EXCEPT ![t] = outcome'[t]]
             /\ asking' = [asking EXCEPT ![t] = asking'[t]]
  BY <1>2, <1>4 DEF outcome, asking
<1>5. ASSUME UNCHANGED result, row'[t].status # "completed"
      PROVE  outcome' = outcome
  BY <1>2, <1>3, <1>5 DEF outcome
<1>6. ASSUME exec'[t].pc = "call" <=> exec[t].pc = "call"
      PROVE  asking' = asking
  BY <1>2, <1>6 DEF asking
<1>7. CASE \/ LeaseTask(t) \/ Launch(t) \/ StreamChunk(t) \/ Save(t)
           \/ Review(t) \/ Timer(t)
  <2>1. exec'[t].pc = "call" <=> exec[t].pc = "call"
    <3>1. FirstPc(t) # "call"
      BY DEF FirstPc
    <3>. QED
      BY <1>1, <1>7, <3>1 DEF LeaseTask, Launch, StreamChunk, Save, Review,
         Timer, TimeoutFires, RenewalFails, Exec
  <2>2. UNCHANGED <<result, inDoubt, consent>>
    BY <1>7 DEF LeaseTask, Launch, StreamChunk, Save, Review, Timer,
       TimeoutFires, RenewalFails, history
  <2>3. Running(t)'
    <3>1. FirstPc(t) # "none"
      BY DEF FirstPc
    <3>. QED
      BY <1>1, <1>7, <3>1 DEF LeaseTask, Launch, StreamChunk, Save, Review,
         Timer, TimeoutFires, RenewalFails, Exec, Running, AwaitPc
  <2>. QED
    BY <1>2, <1>5, <1>6, <2>1, <2>2, <2>3 DEF Contract!vars
<1>8. CASE CompileDone(t)
  <2>. DEFINE next == CASE row[t].ckpt.stage = "ready" -> "validate"
                        [] row[t].ckpt.stage = "applied" -> "complete"
                        [] OTHER -> "ready"
  <2>1. /\ exec' = [exec EXCEPT ![t].pc = next] /\ exec[t].pc = "compile"
        /\ UNCHANGED <<result, inDoubt, consent>>
    BY <1>8 DEF CompileDone, history
  <2>2. next \in {"validate", "complete", "ready"}
    OBVIOUS
  <2>. HIDE DEF next
  <2>3. Running(t)' /\ exec'[t].pc # "call"
    BY <1>1, <2>1, <2>2 DEF Exec, Running
  <2>. QED
    BY <1>2, <1>5, <1>6, <2>1, <2>3 DEF Contract!vars
<1>9. CASE IssueCall(t)
  <2>1. /\ exec[t].pc # "call" /\ exec'[t].pc = "call" /\ UNCHANGED result
        /\ inDoubt' = [inDoubt EXCEPT ![t] = TRUE]
        /\ consent' = [consent EXCEPT ![t] = FALSE]
        /\ exec[t].pc = "ready" \/ (exec[t].pc = "compile" /\ exec[t].agent)
    BY <1>1, <1>9 DEF IssueCall, Exec
  <2>2. ~result[t]
    BY <1>1, <2>1 DEF TaskStands, ChapterStands, OutlineStands
  <2>3. inDoubt[t] => consent[t]
    BY <1>1, <1>2, <2>1 DEF TaskStands, InDoubt
  <2>4. outcome[t] = "open" /\ ~asking[t] /\ asking'[t] = TRUE
    BY <1>3, <2>1, <2>2 DEF outcome, asking
  <2>5. outcome' = outcome
    BY <1>2, <1>5, <2>1 DEF Running
  <2>6. Contract!Ask(t)
    BY <1>4, <2>1, <2>3, <2>4, <2>5 DEF Contract!Ask
  <2>. QED
    BY <2>6 DEF Contract!Next
<1>10. CASE ModelReturns(t)
  <2>. DEFINE next == CASE ~ChapterTask(t) -> "validate"
                        [] row[t].ckpt.stage = "fact_check" -> "save"
                        [] OTHER -> "compile"
  <2>1. /\ exec[t].pc = "call" /\ exec' = [exec EXCEPT ![t].pc = next]
        /\ inDoubt' = [inDoubt EXCEPT ![t] = FALSE]
        /\ UNCHANGED <<result, consent>>
    BY <1>10 DEF ModelReturns
  <2>2. next \in {"validate", "save", "compile"}
    OBVIOUS
  <2>. HIDE DEF next
  <2>3. Running(t)' /\ exec'[t].pc # "call"
    BY <1>1, <2>1, <2>2 DEF Exec, Running
  <2>4. asking[t] /\ asking'[t] = FALSE /\ outcome' = outcome
    BY <1>2, <1>5, <2>1, <2>3 DEF asking
  <2>5. Contract!Answer(t)
    BY <1>4, <2>1, <2>4 DEF Contract!Answer
  <2>. QED
    BY <2>5 DEF Contract!Next
<1>11. CASE InsertVersion(t) \/ Apply(t)
  <2>1. /\ exec[t].pc \in {"insert", "validate"}
        /\ exec'[t].pc \notin {"call", "none"}
        /\ result' = [result EXCEPT ![t] = TRUE]
        /\ UNCHANGED <<inDoubt, consent>>
    BY <1>1, <1>11 DEF InsertVersion, Apply, history, Exec
  <2>2. ~result[t] /\ ~inDoubt[t]
    BY <1>1, <2>1 DEF TaskStands, ChapterStands, OutlineStands
  <2>3. row'[t].status # "completed"
    BY <1>2, <2>1 DEF Running
  <2>4. outcome[t] = "open" /\ outcome'[t] = "stored" /\ asking' = asking
    BY <1>1, <1>3, <1>6, <2>1, <2>2, <2>3 DEF outcome
  <2>5. Contract!Store(t)
    BY <1>1, <1>4, <2>1, <2>2, <2>4 DEF Contract!Store
  <2>. QED
    BY <2>5 DEF Contract!Next
<1>12. ASSUME NEW r, Settle(t, r)
       PROVE  /\ exec'[t].pc = "none" /\ UNCHANGED <<result, inDoubt, consent>>
              /\ row'[t] = ReleaseLease(r, exec[t].tok)
  BY <1>1, <1>12 DEF Settle, Idle, history
<1>13. ASSUME NEW r \in Row
       PROVE  ReleaseLease(r, exec[t].tok).status = r.status
  BY <1>13 DEF ReleaseLease, Released, Row
<1>14. CASE Complete(t)
  <2>. DEFINE r == [row[t] EXCEPT !.status = "completed",
                                  !.phase = "completed", !.class = "null"]
  <2>1. r \in Row /\ r.status = "completed"
    BY <1>1 DEF Row, Status, Phase
  <2>2. exec[t].pc = "complete" /\ Settle(t, r)
    BY <1>14 DEF Complete
  <2>. HIDE DEF r
  <2>3. row'[t].status = "completed" /\ UNCHANGED <<result, inDoubt, consent>>
        /\ exec'[t].pc = "none"
    BY <1>12, <1>13, <2>1, <2>2
  <2>4. result[t]
    BY <1>1, <2>2 DEF TaskStands, ChapterStands, OutlineStands
  <2>5. outcome[t] = "stored" /\ outcome'[t] = "completed" /\ asking' = asking
    BY <1>3, <1>6, <2>2, <2>3, <2>4 DEF outcome
  <2>6. Contract!Finish(t)
    BY <1>4, <2>3, <2>5 DEF Contract!Finish
  <2>. QED
    BY <2>6 DEF Contract!Next
<1>15. CASE FinishTimedOut(t) \/ RejectTimedOut(t) \/ FinishLostLease(t)
            \/ FinishCancelled(t) \/ FinishFailed(t)
            \/ FinishNonRecoverable(t) \/ LaunchFails(t)
  <2>. DEFINE Unfinished(r) == r \in Row /\ r.status # "completed"
  <2>1. \E r : Settle(t, r) /\ Unfinished(r)
    <3>1. Unfinished(FailedRow(row[t]))
      BY <1>1 DEF FailedRow, Row, Status, Phase
    <3>2. ASSUME NEW c \in Classification
          PROVE  /\ Unfinished([FailedRow(row[t]) EXCEPT !.class = c])
                 /\ Unfinished([FailedRow(row[t]) EXCEPT !.class = c,
                                                         !.cancel = FALSE])
      BY <3>1 DEF Row
    <3>3. ASSUME NEW credential
          PROVE  Unfinished(Classified(t, FailedRow(row[t]), credential))
      BY <3>2, DecideIsCoherent, DecisionsCoherent DEF Classified
    <3>4. Unfinished([row[t] EXCEPT !.status = "cancelled",
                                    !.phase = "cancelled", !.cancel = TRUE,
                                    !.class = "manual-retry-required"])
      BY <1>1 DEF Row, Status, Phase, Classification
    <3>5. {"manual-retry-required", "non-recoverable"} \subseteq Classification
      BY DEF Classification
    <3>6. CASE FinishTimedOut(t)
      BY <3>2, <3>5, <3>6 DEF FinishTimedOut
    <3>7. CASE RejectTimedOut(t) \/ FinishLostLease(t)
      BY <1>1, <1>3, <3>7 DEF RejectTimedOut, FinishLostLease
    <3>8. CASE FinishCancelled(t)
      BY <3>4, <3>8 DEF FinishCancelled
    <3>9. CASE FinishFailed(t)
      BY <3>3, <3>9 DEF FinishFailed
    <3>10. CASE FinishNonRecoverable(t) \/ LaunchFails(t)
      BY <3>2, <3>5, <3>10 DEF FinishNonRecoverable, LaunchFails
    <3>. QED
      BY <1>15, <3>6, <3>7, <3>8, <3>9, <3>10
  <2>2. /\ exec'[t].pc = "none" /\ row'[t].status # "completed"
        /\ UNCHANGED <<result, inDoubt, consent>>
    BY <1>12, <1>13, <2>1
  <2>3. outcome' = outcome
    BY <1>5, <2>2
  <2>4. CASE exec[t].pc # "call"
    BY <1>6, <2>2, <2>3, <2>4 DEF Contract!vars
  <2>5. CASE exec[t].pc = "call"
    <3>1. asking[t] /\ asking' = [u \in Task |-> asking[u] /\ u \notin {t}]
      BY <1>2, <2>2, <2>5 DEF asking
    <3>2. Contract!Abandon({t})
      BY <2>2, <2>3, <3>1 DEF Contract!Abandon
    <3>. QED
      BY <3>2 DEF Contract!Next
  <2>. QED
    BY <2>4, <2>5
<1>. QED
  BY <1>7, <1>8, <1>9, <1>10, <1>11, <1>14, <1>15 DEF Step, Model

\* What a claim, a classification or the end of an execution leaves alone.
LEMMA NothingFinished ==
  ASSUME NEW t, NEW r \in Row, NEW credential, NEW tok, NEW s, NEW manual,
         NEW final
  PROVE  /\ Classified(t, r, credential).status = r.status
         /\ Classified(t, r, credential) \in Row
         /\ ClaimedBy(r, tok, manual, final, s).status = "running"
         /\ CancelRequested(r).status = r.status
         /\ Released(r).status = r.status /\ Released(r) \in Row
         /\ GracefulShutdown(r, s).status = r.status
         /\ MarkedTerminal(r).status \in {r.status, "failed"}
         /\ r.status = "completed" => MarkedTerminal(r) = r
<1>1. \A q \in Row : Released(q).status = q.status /\ Released(q) \in Row
  BY DEF Released, Row
<1>2. Classified(t, r, credential).status = r.status
  BY DEF Classified, Row
<1>3. ClaimedBy(r, tok, manual, final, s).status = "running"
  BY DEF ClaimedBy, Row
<1>4. CancelRequested(r).status = r.status
  BY DEF CancelRequested, Row
<1>5. GracefulShutdown(r, s).status = r.status
  BY <1>1 DEF GracefulShutdown, Row
<1>6. /\ MarkedTerminal(r).status \in {r.status, "failed"}
      /\ r.status = "completed" => MarkedTerminal(r) = r
  BY <1>1 DEF MarkedTerminal, Row, Active
<1>. QED
  BY <1>1, <1>2, <1>3, <1>4, <1>5, <1>6, ClassifiedRow

(***************************************************************************)
(* So does every other step: a retry is the user's consent, the end of the *)
(* process gives up the calls in flight, and nothing else that is claimed, *)
(* cancelled, shut down or scanned is a step of the contract.              *)
(***************************************************************************)
LEMMA ContractStep == PaidInv /\ [Next]_vars => [Contract!Next]_(Contract!vars)
<1>. SUFFICES ASSUME PaidInv, [Next]_vars
              PROVE  [Contract!Next]_(Contract!vars)
  OBVIOUS
<1>0. ASSUME NEW t \in Task, NEW q \in Row, NEW credential
      PROVE  LET r == Classified(t, q, credential)
             IN r \in Row /\ r.status = q.status
  BY <1>0, NothingFinished
<1>1. /\ row \in [Task -> Row] /\ exec \in [Task -> Exec] /\ TypeInv
      /\ \A t \in Task : row[t] \in Row /\ exec[t] \in Exec
      /\ result \in [Task -> BOOLEAN] /\ inDoubt \in [Task -> BOOLEAN]
      /\ consent \in [Task -> BOOLEAN]
      /\ \A t \in Task : Running(t) => Active(row[t])
  BY DEF PaidInv, FinalInv, TypeInv, TypeOK, RunningIsActive
<1>2. ASSUME UNCHANGED result,
             \A u \in Task : /\ row'[u].status = "completed"
                                  <=> row[u].status = "completed"
                             /\ exec'[u].pc = "call" <=> exec[u].pc = "call"
      PROVE  UNCHANGED <<outcome, asking>>
  BY <1>2 DEF outcome, asking
<1>3. ASSUME NEW t \in Task, NEW r \in Row, NEW kind, NEW tok,
             Claim(t, r, kind, tok), ~Running(t), r.status # "completed",
             r.status = row[t].status, UNCHANGED result
      PROVE  UNCHANGED <<outcome, asking>>
  <2>. DEFINE q == ClaimedBy(r, tok, kind = "manual", HasFinalEntity(t), session)
  <2>1. q.status = "running"
    BY NothingFinished
  <2>2. row' = [row EXCEPT ![t] = q] /\ exec'[t].pc = "launch"
        /\ \A u \in Task \ {t} : exec'[u] = exec[u]
    BY <1>1, <1>3 DEF Claim, Idle
  <2>. HIDE DEF q
  <2>. QED
    BY <1>1, <1>2, <1>3, <2>1, <2>2 DEF Running
<1>4. ASSUME NEW t \in Task, NEW credential, UNCHANGED <<result, exec>>,
             row' = [row EXCEPT ![t] = Classified(t, row[t], credential)]
      PROVE  UNCHANGED <<outcome, asking>>
  BY <1>1, <1>2, <1>4, NothingFinished
<1>5. ASSUME NEW t \in Task, CreateTask(t)
      PROVE  UNCHANGED <<outcome, asking, inDoubt, consent>>
  <2>1. /\ UNCHANGED <<result, inDoubt, consent>> /\ row[t].status = "absent"
        /\ row' = [row EXCEPT ![t] = Created(session)]
        /\ exec'[t].pc = "created"
        /\ \A u \in Task \ {t} : exec'[u] = exec[u]
    BY <1>1, <1>5 DEF CreateTask, history, Idle
  <2>2. Created(session).status = "pending" /\ ~Running(t)
    BY <1>1, <2>1 DEF Created, Absent, Active
  <2>. QED
    BY <1>1, <1>2, <2>1, <2>2 DEF Running
<1>6. ASSUME NEW t \in Task, Resume(t)
      PROVE  UNCHANGED <<outcome, asking, inDoubt, consent>>
  <2>1. /\ UNCHANGED <<result, inDoubt, consent>> /\ ~Running(t)
        /\ row[t].status # "completed"
    BY <1>6 DEF Resume, history
  <2>2. PICK credential \in CredentialStates :
          LET r == Classified(t, row[t], credential)
          IN \/ \E tok : Claim(t, r, "auto", tok)
             \/ row' = [row EXCEPT ![t] = r] /\ UNCHANGED exec
    BY <1>6 DEF Resume
  <2>. DEFINE r == Classified(t, row[t], credential)
  <2>3. r \in Row /\ r.status = row[t].status
    BY <1>1, <1>0
  <2>4. CASE \E tok : Claim(t, r, "auto", tok)
    <3>. HIDE DEF r
    <3>. QED
      BY <1>3, <2>1, <2>3, <2>4
  <2>. QED
    BY <1>4, <2>1, <2>2, <2>4
<1>7. ASSUME NEW t \in Task, ManualRetry(t)
      PROVE  [Contract!Next]_(Contract!vars)
  <2>1. /\ UNCHANGED <<result, inDoubt>> /\ ~Running(t)
        /\ row[t].status # "completed"
    BY <1>7 DEF ManualRetry
  <2>2. PICK credential \in CredentialStates :
          LET r == Classified(t, row[t], credential)
          IN \/ /\ \E tok : Claim(t, r, "manual", tok)
                /\ consent' = [consent EXCEPT ![t] = TRUE]
             \/ row' = [row EXCEPT ![t] = r] /\ UNCHANGED <<exec, consent>>
    BY <1>7 DEF ManualRetry
  <2>. DEFINE r == Classified(t, row[t], credential)
  <2>3. r \in Row /\ r.status = row[t].status
    BY <1>1, <1>0
  <2>4. CASE /\ \E tok : Claim(t, r, "manual", tok)
             /\ consent' = [consent EXCEPT ![t] = TRUE]
    <3>1. UNCHANGED <<outcome, asking>>
      <4>. HIDE DEF r
      <4>. QED
        BY <1>3, <2>1, <2>3, <2>4
    <3>2. outcome[t] # "completed" /\ ~asking[t]
      BY <2>1 DEF outcome, asking, Running
    <3>3. Contract!Confirm(t)
      BY <2>1, <2>4, <3>1, <3>2 DEF Contract!Confirm
    <3>. QED
      BY <3>3 DEF Contract!Next
  <2>5. CASE row' = [row EXCEPT ![t] = r] /\ UNCHANGED <<exec, consent>>
    BY <1>4, <2>1, <2>5 DEF Contract!vars
  <2>. QED
    BY <2>2, <2>4, <2>5
<1>8. ASSUME NEW t \in Task, WorkerNext(t)
      PROVE  UNCHANGED <<outcome, asking, inDoubt, consent>>
  <2>1. /\ UNCHANGED <<result, inDoubt, consent>>
        /\ \/ UNCHANGED <<row, exec>>
           \/ /\ ~Running(t) /\ CanClaim(t, row[t], FALSE)
              /\ \E tok : Claim(t, row[t], "auto", tok)
    BY <1>8 DEF WorkerNext, history
  <2>2. CanClaim(t, row[t], FALSE) => row[t].status # "completed"
    BY DEF CanClaim, Claimable
  <2>. QED
    BY <1>1, <1>2, <1>3, <2>1, <2>2
<1>9. ASSUME NEW S \in SUBSET Task, exec' = Abort(S)
      PROVE  \A u \in Task : exec'[u].pc = exec[u].pc
  BY <1>1, <1>9 DEF Abort, Exec
<1>10. ASSUME NEW t \in Task, Cancel(t)
       PROVE  UNCHANGED <<outcome, asking, inDoubt, consent>>
  <2>1. /\ UNCHANGED <<result, inDoubt, consent>>
        /\ row' = [row EXCEPT ![t] = CancelRequested(@)] /\ exec' = Abort({t})
    BY <1>10 DEF Cancel
  <2>2. \A u \in Task : row'[u].status = row[u].status
    BY <1>1, <2>1, NothingFinished
  <2>. QED
    BY <1>2, <1>9, <2>1, <2>2
<1>11. ASSUME NEW t \in Task, LeaseExpires(t)
       PROVE  UNCHANGED <<outcome, asking, inDoubt, consent>>
  <2>1. /\ UNCHANGED <<result, exec, inDoubt, consent>>
        /\ row' = [row EXCEPT ![t].live = FALSE]
    BY <1>11 DEF LeaseExpires, history
  <2>2. \A u \in Task : row'[u].status = row[u].status
    BY <1>1, <2>1 DEF Row
  <2>. QED
    BY <1>2, <2>1, <2>2
<1>12. CASE \/ InvalidateActiveRuntimes \/ BeginGracefulShutdown
            \/ DatabaseCloseFails \/ DrainTimesOut \/ UNCHANGED vars
  <2>1. UNCHANGED <<result, inDoubt, consent>>
    BY <1>12 DEF InvalidateActiveRuntimes, BeginGracefulShutdown,
       DatabaseCloseFails, DrainTimesOut, vars, db, history
  <2>2. \A u \in Task : row'[u].status = row[u].status
    <3>1. \A u \in Task : GracefulShutdown(row[u], session).status = row[u].status
      BY <1>1, NothingFinished
    <3>. QED
      BY <1>12, <3>1 DEF InvalidateActiveRuntimes, BeginGracefulShutdown,
         DatabaseCloseFails, DrainTimesOut, vars, db, ProcessFields
  <2>3. \A u \in Task : exec'[u].pc = exec[u].pc
    <3>1. CASE DatabaseCloseFails
      <4>1. exec' = [t \in Task |-> [exec[t] EXCEPT !.armed = FALSE,
                                       !.timedOut = FALSE, !.lost = FALSE]]
        BY <3>1 DEF DatabaseCloseFails
      <4>. QED
        BY <1>1, <4>1 DEF Exec
    <3>. QED
      BY <1>9, <1>12, <3>1 DEF InvalidateActiveRuntimes,
         BeginGracefulShutdown, DrainTimesOut, vars
  <2>. QED
    BY <1>2, <2>1, <2>2, <2>3 DEF Contract!vars
<1>13. CASE Drained \/ Crash
  <2>1. /\ UNCHANGED <<row, result, inDoubt, consent>>
        /\ \A u \in Task : exec'[u].pc = "none"
    BY <1>13 DEF Drained, Crash, Gone, Idle, history, db
  <2>. DEFINE S == {u \in Task : asking[u]}
  <2>2. /\ UNCHANGED outcome /\ \A u \in S : asking[u]
        /\ asking' = [u \in Task |-> asking[u] /\ u \notin S]
    BY <2>1 DEF outcome, asking
  <2>3. Contract!Abandon(S) /\ S \in SUBSET Task
    BY <2>1, <2>2 DEF Contract!Abandon
  <2>. QED
    BY <2>3 DEF Contract!Next
<1>14. CASE BeginRuntimeSession
  <2>1. /\ UNCHANGED <<result, exec, inDoubt, consent>>
        /\ \A u \in Task : row'[u] \in {row[u], Released(row[u])}
    BY <1>14 DEF BeginRuntimeSession, history
  <2>. QED
    BY <1>1, <1>2, <2>1, NothingFinished DEF Contract!vars
<1>15. CASE ScanAndRecoverOnStartup
  <2>1. PICK credential \in CredentialStates :
          row' = [t \in Task |->
            LET r == ExpireLease(row[t])
            IN IF RecoveryCandidate(r) THEN Scanned(t, r, credential) ELSE r]
    BY <1>15 DEF ScanAndRecoverOnStartup
  <2>2. UNCHANGED <<result, exec, inDoubt, consent>>
    BY <1>15 DEF ScanAndRecoverOnStartup, history
  <2>3. ASSUME NEW u \in Task
        PROVE  row'[u].status = "completed" <=> row[u].status = "completed"
    <3>. DEFINE r == ExpireLease(row[u])
    <3>1. r \in Row /\ r.status = row[u].status
      BY <1>1, NothingFinished DEF ExpireLease
    <3>2. \/ row'[u] = r
          \/ RecoveryCandidate(r) /\ row'[u] = Scanned(u, r, credential)
      BY <2>1
    <3>. HIDE DEF r
    <3>3. RecoveryCandidate(r) => r.status # "completed"
      BY DEF RecoveryCandidate, Active
    <3>4. Scanned(u, r, credential).status \in {r.status, "failed"}
      <4>. DEFINE ending == IF r.status = "running" /\ r.shutdown # "graceful"
                            THEN "crash" ELSE r.shutdown
                  seen == [r EXCEPT !.shutdown = ending]
                  c == Classified(u, seen, credential)
      <4>1. seen \in Row /\ seen.status = r.status
        BY <3>1 DEF Row
      <4>2. Scanned(u, r, credential) \in {c, MarkedTerminal(c)}
        BY DEF Scanned
      <4>. HIDE DEF seen
      <4>3. c \in Row /\ c.status = r.status
        BY <4>1, NothingFinished
      <4>. HIDE DEF c
      <4>. QED
        BY <4>2, <4>3, NothingFinished
    <3>. QED
      BY <3>1, <3>2, <3>3, <3>4
  <2>. QED
    BY <1>2, <2>2, <2>3 DEF Contract!vars
<1>16. ASSUME NEW t \in Task, Step(t) \/ Model(t) \/ Timer(t)
       PROVE  [Contract!Next]_(Contract!vars)
  BY <1>16, ExecutionKeepsContract
<1>. QED
  BY <1>5, <1>6, <1>7, <1>8, <1>10, <1>11, <1>12, <1>13, <1>14, <1>15, <1>16
     DEF Next, User, Lifecycle, Contract!vars

(***************************************************************************)
(* While no candidate is resumed that waits in the queue, the task manager *)
(* implements its contract (ImplementsContract): no second paid call       *)
(* without consent, none once the result is stored, one result per task,   *)
(* no completion without it.                                               *)
(***************************************************************************)
THEOREM ContractIsImplemented == Spec /\ []WaitingAreIdle => ImplementsContract
<1>1. Init => Contract!Init
  <2>. SUFFICES ASSUME Init PROVE Contract!Init
    OBVIOUS
  <2>1. outcome = [t \in Task |-> "open"] /\ asking = [t \in Task |-> FALSE]
    BY DEF Init, outcome, asking, Absent, Idle
  <2>. QED
    BY <2>1 DEF Init, Contract!Init
<1>. QED
  BY <1>1, ContractStep, PaidAlways, PTL
     DEF Spec, ImplementsContract, Contract!Spec

-----------------------------------------------------------------------------
(* What the user and a graceful exit stopped.                              *)

(***************************************************************************)
(* The classifier starts nothing by itself that was cancelled, nor what a  *)
(* graceful exit stopped unless its version is stored.                     *)
(***************************************************************************)
LEMMA StopNeedsTheUser ==
  ASSUME NEW t \in Task, NEW r, NEW credential, Decide(t, r, credential).auto
  PROVE  ~r.cancel /\ (r.shutdown = "graceful" => HasFinalEntity(t))
<1>1. ~ManualRequired(TRUE).auto /\ ~ManualRequired(FALSE).auto
      /\ ~NonRecoverable.auto
  BY DEF ManualRequired, NonRecoverable, Decision
<1>. DEFINE f == [taskType |-> TypeOf[t], status |-> r.status,
       cancelRequested |-> r.cancel, phase |-> r.phase, checkpoint |-> r.ckpt,
       parse |-> "readable", metadata |-> "current", requestValid |-> TRUE,
       entity |-> result[t], attemptsLeft |-> r.count < MaxAttempts,
       graceful |-> r.shutdown = "graceful", projectExists |-> TRUE,
       targetExists |-> TRUE, credential |-> credential,
       gateOpen |-> ~quitting]
<1>2. /\ f.taskType = TypeOf[t] /\ f.cancelRequested = r.cancel
      /\ f.entity = result[t] /\ f.graceful = (r.shutdown = "graceful")
  OBVIOUS
<1>3. Decide(t, r, credential) \in {NonRecoverable, ClassifyTaskRecovery(f)}
  BY DEF Decide
<1>. HIDE DEF f
<1>4. ClassifyTaskRecovery(f).auto
  BY <1>1, <1>3
<1>5. ~f.cancelRequested /\ (f.graceful => FinalEntity(f))
  BY <1>1, <1>4 DEF ClassifyTaskRecovery
<1>6. FinalEntity(f) => HasFinalEntity(t)
  BY <1>2, TaskAssumption DEF FinalEntity, TextTask, HasFinalEntity,
     ChapterTask
<1>. QED
  BY <1>2, <1>5, <1>6

\* A task the user stopped says so in its row and is not about to run.
CancelStands(t) ==
  stopped[t] => /\ row[t].cancel /\ row[t].status # "absent"
                /\ exec[t].pc \notin {"created", "launch"}

CancelInv == FinalInv /\ \A t \in Task : CancelStands(t)

\* What waits for a worker was not stopped by a graceful exit, unless its
\* version is stored.
GracefulStands(t) ==
  t \in queue => (row[t].shutdown = "graceful" => HasFinalEntity(t))

GracefulInv == FinalInv /\ \A t \in Task : GracefulStands(t)

(***************************************************************************)
(* An execution forgets a cancellation only as it is launched: but for the *)
(* deadline every end keeps cancel_requested.                              *)
(***************************************************************************)
LEMMA ExecutionKeepsStop ==
  ASSUME TypeInv, RunningIsActive, NEW t \in Task,
         Step(t) \/ Model(t) \/ Timer(t)
  PROVE  /\ row[t].cancel =>
              row'[t].cancel \/ exec[t].pc = "launch" \/ FinishTimedOut(t)
         /\ exec'[t].pc \in {"created", "launch"} =>
              exec[t].pc \in {"created", "launch"}
         /\ row'[t].status # "absent"
         /\ UNCHANGED stopped
         /\ \A u \in Task : result[u] => result'[u]
<1>. DEFINE Goal ==
         /\ row[t].cancel =>
              row'[t].cancel \/ exec[t].pc = "launch" \/ FinishTimedOut(t)
         /\ exec'[t].pc \in {"created", "launch"} =>
              exec[t].pc \in {"created", "launch"}
         /\ row'[t].status # "absent"
         /\ UNCHANGED stopped
         /\ \A u \in Task : result[u] => result'[u]
<1>1. /\ row \in [Task -> Row] /\ exec \in [Task -> Exec]
      /\ row[t] \in Row /\ exec[t] \in Exec
      /\ result \in [Task -> BOOLEAN]
  BY DEF TypeInv, TypeOK
<1>2. row[t].status # "absent"
  BY ExecutionStep DEF RunningIsActive, Active
<1>3. CASE LeaseTask(t) \/ StreamChunk(t) \/ Timer(t)
  <2>1. row'[t].cancel = row[t].cancel /\ row'[t].status # "absent"
    <3>1. CASE LeaseTask(t)
      BY <1>1, <1>2, <3>1 DEF LeaseTask, FirstLease, Row
    <3>2. CASE StreamChunk(t)
      BY <1>1, <1>2, <3>2 DEF StreamChunk, Row
    <3>3. CASE Timer(t)
      BY <1>2, <3>3 DEF Timer, TimeoutFires, RenewalFails
    <3>. QED
      BY <1>3, <3>1, <3>2, <3>3
  <2>2. exec'[t].pc = exec[t].pc \/ exec[t].pc = "created"
    BY <1>1, <1>3 DEF LeaseTask, StreamChunk, Timer, TimeoutFires,
       RenewalFails, Exec
  <2>3. UNCHANGED <<stopped, result>>
    BY <1>3 DEF LeaseTask, StreamChunk, Timer, TimeoutFires, RenewalFails,
       history
  <2>. QED
    BY <2>1, <2>2, <2>3
<1>4. CASE Launch(t)
  <2>1. /\ row'[t].status # "absent" /\ UNCHANGED <<stopped, result>>
        /\ exec[t].pc = "launch"
    BY <1>1, <1>2, <1>4 DEF Launch, Prepared, history, Row
  <2>. QED
    BY <2>1
<1>5. CASE CompileDone(t) \/ ModelReturns(t)
  <2>1. /\ row'[t].cancel = row[t].cancel /\ row'[t].status = row[t].status
        /\ UNCHANGED <<stopped, result>>
    BY <1>1, <1>5 DEF CompileDone, ModelReturns, history, Row
  <2>2. exec'[t].pc \notin {"created", "launch"}
    BY <1>1, <1>5 DEF CompileDone, ModelReturns, Exec
  <2>. QED
    BY <1>2, <2>1, <2>2
<1>6. CASE IssueCall(t) \/ Save(t) \/ Review(t)
  <2>1. /\ row'[t].cancel = row[t].cancel /\ row'[t].status = row[t].status
        /\ UNCHANGED <<stopped, result>>
        /\ exec'[t].pc \notin {"created", "launch"}
    BY <1>1, <1>6 DEF IssueCall, Save, Review, history, Row, Exec
  <2>. QED
    BY <1>2, <2>1
<1>7. CASE InsertVersion(t) \/ Apply(t)
  <2>1. /\ row'[t].cancel = row[t].cancel /\ row'[t].status = row[t].status
        /\ UNCHANGED stopped /\ result' = [result EXCEPT ![t] = TRUE]
        /\ exec'[t].pc \notin {"created", "launch"}
    BY <1>1, <1>7 DEF InsertVersion, Apply, history, Row, Exec
  <2>. QED
    BY <1>1, <1>2, <2>1
<1>8. ASSUME NEW r \in Row, Settle(t, r), r.status # "absent",
             row[t].cancel => r.cancel \/ FinishTimedOut(t)
      PROVE  Goal
  <2>1. ReleaseLease(r, exec[t].tok).status = r.status
        /\ ReleaseLease(r, exec[t].tok).cancel = r.cancel
    BY <1>8 DEF ReleaseLease, Released, Row
  <2>2. /\ row'[t] = ReleaseLease(r, exec[t].tok) /\ exec'[t].pc = "none"
        /\ UNCHANGED <<stopped, result>>
    BY <1>1, <1>8 DEF Settle, Idle, history
  <2>. QED
    BY <1>8, <2>1, <2>2
<1>9. CASE RejectTimedOut(t) \/ FinishLostLease(t)
  BY <1>1, <1>2, <1>8, <1>9 DEF RejectTimedOut, FinishLostLease
<1>10. CASE FinishTimedOut(t)
  <2>1. LET r == [FailedRow(row[t]) EXCEPT !.class = "manual-retry-required",
                                           !.cancel = FALSE]
        IN r \in Row /\ r.status # "absent"
    BY <1>1 DEF FailedRow, Row, Status, Phase, Classification
  <2>. QED
    BY <1>8, <1>10, <2>1 DEF FinishTimedOut
<1>11. CASE Complete(t) \/ FinishCancelled(t)
  <2>1. LET r == [row[t] EXCEPT !.status = "completed",
                     !.phase = "completed", !.class = "null"]
        IN r \in Row /\ r.status # "absent" /\ r.cancel = row[t].cancel
    BY <1>1 DEF Row, Status, Phase
  <2>2. LET r == [row[t] EXCEPT !.status = "cancelled", !.phase = "cancelled",
                     !.cancel = TRUE, !.class = "manual-retry-required"]
        IN r \in Row /\ r.status # "absent" /\ r.cancel = TRUE
    BY <1>1 DEF Row, Status, Phase, Classification
  <2>3. CASE Complete(t)
    BY <1>8, <2>1, <2>3 DEF Complete
  <2>4. CASE FinishCancelled(t)
    BY <1>8, <2>2, <2>4 DEF FinishCancelled
  <2>. QED
    BY <1>11, <2>3, <2>4
<1>12. CASE FinishFailed(t) \/ FinishNonRecoverable(t) \/ LaunchFails(t)
  <2>1. ASSUME NEW c \in Classification
        PROVE  LET r == [FailedRow(row[t]) EXCEPT !.class = c]
               IN r \in Row /\ r.status # "absent" /\ r.cancel = row[t].cancel
    BY <1>1, <2>1 DEF FailedRow, Row, Status, Phase
  <2>2. {"manual-retry-required", "non-recoverable"} \subseteq Classification
    BY DEF Classification
  <2>3. CASE FinishNonRecoverable(t) \/ LaunchFails(t)
    BY <1>8, <2>1, <2>2, <2>3 DEF FinishNonRecoverable, LaunchFails
  <2>4. CASE FinishFailed(t)
    <3>1. PICK credential :
            Settle(t, Classified(t, FailedRow(row[t]), credential))
      BY <2>4 DEF FinishFailed
    <3>. DEFINE c == Decide(t, FailedRow(row[t]), credential).classification
    <3>2. c \in Classification
      BY DecideIsCoherent, DecisionsCoherent
    <3>3. Settle(t, [FailedRow(row[t]) EXCEPT !.class = c])
      BY <3>1 DEF Classified
    <3>. HIDE DEF c
    <3>. QED
      BY <1>8, <2>1, <3>2, <3>3
  <2>. QED
    BY <1>12, <2>3, <2>4
<1>. QED
  BY <1>3, <1>4, <1>5, <1>6, <1>7, <1>9, <1>10, <1>11, <1>12 DEF Step, Model

\* Nothing was stopped at first.
LEMMA CancelInit == Init => CancelInv
BY TypeInit, FinalInit DEF Init, FinalInv, CancelInv, CancelStands

(***************************************************************************)
(* Every step leaves what was stopped stopped, but the deadline of an      *)
(* execution the user cancelled.                                           *)
(***************************************************************************)
LEMMA CancelStep ==
  /\ CancelInv /\ [Next]_vars
  /\ [\A t \in Task : stopped[t] => ~FinishTimedOut(t)]_vars
  => CancelInv'
<1>. SUFFICES ASSUME CancelInv, [Next]_vars,
                     [\A t \in Task : stopped[t] => ~FinishTimedOut(t)]_vars
              PROVE  \A t \in Task : CancelStands(t)'
  BY TypeStep, FinalStep DEF CancelInv, FinalInv
<1>1. /\ row \in [Task -> Row] /\ exec \in [Task -> Exec] /\ TypeInv
      /\ \A t \in Task : CancelStands(t) /\ row[t] \in Row /\ exec[t] \in Exec
      /\ stopped \in [Task -> BOOLEAN] /\ RunningIsActive
      /\ \A t \in Task : proc # "up" => ~Running(t)
  BY DEF CancelInv, FinalInv, TypeInv, TypeOK, NothingRunsUnlessUp
<1>2. ASSUME NEW t \in Task, FinishTimedOut(t) PROVE ~stopped[t]
  <2>1. exec[t].pc # "none" /\ exec'[t] = Idle
    BY <1>1, <1>2 DEF FinishTimedOut, Settle, AwaitPc
  <2>2. ~UNCHANGED vars
    BY <2>1 DEF Idle, vars
  <2>. QED
    BY <1>2, <2>2
<1>3. ASSUME NEW t \in Task, stopped'[t] => stopped[t],
             row[t].cancel => row'[t].cancel,
             row'[t].status = "absent" => row[t].status = "absent",
             exec'[t].pc \in {"created", "launch"} =>
               exec[t].pc \in {"created", "launch"}
      PROVE  CancelStands(t)'
  BY <1>1, <1>3 DEF CancelStands
<1>4. ASSUME NEW t \in Task, UNCHANGED <<row[t], exec[t]>>,
             stopped'[t] => stopped[t]
      PROVE  CancelStands(t)'
  BY <1>3, <1>4
<1>5. ASSUME NEW t \in Task, Step(t) \/ Model(t) \/ Timer(t)
      PROVE  \A u \in Task : CancelStands(u)'
  <2>1. /\ row[t].cancel =>
             row'[t].cancel \/ exec[t].pc = "launch" \/ FinishTimedOut(t)
        /\ exec'[t].pc \in {"created", "launch"} =>
             exec[t].pc \in {"created", "launch"}
        /\ row'[t].status # "absent"
        /\ UNCHANGED stopped
    BY <1>1, <1>5, ExecutionKeepsStop
  <2>2. \A u \in Task \ {t} : row'[u] = row[u] /\ exec'[u] = exec[u]
    BY <1>1, <1>5, ExecutionStep
  <2>3. ASSUME NEW u \in Task \ {t} PROVE CancelStands(u)'
    BY <1>4, <2>1, <2>2, <2>3
  <2>4. CancelStands(t)'
    BY <1>1, <1>2, <2>1 DEF CancelStands
  <2>. QED
    BY <2>3, <2>4
<1>6. ASSUME NEW t \in Task, CreateTask(t)
      PROVE  \A u \in Task : CancelStands(u)'
  <2>1. /\ UNCHANGED stopped /\ row[t].status = "absent"
        /\ \A u \in Task \ {t} : row'[u] = row[u] /\ exec'[u] = exec[u]
    BY <1>1, <1>6 DEF CreateTask, history
  <2>. QED
    BY <1>1, <1>4, <2>1 DEF CancelStands
<1>7. ASSUME NEW t \in Task, NEW r, NEW kind, NEW tok, Claim(t, r, kind, tok),
             ~stopped'[t], \A u \in Task \ {t} : stopped'[u] = stopped[u]
      PROVE  \A u \in Task : CancelStands(u)'
  <2>1. \A u \in Task \ {t} : row'[u] = row[u] /\ exec'[u] = exec[u]
    BY <1>1, <1>7 DEF Claim
  <2>2. CancelStands(t)'
    BY <1>7 DEF CancelStands
  <2>. QED
    BY <1>4, <1>7, <2>1, <2>2
<1>8. ASSUME NEW t \in Task, NEW credential,
             row' = [row EXCEPT ![t] = Classified(t, row[t], credential)],
             UNCHANGED <<exec, stopped>>
      PROVE  \A u \in Task : CancelStands(u)'
  <2>. DEFINE r == Classified(t, row[t], credential)
  <2>1. r.cancel = row[t].cancel /\ r.status = row[t].status
    BY <1>1 DEF Classified, Row
  <2>2. row' = [row EXCEPT ![t] = r]
    BY <1>8
  <2>. HIDE DEF r
  <2>3. CancelStands(t)'
    BY <1>1, <1>3, <1>8, <2>1, <2>2
  <2>. QED
    BY <1>1, <1>4, <1>8, <2>2, <2>3
<1>9. ASSUME NEW t \in Task, Resume(t)
      PROVE  \A u \in Task : CancelStands(u)'
  <2>1. UNCHANGED stopped
    BY <1>9 DEF Resume, history
  <2>2. PICK credential \in CredentialStates :
          LET r == Classified(t, row[t], credential)
          IN \/ /\ Decide(t, row[t], credential).auto
                /\ \E tok : Claim(t, r, "auto", tok)
             \/ row' = [row EXCEPT ![t] = r] /\ UNCHANGED exec
    BY <1>9 DEF Resume
  <2>3. CASE Decide(t, row[t], credential).auto
             /\ \E tok : Claim(t, Classified(t, row[t], credential), "auto", tok)
    <3>1. ~stopped[t]
      BY <1>1, <2>3, StopNeedsTheUser DEF CancelStands
    <3>. QED
      BY <1>7, <2>1, <2>3, <3>1
  <2>. QED
    BY <1>8, <2>1, <2>2, <2>3
<1>10. ASSUME NEW t \in Task, ManualRetry(t)
       PROVE  \A u \in Task : CancelStands(u)'
  <2>1. PICK credential \in CredentialStates :
          LET r == Classified(t, row[t], credential)
          IN \/ /\ stopped' = [stopped EXCEPT ![t] = FALSE]
                /\ \E tok : Claim(t, r, "manual", tok)
             \/ row' = [row EXCEPT ![t] = r] /\ UNCHANGED <<exec, stopped>>
    BY <1>10 DEF ManualRetry
  <2>2. CASE /\ stopped' = [stopped EXCEPT ![t] = FALSE]
             /\ \E tok : Claim(t, Classified(t, row[t], credential), "manual",
                               tok)
    <3>1. ~stopped'[t] /\ \A u \in Task \ {t} : stopped'[u] = stopped[u]
      BY <1>1, <2>2
    <3>. QED
      BY <1>7, <2>2, <3>1
  <2>. QED
    BY <1>8, <2>1, <2>2
<1>11. ASSUME NEW t \in Task, WorkerNext(t)
       PROVE  \A u \in Task : CancelStands(u)'
  <2>1. UNCHANGED stopped
    BY <1>11 DEF WorkerNext, history
  <2>2. CASE CanClaim(t, row[t], FALSE) /\ \E tok : Claim(t, row[t], "auto", tok)
    <3>1. ~stopped[t]
      BY <1>1, <2>2 DEF CanClaim, Claimable, CancelStands
    <3>. QED
      BY <1>7, <2>1, <2>2, <3>1
  <2>3. CASE UNCHANGED <<row, exec>>
    BY <1>4, <2>1, <2>3
  <2>. QED
    BY <1>11, <2>2, <2>3 DEF WorkerNext
<1>12. ASSUME NEW S
       PROVE  \A u \in Task : Abort(S)[u].pc = exec[u].pc
  BY <1>1 DEF Abort, Exec
<1>13. ASSUME NEW t \in Task, Cancel(t)
       PROVE  \A u \in Task : CancelStands(u)'
  <2>1. /\ Quiet /\ Active(row[t])
        /\ row' = [row EXCEPT ![t] = CancelRequested(@)] /\ exec' = Abort({t})
        /\ stopped' = [stopped EXCEPT ![t] = TRUE]
    BY <1>13 DEF Cancel, Turn, Cancellable
  <2>2. /\ CancelRequested(row[t]).cancel
        /\ CancelRequested(row[t]).status = row[t].status
    BY <1>1 DEF CancelRequested, Row
  <2>3. exec'[t].pc \notin {"created", "launch"}
    BY <1>12, <2>1 DEF Quiet, SyncPc
  <2>4. CancelStands(t)'
    BY <1>1, <2>1, <2>2, <2>3 DEF CancelStands, Active
  <2>5. ASSUME NEW u \in Task \ {t} PROVE CancelStands(u)'
    BY <1>1, <1>3, <1>12, <2>1, <2>5
  <2>. QED
    BY <2>4, <2>5
<1>14. ASSUME NEW t \in Task, LeaseExpires(t)
       PROVE  \A u \in Task : CancelStands(u)'
  <2>1. UNCHANGED <<exec, stopped>> /\ row' = [row EXCEPT ![t].live = FALSE]
    BY <1>14 DEF LeaseExpires, history
  <2>2. \A u \in Task : /\ row'[u].cancel = row[u].cancel
                        /\ row'[u].status = row[u].status
    BY <1>1, <2>1 DEF Row
  <2>. QED
    BY <1>3, <2>1, <2>2
<1>15. CASE InvalidateActiveRuntimes
  BY <1>3, <1>12, <1>15 DEF InvalidateActiveRuntimes, history
<1>16. CASE BeginGracefulShutdown
  <2>1. /\ UNCHANGED stopped /\ exec' = Abort(Task)
        /\ \A u \in Task : row'[u] = GracefulShutdown(row[u], session)
    BY <1>16 DEF BeginGracefulShutdown, history
  <2>2. ASSUME NEW u \in Task
        PROVE  LET r == GracefulShutdown(row[u], session)
               IN r.cancel = row[u].cancel /\ r.status = row[u].status
    BY <1>1, <2>2 DEF GracefulShutdown, Released, Row
  <2>. QED
    BY <1>3, <1>12, <2>1, <2>2
<1>17. ASSUME Drained \/ Crash
       PROVE  \A u \in Task : CancelStands(u)'
  <2>1. UNCHANGED <<row, stopped>> /\ \A u \in Task : exec'[u].pc = "none"
    BY <1>17 DEF Drained, Crash, Gone, Idle, history, db
  <2>. QED
    BY <1>3, <2>1
<1>18. CASE DatabaseCloseFails
  <2>1. /\ UNCHANGED <<row, stopped>>
        /\ exec' = [t \in Task |-> [exec[t] EXCEPT !.armed = FALSE,
                                       !.timedOut = FALSE, !.lost = FALSE]]
    BY <1>18 DEF DatabaseCloseFails, history
  <2>2. \A u \in Task : exec'[u].pc = exec[u].pc
    BY <1>1, <2>1 DEF Exec
  <2>. QED
    BY <1>3, <2>1, <2>2
<1>19. CASE DrainTimesOut \/ UNCHANGED vars
  BY <1>4, <1>19 DEF DrainTimesOut, vars, db, history
<1>20. ASSUME NEW u \in Task
       PROVE  LET r == Released(row[u])
              IN r.cancel = row[u].cancel /\ r.status = row[u].status
  BY <1>1, <1>20 DEF Released, Row
<1>21. CASE BeginRuntimeSession
  <2>1. /\ UNCHANGED <<exec, stopped>>
        /\ \A u \in Task : row'[u] \in {row[u], Released(row[u])}
    BY <1>21 DEF BeginRuntimeSession, history
  <2>. QED
    BY <1>3, <1>20, <2>1
<1>22. CASE ScanAndRecoverOnStartup
  <2>1. PICK credential \in CredentialStates :
          row' = [t \in Task |->
            LET r == ExpireLease(row[t])
            IN IF RecoveryCandidate(r) THEN Scanned(t, r, credential) ELSE r]
    BY <1>22 DEF ScanAndRecoverOnStartup
  <2>2. UNCHANGED <<exec, stopped>>
    BY <1>22 DEF ScanAndRecoverOnStartup, history
  <2>3. ASSUME NEW u \in Task PROVE CancelStands(u)'
    <3>. DEFINE r == ExpireLease(row[u])
    <3>1. r.cancel = row[u].cancel /\ r.status = row[u].status
      BY <1>20, <2>3 DEF ExpireLease
    <3>2. \/ row'[u] = r
          \/ RecoveryCandidate(r) /\ row'[u] = Scanned(u, r, credential)
      BY <2>1, <2>3
    <3>. HIDE DEF r
    <3>3. RecoveryCandidate(r) => ~stopped[u]
      BY <1>1, <3>1 DEF RecoveryCandidate, CancelStands
    <3>. QED
      BY <1>1, <2>2, <3>1, <3>2, <3>3 DEF CancelStands
  <2>. QED
    BY <2>3
<1>. QED
  BY <1>5, <1>6, <1>9, <1>10, <1>11, <1>13, <1>14, <1>15, <1>16, <1>17,
     <1>18, <1>19, <1>21, <1>22 DEF Next, User, Lifecycle

\* CancelInv holds throughout while no deadline ends what was cancelled.
LEMMA CancelAlways == Spec /\ NoDeadlineAfterCancel => []CancelInv
BY CancelInit, CancelStep, PTL DEF Spec, NoDeadlineAfterCancel

\* Nothing waits for a worker at first.
LEMMA GracefulInit == Init => GracefulInv
BY TypeInit, FinalInit DEF Init, FinalInv, GracefulInv, GracefulStands

(***************************************************************************)
(* Every step keeps what waits for a worker from being one that a graceful *)
(* exit stopped, while no shutdown begins over waiting candidates.         *)
(***************************************************************************)
LEMMA GracefulStep ==
  GracefulInv /\ DrainsFindNoQueue' /\ [Next]_vars => GracefulInv'
<1>. SUFFICES ASSUME GracefulInv, DrainsFindNoQueue', [Next]_vars
              PROVE  \A t \in Task : GracefulStands(t)'
  BY TypeStep, FinalStep DEF GracefulInv, FinalInv
<1>1. /\ row \in [Task -> Row] /\ exec \in [Task -> Exec] /\ TypeInv
      /\ \A t \in Task : GracefulStands(t) /\ row[t] \in Row
      /\ result \in [Task -> BOOLEAN] /\ RunningIsActive
  BY DEF GracefulInv, FinalInv, TypeInv, TypeOK
<1>2. ASSUME NEW t \in Task, t \in queue' => t \in queue,
             row'[t].shutdown = "graceful" => row[t].shutdown = "graceful",
             result[t] => result'[t]
      PROVE  GracefulStands(t)'
  BY <1>1, <1>2 DEF GracefulStands, HasFinalEntity, ChapterTask
<1>3. ASSUME NEW t \in Task, UNCHANGED <<row[t], result[t]>>,
             t \in queue' => t \in queue
      PROVE  GracefulStands(t)'
  BY <1>2, <1>3
<1>4. CASE queue' = {}
  BY <1>4 DEF GracefulStands
<1>5. ASSUME NEW t \in Task, Step(t) \/ Model(t) \/ Timer(t)
      PROVE  \A u \in Task : GracefulStands(u)'
  <2>1. /\ row'[t].shutdown = row[t].shutdown /\ queue' = queue
        /\ \A u \in Task \ {t} : row'[u] = row[u]
        /\ \A u \in Task : result[u] => result'[u]
    BY <1>1, <1>5, ExecutionStep, ExecutionKeepsLease, ExecutionKeepsStop
  <2>. QED
    BY <1>2, <2>1
<1>6. ASSUME NEW t \in Task, NEW r, row' = [row EXCEPT ![t] = r],
             r.shutdown # "graceful", queue' \subseteq queue, UNCHANGED result
      PROVE  \A u \in Task : GracefulStands(u)'
  BY <1>1, <1>2, <1>6
<1>7. ASSUME NEW t \in Task, CreateTask(t)
      PROVE  \A u \in Task : GracefulStands(u)'
  <2>1. Created(session).shutdown = "null"
    BY DEF Created, Absent
  <2>. QED
    BY <1>6, <1>7, <2>1 DEF CreateTask, startup
<1>8. ASSUME NEW t \in Task, NEW r \in Row, NEW kind, NEW tok,
             Claim(t, r, kind, tok), queue' \subseteq queue, UNCHANGED result
      PROVE  \A u \in Task : GracefulStands(u)'
  <2>. DEFINE q == ClaimedBy(r, tok, kind = "manual", HasFinalEntity(t), session)
  <2>1. q.shutdown = "null"
    BY <1>8 DEF ClaimedBy, Row
  <2>2. row' = [row EXCEPT ![t] = q]
    BY <1>8 DEF Claim
  <2>. HIDE DEF q
  <2>. QED
    BY <1>6, <1>8, <2>1, <2>2
<1>9. ASSUME NEW t \in Task, NEW credential
      PROVE  LET r == Classified(t, row[t], credential)
             IN r \in Row /\ r.shutdown = row[t].shutdown
  <2>1. Decide(t, row[t], credential).classification \in Classification
    BY DecideIsCoherent, DecisionsCoherent
  <2>. QED
    BY <1>1, <2>1 DEF Classified, Row
<1>10. ASSUME NEW t \in Task, NEW credential,
              row' = [row EXCEPT ![t] = Classified(t, row[t], credential)],
              UNCHANGED <<result, queue>>
       PROVE  \A u \in Task : GracefulStands(u)'
  <2>. DEFINE r == Classified(t, row[t], credential)
  <2>1. r.shutdown = row[t].shutdown /\ row' = [row EXCEPT ![t] = r]
    BY <1>9, <1>10
  <2>. HIDE DEF r
  <2>. QED
    BY <1>1, <1>2, <1>10, <2>1
<1>11. ASSUME NEW t \in Task, Resume(t) \/ ManualRetry(t)
       PROVE  \A u \in Task : GracefulStands(u)'
  <2>1. UNCHANGED <<result, queue>>
    BY <1>11 DEF Resume, ManualRetry, startup
  <2>2. PICK credential \in CredentialStates :
          LET r == Classified(t, row[t], credential)
          IN \/ \E kind, tok : Claim(t, r, kind, tok)
             \/ row' = [row EXCEPT ![t] = r]
    BY <1>11 DEF Resume, ManualRetry
  <2>3. Classified(t, row[t], credential) \in Row
    BY <1>9
  <2>. QED
    BY <1>8, <1>10, <2>1, <2>2, <2>3
<1>12. ASSUME NEW t \in Task, WorkerNext(t)
       PROVE  \A u \in Task : GracefulStands(u)'
  <2>1. UNCHANGED result /\ queue' \subseteq queue
    BY <1>12 DEF WorkerNext
  <2>2. CASE \E tok : Claim(t, row[t], "auto", tok)
    BY <1>1, <1>8, <2>1, <2>2
  <2>3. CASE UNCHANGED row
    BY <1>3, <2>1, <2>3
  <2>. QED
    BY <1>12, <2>2, <2>3 DEF WorkerNext
<1>13. ASSUME NEW t \in Task, Cancel(t) \/ LeaseExpires(t)
       PROVE  \A u \in Task : GracefulStands(u)'
  <2>1. UNCHANGED <<result, queue>>
    BY <1>13 DEF Cancel, LeaseExpires, ProcessFields, startup
  <2>2. \/ row' = [row EXCEPT ![t] = CancelRequested(@)]
        \/ row' = [row EXCEPT ![t].live = FALSE]
    BY <1>13 DEF Cancel, LeaseExpires
  <2>3. CancelRequested(row[t]).shutdown = row[t].shutdown
    BY <1>1 DEF CancelRequested, Row
  <2>4. \A u \in Task : row'[u].shutdown = row[u].shutdown
    BY <1>1, <2>2, <2>3 DEF Row
  <2>. QED
    BY <1>2, <2>1, <2>4
<1>14. CASE BeginGracefulShutdown
  BY <1>4, <1>14 DEF BeginGracefulShutdown, DrainsFindNoQueue
<1>15. CASE Drained \/ Crash
  BY <1>4, <1>15 DEF Drained, Crash, Gone
<1>16. CASE \/ InvalidateActiveRuntimes \/ DatabaseCloseFails \/ DrainTimesOut
            \/ UNCHANGED vars
  BY <1>3, <1>16 DEF InvalidateActiveRuntimes, DatabaseCloseFails,
     DrainTimesOut, ProcessFields, startup, db, vars
<1>17. CASE BeginRuntimeSession
  <2>1. /\ UNCHANGED <<result, queue>>
        /\ \A u \in Task : row'[u] \in {row[u], Released(row[u])}
    BY <1>17 DEF BeginRuntimeSession, startup
  <2>2. \A u \in Task : Released(row[u]).shutdown = row[u].shutdown
    BY <1>1 DEF Released, Row
  <2>. QED
    BY <1>2, <2>1, <2>2
<1>18. CASE ScanAndRecoverOnStartup
  <2>1. \E credential \in CredentialStates :
          queue' = {t \in Task : RecoveryCandidate(row'[t])
                                /\ Decide(t, row'[t], credential).auto}
    BY <1>18 DEF ScanAndRecoverOnStartup
  <2>2. UNCHANGED result
    BY <1>18 DEF ScanAndRecoverOnStartup
  <2>. QED
    BY <2>1, <2>2, StopNeedsTheUser
       DEF GracefulStands, HasFinalEntity, ChapterTask
<1>. QED
  BY <1>5, <1>7, <1>11, <1>12, <1>13, <1>14, <1>15, <1>16, <1>17, <1>18
     DEF Next, User, Lifecycle

\* GracefulInv holds throughout while no shutdown begins over candidates.
LEMMA GracefulAlways == Spec /\ []DrainsFindNoQueue => []GracefulInv
BY GracefulInit, GracefulStep, PTL DEF Spec

(***************************************************************************)
(* What starts without the user was classified as one that may, or waited  *)
(* for a worker and could be claimed.                                      *)
(***************************************************************************)
LEMMA AutoClaims ==
  ASSUME TypeInv, Next, NEW t \in Task, ClaimedAuto(t)
  PROVE  \/ \E credential : Decide(t, row[t], credential).auto
         \/ t \in queue /\ CanClaim(t, row[t], FALSE)
<1>1. /\ exec \in [Task -> Exec]
      /\ ~Running(t) /\ exec'[t].pc = "launch" /\ exec'[t].kind = "auto"
  BY DEF TypeInv, TypeOK, ClaimedAuto
<1>2. ~UNCHANGED exec
  BY <1>1 DEF Running
<1>3. ASSUME NEW u \in Task, NEW r, NEW kind, NEW tok, Claim(u, r, kind, tok)
      PROVE  u = t /\ kind = "auto"
  BY <1>1, <1>3 DEF Claim, Idle, Running
<1>4. CASE \E u \in Task : Step(u) \/ Model(u) \/ Timer(u)
  BY <1>1, <1>4, ExecutionStep DEF Running
<1>5. ASSUME NEW u \in Task, CreateTask(u) PROVE FALSE
  BY <1>1, <1>5 DEF CreateTask, Idle, Running
<1>6. ASSUME NEW u \in Task, Resume(u)
      PROVE  u = t /\ \E credential : Decide(t, row[t], credential).auto
  BY <1>2, <1>3, <1>6 DEF Resume
<1>7. ASSUME NEW u \in Task, ManualRetry(u) PROVE FALSE
  <2>1. \E r, tok : Claim(u, r, "manual", tok)
    BY <1>2, <1>7 DEF ManualRetry
  <2>. QED
    BY <1>3, <2>1
<1>8. ASSUME NEW u \in Task, WorkerNext(u)
      PROVE  t \in queue /\ CanClaim(t, row[t], FALSE)
  BY <1>2, <1>3, <1>8 DEF WorkerNext
<1>9. ASSUME \E S : exec' = Abort(S) PROVE FALSE
  BY <1>1, <1>9 DEF Abort, Running, Exec
<1>10. ASSUME NEW u \in Task, Cancel(u) \/ LeaseExpires(u) PROVE FALSE
  BY <1>2, <1>9, <1>10 DEF Cancel, LeaseExpires
<1>11. ASSUME Lifecycle PROVE FALSE
  <2>1. ASSUME DatabaseCloseFails PROVE exec'[t].pc = exec[t].pc
    <3>1. exec' = [u \in Task |-> [exec[u] EXCEPT !.armed = FALSE,
                                     !.timedOut = FALSE, !.lost = FALSE]]
      BY <2>1 DEF DatabaseCloseFails
    <3>. QED
      BY <1>1, <3>1 DEF Exec
  <2>2. ASSUME Drained \/ Crash PROVE exec'[t].pc = "none"
    BY <2>2 DEF Drained, Crash, Gone, Idle
  <2>. QED
    BY <1>1, <1>2, <1>9, <1>11, <2>1, <2>2
       DEF Lifecycle, Running, InvalidateActiveRuntimes,
           BeginGracefulShutdown, DrainTimesOut, BeginRuntimeSession,
           ScanAndRecoverOnStartup
<1>. QED
  BY <1>1, <1>4, <1>5, <1>6, <1>7, <1>8, <1>10, <1>11 DEF Next, User

(***************************************************************************)
(* No task that the user cancelled is started by the start-up workers      *)
(* (CancelIsRemembered), but after its deadline found it cancelled:        *)
(* cancel_forgotten shows what clearing cancel_requested there loses, and  *)
(* nothing else loses it.                                                  *)
(***************************************************************************)
THEOREM CancelsAreRemembered ==
  Spec /\ NoDeadlineAfterCancel => CancelIsRemembered
<1>1. CancelInv /\ [Next]_vars =>
        [\A t \in Task : ClaimedAtStartup(t) => ~stopped[t]]_vars
  <2>. SUFFICES ASSUME CancelInv, Next, NEW t \in Task, ClaimedAuto(t)
                PROVE  ~stopped[t]
    BY DEF ClaimedAtStartup
  <2>1. TypeInv /\ CancelStands(t)
    BY DEF CancelInv, FinalInv
  <2>. QED
    BY <2>1, AutoClaims, StopNeedsTheUser DEF CanClaim, Claimable, CancelStands
<1>. QED
  BY <1>1, CancelAlways, PTL DEF Spec, CancelIsRemembered

(***************************************************************************)
(* While no shutdown begins over waiting candidates and no deadline ends   *)
(* what was cancelled, no task that the user cancelled runs by itself      *)
(* again, at start-up or later, nor one that a graceful exit stopped but   *)
(* to finish a stored version (StopIsRespected).                           *)
(***************************************************************************)
THEOREM StopsAreRespected ==
  Spec /\ []DrainsFindNoQueue /\ NoDeadlineAfterCancel => StopIsRespected
<1>1. CancelInv /\ GracefulInv /\ [Next]_vars =>
        [\A t \in Task : ClaimedAuto(t) =>
           /\ ~stopped[t]
           /\ row[t].shutdown = "graceful" => HasFinalEntity(t)]_vars
  <2>. SUFFICES ASSUME CancelInv, GracefulInv, Next, NEW t \in Task,
                       ClaimedAuto(t)
                PROVE  /\ ~stopped[t]
                       /\ row[t].shutdown = "graceful" => HasFinalEntity(t)
    OBVIOUS
  <2>1. TypeInv /\ CancelStands(t) /\ GracefulStands(t)
    BY DEF CancelInv, GracefulInv, FinalInv
  <2>. QED
    BY <2>1, AutoClaims, StopNeedsTheUser
       DEF CanClaim, Claimable, CancelStands, GracefulStands
<1>. QED
  BY <1>1, CancelAlways, GracefulAlways, PTL DEF Spec, StopIsRespected

(***************************************************************************)
(* The start-up scan queues every unfinished chapter whose version is      *)
(* stored (StoredVersionIsResumed): admission is open while a process      *)
(* starts, and a stored version comes before attempts, credential and      *)
(* graceful end.                                                           *)
(***************************************************************************)
THEOREM StoredVersionsAreResumed == Spec => StoredVersionIsResumed
<1>. DEFINE Open == TypeInv /\ (proc # "up" => ~quitting)
<1>1. Init => Open
  BY TypeInit DEF Init
<1>2. Open /\ [Next]_vars => Open'
  <2>. SUFFICES ASSUME Open, [Next]_vars, proc' # "up" PROVE ~quitting'
    BY TypeStep
  <2>1. ASSUME NEW t \in Task, Step(t) \/ Model(t) \/ Timer(t)
        PROVE  UNCHANGED <<proc, quitting>>
    BY <2>1, ExecutionKeepsLease
  <2>2. ASSUME NEW t \in Task, User(t) \/ WorkerNext(t) \/ LeaseExpires(t)
        PROVE  UNCHANGED <<proc, quitting>>
    BY <2>2 DEF User, CreateTask, Resume, ManualRetry, Cancel, WorkerNext,
       LeaseExpires, ProcessFields, shutdown
  <2>3. CASE Lifecycle
    BY <2>3 DEF Lifecycle, InvalidateActiveRuntimes, BeginGracefulShutdown,
       Drained, DatabaseCloseFails, DrainTimesOut, Crash, Gone, Turn,
       BeginRuntimeSession, ScanAndRecoverOnStartup, ProcessFields, shutdown
  <2>. QED
    BY <2>1, <2>2, <2>3 DEF Next, vars, shutdown
<1>3. Open /\ [Next]_vars =>
        [\A t \in Task :
           /\ proc = "starting" /\ proc' = "up"
           /\ HasFinalEntity(t) /\ RecoveryCandidate(row[t])
           => t \in queue']_vars
  <2>. SUFFICES ASSUME Open, Next, NEW t \in Task,
                       proc = "starting", proc' = "up",
                       HasFinalEntity(t), RecoveryCandidate(row[t])
                PROVE  t \in queue'
    OBVIOUS
  <2>1. row[t] \in Row /\ ~quitting
    BY DEF TypeInv, TypeOK
  <2>2. ScanAndRecoverOnStartup
    <3>1. ~\E u \in Task : Step(u) \/ Model(u) \/ Timer(u)
      BY ExecutionKeepsLease
    <3>. QED
      BY <3>1 DEF Next, User, CreateTask, Resume, ManualRetry, Cancel,
         WorkerNext, LeaseExpires, Lifecycle, InvalidateActiveRuntimes,
         BeginGracefulShutdown, Drained, DatabaseCloseFails, DrainTimesOut,
         Crash, Gone, BeginRuntimeSession, ProcessFields, DrainReady, Turn
  <2>3. ASSUME NEW r \in Row, RecoveryCandidate(r), NEW credential
        PROVE  Decide(t, r, credential) = Resumable
    <3>. DEFINE f == [taskType |-> TypeOf[t], status |-> r.status,
           cancelRequested |-> r.cancel, phase |-> r.phase,
           checkpoint |-> r.ckpt, parse |-> "readable",
           metadata |-> "current", requestValid |-> TRUE,
           entity |-> result[t], attemptsLeft |-> r.count < MaxAttempts,
           graceful |-> r.shutdown = "graceful", projectExists |-> TRUE,
           targetExists |-> TRUE, credential |-> credential,
           gateOpen |-> ~quitting]
    <3>1. /\ f.taskType = "chapter-generation" /\ f.entity /\ f.gateOpen
          /\ f.status \in {"pending", "running", "failed"}
          /\ ~f.cancelRequested /\ f.metadata = "current"
          /\ f.projectExists /\ f.targetExists
      BY <2>1, <2>3 DEF HasFinalEntity, ChapterTask, RecoveryCandidate, Active
    <3>2. Decide(t, r, credential) = ClassifyTaskRecovery(f)
      BY <2>3 DEF Decide, RecoveryCandidate
    <3>. HIDE DEF f
    <3>3. ClassifyTaskRecovery(f) = Resumable
      BY <3>1 DEF ClassifyTaskRecovery, FinalEntity, TextTask, RecoverableTask
    <3>. QED
      BY <3>2, <3>3
  <2>4. PICK credential \in CredentialStates :
          /\ row' = [u \in Task |->
               LET r == ExpireLease(row[u])
               IN IF RecoveryCandidate(r) THEN Scanned(u, r, credential) ELSE r]
          /\ queue' = {u \in Task : RecoveryCandidate(row'[u])
                                   /\ Decide(u, row'[u], credential).auto}
    BY <2>2 DEF ScanAndRecoverOnStartup
  <2>. DEFINE r == ExpireLease(row[t])
  <2>5. r \in Row /\ RecoveryCandidate(r)
    <3>1. ASSUME NEW q \in Row
          PROVE  /\ Released(q) \in Row
                 /\ Released(q).status = q.status
                 /\ Released(q).cancel = q.cancel
                 /\ Released(q).class = q.class
      BY <3>1 DEF Released, Row
    <3>. QED
      BY <2>1, <3>1 DEF ExpireLease, RecoveryCandidate, Active,
         TerminalNonRecoverable
  <2>6. row'[t] = Scanned(t, r, credential)
    BY <2>4, <2>5
  <2>. HIDE DEF r
  <2>7. /\ Scanned(t, r, credential) \in Row
        /\ RecoveryCandidate(Scanned(t, r, credential))
    <3>. DEFINE ending == IF r.status = "running" /\ r.shutdown # "graceful"
                          THEN "crash" ELSE r.shutdown
                seen == [r EXCEPT !.shutdown = ending]
    <3>1. /\ seen \in Row /\ seen.status = r.status /\ seen.cancel = r.cancel
          /\ seen.class = r.class
      BY <2>5 DEF Row
    <3>2. Scanned(t, r, credential)
            = LET c == Classified(t, seen, credential)
              IN IF c.class = "non-recoverable" THEN MarkedTerminal(c) ELSE c
      BY DEF Scanned
    <3>. HIDE DEF seen
    <3>3. RecoveryCandidate(seen)
      BY <2>5, <3>1 DEF RecoveryCandidate, Active, TerminalNonRecoverable
    <3>4. Decide(t, seen, credential).classification = "resumable"
      BY <2>3, <3>1, <3>3 DEF Resumable, Decision
    <3>. DEFINE c == [seen EXCEPT !.class = "resumable"]
    <3>5. /\ c \in Row /\ c.class = "resumable" /\ c.status = seen.status
          /\ c.cancel = seen.cancel
      BY <3>1 DEF Row, Classification
    <3>6. Classified(t, seen, credential) = c
      BY <3>4 DEF Classified
    <3>. HIDE DEF c
    <3>7. Scanned(t, r, credential) = c
      BY <3>2, <3>5, <3>6
    <3>. QED
      BY <3>3, <3>5, <3>7 DEF RecoveryCandidate, Active, TerminalNonRecoverable
  <2>8. Decide(t, Scanned(t, r, credential), credential).auto
    BY <2>3, <2>7 DEF Resumable, Decision
  <2>. QED
    BY <2>4, <2>6, <2>7, <2>8
<1>. QED
  BY <1>1, <1>2, <1>3, PTL DEF Spec, StoredVersionIsResumed

-----------------------------------------------------------------------------
(* When the races cannot come about.                                       *)

(***************************************************************************)
(* The workers of scanAndRecoverOnStartup keep up: while the event loop    *)
(* turns no candidate waits that no worker is ready to take.               *)
(***************************************************************************)
NoBacklog == proc = "up" /\ Quiet /\ queue # {} => WorkerReady

\* What is awaited has left the queue, and a process that ended awaits nothing.
QueueInv ==
  /\ WaitInv
  /\ queue \cap awaited = {}
  /\ proc # "up" => awaited = {}

\* Every step keeps the queue apart from what is awaited.
LEMMA QueueStep == QueueInv /\ [Next]_vars => QueueInv'
<1>. SUFFICES ASSUME QueueInv, [Next]_vars
              PROVE  queue' \cap awaited' = {} /\ (proc' # "up" => awaited' = {})
  BY TypeStep, WaitStep DEF QueueInv, WaitInv
<1>1. ASSUME NEW t \in Task, Step(t) \/ Model(t) \/ Timer(t)
      PROVE  /\ queue' = queue /\ proc' = proc
             /\ awaited' \subseteq awaited
  BY <1>1, ExecutionKeepsLease, ExecutionWaits
     DEF QueueInv, WaitInv, TypeInv, TypeOK
<1>2. ASSUME NEW t \in Task, User(t) \/ LeaseExpires(t)
      PROVE  UNCHANGED <<queue, proc, awaited>>
  BY <1>2 DEF User, CreateTask, Resume, ManualRetry, Cancel, LeaseExpires,
     ProcessFields, startup
<1>3. ASSUME NEW t \in Task, WorkerNext(t)
      PROVE  /\ queue' = queue \ {t} /\ awaited' \subseteq awaited \cup {t}
             /\ proc' = "up"
  BY <1>3 DEF WorkerNext
<1>4. CASE Lifecycle
  <2>1. CASE ScanAndRecoverOnStartup
    BY <2>1 DEF ScanAndRecoverOnStartup, QueueInv
  <2>2. CASE Drained \/ Crash
    BY <2>2 DEF Drained, Crash, Gone
  <2>3. CASE \/ InvalidateActiveRuntimes \/ BeginGracefulShutdown
             \/ DatabaseCloseFails \/ DrainTimesOut
    BY <2>3 DEF InvalidateActiveRuntimes, BeginGracefulShutdown, DrainReady,
       DatabaseCloseFails, DrainTimesOut, ProcessFields, startup, QueueInv
  <2>4. CASE BeginRuntimeSession
    BY <2>4 DEF BeginRuntimeSession, startup, QueueInv
  <2>. QED
    BY <1>4, <2>1, <2>2, <2>3, <2>4 DEF Lifecycle
<1>5. CASE UNCHANGED vars
  BY <1>5 DEF vars, startup, QueueInv
<1>. QED
  BY <1>1, <1>2, <1>3, <1>4, <1>5 DEF Next, QueueInv

(***************************************************************************)
(* As many workers as tasks: no candidate of a start-up scan is left in    *)
(* the queue of scanAndRecoverOnStartup while the event loop turns.        *)
(***************************************************************************)
THEOREM WorkersKeepUp ==
  ASSUME IsFiniteSet(Task), Cardinality(Task) <= StartupConcurrency
  PROVE  Spec => []NoBacklog
<1>1. Init => QueueInv
  BY TypeInit, WaitInit DEF Init, QueueInv, WaitInv
<1>2. QueueInv => NoBacklog
  <2>. SUFFICES ASSUME QueueInv, queue # {}
                PROVE  Cardinality(awaited) < StartupConcurrency
    BY DEF NoBacklog, WorkerReady
  <2>1. awaited \in SUBSET Task /\ queue \in SUBSET Task
    BY DEF QueueInv, WaitInv, TypeInv, TypeOK
  <2>2. awaited # Task
    BY <2>1 DEF QueueInv
  <2>3. /\ IsFiniteSet(awaited) /\ Cardinality(awaited) <= Cardinality(Task)
        /\ Cardinality(Task) # Cardinality(awaited)
    BY <2>1, <2>2, FS_Subset
  <2>4. /\ Cardinality(awaited) \in Nat /\ Cardinality(Task) \in Nat
        /\ StartupConcurrency \in Nat
    BY <2>3, FS_CardinalityType, BoundAssumption
  <2>. QED
    BY <2>3, <2>4
<1>. QED
  BY <1>1, <1>2, QueueStep, PTL DEF Spec

\* No candidate runs, and none waits in a drain.
WaitingInv ==
  /\ TypeInv
  /\ quitting => proc = "up" /\ queue = {}
  /\ \A t \in queue : ~Running(t)

(***************************************************************************)
(* Then the user and the shutdown find the queue empty: the event loop     *)
(* turns only when the workers have taken what waited.                     *)
(***************************************************************************)
LEMMA NoBacklogNoRace ==
  Spec /\ []NoBacklog => []DrainsFindNoQueue /\ []WaitingAreIdle
<1>1. Init => WaitingInv
  BY TypeInit DEF Init, WaitingInv
<1>2. WaitingInv /\ NoBacklog /\ [Next]_vars => WaitingInv'
  <2>. SUFFICES ASSUME WaitingInv, NoBacklog, [Next]_vars
                PROVE  /\ quitting' => proc' = "up" /\ queue' = {}
                       /\ \A t \in queue' : ~Running(t)'
    BY TypeStep DEF WaitingInv
  <2>1. /\ TypeInv /\ exec \in [Task -> Exec] /\ queue \subseteq Task
        /\ \A t \in Task : exec[t] \in Exec
        /\ \A t \in Task : proc # "up" => ~Running(t)
        /\ proc = "starting" => ~quitting
    BY DEF WaitingInv, TypeInv, TypeOK, NothingRunsUnlessUp
  <2>2. Turn => queue = {}
    BY DEF Turn, NoBacklog
  <2>3. ASSUME NEW t \in Task, Step(t) \/ Model(t) \/ Timer(t)
        PROVE  /\ quitting' => proc' = "up" /\ queue' = {}
               /\ \A u \in queue' : ~Running(u)'
    <3>1. UNCHANGED <<quitting, queue, proc>> /\ Running(t)
      BY <2>1, <2>3, ExecutionKeepsLease, ExecutionStep
    <3>2. \A u \in Task \ {t} : exec'[u] = exec[u]
      BY <2>1, <2>3, ExecutionStep
    <3>. QED
      BY <2>1, <3>1, <3>2 DEF WaitingInv, Running
  <2>4. ASSUME NEW t \in Task, User(t) PROVE proc' = "up" /\ queue' = {}
    BY <2>2, <2>4 DEF Turn, User, CreateTask, Resume, ManualRetry, Cancel,
       ProcessFields, startup
  <2>5. ASSUME NEW t \in Task, LeaseExpires(t)
        PROVE  UNCHANGED <<queue, quitting, proc, exec>>
    BY <2>5 DEF LeaseExpires, ProcessFields, startup, shutdown
  <2>6. ASSUME NEW t \in Task, WorkerNext(t)
        PROVE  /\ queue' = queue \ {t} /\ UNCHANGED <<quitting, proc>>
               /\ \A u \in Task \ {t} : exec'[u] = exec[u]
    BY <2>1, <2>6 DEF WorkerNext, Claim, shutdown
  <2>7. CASE InvalidateActiveRuntimes
    <3>1. /\ UNCHANGED <<queue, quitting, proc>>
          /\ \E S : exec' = Abort(S)
      BY <2>7 DEF InvalidateActiveRuntimes, ProcessFields, startup, shutdown
    <3>. QED
      BY <2>1, <3>1 DEF WaitingInv, Abort, Running, Exec
  <2>8. CASE BeginGracefulShutdown
    BY <2>2, <2>8 DEF Turn, BeginGracefulShutdown, startup
  <2>9. CASE Drained \/ Crash
    BY <2>9 DEF Drained, Crash, Gone
  <2>10. CASE DatabaseCloseFails
    <3>1. /\ UNCHANGED queue /\ ~quitting'
          /\ exec' = [t \in Task |-> [exec[t] EXCEPT !.armed = FALSE,
                                         !.timedOut = FALSE, !.lost = FALSE]]
      BY <2>10 DEF DatabaseCloseFails, startup
    <3>. QED
      BY <2>1, <3>1 DEF WaitingInv, Running, Exec
  <2>11. CASE DrainTimesOut \/ BeginRuntimeSession \/ UNCHANGED vars
    BY <2>11 DEF DrainTimesOut, BeginRuntimeSession, vars, WaitingInv, Running,
       startup, shutdown
  <2>12. CASE ScanAndRecoverOnStartup
    BY <2>1, <2>12 DEF ScanAndRecoverOnStartup, WaitingInv, Running, shutdown
  <2>. QED
    BY <2>1, <2>3, <2>4, <2>5, <2>6, <2>7, <2>8, <2>9, <2>10, <2>11, <2>12
       DEF Next, Lifecycle, WaitingInv, Running
<1>3. WaitingInv => DrainsFindNoQueue /\ WaitingAreIdle
  BY DEF WaitingInv, DrainsFindNoQueue, WaitingAreIdle
<1>. QED
  BY <1>1, <1>2, <1>3, PTL DEF Spec

(***************************************************************************)
(* With no more tasks than start-up workers two of the races cannot come   *)
(* about: leases follow executions, a drain ends over nothing that runs,   *)
(* no paid call is repeated unasked, and the manager implements its        *)
(* contract, whatever else fails.                                          *)
(***************************************************************************)
THEOREM WithEnoughWorkers ==
  ASSUME IsFiniteSet(Task), Cardinality(Task) <= StartupConcurrency
  PROVE  Spec => /\ []LeaseFollowsExecution /\ DrainedIsQuiet
                 /\ NoUnconfirmedReplay /\ ImplementsContract
BY WorkersKeepUp, NoBacklogNoRace, LeasesFollow, DrainsAreQuiet,
   CallsAreConfirmed, ContractIsImplemented, PTL

=============================================================================
