--------------------------- MODULE ComputeWorkers ---------------------------
(***************************************************************************)
(* The pool of compute threads (main/workers/computeWorkerClient.ts), the  *)
(* comparisons a window asks of it (runDiff and chapter:diff:cancel of     *)
(* main/ipc/revisions.ipc.ts) and its other callers, the tasks and the     *)
(* agent, which share its slots.                                           *)
(*                                                                         *)
(* A call ends once, by the first of its answer, the thread's death, its   *)
(* time limit and its cancellation; the slot is given back and the caller  *)
(* answered when the thread has been terminated, which takes a while.      *)
(***************************************************************************)
EXTENDS Naturals, FiniteSets

CONSTANTS
  Window,      \* the windows, each with one comparison at a time
  Background,  \* the other callers
  MaxWorkers,  \* maxWorkers of the client
  MaxRuns      \* bound: threads ever started

ASSUME ComputeWorkersAssumption ==
  MaxWorkers \in Nat \ {0} /\ MaxRuns \in Nat /\ Window \cap Background = {}

VARIABLES
  call,           \* each caller's call: idle, running or ending
  thread,         \* its thread: none, alive or dead
  activeWorkers,  \* the counter of the client
  active,         \* the windows with a comparison, as the handler knows them
  answer,         \* how each caller's last call ended
  closed,         \* the windows destroyed
  runs            \* threads started so far

poolVars == <<call, thread, activeWorkers, active, answer, closed, runs>>

Caller == Window \cup Background

PoolInit ==
  /\ call = [c \in Caller |-> "idle"]
  /\ thread = [c \in Caller |-> "none"]
  /\ activeWorkers = 0
  /\ active = {}
  /\ answer = [c \in Caller |-> "none"]
  /\ closed = {} /\ runs = 0

\* ComputeWorkerClient.run: refused when every slot is taken, or the thread
\* cannot start; the request may fail to reach a thread that did.
RunCompute(c) ==
  /\ call[c] = "idle" /\ runs < MaxRuns
  /\ \/ /\ activeWorkers < MaxWorkers
        /\ activeWorkers' = activeWorkers + 1 /\ runs' = runs + 1
        /\ thread' = [thread EXCEPT ![c] = "alive"]
        /\ \/ call' = [call EXCEPT ![c] = "running"] /\ UNCHANGED answer
           \/ /\ call' = [call EXCEPT ![c] = "ending"]
              /\ answer' = [answer EXCEPT ![c] = "error"]
        /\ active' = active \cup (Window \cap {c})
     \/ /\ answer' = [answer EXCEPT ![c] = "error"]
        /\ UNCHANGED <<call, thread, activeWorkers, active, runs>>
  /\ UNCHANGED closed
RunDiff(w) == w \notin active \cup closed /\ RunCompute(w)
RunBackground(c) == RunCompute(c)

\* finish: the first event settles the call and asks for termination.
Settle_FreesSlot(c, how) ==
  /\ call[c] = "running"
  /\ call' = [call EXCEPT ![c] = "ending"]
  /\ answer' = [answer EXCEPT ![c] = how]
  /\ activeWorkers' = activeWorkers - 1
  /\ UNCHANGED <<active, runs>>
Settle(c, how) ==
  /\ call[c] = "running"
  /\ call' = [call EXCEPT ![c] = "ending"]
  /\ answer' = [answer EXCEPT ![c] = how]
  /\ UNCHANGED <<activeWorkers, active, runs>>

ReceiveAnswer(c) ==
  /\ thread[c] = "alive"
  /\ \E how \in {"result", "error"} : Settle(c, how)
  /\ UNCHANGED <<thread, closed>>
TimeOut(c) == Settle(c, "error") /\ UNCHANGED <<thread, closed>>
CancelDiff(w) ==
  /\ w \in active \ closed
  /\ Settle(w, "cancelled")
  /\ UNCHANGED <<thread, closed>>
CancelBackground(c) == Settle(c, "cancelled") /\ UNCHANGED <<thread, closed>>

\* The thread dies, out of memory for one: its error and exit events settle
\* the call, unless it is settled already.
ThreadDies(c) ==
  /\ thread[c] = "alive"
  /\ thread' = [thread EXCEPT ![c] = "dead"]
  /\ \/ Settle(c, "error")
     \/ /\ call[c] = "ending"
        /\ UNCHANGED <<call, answer, activeWorkers, active, runs>>
  /\ UNCHANGED closed

\* A window is destroyed: its comparison is aborted.
DestroyWindow(w) ==
  /\ w \notin closed /\ closed' = closed \cup {w}
  /\ \/ w \in active /\ Settle(w, "cancelled")
     \/ /\ call[w] # "running"
        /\ UNCHANGED <<call, answer, activeWorkers, active, runs>>
  /\ UNCHANGED thread

\* complete: terminate settles, well or badly; runDiff's finally follows.
Terminated(c) ==
  /\ call[c] = "ending"
  /\ call' = [call EXCEPT ![c] = "idle"]
  /\ thread' = [thread EXCEPT ![c] = "none"]
  /\ activeWorkers' = activeWorkers - 1
  /\ active' = active \ {c}
  /\ UNCHANGED <<answer, closed, runs>>

PoolNext ==
  \/ \E w \in Window : RunDiff(w) \/ CancelDiff(w) \/ DestroyWindow(w)
  \/ \E c \in Background : RunBackground(c) \/ CancelBackground(c)
  \/ \E c \in Caller :
       ReceiveAnswer(c) \/ TimeOut(c) \/ ThreadDies(c) \/ Terminated(c)

PoolSpec == PoolInit /\ [][PoolNext]_poolVars
-----------------------------------------------------------------------------
\* Threads, calls and answers are what the client can hold.
PoolTypeInv ==
  /\ call \in [Caller -> {"idle", "running", "ending"}]
  /\ thread \in [Caller -> {"none", "alive", "dead"}]
  /\ activeWorkers \in 0..MaxWorkers
  /\ answer \in [Caller -> {"none", "result", "error", "cancelled"}]
  /\ closed \subseteq Window /\ runs \in 0..MaxRuns

Living == {c \in Caller : thread[c] # "none"}

\* run, finish, complete: however the ends of calls overlap, there are never
\* more threads than slots, a slot is not lost nor given back twice, and the
\* windows that are told "already running" are those with a thread.
PoolIsBounded ==
  /\ Cardinality(Living) <= MaxWorkers
  /\ activeWorkers = Cardinality(Living)
  /\ active = Living \cap Window
=============================================================================
