---------------------------- MODULE TaskContract ----------------------------
(***************************************************************************)
(* What the task manager promises about the paid work of a task, whatever  *)
(* is cancelled, killed, timed out or restarted in between: the model is   *)
(* never asked again while an earlier answer is missing unless the user    *)
(* agreed to it; it is not asked at all once the result is stored; a       *)
(* result is stored once, when no answer is missing; and a task completes  *)
(* only with its result.                                                   *)
(***************************************************************************)
CONSTANT Task

VARIABLES
  outcome,  \* open, stored (the result is in the database) or completed
  asking,   \* a model call is in flight
  inDoubt,  \* the model was asked and its answer is not stored
  consent   \* the user agreed to ask again and it was not done since

vars == <<outcome, asking, inDoubt, consent>>

Init ==
  /\ outcome = [t \in Task |-> "open"]
  /\ asking = [t \in Task |-> FALSE]
  /\ inDoubt = [t \in Task |-> FALSE]
  /\ consent = [t \in Task |-> FALSE]

Confirm(t) ==
  /\ outcome[t] # "completed" /\ ~asking[t]
  /\ consent' = [consent EXCEPT ![t] = TRUE]
  /\ UNCHANGED <<outcome, asking, inDoubt>>

Ask(t) ==
  /\ outcome[t] = "open" /\ ~asking[t]
  /\ inDoubt[t] => consent[t]
  /\ asking' = [asking EXCEPT ![t] = TRUE]
  /\ inDoubt' = [inDoubt EXCEPT ![t] = TRUE]
  /\ consent' = [consent EXCEPT ![t] = FALSE]
  /\ UNCHANGED outcome

Answer(t) ==
  /\ asking[t]
  /\ asking' = [asking EXCEPT ![t] = FALSE]
  /\ inDoubt' = [inDoubt EXCEPT ![t] = FALSE]
  /\ UNCHANGED <<outcome, consent>>

\* The calls of S end without an answer that is kept.
Abandon(S) ==
  /\ \A t \in S : asking[t]
  /\ asking' = [t \in Task |-> asking[t] /\ t \notin S]
  /\ UNCHANGED <<outcome, inDoubt, consent>>

Store(t) ==
  /\ outcome[t] = "open" /\ ~inDoubt[t]
  /\ outcome' = [outcome EXCEPT ![t] = "stored"]
  /\ UNCHANGED <<asking, inDoubt, consent>>

Finish(t) ==
  /\ outcome[t] = "stored"
  /\ outcome' = [outcome EXCEPT ![t] = "completed"]
  /\ UNCHANGED <<asking, inDoubt, consent>>

Next ==
  \/ \E t \in Task :
       Confirm(t) \/ Ask(t) \/ Answer(t) \/ Store(t) \/ Finish(t)
  \/ \E S \in SUBSET Task : Abandon(S)

Spec == Init /\ [][Next]_vars

=============================================================================
