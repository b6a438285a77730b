---------------------------- MODULE RecoveryFacts ----------------------------
(***************************************************************************)
(* Runs the classifier over every combination of task type, status, phase, *)
(* checkpoint and final entity, and lets up to MaxLosses of the facts that *)
(* recovery relies on get worse one after another: what may happen to a    *)
(* task between two classifications of it.                                 *)
(***************************************************************************)
EXTENDS RecoveryClassifier, FiniteSets, Naturals

CONSTANT
  Types,      \* the task types of the run
  MaxLosses   \* bound: how many facts may get worse in one behaviour

VARIABLE rowFacts

ASSUME BoundsAssumption == Types \subseteq TaskType /\ MaxLosses \in Nat

\* The checkpoints that the runner of each task type writes.
CheckpointsOf(type) ==
  {c \in CheckpointRecord :
     \/ c = NoCheckpoint
     \/ /\ type = "chapter-generation" /\ c.stage \in ChapterStage
        /\ IF c.stage = "body" THEN ~c.summary ELSE c.body
        /\ c.entity <=> c.stage = "review"
     \/ /\ type = "chapter-polish" /\ c.stage \in PolishStage
        /\ ~c.body /\ ~c.summary /\ (c.entity <=> c.stage = "completed")
     \/ /\ type = "outline-generation" /\ c.stage \in OutlineStage
        /\ ~c.body /\ ~c.summary /\ ~c.entity}

\* The phases a row of each status is written with.
PhasesOf(status) ==
  CASE status = "pending" -> {"queued"}
    [] status = "running" ->
         {"queued", "preparing", "model", "persisting_result", "finalizing"}
    [] OTHER -> {status}

\* Rows the runners leave: a task not started has no checkpoint, and a stored
\* version or revision was preceded by the checkpoint of its last stage.
Consistent(type, status, phase, c, entity) ==
  /\ status = "pending" => c = NoCheckpoint /\ ~entity
  /\ status = "completed" => c # NoCheckpoint
  /\ entity => /\ type \in TextTask
               /\ c.stage \in {"saving", "review", "running", "completed"}
  /\ phase = "model" => c.stage \notin {"saving", "review", "ready", "applied"}
  /\ phase = "finalizing" => c.stage \notin {"body", "summary", "fact_check"}

Decided == ClassifyTaskRecovery(rowFacts)

Losses ==
  Cardinality({x \in {"cancelRequested", "graceful"} : rowFacts[x]}
    \cup {x \in {"attemptsLeft", "projectExists", "targetExists",
                 "credential", "gateOpen"} : ~rowFacts[x]}
    \cup {x \in {"parse"} : rowFacts[x] # "readable"}
    \cup {x \in {"metadata"} : rowFacts[x] # "current"})

ClassifierInit ==
  \E type \in Types, s \in Status, e \in BOOLEAN :
    \E c \in CheckpointsOf(type), p \in PhasesOf(s) :
      /\ Consistent(type, s, p, c, e)
      /\ rowFacts = [taskType |-> type, status |-> s,
                  cancelRequested |-> s = "cancelled",
                  phase |-> p, checkpoint |-> c, parse |-> "readable",
                  metadata |-> "current", requestValid |-> TRUE, entity |-> e,
                  attemptsLeft |-> TRUE, graceful |-> FALSE,
                  projectExists |-> TRUE, targetExists |-> TRUE,
                  credential |-> TRUE, gateOpen |-> TRUE]

\* The user cancels the task, or the program stops it on its way out.
Interrupt ==
  /\ rowFacts.status \in {"pending", "running"}
  /\ \/ rowFacts' = [rowFacts EXCEPT !.cancelRequested = TRUE, !.phase = "cancelled"]
     \/ rowFacts' = [rowFacts EXCEPT !.graceful = TRUE, !.phase = "queued"]

\* Something the task needs is used up, deleted or withdrawn.
Lose == \E x \in {"attemptsLeft", "projectExists", "targetExists",
                  "credential", "gateOpen"} :
  rowFacts' = [rowFacts EXCEPT ![x] = FALSE]

\* The row turns out unreadable, or written by another version.
Misread ==
  \/ \E p \in {"corrupt", "unsupported"} : rowFacts' = [rowFacts EXCEPT !.parse = p]
  \/ \E m \in {"older", "future"} : rowFacts' = [rowFacts EXCEPT !.metadata = m]

ClassifierNext == Losses < MaxLosses /\ (Interrupt \/ Lose \/ Misread)

ClassifierSpec == ClassifierInit /\ [][ClassifierNext]_rowFacts

-----------------------------------------------------------------------------

\* No text was received, no checkpoint marks a call, and the phase lies before
\* the call.
NoCallWasMade ==
  /\ rowFacts.phase \in BeforeModel
  /\ ~rowFacts.checkpoint.body
  /\ rowFacts.checkpoint.stage \notin {"model", "running", "ready", "applied"}

(***************************************************************************)
(* A task is restarted by itself only while nothing shows that a model     *)
(* call was made for it and its credential is there; and whatever is lost  *)
(* between two classifications of a task - a credential, the target, the   *)
(* last attempt, the gate - never gives the program a permission to run it *)
(* that it did not have before: a late decision is as safe as an early one.*)
(***************************************************************************)
AutoRepeatsNoCall ==
  [][/\ Decided.action = "auto-restart" => NoCallWasMade /\ rowFacts.credential
     /\ ClassifyTaskRecovery(rowFacts').auto => Decided.auto]_rowFacts

=============================================================================
