---------------------------- MODULE FileReplace -----------------------------
(***************************************************************************)
(* Replacing a file that must not be lost: the backup policy               *)
(* (main/backup/policyStore.ts) and an exported diagnostic package         *)
(* (main/diagnostics/diagnosticExportCoordinator.ts).                      *)
(*                                                                         *)
(* The new bytes are written beside the target; the target is displaced,   *)
(* the new file renamed into its place and the displaced one removed.  Any *)
(* of these calls may fail, and the program may die between two of them.   *)
(* Requests are chained: one runs at a time.  Contents are numbered.       *)
(***************************************************************************)
EXTENDS Naturals, Sequences

CONSTANTS
  MaxWrites,    \* bound: the contents
  MaxBreaks     \* bound: the calls that fail, and the crashes

ASSUME FileReplaceAssumption == MaxWrites \in Nat \ {0} /\ MaxBreaks \in Nat

VARIABLES
  target,    \* the content under the name of the file; 0 if there is none
  part,      \* the content of the temporary file of the run; 0 if there is none
  displacedFiles,     \* the contents of displaced files, each under a name of its own
  replacing, \* where the run is, and the content it displaced
  chain,     \* the contents of the requests, the running one first
  written,   \* the last content requested
  breaks,    \* how many faults there were
  lastGood   \* (history) the last content a request was told to be written

replaceVars == <<target, part, displacedFiles, replacing, chain, written, breaks, lastGood>>

Resting == [at |-> "rest", moved |-> 0]

\* A file may be there before.
ReplaceInit ==
  /\ written \in 0..1 /\ target = written /\ lastGood = written
  /\ part = 0 /\ displacedFiles = {} /\ replacing = Resting /\ chain = <<>> /\ breaks = 0

StandsAt(at) == replacing.at = at
RunsTo(at) == replacing' = [replacing EXCEPT !.at = at]
Breaks == breaks < MaxBreaks /\ breaks' = breaks + 1

\* exportToFile, update: the request waits for the earlier ones.
RequestWrite ==
  /\ written < MaxWrites /\ written' = written + 1
  /\ chain' = Append(chain, written + 1)
  /\ UNCHANGED <<target, part, displacedFiles, replacing, breaks, lastGood>>

\* The temporary file is created, written and synced; the target is looked up.
WritePart ==
  /\ StandsAt("rest") /\ chain # <<>>
  /\ part' = Head(chain)
  /\ RunsTo(IF target = 0 THEN "install" ELSE "displace")
  /\ UNCHANGED <<target, displacedFiles, chain, written, breaks, lastGood>>

\* The answer, and the next request's turn.
Answer(good) ==
  /\ replacing' = Resting /\ chain' = Tail(chain)
  /\ lastGood' = IF good THEN Head(chain) ELSE lastGood

\* The temporary file is removed, as far as that works.
RemovesPart == part' = 0

WriteFails ==
  /\ StandsAt("rest") /\ chain # <<>> /\ Breaks
  /\ RemovesPart /\ Answer(FALSE)
  /\ UNCHANGED <<target, displacedFiles, written>>

\* The old file is removed instead of displaced.
DisplaceTarget_Removes ==
  /\ StandsAt("displace")
  /\ target' = 0
  /\ replacing' = [at |-> "install", moved |-> target]
  /\ UNCHANGED <<part, displacedFiles, chain, written, breaks, lastGood>>

DisplaceTarget ==
  /\ StandsAt("displace")
  /\ displacedFiles' = displacedFiles \cup {target} /\ target' = 0
  /\ replacing' = [at |-> "install", moved |-> target]
  /\ UNCHANGED <<part, chain, written, breaks, lastGood>>

DisplaceFails ==
  /\ StandsAt("displace") /\ Breaks
  /\ RemovesPart /\ Answer(FALSE)
  /\ UNCHANGED <<target, displacedFiles, written>>

InstallPart ==
  /\ StandsAt("install")
  /\ target' = part /\ part' = 0
  /\ RunsTo("remove")
  /\ UNCHANGED <<displacedFiles, chain, written, breaks, lastGood>>

\* The rename into place fails: the displaced file goes back, and stays where it
\* is if that fails too.
InstallFails ==
  /\ StandsAt("install") /\ Breaks
  /\ RunsTo("restore")
  /\ UNCHANGED <<target, part, displacedFiles, chain, written, lastGood>>

PutBack ==
  /\ StandsAt("restore")
  /\ target' = replacing.moved /\ displacedFiles' = displacedFiles \ {replacing.moved}
  /\ RemovesPart /\ Answer(FALSE)
  /\ UNCHANGED <<written, breaks>>

PutBackFails ==
  /\ StandsAt("restore") /\ replacing.moved # 0 /\ Breaks
  /\ RemovesPart /\ Answer(FALSE)
  /\ UNCHANGED <<target, displacedFiles, written>>

\* The displaced file is removed, as far as that works; the request succeeded.
RemoveDisplaced ==
  /\ StandsAt("remove")
  /\ \/ displacedFiles' = displacedFiles \ {replacing.moved} /\ UNCHANGED breaks
     \/ Breaks /\ UNCHANGED displacedFiles
  /\ Answer(TRUE)
  /\ UNCHANGED <<target, part, written>>

\* The program dies: the requests are gone, the files stay; nothing looks for
\* displaced ones at the next start.
ReplaceCrash ==
  /\ Breaks /\ replacing' = Resting /\ chain' = <<>> /\ part' = 0
  /\ UNCHANGED <<target, displacedFiles, written, lastGood>>

ReplaceNext ==
  \/ RequestWrite \/ WritePart \/ WriteFails \/ DisplaceTarget \/ DisplaceFails
  \/ InstallPart \/ InstallFails \/ PutBack \/ PutBackFails \/ RemoveDisplaced \/ ReplaceCrash

ReplaceSpec == ReplaceInit /\ [][ReplaceNext]_replaceVars

-----------------------------------------------------------------------------
ReplaceTypeInv ==
  /\ target \in 0..MaxWrites /\ part \in 0..MaxWrites /\ displacedFiles \subseteq 1..MaxWrites
  /\ replacing \in [at : {"rest", "displace", "install", "restore", "remove"},
                    moved : 0..MaxWrites]
  /\ chain \in Seq(1..MaxWrites) /\ Len(chain) <= MaxWrites
  /\ written \in 0..MaxWrites /\ breaks \in 0..MaxBreaks /\ lastGood \in 0..MaxWrites

\* What a request was told to be written is on the disk, in place or displaced,
\* until another request is told so, whatever fails and wherever the program
\* dies (diagnosticExportCoordinator.ts:69, policyStore.ts:136).
LastGoodContentIsKept ==
  lastGood # 0 => target = lastGood \/ lastGood \in displacedFiles
=============================================================================
