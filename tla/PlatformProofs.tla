--------------------------- MODULE PlatformProofs ---------------------------
(***************************************************************************)
(* Proofs about the small mechanisms beside the tasks: the compute         *)
(* workers' slots, the replacement of a file, staged imports, the keys,    *)
(* the backups that are kept, what the archive of a project carries, and   *)
(* the assistant's runtimes; last, all of them beside each other.          *)
(***************************************************************************)
EXTENDS MCPlatform, DatabaseProofs, ProjectArchive, FiniteSetTheorems, SequenceTheorems,
        TLAPS

-----------------------------------------------------------------------------
(* The slots of the compute workers *)

\* A call has a thread exactly while it is not idle; the counter counts the
\* threads, and the comparisons the handler knows are the windows' threads.
SlotInv ==
  /\ PoolTypeInv
  /\ IsFiniteSet(Living)
  /\ activeWorkers = Cardinality(Living)
  /\ active = Living \cap Window
  /\ \A c \in Caller : (call[c] = "idle") <=> (thread[c] = "none")

\* An answer, a time limit, a cancellation, a death: the first one settles the
\* call, and none of them gives the slot back.
LEMMA SettlingKeepsSlots ==
  ASSUME SlotInv, NEW c \in Caller, NEW how \in {"result", "error", "cancelled"},
         Settle(c, how),
         thread' \in [Caller -> {"none", "alive", "dead"}],
         \A d \in Caller : (thread'[d] = "none") <=> (thread[d] = "none"),
         closed' \subseteq Window
  PROVE  SlotInv'
<1>1. Living' = Living
  BY DEF Living
<1>2. PoolTypeInv'
  BY DEF SlotInv, PoolTypeInv, Settle
<1>3. \A d \in Caller : (call'[d] = "idle") <=> (thread'[d] = "none")
  BY DEF SlotInv, PoolTypeInv, Settle
<1> QED
  BY <1>1, <1>2, <1>3 DEF SlotInv, Settle

\* run: a slot is taken only while one is free, by a caller without a thread.
LEMMA RunningTakesASlot ==
  ASSUME SlotInv, NEW c \in Caller, RunCompute(c)
  PROVE  SlotInv'
<1> USE ComputeWorkersAssumption DEF SlotInv
<1>1. CASE /\ activeWorkers < MaxWorkers
           /\ activeWorkers' = activeWorkers + 1 /\ runs' = runs + 1
           /\ thread' = [thread EXCEPT ![c] = "alive"]
           /\ \/ call' = [call EXCEPT ![c] = "running"] /\ UNCHANGED answer
              \/ /\ call' = [call EXCEPT ![c] = "ending"]
                 /\ answer' = [answer EXCEPT ![c] = "error"]
           /\ active' = active \cup (Window \cap {c})
  <2>1. c \notin Living /\ Living' = Living \cup {c}
    BY <1>1 DEF RunCompute, Living, PoolTypeInv
  <2>2. IsFiniteSet(Living') /\ Cardinality(Living') = Cardinality(Living) + 1
    BY <2>1, FS_AddElement
  <2>3. PoolTypeInv'
    BY <1>1 DEF RunCompute, PoolTypeInv
  <2>4. active' = Living' \cap Window
    BY <1>1, <2>1
  <2>5. \A d \in Caller : (call'[d] = "idle") <=> (thread'[d] = "none")
    BY <1>1 DEF PoolTypeInv
  <2> QED
    BY <1>1, <2>2, <2>3, <2>4, <2>5
<1>2. CASE /\ answer' = [answer EXCEPT ![c] = "error"]
           /\ UNCHANGED <<call, thread, activeWorkers, active, runs>>
  BY <1>2 DEF RunCompute, Living, PoolTypeInv
<1> QED
  BY <1>1, <1>2 DEF RunCompute

\* complete: a terminated thread gives its one slot back.
LEMMA TerminatingGivesBackASlot ==
  ASSUME SlotInv, NEW c \in Caller, Terminated(c)
  PROVE  SlotInv'
<1> USE ComputeWorkersAssumption DEF SlotInv
<1>1. c \in Living /\ Living' = Living \ {c}
  BY DEF Terminated, Living, PoolTypeInv
<1>2. IsFiniteSet(Living') /\ Cardinality(Living') = Cardinality(Living) - 1
  BY <1>1, FS_RemoveElement
<1>3. Cardinality(Living') \in Nat
  BY <1>2, FS_CardinalityType
<1>4. PoolTypeInv'
  BY <1>2, <1>3 DEF Terminated, PoolTypeInv
<1>5. active' = Living' \cap Window
  BY <1>1 DEF Terminated
<1>6. \A d \in Caller : (call'[d] = "idle") <=> (thread'[d] = "none")
  BY DEF Terminated, PoolTypeInv
<1> QED
  BY <1>2, <1>4, <1>5, <1>6 DEF Terminated

\* Every step of the pool keeps the slots' books.
LEMMA SlotStep == SlotInv /\ [PoolNext]_poolVars => SlotInv'
<1> SUFFICES ASSUME SlotInv, [PoolNext]_poolVars PROVE SlotInv'
  OBVIOUS
<1>t. PoolTypeInv
  BY DEF SlotInv
<1>1. ASSUME NEW w \in Window, RunDiff(w) PROVE SlotInv'
  BY <1>1, RunningTakesASlot DEF RunDiff, Caller
<1>2. ASSUME NEW w \in Window, CancelDiff(w) PROVE SlotInv'
  BY <1>2, <1>t, SettlingKeepsSlots DEF CancelDiff, Caller, PoolTypeInv
<1>3. ASSUME NEW w \in Window, DestroyWindow(w) PROVE SlotInv'
  <2>1. closed' \subseteq Window /\ thread' = thread
    BY <1>3, <1>t DEF DestroyWindow, PoolTypeInv
  <2>2. CASE Settle(w, "cancelled")
    BY <1>t, <2>1, <2>2, SettlingKeepsSlots DEF Caller, PoolTypeInv
  <2>3. CASE UNCHANGED <<call, answer, activeWorkers, active, runs>>
    BY <2>1, <2>3 DEF SlotInv, PoolTypeInv, Living
  <2> QED
    BY <1>3, <2>2, <2>3 DEF DestroyWindow
<1>4. ASSUME NEW c \in Background, RunBackground(c) PROVE SlotInv'
  BY <1>4, RunningTakesASlot DEF RunBackground, Caller
<1>5. ASSUME NEW c \in Background, CancelBackground(c) PROVE SlotInv'
  BY <1>5, <1>t, SettlingKeepsSlots DEF CancelBackground, Caller, PoolTypeInv
<1>6. ASSUME NEW c \in Caller, ReceiveAnswer(c) PROVE SlotInv'
  BY <1>6, <1>t, SettlingKeepsSlots DEF ReceiveAnswer, PoolTypeInv
<1>7. ASSUME NEW c \in Caller, TimeOut(c) PROVE SlotInv'
  BY <1>7, <1>t, SettlingKeepsSlots DEF TimeOut, PoolTypeInv
<1>8. ASSUME NEW c \in Caller, ThreadDies(c) PROVE SlotInv'
  <2>1. /\ thread' \in [Caller -> {"none", "alive", "dead"}]
        /\ \A d \in Caller : (thread'[d] = "none") <=> (thread[d] = "none")
        /\ closed' = closed
    BY <1>8, <1>t DEF ThreadDies, PoolTypeInv
  <2>2. CASE Settle(c, "error")
    BY <1>t, <2>1, <2>2, SettlingKeepsSlots DEF PoolTypeInv
  <2>3. CASE UNCHANGED <<call, answer, activeWorkers, active, runs>>
    <3>1. Living' = Living
      BY <2>1 DEF Living
    <3> QED
      BY <2>1, <2>3, <3>1 DEF SlotInv, PoolTypeInv
  <2> QED
    BY <1>8, <2>2, <2>3 DEF ThreadDies
<1>9. ASSUME NEW c \in Caller, Terminated(c) PROVE SlotInv'
  BY <1>9, TerminatingGivesBackASlot
<1>10. CASE UNCHANGED poolVars
  BY <1>10 DEF poolVars, SlotInv, PoolTypeInv, Living
<1> QED
  BY <1>1, <1>2, <1>3, <1>4, <1>5, <1>6, <1>7, <1>8, <1>9, <1>10 DEF PoolNext

\* No call is under way at first.
LEMMA SlotBegin == PoolInit => SlotInv
<1> SUFFICES ASSUME PoolInit PROVE SlotInv
  OBVIOUS
<1>1. Living = {}
  BY DEF PoolInit, Living
<1> QED
  BY <1>1, FS_EmptySet, ComputeWorkersAssumption DEF PoolInit, SlotInv, PoolTypeInv

\* ComputeWorkerClient: however the ends of calls overlap, there are never more
\* threads than slots, no slot is lost or given back twice, and the windows told
\* "already running" are those with a thread.
THEOREM SlotsAreKept == PoolSpec => []PoolIsBounded
<1>1. SlotInv => PoolIsBounded
  BY ComputeWorkersAssumption DEF SlotInv, PoolTypeInv, PoolIsBounded
<1> QED
  BY <1>1, SlotBegin, SlotStep, PTL DEF PoolSpec

-----------------------------------------------------------------------------
(* Replacing a file *)

\* Where the run is decides what the disk holds; and the content last answered
\* for is always one of the two files.
ReplacementInv ==
  /\ ReplaceTypeInv
  /\ Len(chain) <= written
  /\ ~ StandsAt("rest") => chain # <<>>
  /\ StandsAt("install") \/ StandsAt("restore") => target = 0 /\ part = Head(chain)
  /\ StandsAt("displace") => target # 0 /\ part = Head(chain)
  /\ StandsAt("remove") => target = Head(chain)
  /\ LastGoodContentIsKept

\* Every step of a replacement keeps the content last answered for.
LEMMA ReplacementStep == ReplacementInv /\ [ReplaceNext]_replaceVars => ReplacementInv'
<1> SUFFICES ASSUME ReplacementInv, [ReplaceNext]_replaceVars PROVE ReplacementInv'
  OBVIOUS
<1> USE FileReplaceAssumption
    DEF ReplacementInv, ReplaceTypeInv, LastGoodContentIsKept, StandsAt, RunsTo
<1>h. chain # <<>> => /\ Head(chain) \in 1..MaxWrites
                      /\ Tail(chain) \in Seq(1..MaxWrites)
                      /\ Len(Tail(chain)) = Len(chain) - 1
  OBVIOUS
<1>1. CASE RequestWrite
  BY <1>1 DEF RequestWrite
<1>2. CASE WritePart
  BY <1>2, <1>h DEF WritePart
<1>3. CASE WriteFails
  BY <1>3, <1>h DEF WriteFails, Breaks, RemovesPart, Answer, Resting
<1>4. CASE DisplaceTarget
  BY <1>4, <1>h DEF DisplaceTarget
<1>5. CASE DisplaceFails
  BY <1>5, <1>h DEF DisplaceFails, Breaks, RemovesPart, Answer, Resting
<1>6. CASE InstallPart
  BY <1>6, <1>h DEF InstallPart
<1>r. Resting \in [at : {"rest", "displace", "install", "restore", "remove"},
                   moved : 0..MaxWrites]
  BY DEF Resting
<1>7. CASE InstallFails
  <2>1. /\ replacing'.at = "restore"
        /\ replacing' \in [at : {"rest", "displace", "install", "restore", "remove"},
                          moved : 0..MaxWrites]
    BY <1>7 DEF InstallFails
  <2> QED
    BY <1>7, <2>1, <1>h DEF InstallFails, Breaks
<1>8. CASE PutBack
  <2>0. /\ chain' = Tail(chain) /\ chain # <<>> /\ replacing' = Resting
        /\ replacing.moved \in 0..MaxWrites
        /\ target' = replacing.moved /\ part' = 0 /\ lastGood' = lastGood
        /\ displacedFiles' \subseteq displacedFiles /\ UNCHANGED <<written, breaks>>
    BY <1>8 DEF PutBack, RemovesPart, Answer
  <2>1. ReplaceTypeInv' /\ Len(chain') <= written'
    BY <2>0, <1>h, <1>r
  <2>2. StandsAt("rest")' /\ LastGoodContentIsKept'
    BY <1>8 DEF PutBack, Answer, Resting
  <2> QED
    BY <2>1, <2>2
<1>9. CASE PutBackFails
  <2>1. ReplaceTypeInv' /\ Len(chain') <= written'
    BY <1>9, <1>h, <1>r DEF PutBackFails, Breaks, RemovesPart, Answer
  <2>2. StandsAt("rest")' /\ LastGoodContentIsKept'
    BY <1>9 DEF PutBackFails, Answer, Resting
  <2> QED
    BY <2>1, <2>2
<1>10. CASE RemoveDisplaced
  <2>0. /\ chain' = Tail(chain) /\ chain # <<>> /\ replacing' = Resting
        /\ lastGood' = target /\ target' = target
        /\ displacedFiles' \subseteq displacedFiles /\ breaks' \in 0..MaxBreaks
    BY <1>10 DEF RemoveDisplaced, Answer, Breaks
  <2>1. ReplaceTypeInv' /\ Len(chain') <= written'
    BY <1>10, <2>0, <1>h, <1>r DEF RemoveDisplaced
  <2>2. StandsAt("rest")' /\ LastGoodContentIsKept'
    BY <2>0 DEF Resting
  <2> QED
    BY <2>1, <2>2
<1>11. CASE ReplaceCrash
  BY <1>11, <1>h DEF ReplaceCrash, Breaks, Resting
<1>12. CASE UNCHANGED replaceVars
  BY <1>12 DEF replaceVars
<1> QED
  BY <1>1, <1>2, <1>3, <1>4, <1>5, <1>6, <1>7, <1>8, <1>9, <1>10, <1>11, <1>12
  DEF ReplaceNext

\* A file is written once, or not yet, before anything is replaced.
LEMMA ReplacementBegin == ReplaceInit => ReplacementInv
BY FileReplaceAssumption
DEF ReplaceInit, ReplacementInv, ReplaceTypeInv, LastGoodContentIsKept, StandsAt, Resting

\* policyStore, diagnosticExportCoordinator: what a request was told to be
\* written is on the disk until another request is told so.
THEOREM LastGoodIsKept == ReplaceSpec => []LastGoodContentIsKept
<1>1. ReplacementInv => LastGoodContentIsKept
  BY DEF ReplacementInv
<1> QED
  BY <1>1, ReplacementBegin, ReplacementStep, PTL DEF ReplaceSpec

-----------------------------------------------------------------------------
(* The staged imports *)

\* What the books are kept in has its types.
StagingTypes ==
  /\ inspection \in [Token -> {"none", "copying", "reading", "inspecting",
                               "staged", "committing", "ended"}]
  /\ size \in [Token -> Nat]
  /\ imports \cup files \subseteq Token
  /\ disposed \in BOOLEAN
  /\ imported \in [Token -> Nat]

\* A token's archive is imported only on its way to its end.
StagingInv ==
  /\ StagingTypes
  /\ IsFiniteSet(imports) /\ IsFiniteSet(Staged)
  /\ StagingIsAccounted
  /\ \A t \in Token : imported[t] # 0 => inspection[t] = "ended"

\* A token has as many bytes of its own as its size says.
LEMMA BytesOfOne ==
  ASSUME NEW t \in Token, size[t] \in Nat
  PROVE  IsFiniteSet(BytesOf(t)) /\ Cardinality(BytesOf(t)) = size[t]
<1>1. IsFiniteSet(1..size[t]) /\ Cardinality(1..size[t]) = size[t]
  BY FS_Interval
<1>2. IsFiniteSet({t}) /\ Cardinality({t}) = 1
  BY FS_Singleton
<1>3. IsFiniteSet({t} \X (1..size[t])) /\ Cardinality({t} \X (1..size[t])) = 1 * size[t]
  BY <1>1, <1>2, FS_Product
<1> QED
  BY <1>3 DEF BytesOf

\* A token entering the map adds its bytes.
LEMMA StagingAddsItsBytes ==
  ASSUME StagingInv, NEW t \in Token, t \notin imports,
         imports' = imports \cup {t}, size' = size
  PROVE  /\ IsFiniteSet(imports') /\ Cardinality(imports') = Cardinality(imports) + 1
         /\ IsFiniteSet(Staged') /\ Cardinality(Staged') = Cardinality(Staged) + size[t]
<1>1. IsFiniteSet(imports') /\ Cardinality(imports') = Cardinality(imports) + 1
  BY FS_AddElement DEF StagingInv
<1>2. Staged' = Staged \cup BytesOf(t)
  BY DEF Staged, BytesOf
<1>3. Staged \cap BytesOf(t) = {}
  BY DEF Staged, BytesOf
<1>4. size[t] \in Nat
  BY DEF StagingInv, StagingTypes
<1>5. IsFiniteSet(Staged) /\ Cardinality(Staged) \in Nat
  BY FS_CardinalityType DEF StagingInv
<1>6. IsFiniteSet(BytesOf(t)) /\ Cardinality(BytesOf(t)) = size[t]
  BY <1>4, BytesOfOne
<1>7. /\ IsFiniteSet(Staged \cup BytesOf(t))
      /\ Cardinality(Staged \cup BytesOf(t))
           = Cardinality(Staged) + size[t] - Cardinality(Staged \cap BytesOf(t))
  BY <1>5, <1>6, FS_Union
<1>8. Cardinality(Staged \cap BytesOf(t)) = 0
  BY <1>3, FS_EmptySet, Zenon
<1>9. Cardinality(Staged \cup BytesOf(t)) = Cardinality(Staged) + size[t]
  BY <1>4, <1>5, <1>7, <1>8
<1> HIDE DEF Staged, BytesOf
<1> QED
  BY <1>1, <1>2, <1>7, <1>9, Zenon

\* A token leaving the map takes its bytes along.
LEMMA UnstagingTakesItsBytes ==
  ASSUME StagingInv, NEW t \in Token, t \in imports,
         imports' = imports \ {t}, size' = size
  PROVE  /\ IsFiniteSet(imports') /\ Cardinality(imports') = Cardinality(imports) - 1
         /\ IsFiniteSet(Staged') /\ Cardinality(Staged') = Cardinality(Staged) - size[t]
<1>1. IsFiniteSet(imports') /\ Cardinality(imports') = Cardinality(imports) - 1
  BY FS_RemoveElement DEF StagingInv
<1>2. Staged' = Staged \ BytesOf(t)
  BY DEF Staged, BytesOf
<1>3. Staged \cap BytesOf(t) = BytesOf(t)
  BY DEF Staged, BytesOf
<1>4. size[t] \in Nat
  BY DEF StagingInv, StagingTypes
<1>5. /\ IsFiniteSet(Staged')
      /\ Cardinality(Staged') = Cardinality(Staged) - Cardinality(BytesOf(t))
  BY <1>2, <1>3, FS_Difference DEF StagingInv
<1> QED
  BY <1>1, <1>4, <1>5, BytesOfOne

\* Steps that leave the map and its tokens' sizes alone leave the bytes alone.
LEMMA OtherBytesStay ==
  ASSUME imports' = imports, \A t \in imports : size'[t] = size[t]
  PROVE  Staged' = Staged
BY DEF Staged, BytesOf

\* Every step keeps the books of the staged imports.
LEMMA StagingStep == StagingInv /\ [StagingNext]_stagingVars => StagingInv'
<1> SUFFICES ASSUME StagingInv, [StagingNext]_stagingVars PROVE StagingInv'
  OBVIOUS
<1> USE ImportStagingAssumption DEF StagedAs
<1>t. StagingTypes /\ StagingIsAccounted
  BY DEF StagingInv
<1>n. stagedBytes \in Nat /\ Cardinality(imports) \in Nat
  BY FS_CardinalityType DEF StagingInv, StagingIsAccounted
<1>1. ASSUME NEW t \in Token, InspectFile(t) PROVE StagingInv'
  <2>1. Staged' = Staged
    BY <1>1, <1>t, OtherBytesStay DEF InspectFile, StagingTypes, StagingIsAccounted
  <2> QED
    BY <1>1, <2>1 DEF InspectFile, StagingInv, StagingTypes, StagingIsAccounted
<1>2. ASSUME NEW t \in Token, CopySource(t) PROVE StagingInv'
  <2>1. Staged' = Staged
    BY <1>2, <1>t, OtherBytesStay DEF CopySource, StagingTypes, StagingIsAccounted
  <2> QED
    BY <1>2, <2>1 DEF CopySource, StagingInv, StagingTypes, StagingIsAccounted
<1>3. ASSUME NEW t \in Token, ReadStaged(t) PROVE StagingInv'
  <2>1. Staged' = Staged
    BY <1>3, OtherBytesStay DEF ReadStaged
  <2> QED
    BY <1>3, <2>1 DEF ReadStaged, StagingInv, StagingTypes, StagingIsAccounted
<1>4. ASSUME NEW t \in Token, StageImport(t) PROVE StagingInv'
  <2>1. /\ IsFiniteSet(imports') /\ Cardinality(imports') = Cardinality(imports) + 1
        /\ IsFiniteSet(Staged') /\ Cardinality(Staged') = Cardinality(Staged) + size[t]
    BY <1>4, <1>t, StagingAddsItsBytes DEF StageImport, StagingIsAccounted
  <2> QED
    BY <1>4, <1>n, <2>1
    DEF StageImport, HasRoom, StagingInv, StagingTypes, StagingIsAccounted
<1>5. ASSUME NEW t \in Token, FailInspection(t) PROVE StagingInv'
  <2>1. Staged' = Staged
    BY <1>5, OtherBytesStay DEF FailInspection
  <2> QED
    BY <1>5, <2>1 DEF FailInspection, StagingInv, StagingTypes, StagingIsAccounted
<1>6. ASSUME NEW t \in Token, t \in imports, Unstage(t), size' = size,
             UNCHANGED disposed
      PROVE  /\ IsFiniteSet(imports') /\ IsFiniteSet(Staged')
             /\ stagedBytes' = Cardinality(Staged')
             /\ stagedBytes' <= MaxStagedBytes
             /\ Cardinality(imports') <= MaxActiveTokens
             /\ imports' = imports \ {t}
  <2>1. /\ IsFiniteSet(imports') /\ Cardinality(imports') = Cardinality(imports) - 1
        /\ IsFiniteSet(Staged') /\ Cardinality(Staged') = Cardinality(Staged) - size[t]
    BY <1>6, UnstagingTakesItsBytes DEF Unstage
  <2> QED
    BY <1>6, <1>n, <1>t, <2>1 DEF Unstage, StagingTypes, StagingIsAccounted
<1>7. ASSUME NEW t \in Token, CommitImport(t) PROVE StagingInv'
  <2>1. t \in imports /\ Unstage(t) /\ size' = size /\ UNCHANGED disposed
    BY <1>7 DEF CommitImport
  <2> QED
    BY <1>7, <1>6, <2>1 DEF CommitImport, StagingInv, StagingTypes, StagingIsAccounted
<1>8. ASSUME NEW t \in Token, CommitLate(t) PROVE StagingInv'
  <2>1. t \in imports /\ Unstage(t) /\ size' = size /\ UNCHANGED disposed
    BY <1>8 DEF CommitLate
  <2> QED
    BY <1>8, <1>6, <2>1 DEF CommitLate, StagingInv, StagingTypes, StagingIsAccounted
<1>9. ASSUME NEW t \in Token, FinishImport(t) PROVE StagingInv'
  <2>1. Staged' = Staged
    BY <1>9, OtherBytesStay DEF FinishImport
  <2> QED
    BY <1>9, <2>1 DEF FinishImport, StagingInv, StagingTypes, StagingIsAccounted
<1>10. ASSUME NEW t \in Token, CancelImport(t) PROVE StagingInv'
  <2>1. t \in imports /\ Unstage(t) /\ size' = size /\ UNCHANGED disposed
    BY <1>10 DEF CancelImport
  <2> QED
    BY <1>10, <1>6, <2>1 DEF CancelImport, StagingInv, StagingTypes, StagingIsAccounted
<1>11. ASSUME NEW t \in Token, TokenLapses(t) PROVE StagingInv'
  <2>1. Staged' = Staged
    BY <1>11, OtherBytesStay DEF TokenLapses
  <2> QED
    BY <1>11, <2>1 DEF TokenLapses, StagingInv, StagingTypes, StagingIsAccounted
<1>12. ASSUME NEW t \in Token, ExpireToken(t) PROVE StagingInv'
  <2>1. t \in imports /\ Unstage(t) /\ size' = size /\ UNCHANGED disposed
    BY <1>12 DEF ExpireToken
  <2> QED
    BY <1>12, <1>6, <2>1 DEF ExpireToken, StagingInv, StagingTypes, StagingIsAccounted
<1>13. ASSUME NEW t \in Token, ForgetTombstone(t) PROVE StagingInv'
  <2>1. Staged' = Staged
    BY <1>13, OtherBytesStay DEF ForgetTombstone
  <2> QED
    BY <1>13, <2>1 DEF ForgetTombstone, StagingInv, StagingTypes, StagingIsAccounted
<1>14. CASE DisposeStaging
  <2>1. Staged' = {}
    BY <1>14 DEF DisposeStaging, Staged
  <2>2. IsFiniteSet({}) /\ Cardinality({}) = 0
    BY FS_EmptySet
  <2> QED
    BY <1>14, <2>1, <2>2 DEF DisposeStaging, StagingInv, StagingTypes, StagingIsAccounted
<1>15. CASE UNCHANGED stagingVars
  <2>1. Staged' = Staged
    BY <1>15, OtherBytesStay DEF stagingVars
  <2> QED
    BY <1>15, <2>1 DEF stagingVars, StagingInv, StagingTypes, StagingIsAccounted
<1> QED
  BY <1>1, <1>2, <1>3, <1>4, <1>5, <1>7, <1>8, <1>9, <1>10, <1>11, <1>12, <1>13, <1>14, <1>15
  DEF StagingNext

\* The tombstones are of tokens, and there are not too many.
Tombstones == expired \in Seq(Token) /\ Len(expired) <= MaxTombstones

\* A sequence without one of its places.
LEMMA WithoutOnePlace ==
  ASSUME NEW S, NEW s \in Seq(S), NEW i \in DOMAIN s
  PROVE  /\ SubSeq(s, 1, i - 1) \o SubSeq(s, i + 1, Len(s)) \in Seq(S)
         /\ Len(SubSeq(s, 1, i - 1) \o SubSeq(s, i + 1, Len(s))) = Len(s) - 1
<1>1. Len(s) \in Nat /\ i \in 1..Len(s) /\ \A j \in 1..Len(s) : s[j] \in S
  BY ElementOfSeq
<1>2. SubSeq(s, 1, i - 1) \in Seq(S) /\ Len(SubSeq(s, 1, i - 1)) = i - 1
  BY <1>1, SubSeqProperties
<1>3. SubSeq(s, i + 1, Len(s)) \in Seq(S) /\ Len(SubSeq(s, i + 1, Len(s))) = Len(s) - i
  BY <1>1, SubSeqProperties
<1> QED
  <2> DEFINE before == SubSeq(s, 1, i - 1)
             after == SubSeq(s, i + 1, Len(s))
  <2>1. before \in Seq(S) /\ after \in Seq(S)
    BY <1>2, <1>3
  <2>2. (i - 1) + (Len(s) - i) = Len(s) - 1
    BY <1>1
  <2>3. Len(before) = i - 1 /\ Len(after) = Len(s) - i
    BY <1>2, <1>3
  <2> HIDE DEF before, after
  <2>4. before \o after \in Seq(S) /\ Len(before \o after) = Len(before) + Len(after)
    BY <2>1, ConcatProperties
  <2> QED
    BY <2>2, <2>3, <2>4 DEF before, after

\* The oldest tombstone makes room for a new one.
LEMMA TombstonesMakeRoom ==
  ASSUME Tombstones, NEW t \in Token, RememberExpired(t)
  PROVE  Tombstones'
<1>1. CASE Len(expired) >= MaxTombstones
  <2>1. Len(expired) \in Nat /\ expired # <<>>
    BY <1>1, ImportStagingAssumption DEF Tombstones
  <2>2. Tail(expired) \in Seq(Token) /\ Len(Tail(expired)) = Len(expired) - 1
    BY <2>1, HeadTailProperties DEF Tombstones
  <2>3. expired' = Append(Tail(expired), t)
    BY <1>1 DEF RememberExpired
  <2> QED
    BY <2>1, <2>2, <2>3, AppendProperties, ImportStagingAssumption DEF Tombstones
<1>2. CASE ~(Len(expired) >= MaxTombstones)
  <2>1. Len(expired) \in Nat /\ expired' = Append(expired, t)
    BY <1>2 DEF Tombstones, RememberExpired
  <2> QED
    BY <1>2, <2>1, AppendProperties, ImportStagingAssumption DEF Tombstones
<1> QED
  BY <1>1, <1>2

\* However tokens expire and are forgotten, few tombstones are kept.
LEMMA TombstonesStay == Tombstones /\ [StagingNext]_stagingVars => Tombstones'
<1> SUFFICES ASSUME Tombstones, [StagingNext]_stagingVars PROVE Tombstones'
  OBVIOUS
<1>1. ASSUME UNCHANGED expired PROVE Tombstones'
  BY <1>1 DEF Tombstones
<1>2. ASSUME NEW t \in Token, CommitLate(t) \/ ExpireToken(t) PROVE Tombstones'
  BY <1>2, TombstonesMakeRoom DEF CommitLate, ExpireToken
<1>3. ASSUME NEW t \in Token, ForgetTombstone(t) PROVE Tombstones'
  <2>1. PICK i \in DOMAIN expired :
          expired' = SubSeq(expired, 1, i - 1) \o SubSeq(expired, i + 1, Len(expired))
    BY <1>3 DEF ForgetTombstone
  <2>2. expired' \in Seq(Token) /\ Len(expired') = Len(expired) - 1
    BY <2>1, WithoutOnePlace DEF Tombstones
  <2>3. Len(expired) \in Nat
    BY DEF Tombstones
  <2> QED
    BY <2>2, <2>3, ImportStagingAssumption DEF Tombstones
<1>4. CASE DisposeStaging
  BY <1>4, ImportStagingAssumption DEF DisposeStaging, Tombstones
<1>5. ASSUME NEW t \in Token,
             \/ InspectFile(t) \/ CopySource(t) \/ ReadStaged(t) \/ StageImport(t)
             \/ FailInspection(t) \/ CommitImport(t) \/ FinishImport(t)
             \/ CancelImport(t) \/ TokenLapses(t)
      PROVE  Tombstones'
  BY <1>5, <1>1 DEF InspectFile, CopySource, ReadStaged, StageImport, FailInspection,
     CommitImport, FinishImport, CancelImport, TokenLapses
<1> QED
  BY <1>1, <1>2, <1>3, <1>4, <1>5 DEF StagingNext, stagingVars

\* What the types of the books leave open.
StagingBounds ==
  /\ Tombstones
  /\ size \in [Token -> FileSizes \cup {0}]
  /\ lapsed \subseteq Token

\* Every step keeps to it: a size is that of a file within the limit.
LEMMA StagingBoundsStep == StagingBounds /\ [StagingNext]_stagingVars => StagingBounds'
<1> SUFFICES ASSUME StagingBounds, [StagingNext]_stagingVars PROVE StagingBounds'
  OBVIOUS
<1>1. Tombstones'
  BY TombstonesStay DEF StagingBounds
<1>2. ASSUME UNCHANGED <<size, lapsed>> PROVE StagingBounds'
  BY <1>1, <1>2 DEF StagingBounds
<1>3. ASSUME NEW t \in Token, InspectFile(t) \/ CopySource(t) PROVE StagingBounds'
  BY <1>1, <1>3 DEF StagingBounds, InspectFile, CopySource
<1>4. ASSUME NEW t \in Token, TokenLapses(t) PROVE StagingBounds'
  BY <1>1, <1>4 DEF StagingBounds, TokenLapses
<1>5. ASSUME NEW t \in Token,
             \/ ReadStaged(t) \/ StageImport(t) \/ FailInspection(t) \/ CommitImport(t)
             \/ CommitLate(t) \/ FinishImport(t) \/ CancelImport(t) \/ ExpireToken(t)
             \/ ForgetTombstone(t)
      PROVE  StagingBounds'
  BY <1>5, <1>2 DEF ReadStaged, StageImport, FailInspection, CommitImport, CommitLate,
     FinishImport, CancelImport, ExpireToken, ForgetTombstone
<1>6. CASE DisposeStaging
  BY <1>6, <1>2 DEF DisposeStaging
<1> QED
  BY <1>2, <1>3, <1>4, <1>5, <1>6 DEF StagingNext, stagingVars

\* The books begin empty.
LEMMA StagingBegin == StagingInit => StagingInv /\ StagingBounds
<1> SUFFICES ASSUME StagingInit PROVE StagingInv /\ StagingBounds
  OBVIOUS
<1>1. Staged = {}
  BY DEF StagingInit, Staged
<1>2. IsFiniteSet({}) /\ Cardinality({}) = 0
  BY FS_EmptySet
<1>3. StagingTypes /\ imports = {} /\ files = {} /\ stagedBytes = 0
  BY DEF StagingInit, StagingTypes
<1>4. \A t \in Token : inspection[t] = "none" /\ imported[t] = 0
  BY DEF StagingInit
<1>5. StagingInv
  BY <1>1, <1>2, <1>3, <1>4, ImportStagingAssumption DEF StagingInv, StagingIsAccounted
<1>6. StagingBounds
  BY ImportStagingAssumption DEF StagingInit, StagingBounds, Tombstones
<1> QED
  BY <1>5, <1>6

\* Both together say what the type invariant does.
LEMMA StagedTypes == StagingInv /\ StagingBounds => StagingTypeInv
<1> SUFFICES ASSUME StagingInv, StagingBounds PROVE StagingTypeInv
  OBVIOUS
<1>1. stagedBytes \in Nat
  BY FS_CardinalityType DEF StagingInv, StagingIsAccounted
<1> QED
  BY <1>1 DEF StagingInv, StagingTypes, StagingBounds, Tombstones, StagingTypeInv

\* projectPortabilityCoordinator: the bytes of every token are counted once and
\* given back once, the limits hold, a staged token has its copy, no copy is left
\* behind and an archive is imported at most once.
THEOREM StagedImportsAreAccounted == StagingSpec => []StagingIsAccounted
<1>1. StagingInit => StagingInv
  BY StagingBegin
<1>2. StagingInv => StagingIsAccounted
  BY DEF StagingInv
<1> QED
  BY <1>1, <1>2, StagingStep, PTL DEF StagingSpec

-----------------------------------------------------------------------------
(* The keys *)

\* A file of keys is sound for the plaintext keys and what users expect: a key in
\* it is bound to the endpoint it is meant for, is one its configuration's user
\* may expect, and is nobody else's plaintext.
SoundFile(f) ==
  \A c \in Config :
    f[c].key # NoKey =>
      /\ meant[f[c].key] = f[c].endpoint
      /\ f[c].key \in told[c]
      /\ \A d \in Config : plaintext[d] = f[c].key => d = c

\* Between its two writes a migration has its key in both places; a save has a
\* new key in the file, and a sound file without it to go back to.
BetweenWrites ==
  /\ InStep("migrate") =>
       vault[step.of].key = plaintext[step.of] /\ plaintext[step.of] # NoKey
  /\ InStep("save") =>
       /\ SoundFile(step.before)
       /\ vault[step.of].key # NoKey
       /\ vault = [step.before EXCEPT ![step.of] = vault[step.of]]
       /\ \A c \in Config : step.before[c].key # vault[step.of].key
                            /\ plaintext[c] # vault[step.of].key

\* The keys of a program: no agent exists while a migration is under way.
KeyInv ==
  /\ CredentialsTypeInv
  /\ KeyGoesToItsEndpoint
  /\ SoundFile(vault)
  /\ \A c \in Config : plaintext[c] # NoKey =>
       plaintext[c] \in told[c] /\ \A d \in Config : plaintext[d] = plaintext[c] => d = c
  /\ unmigrated # {} => \A u \in KeyUser : agent[u] = NoAgent
  /\ BetweenWrites

\* The values agents and operations rest in are typed as soon as there is an endpoint.
LEMMA RestingTypes ==
  ASSUME Endpoint # {}
  PROVE  /\ Empty \in [key : Key \cup {NoKey}, endpoint : Endpoint]
         /\ Empty.key = NoKey
         /\ NoAgent \in [at : {"none", "config", "key", "ready"}, of : Config,
                         endpoint : Endpoint, key : Key \cup {NoKey}]
         /\ NoAgent.key = NoKey /\ NoAgent.at = "none"
         /\ Rest \in [op : {"none", "migrate", "save", "delete", "deleteAll"}, of : Config,
                      before : [Config -> [key : Key \cup {NoKey}, endpoint : Endpoint]]]
         /\ Rest.op = "none"
<1> DEFINE E == CHOOSE e \in Endpoint : TRUE
<1>1. E \in Endpoint
  OBVIOUS
<1>2. Empty = [key |-> NoKey, endpoint |-> E]
  BY DEF Empty
<1> HIDE DEF E
<1> QED
  BY <1>1, <1>2, CredentialsAssumption DEF NoAgent, Rest

\* A program begins with sound, empty files.
LEMMA KeyInit == CredentialsInit => KeyInv
<1> SUFFICES ASSUME CredentialsInit PROVE KeyInv
  OBVIOUS
<1>1. Endpoint # {}
  BY CredentialsAssumption DEF CredentialsInit
<1> USE <1>1, RestingTypes
<1> HIDE DEF Empty, NoAgent, Rest
<1>2. /\ vault = [c \in Config |-> Empty] /\ step = Rest
      /\ agent = [u \in KeyUser |-> NoAgent]
      /\ refers = [c \in Config |-> FALSE]
  BY DEF CredentialsInit
<1>3. CredentialsTypeInv
  BY <1>2 DEF CredentialsInit, CredentialsTypeInv, LeftBehind
<1>4. KeyGoesToItsEndpoint /\ SoundFile(vault) /\ BetweenWrites
  BY <1>2 DEF KeyGoesToItsEndpoint, SoundFile, BetweenWrites, InStep
<1>5. \A c \in Config : plaintext[c] # NoKey =>
        plaintext[c] \in told[c] /\ \A d \in Config : plaintext[d] = plaintext[c] => d = c
  BY DEF CredentialsInit, LeftBehind
<1> QED
  BY <1>2, <1>3, <1>4, <1>5 DEF KeyInv

\* Every step of the program, of the migration and of an agent keeps the files sound.
LEMMA KeyStep == KeyInv /\ [CredentialsNext]_credentialVars => KeyInv'
<1> SUFFICES ASSUME KeyInv, [CredentialsNext]_credentialVars PROVE KeyInv'
  OBVIOUS
<1>e. Endpoint # {}
  BY CredentialsAssumption DEF KeyInv, CredentialsTypeInv
<1>r. /\ Empty \in [key : Key \cup {NoKey}, endpoint : Endpoint] /\ Empty.key = NoKey
      /\ NoAgent \in [at : {"none", "config", "key", "ready"}, of : Config,
                      endpoint : Endpoint, key : Key \cup {NoKey}]
      /\ NoAgent.key = NoKey /\ NoAgent.at = "none"
      /\ Rest \in [op : {"none", "migrate", "save", "delete", "deleteAll"}, of : Config,
                   before : [Config -> [key : Key \cup {NoKey}, endpoint : Endpoint]]]
      /\ Rest.op = "none"
  BY <1>e, RestingTypes
<1> HIDE DEF Empty, NoAgent, Rest
<1> USE CredentialsAssumption
    DEF KeyInv, CredentialsTypeInv, KeyGoesToItsEndpoint, SoundFile, BetweenWrites, InStep,
        Serving, Idle
<1>i. Invalidated \in [KeyUser -> [at : {"none", "config", "key", "ready"}, of : Config,
                                   endpoint : Endpoint, key : Key \cup {NoKey}]]
      /\ \A u \in KeyUser : Invalidated[u] \in {agent[u], NoAgent}
  BY <1>r DEF Invalidated
<1> HIDE DEF Invalidated
<1>1. ASSUME NEW c \in Config, LeavePlaintext(c) PROVE KeyInv'
  BY <1>1, <1>r DEF LeavePlaintext
<1>2. ASSUME NEW c \in Config, MigrateKey(c) PROVE KeyInv'
  <2>1. /\ step'.op = "migrate" /\ step'.of = c
        /\ step' \in [op : {"none", "migrate", "save", "delete", "deleteAll"}, of : Config,
                      before : [Config -> [key : Key \cup {NoKey}, endpoint : Endpoint]]]
    BY <1>2, <1>r DEF MigrateKey
  <2>2. CredentialsTypeInv'
    BY <1>2, <2>1 DEF MigrateKey
  <2>3. SoundFile(vault)'
    BY <1>2 DEF MigrateKey
  <2>4. BetweenWrites'
    BY <1>2, <2>1 DEF MigrateKey
  <2>5. \A u \in KeyUser : agent'[u] = NoAgent
    BY <1>2 DEF MigrateKey
  <2> QED
    BY <1>2, <1>r, <2>2, <2>3, <2>4, <2>5 DEF MigrateKey
<1>3. CASE ReplacePlaintext
  <2>1. CredentialsTypeInv'
    BY <1>3, <1>r DEF ReplacePlaintext
  <2>2. \A c \in Config : plaintext'[c] \in {plaintext[c], NoKey}
    BY <1>3 DEF ReplacePlaintext
  <2>3. SoundFile(vault)' /\ KeyGoesToItsEndpoint'
    BY <1>3, <2>2 DEF ReplacePlaintext
  <2>4. BetweenWrites'
    BY <1>3, <1>r DEF ReplacePlaintext
  <2> QED
    BY <1>3, <2>1, <2>2, <2>3, <2>4 DEF ReplacePlaintext
<1>4. ASSUME NEW c \in Config, NEW k \in Key, SaveKey(c, k) PROVE KeyInv'
  <2>f. /\ \A d \in Config : plaintext[d] # k /\ vault[d].key # k
        /\ \A u \in KeyUser : agent[u].key # k
        /\ unmigrated = {}
    BY <1>4 DEF SaveKey, Fresh
  <2>1. CredentialsTypeInv'
    BY <1>4 DEF SaveKey
  <2>2. SoundFile(vault)' /\ SoundFile(vault)
    BY <1>4, <2>f DEF SaveKey
  <2>3. BetweenWrites'
    <3>1. step'.op = "save" /\ step'.of = c /\ step'.before = vault /\ vault'[c].key = k
      BY <1>4 DEF SaveKey
    <3>2. vault' = [step'.before EXCEPT ![step'.of] = vault'[step'.of]]
      BY <1>4, <3>1 DEF SaveKey
    <3>3. \A d \in Config : step'.before[d].key # k /\ plaintext'[d] # k
      BY <1>4, <2>f, <3>1 DEF SaveKey
    <3>4. SoundFile(step.before)'
      BY <1>4, <2>f, <3>1 DEF SaveKey
    <3> QED
      BY <3>1, <3>2, <3>3, <3>4
  <2>4. KeyGoesToItsEndpoint'
    BY <1>4, <2>f DEF SaveKey
  <2> QED
    BY <1>4, <2>f, <2>1, <2>2, <2>3, <2>4 DEF SaveKey
<1>5. CASE CommitReference
  <2>1. CredentialsTypeInv'
    BY <1>5, <1>r, <1>i DEF CommitReference
  <2>2. KeyGoesToItsEndpoint'
    BY <1>5, <1>r, <1>i DEF CommitReference
  <2>3. SoundFile(vault)'
    BY <1>5 DEF CommitReference
  <2>4. BetweenWrites'
    BY <1>5, <1>r DEF CommitReference
  <2> QED
    BY <1>5, <1>i, <2>1, <2>2, <2>3, <2>4 DEF CommitReference
<1>6. CASE RestoreKeys
  <2>1. CredentialsTypeInv'
    BY <1>6, <1>r DEF RestoreKeys
  <2>2. SoundFile(vault)'
    BY <1>6 DEF RestoreKeys
  <2>3. BetweenWrites'
    BY <1>6, <1>r DEF RestoreKeys
  <2> QED
    BY <1>6, <2>1, <2>2, <2>3 DEF RestoreKeys
<1>7. CASE RestoreFails
  BY <1>7, <1>r DEF RestoreFails
<1>8. ASSUME NEW c \in Config, DeleteKey(c) PROVE KeyInv'
  <2>s. step' \in [op : {"none", "migrate", "save", "delete", "deleteAll"}, of : Config,
                      before : [Config -> [key : Key \cup {NoKey}, endpoint : Endpoint]]]
    BY <1>8, <1>r DEF DeleteKey
  <2>k. LeftBehind(c) \subseteq Key
    BY DEF LeftBehind
  <2>1. CredentialsTypeInv'
    BY <1>8, <1>r, <1>i, <2>s, <2>k DEF DeleteKey
  <2>2. KeyGoesToItsEndpoint'
    BY <1>8, <1>r, <1>i DEF DeleteKey
  <2>3. SoundFile(vault)'
    BY <1>8, <1>r DEF DeleteKey
  <2>4. BetweenWrites'
    BY <1>8, <1>r DEF DeleteKey
  <2> QED
    BY <1>8, <1>i, <2>1, <2>2, <2>3, <2>4 DEF DeleteKey, LeftBehind
<1>9. CASE DeleteAllKeys
  <2>s. step' \in [op : {"none", "migrate", "save", "delete", "deleteAll"}, of : Config,
                      before : [Config -> [key : Key \cup {NoKey}, endpoint : Endpoint]]]
    BY <1>9, <1>r DEF DeleteAllKeys
  <2>k. \A c \in Config : LeftBehind(c) \subseteq Key
    BY DEF LeftBehind
  <2>1. CredentialsTypeInv'
    BY <1>9, <1>r, <1>i, <2>s, <2>k DEF DeleteAllKeys
  <2>2. KeyGoesToItsEndpoint'
    BY <1>9, <1>r, <1>i DEF DeleteAllKeys
  <2>3. SoundFile(vault)' /\ BetweenWrites'
    BY <1>9, <1>r DEF DeleteAllKeys
  <2>4. \A c \in Config : plaintext'[c] # NoKey => plaintext'[c] \in told'[c]
    BY <1>9 DEF DeleteAllKeys, LeftBehind
  <2>5. unmigrated' = {} /\ plaintext' = plaintext
    BY <1>9 DEF DeleteAllKeys
  <2>6. \A c, d \in Config : plaintext[c] # NoKey /\ plaintext[d] = plaintext[c] => d = c
    OBVIOUS
  <2> HIDE DEF CredentialsTypeInv, KeyGoesToItsEndpoint, SoundFile, BetweenWrites
  <2> QED
    BY <2>1, <2>2, <2>3, <2>4, <2>5, <2>6
<1>10. CASE ClearReferences
  BY <1>10, <1>r DEF ClearReferences
<1>11. ASSUME NEW c \in Config, ChangeEndpoint(c) PROVE KeyInv'
  BY <1>11 DEF ChangeEndpoint
<1>12. ASSUME NEW u \in KeyUser, NEW c \in Config, RequestAgent(u, c) PROVE KeyInv'
  BY <1>12 DEF RequestAgent
<1>13. ASSUME NEW u \in KeyUser, ResolveKey(u) PROVE KeyInv'
  <2>a. agent' \in [KeyUser -> [at : {"none", "config", "key", "ready"}, of : Config,
                                endpoint : Endpoint, key : Key \cup {NoKey}]]
    <3> DEFINE taken ==
          IF (Stored(agent[u].of) /\ vault[agent[u].of].endpoint = agent[u].endpoint) /\ keyring
          THEN [agent[u] EXCEPT !.at = "key", !.key = vault[agent[u].of].key] ELSE NoAgent
    <3>1. agent' = [agent EXCEPT ![u] = taken]
      BY <1>13 DEF ResolveKey, Resolves
    <3>2. /\ agent[u] \in [at : {"none", "config", "key", "ready"}, of : Config,
                           endpoint : Endpoint, key : Key \cup {NoKey}]
          /\ vault[agent[u].of].key \in Key \cup {NoKey}
      OBVIOUS
    <3>3. taken \in [at : {"none", "config", "key", "ready"}, of : Config,
                    endpoint : Endpoint, key : Key \cup {NoKey}]
      BY <1>r, <3>2
    <3> HIDE DEF taken
    <3> QED
      BY <3>1, <3>3
  <2>1. CredentialsTypeInv'
    BY <1>13, <2>a DEF ResolveKey, Resolves
  <2>2. KeyGoesToItsEndpoint'
    BY <1>13, <1>r DEF ResolveKey, Resolves, Stored
  <2> QED
    BY <1>13, <2>1, <2>2 DEF ResolveKey, Resolves
<1>14. ASSUME NEW u \in KeyUser, AgentMade(u) PROVE KeyInv'
  BY <1>14, <1>r DEF AgentMade
<1>15. ASSUME NEW u \in KeyUser, AgentDone(u) PROVE KeyInv'
  BY <1>15, <1>r DEF AgentDone
<1>16. CASE CredentialsRestart
  BY <1>16, <1>r DEF CredentialsRestart
<1>17. CASE UNCHANGED credentialVars
  BY <1>17 DEF credentialVars
<1> QED
  BY <1>1, <1>2, <1>3, <1>4, <1>5, <1>6, <1>7, <1>8, <1>9, <1>10, <1>11, <1>12, <1>13, <1>14,
     <1>15, <1>16, <1>17 DEF CredentialsNext

\* llmCredentialController, resolveCredential: a key is sent only to the endpoint
\* it was entered for, and a usable key is one its user was told is saved, through
\* failed writes, crashes between two writes and endpoints changed meanwhile.
THEOREM KeysAreUsedAsTold == CredentialsSpec => []KeyIsUsedAsTold
<1>1. KeyInv => KeyIsUsedAsTold
  BY DEF KeyInv, SoundFile, KeyIsUsedAsTold, UsableKeyIsTheOneTold, Usable, Bound, Stored
<1> QED
  BY <1>1, KeyInit, KeyStep, PTL DEF CredentialsSpec

-----------------------------------------------------------------------------
(* Backups                                                                 *)

\* How many members of a set of numbers are not less than x.
Rank(S, x) == Cardinality({y \in S : x <= y})

\* Every place in a finite set of numbers is taken by a member.
LEMMA RanksAreTaken ==
  ASSUME NEW S \in SUBSET Nat, IsFiniteSet(S), NEW k \in 1..Cardinality(S)
  PROVE  \E x \in S : Rank(S, x) = k
<1> DEFINE n == Cardinality(S)
           f == [x \in S |-> Rank(S, x)]
           Above(x) == {y \in S : x <= y}
<1>1. n \in Nat /\ IsFiniteSet(1..n) /\ Cardinality(1..n) = n
  <2>1. n \in Nat
    BY FS_CardinalityType
  <2> HIDE DEF n
  <2> QED
    BY <2>1, FS_Interval
<1>2. ASSUME NEW x \in S
      PROVE  IsFiniteSet(Above(x)) /\ Cardinality(Above(x)) \in 1..n
  <2>1. Above(x) \in SUBSET S /\ x \in Above(x)
    OBVIOUS
  <2>2. IsFiniteSet(Above(x)) /\ Cardinality(Above(x)) <= n
    BY <2>1, FS_Subset
  <2>3. Cardinality(Above(x)) \in Nat /\ Cardinality(Above(x)) # 0
    BY <2>1, <2>2, FS_CardinalityType, FS_EmptySet
  <2> QED
    BY <1>1, <2>2, <2>3
<1>3. ASSUME NEW x \in S, NEW y \in S, x < y
      PROVE  Cardinality(Above(x)) # Cardinality(Above(y))
  <2>n. S \subseteq Nat
    OBVIOUS
  <2>a. ASSUME NEW z \in Above(y) PROVE z \in Above(x)
    <3>1. z \in S /\ y <= z
      OBVIOUS
    <3> QED
      BY <1>3, <2>n, <3>1
  <2>b. x <= x /\ ~(y <= x)
    BY <1>3, <2>n
  <2>1. Above(y) \in SUBSET Above(x) /\ x \in Above(x) /\ x \notin Above(y)
    BY <2>a, <2>b
  <2> QED
    BY <1>2, <2>1, FS_Subset
<1>4. f \in [S -> 1..n] /\ \A x, y \in S : f[x] = f[y] => x = y
  <2>1. f \in [S -> 1..n]
    BY <1>2 DEF Rank
  <2>2. ASSUME NEW x \in S, NEW y \in S, x # y PROVE f[x] # f[y]
    <3>1. x < y \/ y < x
      BY <2>2
    <3> QED
      BY <1>3, <3>1 DEF Rank
  <2> QED
    BY <2>1, <2>2
<1>5. f \in Injection(S, 1..n)
  BY <1>4 DEF Injection, IsInjective
<1>6. f \in Surjection(S, 1..n)
  BY <1>1, <1>5, FS_Injection
<1> QED
  BY <1>6 DEF Surjection

\* A finite set of numbers has a greatest one.
LEMMA GreatestIsThere ==
  ASSUME NEW S \in SUBSET Nat, IsFiniteSet(S), S # {}
  PROVE  \E x \in S : \A y \in S : y <= x
<1>1. Cardinality(S) \in Nat /\ Cardinality(S) # 0
  BY FS_CardinalityType, FS_EmptySet
<1>2. PICK x \in S : Rank(S, x) = 1
  BY <1>1, RanksAreTaken
<1> DEFINE above == {y \in S : x <= y}
<1>3. IsFiniteSet(above) /\ x \in above
  BY FS_Subset
<1>4. PICK z : above = {z}
  BY <1>2, <1>3, FS_Singleton DEF Rank
<1> QED
  BY <1>3, <1>4

\* The members of the first k places are k.
LEMMA FirstPlaces ==
  ASSUME NEW S \in SUBSET Nat, IsFiniteSet(S), NEW k \in Nat, k <= Cardinality(S)
  PROVE  Cardinality({x \in S : Rank(S, x) <= k}) >= k
<1> DEFINE top == {x \in S : Rank(S, x) <= k}
           f == [x \in top |-> Rank(S, x)]
<1>1. IsFiniteSet(top) /\ Cardinality(S) \in Nat
  BY FS_Subset, FS_CardinalityType
<1>2. f \in Surjection(top, 1..k)
  <2>1. ASSUME NEW x \in top PROVE Rank(S, x) \in 1..k
    <3>1. x \in {y \in S : x <= y}
      OBVIOUS
    <3>2. IsFiniteSet({y \in S : x <= y})
      BY FS_Subset
    <3>3. Rank(S, x) \in Nat /\ Rank(S, x) # 0
      BY <3>1, <3>2, FS_CardinalityType, FS_EmptySet DEF Rank
    <3> QED
      BY <3>3
  <2>2. ASSUME NEW m \in 1..k PROVE \E x \in top : f[x] = m
    <3>1. m \in 1..Cardinality(S)
      BY <1>1
    <3>2. PICK x \in S : Rank(S, x) = m
      BY <3>1, RanksAreTaken
    <3> QED
      BY <3>2
  <2> QED
    BY <2>1, <2>2 DEF Surjection
<1>3. IsFiniteSet(1..k) /\ Cardinality(1..k) = k
  BY FS_Interval
<1> QED
  BY <1>1, <1>2, <1>3, FS_Surjection

\* The inductive invariant: every file is of a backup begun, and a policy is a
\* number of backups and an age.
PolicyRead == [maxBackups : Nat, maxAgeDays : Nat]
Reasons == {"manual", "scheduled", "pre-migration", "pre-restore"}
BackupsInv ==
  /\ record \in Seq([reason : Reasons, day : Nat])
  /\ tidyBy \in Seq(PolicyRead) /\ Len(tidyBy) = Len(record)
  /\ dbFiles \cup metaFiles \cup creating \subseteq 1..Len(record)
  /\ policyFile \in PolicyRead
  /\ day \in Nat

\* One backup of an older release is there at first.
LEMMA BackupsBegin == BackupsInit => BackupsInv
<1> SUFFICES ASSUME BackupsInit PROVE BackupsInv
  OBVIOUS
<1>1. record = <<[reason |-> "pre-migration", day |-> 0]>> /\ tidyBy = <<NoPolicy>>
  BY DEF BackupsInit
<1>2. [reason |-> "pre-migration", day |-> 0] \in [reason : Reasons, day : Nat]
  BY DEF Reasons
<1>3. NoPolicy \in PolicyRead
  BY DEF NoPolicy, PolicyRead
<1>4. /\ record \in Seq([reason : Reasons, day : Nat]) /\ Len(record) = 1
      /\ tidyBy \in Seq(PolicyRead) /\ Len(tidyBy) = 1
  BY <1>1, <1>2, <1>3
<1> QED
  BY <1>3, <1>4 DEF BackupsInit, BackupsInv

\* What may be cleaned up: what Tidy takes from the files.
LEMMA TidyTakes ==
  ASSUME NEW policy, Tidy(policy)
  PROVE  /\ dbFiles' \subseteq dbFiles /\ metaFiles' \subseteq metaFiles
         /\ Listed' \subseteq Listed /\ Retained(policy) \cap Listed \subseteq Listed'
         /\ applied' = policy
BY DEF Tidy, Listed

\* The policies there are can be read.
LEMMA PoliciesRead ==
  /\ NoPolicy \in PolicyRead /\ DefaultPolicy \in PolicyRead
  /\ Policies \subseteq PolicyRead
BY BackupsAssumption DEF NoPolicy, PolicyRead

\* Every operation keeps the invariant.
LEMMA BackupsStep ==
  ASSUME BackupsInv, BackupsNext PROVE BackupsInv'
<1> DEFINE Facts == [reason : Reasons, day : Nat]
<1>t. /\ record \in Seq(Facts) /\ tidyBy \in Seq(PolicyRead) /\ Len(tidyBy) = Len(record)
      /\ dbFiles \cup metaFiles \cup creating \subseteq 1..Len(record)
      /\ policyFile \in PolicyRead /\ day \in Nat
  BY DEF BackupsInv
<1>p. Policy \in PolicyRead
  BY <1>t, PoliciesRead DEF Policy
<1>1. ASSUME NEW reason \in Reasons, NEW policy \in PolicyRead, Begin(reason, policy),
             UNCHANGED <<dbFiles, metaFiles, policyFile, day>>
      PROVE  BackupsInv'
  <2> DEFINE begins == [reason |-> reason, day |-> day]
  <2>1. begins \in Facts
    BY <1>t
  <2> HIDE DEF begins, Facts
  <2>2. record' = Append(record, begins) /\ tidyBy' = Append(tidyBy, policy)
    BY <1>1 DEF Begin, begins
  <2>3. /\ record' \in Seq(Facts) /\ Len(record') = Len(record) + 1
        /\ tidyBy' \in Seq(PolicyRead) /\ Len(tidyBy') = Len(tidyBy) + 1
    BY <1>t, <2>1, <2>2
  <2>4. dbFiles' \cup metaFiles' \cup creating' \subseteq 1..Len(record')
    <3>1. Len(record) \in Nat
      BY <1>t
    <3>2. creating' = creating \cup {Len(record) + 1}
      BY <1>1 DEF Begin
    <3> QED
      BY <1>t, <1>1, <2>3, <3>1, <3>2
  <2> QED
    BY <1>t, <1>1, <2>3, <2>4 DEF BackupsInv, Facts
<1>2. ASSUME UNCHANGED <<record, tidyBy>>,
             dbFiles' \cup metaFiles' \cup creating' \subseteq dbFiles \cup metaFiles \cup creating,
             policyFile' \in PolicyRead, day' \in Nat
      PROVE  BackupsInv'
  BY <1>2, <1>t DEF BackupsInv
<1>r. /\ "manual" \in Reasons /\ "scheduled" \in Reasons /\ "pre-restore" \in Reasons
  BY DEF Reasons
<1>3. CASE StartScheduled
  BY <1>3, <1>1, <1>p, <1>r DEF StartScheduled
<1>4. CASE StartTidy
  BY <1>4, <1>2, <1>t, TidyTakes DEF StartTidy
<1>5. CASE CreateManual
  BY <1>5, <1>1, <1>p, <1>r DEF CreateManual
<1>6. CASE CreatePreRestore
  BY <1>6, <1>1, <1>r, PoliciesRead DEF CreatePreRestore
<1>7. CASE UpdatePolicy
  <2>1. PICK policy \in Policies : policyFile' = policy /\ Tidy(policy)
    BY <1>7 DEF UpdatePolicy
  <2> QED
    BY <1>7, <2>1, <1>2, <1>t, TidyTakes, PoliciesRead DEF UpdatePolicy
<1>8. CASE LosePolicy
  BY <1>8, <1>2, <1>t, PoliciesRead DEF LosePolicy
<1>9. ASSUME NEW b \in BackupId, FinishCreate(b) PROVE BackupsInv'
  BY <1>9, <1>2, <1>t DEF FinishCreate
<1>10. ASSUME NEW b \in BackupId, FinishTidy(b) PROVE BackupsInv'
  BY <1>10, <1>2, <1>t, TidyTakes DEF FinishTidy
<1>11. ASSUME NEW b \in BackupId, FailCreate(b) PROVE BackupsInv'
  BY <1>11, <1>2, <1>t DEF FailCreate
<1>12. CASE DayPasses
  BY <1>12, <1>2, <1>t DEF DayPasses
<1>13. CASE StopProgram
  BY <1>13, <1>2, <1>t, PoliciesRead DEF StopProgram
<1> QED
  BY <1>3, <1>4, <1>5, <1>6, <1>7, <1>8, <1>9, <1>10, <1>11, <1>12, <1>13 DEF BackupsNext

\* What the bounds and the turns add: the days are days there have been, and
\* between its renames and its clean-up there is one backup at most.
Days == 0..MaxDays
BackupsBounds ==
  /\ record \in Seq([reason : Reasons, day : Days]) /\ Len(record) <= MaxBackups
  /\ \E b : creating \cap dbFiles \subseteq {b}
  /\ policyFile \in Policies \cup {NoPolicy}
  /\ day \in Days /\ phase \in {"down", "starting", "up"}

\* A creation that begins is of today, and has no file yet.
LEMMA BeginningIsBounded ==
  ASSUME BackupsInv, BackupsBounds, NEW reason \in Reasons, NEW policy,
         Begin(reason, policy), UNCHANGED <<dbFiles, policyFile, day>>,
         phase' \in {"down", "starting", "up"}
  PROVE  BackupsBounds'
<1> DEFINE Facts == [reason : Reasons, day : Days]
           begins == [reason |-> reason, day |-> day]
<1>1. begins \in Facts
  BY DEF BackupsBounds
<1>2. record \in Seq(Facts) /\ Len(record) < MaxBackups /\ Len(record) \in Nat
  BY DEF BackupsBounds, Begin
<1>3. record' = Append(record, begins) /\ creating' = creating \cup {Len(record) + 1}
  BY DEF Begin
<1> HIDE DEF begins, Facts
<1>4. record' \in Seq(Facts) /\ Len(record') = Len(record) + 1
  BY <1>1, <1>2, <1>3, AppendProperties
<1>5. Len(record) + 1 \notin dbFiles
  BY <1>2 DEF BackupsInv
<1>6. creating' \cap dbFiles' = creating \cap dbFiles
  BY <1>3, <1>5
<1>7. Len(record') <= MaxBackups
  BY <1>2, <1>4, BackupsAssumption
<1> QED
  BY <1>4, <1>6, <1>7 DEF BackupsBounds, Facts

\* Every operation keeps the bounds.
LEMMA BackupsBoundsStep ==
  ASSUME BackupsInv, BackupsBounds, BackupsNext PROVE BackupsBounds'
<1>1. ASSUME UNCHANGED record, \E b : creating' \cap dbFiles' \subseteq {b},
             policyFile' \in Policies \cup {NoPolicy}, day' \in Days,
             phase' \in {"down", "starting", "up"}
      PROVE  BackupsBounds'
  BY <1>1 DEF BackupsBounds
<1>2. ASSUME creating' \subseteq creating, dbFiles' \subseteq dbFiles
      PROVE  \E b : creating' \cap dbFiles' \subseteq {b}
  BY <1>2 DEF BackupsBounds
<1>r. /\ "manual" \in Reasons /\ "scheduled" \in Reasons /\ "pre-restore" \in Reasons
      /\ policyFile \in Policies \cup {NoPolicy} /\ day \in Days
      /\ phase \in {"down", "starting", "up"}
  BY DEF Reasons, BackupsBounds
<1>3. CASE StartScheduled
  BY <1>3, <1>r, BeginningIsBounded DEF StartScheduled
<1>4. CASE StartTidy
  BY <1>4, <1>1, <1>2, <1>r, TidyTakes DEF StartTidy
<1>5. CASE CreateManual
  BY <1>5, <1>r, BeginningIsBounded DEF CreateManual
<1>6. CASE CreatePreRestore
  BY <1>6, <1>r, BeginningIsBounded DEF CreatePreRestore
<1>7. CASE UpdatePolicy
  <2>1. PICK policy \in Policies : policyFile' = policy /\ Tidy(policy)
    BY <1>7 DEF UpdatePolicy
  <2> QED
    BY <1>7, <2>1, <1>1, <1>2, <1>r, TidyTakes DEF UpdatePolicy
<1>8. CASE LosePolicy
  BY <1>8, <1>1, <1>2, <1>r DEF LosePolicy
<1>9. ASSUME NEW b \in BackupId, FinishCreate(b) PROVE BackupsBounds'
  <2>1. creating' \cap dbFiles' \subseteq {b}
    BY <1>9 DEF FinishCreate, BackupsTurn
  <2> QED
    BY <1>9, <2>1, <1>1, <1>r DEF FinishCreate
<1>10. ASSUME NEW b \in BackupId, FinishTidy(b) PROVE BackupsBounds'
  BY <1>10, <1>1, <1>2, <1>r, TidyTakes DEF FinishTidy
<1>11. ASSUME NEW b \in BackupId, FailCreate(b) PROVE BackupsBounds'
  BY <1>11, <1>1, <1>2, <1>r DEF FailCreate
<1>12. CASE DayPasses
  <2>1. day' \in Days
    BY <1>12, <1>r, BackupsAssumption DEF DayPasses, Days
  <2> QED
    BY <1>12, <2>1, <1>1, <1>2, <1>r DEF DayPasses
<1>13. CASE StopProgram
  BY <1>13, <1>1, <1>r DEF StopProgram
<1> QED
  BY <1>3, <1>4, <1>5, <1>6, <1>7, <1>8, <1>9, <1>10, <1>11, <1>12, <1>13 DEF BackupsNext

\* They hold of the one backup of an older release.
LEMMA BackupsBoundsBegin == BackupsInit => BackupsBounds
<1> SUFFICES ASSUME BackupsInit PROVE BackupsBounds
  OBVIOUS
<1>1. record = <<[reason |-> "pre-migration", day |-> 0]>>
  BY DEF BackupsInit
<1>2. 0 \in Days
  BY BackupsAssumption DEF Days
<1>3. [reason |-> "pre-migration", day |-> 0] \in [reason : Reasons, day : Days]
  BY <1>2 DEF Reasons
<1>4. record \in Seq([reason : Reasons, day : Days]) /\ Len(record) = 1
  BY <1>1, <1>3
<1>5. 1 <= MaxBackups
  BY BackupsAssumption
<1> QED
  BY <1>2, <1>4, <1>5 DEF BackupsInit, BackupsBounds

\* Both together say what the type invariant does.
LEMMA BackupsTypes == BackupsInv /\ BackupsBounds => BackupsTypeInv
<1> SUFFICES ASSUME BackupsInv, BackupsBounds PROVE BackupsTypeInv
  OBVIOUS
<1>1. DOMAIN record = 1..Len(record)
  BY DEF BackupsInv
<1>2. Cardinality(creating \cap dbFiles) <= 1
  <2>1. PICK b : creating \cap dbFiles \subseteq {b}
    BY DEF BackupsBounds
  <2>2. IsFiniteSet({b}) /\ Cardinality({b}) = 1
    BY FS_Singleton
  <2> QED
    BY <2>1, <2>2, FS_Subset
<1> QED
  BY <1>1, <1>2 DEF BackupsInv, BackupsBounds, BackupsTypeInv, Reasons, Days

\* A clean-up is the only step by which a backup goes.
LEMMA OnlyTidyTakes ==
  ASSUME BackupsInv, BackupsNext, NEW b \in Listed, b \notin Listed'
  PROVE  UNCHANGED <<record, day>> /\ \E policy \in PolicyRead : Tidy(policy)
<1>p. Policy \in PolicyRead
  BY PoliciesRead DEF BackupsInv, Policy
<1>1. CASE StartTidy
  BY <1>1, <1>p DEF StartTidy
<1>2. CASE UpdatePolicy
  BY <1>2, PoliciesRead DEF UpdatePolicy
<1>3. ASSUME NEW c \in BackupId, FinishTidy(c)
      PROVE  UNCHANGED <<record, day>> /\ \E policy \in PolicyRead : Tidy(policy)
  <2>1. tidyBy[c] \in PolicyRead
    BY <1>3 DEF BackupsInv, FinishTidy
  <2> QED
    BY <1>3, <2>1 DEF FinishTidy
<1>4. ASSUME dbFiles \subseteq dbFiles', metaFiles \subseteq metaFiles' PROVE FALSE
  BY <1>4 DEF Listed
<1>5. CASE StartScheduled \/ CreateManual \/ CreatePreRestore \/ LosePolicy \/ DayPasses
  BY <1>4, <1>5 DEF StartScheduled, CreateManual, CreatePreRestore, LosePolicy, DayPasses
<1>6. CASE StopProgram
  BY <1>4, <1>6 DEF StopProgram
<1>7. ASSUME NEW c \in BackupId, FinishCreate(c) \/ FailCreate(c) PROVE FALSE
  BY <1>4, <1>7 DEF FinishCreate, FailCreate
<1> QED
  BY <1>1, <1>2, <1>3, <1>5, <1>6, <1>7, <1>4 DEF BackupsNext

\* The newest of the listed backups of a kind is one, if there is any.
LEMMA NewestIsOne ==
  ASSUME BackupsInv, NEW reason
  PROVE  LET s == OfReason(reason) IN
         /\ IsFiniteSet(s)
         /\ s # {} => \E m \in s : Newest(s) = {m} /\ \A b \in s : b <= m
         /\ Cardinality(Newest(s)) = IF s = {} THEN 0 ELSE 1
<1> DEFINE s == OfReason(reason)
<1>1. s \in SUBSET (1..Len(record)) /\ s \in SUBSET Nat /\ IsFiniteSet(1..Len(record))
  <2>1. Len(record) \in Nat
    BY DEF BackupsInv
  <2>2. s \in SUBSET (1..Len(record))
    BY DEF BackupsInv, OfReason, Listed
  <2> QED
    BY <2>1, <2>2, FS_Interval
<1>2. IsFiniteSet(s)
  BY <1>1, FS_Subset
<1> HIDE DEF s
<1>3. ASSUME s # {} PROVE \E m \in s : Newest(s) = {m} /\ \A b \in s : b <= m
  <2>1. PICK m \in s : \A b \in s : b <= m
    BY <1>1, <1>2, <1>3, GreatestIsThere
  <2>2. ASSUME NEW b \in s, \A c \in s : c <= b PROVE b = m
    <3>1. b <= m /\ m <= b /\ b \in Nat /\ m \in Nat
      BY <1>1, <2>1, <2>2
    <3> QED
      BY <3>1
  <2> QED
    BY <2>1, <2>2 DEF Newest
<1>4. Cardinality(Newest(s)) = IF s = {} THEN 0 ELSE 1
  <2>1. CASE s = {}
    BY <2>1, FS_EmptySet DEF Newest
  <2>2. CASE s # {}
    BY <2>2, <1>3, FS_Singleton
  <2> QED
    BY <2>1, <2>2
<1> QED
  BY <1>2, <1>3, <1>4 DEF s

\* The backups singled out for their kind are no more than the kinds there are.
LEMMA SingledAreFew ==
  ASSUME BackupsInv, NEW policy \in PolicyRead
  PROVE  /\ IsFiniteSet(Singled(policy)) /\ Singled(policy) \subseteq Listed
         /\ Cardinality(Singled(policy))
              <= Cardinality({r \in Singular : OfReason(r) # {}})
<1> DEFINE migration == Newest(OfReason("pre-migration"))
           restore == Newest(OfReason("pre-restore"))
           kinds == {r \in Singular : OfReason(r) # {}}
           none(reason) == OfReason(reason) = {}
<1>1. /\ IsFiniteSet(migration) /\ IsFiniteSet(restore)
      /\ migration \cup restore \subseteq Listed
      /\ Cardinality(migration) = IF none("pre-migration") THEN 0 ELSE 1
      /\ Cardinality(restore) = IF none("pre-restore") THEN 0 ELSE 1
  <2>1. /\ migration \in SUBSET OfReason("pre-migration")
        /\ restore \in SUBSET OfReason("pre-restore")
    BY DEF Newest
  <2>2. OfReason("pre-migration") \subseteq Listed /\ OfReason("pre-restore") \subseteq Listed
    BY DEF OfReason
  <2> QED
    BY <2>1, <2>2, NewestIsOne, FS_Subset
<1>2. /\ Singled(policy) = migration \/ Singled(policy) = migration \cup restore
  BY DEF Singled
<1>3. Cardinality(migration \cup restore) <= Cardinality(migration) + Cardinality(restore)
      /\ IsFiniteSet(migration \cup restore)
  <2>1. /\ IsFiniteSet(migration \cup restore)
        /\ Cardinality(migration \cup restore) =
             Cardinality(migration) + Cardinality(restore) - Cardinality(migration \cap restore)
    BY <1>1, FS_Union
  <2>2. Cardinality(migration \cap restore) \in Nat
    BY <1>1, FS_Intersection, FS_CardinalityType
  <2>3. Cardinality(migration) \in Nat /\ Cardinality(restore) \in Nat
    BY <1>1, FS_CardinalityType
  <2> QED
    BY <2>1, <2>2, <2>3
<1>4. /\ ~none("pre-migration") /\ ~none("pre-restore") => Cardinality(kinds) = 2
      /\ ~none("pre-migration") /\ none("pre-restore") => Cardinality(kinds) = 1
      /\ none("pre-migration") /\ ~none("pre-restore") => Cardinality(kinds) = 1
      /\ none("pre-migration") /\ none("pre-restore") => Cardinality(kinds) = 0
  <2>1. /\ Cardinality({"pre-migration"}) = 1 /\ IsFiniteSet({"pre-migration"})
        /\ Cardinality({"pre-restore"}) = 1 /\ Cardinality({}) = 0
    BY FS_Singleton, FS_EmptySet
  <2>2. Cardinality({"pre-migration"} \cup {"pre-restore"}) = 2
    BY <2>1, FS_AddElement
  <2>3. /\ ~none("pre-migration") /\ ~none("pre-restore") =>
             kinds = {"pre-migration"} \cup {"pre-restore"}
        /\ ~none("pre-migration") /\ none("pre-restore") => kinds = {"pre-migration"}
        /\ none("pre-migration") /\ ~none("pre-restore") => kinds = {"pre-restore"}
        /\ none("pre-migration") /\ none("pre-restore") => kinds = {}
    BY DEF Singular
  <2> QED
    BY <2>1, <2>2, <2>3
<1> HIDE DEF migration, restore, kinds, none
<1>5. Cardinality(Singled(policy)) <= Cardinality(kinds)
  <2>1. CASE Singled(policy) = migration
    BY <1>1, <1>4, <2>1
  <2>2. CASE Singled(policy) = migration \cup restore
    <3>1. Cardinality(migration \cup restore) \in Nat
      BY <1>3, FS_CardinalityType
    <3> QED
      BY <1>1, <1>3, <1>4, <2>2, <3>1
  <2> QED
    BY <1>2, <2>1, <2>2
<1> QED
  BY <1>1, <1>2, <1>3, <1>5 DEF kinds

\* A clean-up that deletes a backup keeps as many newer ones of its kind as the
\* policy has room for.
LEMMA NewerStay ==
  ASSUME BackupsInv, NEW policy \in PolicyRead, Tidy(policy), UNCHANGED record,
         NEW b \in Listed, b \notin Listed', ~Expired(b, policy)
  PROVE  Cardinality({c \in Listed' : c > b /\ record[c].reason = record[b].reason})
           >= Promised(record[b].reason, policy)
<1> DEFINE reason == record[b].reason
           newer == {c \in Listed' : c > b /\ record[c].reason = reason}
<1>1. /\ Retained(policy) \cap Listed \subseteq Listed' /\ Listed' \subseteq Listed
      /\ b \notin Retained(policy) /\ b \notin Singled(policy)
  BY TidyTakes DEF Retained
<1>2. /\ Listed \in SUBSET (1..Len(record)) /\ Len(record) \in Nat /\ reason \in Reasons
      /\ policy.maxBackups \in Nat
  <2>1. Listed \in SUBSET (1..Len(record)) /\ Len(record) \in Nat
    BY DEF BackupsInv, Listed
  <2> DEFINE Facts == [reason : Reasons, day : Nat]
  <2>2. record \in Seq(Facts)
    BY DEF BackupsInv
  <2>3. record[b] \in Facts
    <3> HIDE DEF Facts
    <3> QED
      BY <2>1, <2>2
  <2> QED
    BY <2>1, <2>3 DEF PolicyRead
<1>3. IsFiniteSet(Listed) /\ IsFiniteSet(newer) /\ Cardinality(newer) \in Nat
  <2>1. IsFiniteSet(1..Len(record))
    BY <1>2, FS_Interval
  <2>2. IsFiniteSet(Listed)
    BY <1>2, <2>1, FS_Subset
  <2>3. newer \in SUBSET Listed
    BY <1>1
  <2> QED
    BY <2>2, <2>3, FS_Subset, FS_CardinalityType
<1>4. ASSUME reason \in Singular, Newest(OfReason(reason)) \subseteq Singled(policy)
      PROVE  Cardinality(newer) >= 1
  <2>1. b \in OfReason(reason)
    BY DEF OfReason
  <2>2. PICK m \in OfReason(reason) :
          Newest(OfReason(reason)) = {m} /\ \A c \in OfReason(reason) : c <= m
    BY <2>1, NewestIsOne
  <2>n. m \in Listed /\ record[m].reason = reason /\ m \in Nat /\ b \in Nat
    BY <1>2, <2>2 DEF OfReason
  <2>m. m \in Singled(policy) /\ m # b /\ b <= m
    BY <1>1, <1>4, <2>1, <2>2
  <2>3. m \in Singled(policy) /\ m > b /\ m \in Listed /\ record[m].reason = reason
    BY <2>n, <2>m
  <2>4. m \in newer
    BY <1>1, <2>3 DEF Retained
  <2> QED
    BY <1>3, <2>4, FS_EmptySet
<1>5. CASE reason = "pre-migration"
  <2>1. Newest(OfReason(reason)) \subseteq Singled(policy)
    BY <1>5 DEF Singled
  <2> QED
    BY <1>4, <1>5, <2>1 DEF Promised, Singular
<1>6. CASE reason = "pre-restore"
  <2>1. CASE policy.maxBackups > 1
    <3>1. Cardinality(Newest(OfReason("pre-migration"))) <= 1
      BY NewestIsOne
    <3>2. Cardinality(Newest(OfReason("pre-migration"))) \in Nat
      BY NewestIsOne
    <3>3. Newest(OfReason(reason)) \subseteq Singled(policy)
      BY <1>2, <1>6, <2>1, <3>1, <3>2 DEF Singled
    <3> QED
      BY <1>3, <1>4, <1>6, <2>1, <3>3 DEF Promised, Singular
  <2>2. CASE ~(policy.maxBackups > 1)
    BY <1>3, <1>6, <2>2 DEF Promised
  <2> QED
    BY <2>1, <2>2
<1>7. CASE reason = "scheduled"
  BY <1>3, <1>7 DEF Promised
<1>8. CASE reason = "manual"
  <2> DEFINE room == policy.maxBackups - Cardinality(Singled(policy))
             eligible == {c \in Listed \ Singled(policy) : ~Expired(c, policy)}
             manual == {c \in eligible : record[c].reason = "manual"}
             newers == {c \in manual : c > b}
  <2>1. /\ IsFiniteSet(newers) /\ newers \in SUBSET Nat
        /\ Cardinality(Singled(policy)) \in Nat
    <3>0. Listed \subseteq Nat
      BY <1>2
    <3>1. newers \in SUBSET Listed /\ newers \in SUBSET Nat
      BY <3>0
    <3> HIDE DEF newers
    <3> QED
      BY <1>2, <1>3, <3>1, SingledAreFew, FS_Subset, FS_CardinalityType
  <2>2. ASSUME NEW c \in manual
        PROVE  {d \in eligible : Before(d, c)} = {d \in manual : c < d}
    <3>1. ASSUME NEW d \in eligible PROVE Before(d, c) <=> d \in manual /\ c < d
      <4>1. Priority(c) = 0 /\ Priority(d) \in 0..2 /\ (Priority(d) = 0 <=> d \in manual)
        BY DEF Priority
      <4>2. Before(d, c) <=> Priority(d) = 0 /\ d > c
        BY <4>1 DEF Before
      <4>3. c \in Nat /\ d \in Nat
        BY <1>2
      <4> QED
        BY <4>1, <4>2, <4>3
    <3> QED
      BY <3>1
  <2>3. b \in manual /\ Cardinality(newers) >= room
    <3>1. b \in manual
      BY <1>1, <1>8
    <3>2. ~(Cardinality({d \in eligible : Before(d, b)}) < room)
      BY <1>1, <3>1 DEF Retained
    <3>3. newers = {d \in manual : b < d}
      BY <1>2
    <3>4. Cardinality(newers) \in Nat /\ room \in Int
      BY <1>2, <2>1, FS_CardinalityType
    <3>5. {d \in eligible : Before(d, b)} = newers
      BY <2>2, <3>1, <3>3
    <3>6. ~(Cardinality(newers) < room)
      BY <3>2, <3>5
    <3> HIDE DEF newers, room, manual
    <3> QED
      BY <3>1, <3>4, <3>6
  <2>4. Promised(reason, policy) <= room
    <3> DEFINE kinds == {r \in Singular : OfReason(r) # {}}
    <3>1. Promised(reason, policy) = policy.maxBackups - Cardinality(kinds)
      BY <1>8 DEF Promised
    <3>2. Cardinality(Singled(policy)) <= Cardinality(kinds)
      BY SingledAreFew
    <3>3. Cardinality(kinds) \in Nat
      <4>1. IsFiniteSet({"pre-migration"}) /\ IsFiniteSet({"pre-migration"} \cup {"pre-restore"})
        BY FS_Singleton, FS_AddElement
      <4>2. kinds \in SUBSET ({"pre-migration"} \cup {"pre-restore"})
        BY DEF Singular
      <4> QED
        BY <4>1, <4>2, FS_Subset, FS_CardinalityType
    <3> QED
      BY <1>2, <2>1, <3>1, <3>2, <3>3
  <2>i. room \in Int /\ Promised(reason, policy) \in Int
    <3>1. IsFiniteSet({"pre-migration"}) /\ IsFiniteSet({"pre-migration"} \cup {"pre-restore"})
      BY FS_Singleton, FS_AddElement
    <3>2. {r \in Singular : OfReason(r) # {}} \in SUBSET ({"pre-migration"} \cup {"pre-restore"})
      BY DEF Singular
    <3>3. Cardinality({r \in Singular : OfReason(r) # {}}) \in Nat
      BY <3>1, <3>2, FS_Subset, FS_CardinalityType
    <3> QED
      BY <1>2, <1>8, <2>1, <3>3 DEF Promised
  <2>5. CASE room <= 0
    <3> HIDE DEF room
    <3> QED
      BY <1>3, <2>4, <2>i, <2>5
  <2>6. CASE room > 0
    <3> DEFINE top == {c \in newers : Rank(newers, c) <= room}
    <3>1. Cardinality(top) >= room
      <4>1. room \in Nat
        BY <1>2, <2>1, <2>6
      <4> HIDE DEF room, newers
      <4> QED
        BY <2>1, <2>3, <4>1, FirstPlaces
    <3>2. ASSUME NEW c \in top PROVE c \in Retained(policy)
      <4>1. c \in manual /\ c > b
        OBVIOUS
      <4> DEFINE above == {d \in manual : c < d}
                 upto == {d \in newers : c <= d}
      <4>2. upto = above \cup {c} /\ c \notin above
        <5>1. ASSUME NEW d \in manual
              PROVE  /\ c <= d <=> c < d \/ c = d
                     /\ c < d => d > b
          BY <1>2, <4>1
        <5>2. c <= c /\ ~(c < c)
          BY <1>2, <4>1
        <5> QED
          BY <4>1, <5>1, <5>2
      <4>3. IsFiniteSet(above)
        <5>1. above \in SUBSET Listed
          OBVIOUS
        <5> QED
          BY <1>3, <5>1, FS_Subset
      <4>4. Cardinality(upto) = Cardinality(above) + 1 /\ Cardinality(above) \in Nat
        BY <4>2, <4>3, FS_AddElement, FS_CardinalityType
      <4>5. Cardinality(upto) <= room
        BY DEF Rank
      <4>6. Cardinality({d \in eligible : Before(d, c)}) < room
        <5>1. room \in Int
          BY <1>2, <2>1
        <5>2. {d \in eligible : Before(d, c)} = above
          BY <2>2, <4>1
        <5>3. Cardinality(above) < room
          <6> HIDE DEF above, upto, room
          <6> QED
            BY <4>4, <4>5, <5>1
        <5> QED
          BY <5>2, <5>3
      <4> QED
        BY <4>1, <4>6 DEF Retained
    <3>3. top \in SUBSET newer
      <4>1. ASSUME NEW c \in top PROVE c \in newer
        <5>0. c \in newers
          OBVIOUS
        <5>1. c \in Listed /\ c > b /\ record[c].reason = reason
          BY <1>8, <5>0
        <5>2. c \in Retained(policy)
          BY <3>2
        <5>3. c \in Listed'
          BY <1>1, <5>1, <5>2
        <5> QED
          BY <5>1, <5>3
      <4> QED
        BY <4>1
    <3>4. Cardinality(top) <= Cardinality(newer) /\ Cardinality(top) \in Nat
      BY <1>3, <3>3, FS_Subset, FS_CardinalityType
    <3> QED
      BY <1>3, <2>4, <2>i, <3>1, <3>4
  <2> QED
    BY <1>2, <2>1, <2>5, <2>6
<1> QED
  BY <1>2, <1>5, <1>6, <1>7, <1>8 DEF Reasons

\* pruneBackups, after a creation, a change of the policy and at the start: under any
\* policy, and whichever files refuse to go, a backup that is not too old goes only
\* when as many newer ones of its kind stay as the policy has room for.
THEOREM NewerBackupsStay == BackupsSpec => NewerOnesStay
<1>1. BackupsInv /\ [BackupsNext]_backupVars => BackupsInv'
  BY BackupsStep DEF BackupsInv, backupVars
<1>2. BackupsInv /\ [BackupsNext]_backupVars =>
        [\A b \in Listed \ (dbFiles' \cap metaFiles') :
           \/ Expired(b, applied')
           \/ Cardinality({c \in dbFiles' \cap metaFiles' :
                             c > b /\ record[c].reason = record[b].reason})
                >= Promised(record[b].reason, applied')]_backupVars
  <2> SUFFICES ASSUME BackupsInv, BackupsNext,
                      NEW b \in Listed, b \notin Listed', ~Expired(b, applied')
               PROVE  Cardinality({c \in Listed' : c > b /\ record[c].reason = record[b].reason})
                        >= Promised(record[b].reason, applied')
    BY DEF Listed
  <2>1. PICK policy \in PolicyRead : Tidy(policy)
    BY OnlyTidyTakes
  <2>2. UNCHANGED record /\ applied' = policy
    BY <2>1, OnlyTidyTakes, TidyTakes
  <2> QED
    BY <2>1, <2>2, NewerStay
<1> QED
  BY <1>1, <1>2, BackupsBegin, PTL DEF BackupsSpec, NewerOnesStay

-----------------------------------------------------------------------------
(* The archive of a project *)

\* What an export does to a cell: the archive's schema takes what it writes, and
\* settings are readable and portable.
Exportable(c, v) ==
  /\ ToArchiveRow(c, v) \in CheckColumn(c.kind)
  /\ c.column = "settings_json" =>
       ~ConfigurationUnreadable(v) /\ ConfigurationIsPortable(ToArchiveRow(c, v))

\* A column whose plain value is carried as it is, and whose other values are
\* carried unless the invariant names them, all the same at a second export.
ColumnIsSound(c) ==
  /\ c.plain \in CheckColumn(c.kind) /\ ToArchiveRow(c, c.plain) = c.plain
  /\ c.column = "settings_json" => ConfigurationIsPortable(c.plain)
  /\ \A v \in Accepts(c.make) \cup Accepts(c.change) :
       /\ ToArchiveRow(c, ToArchiveRow(c, v)) = ToArchiveRow(c, v)
       /\ ToArchiveRow(c, v) # v => StaysBehind(c)
       /\ Exportable(c, v)
            <=> (Unportable(c, v) => StaysBehind(c) /\ c.column # "settings_json")

\* The columns that an export copies: reader and schema agree but for what
\* Unportable names.
Unfit(kind, v) ==
  \/ v \in {"tome", "vast", "deep", "no endpoint", "long items", "twice"}
  \/ v \in {"page", "book"} /\ kind \in {"string", "nonEmptyString"}
  \/ v = "empty" /\ kind = "nonEmptyString"
ReaderFits(reader, kind) == \A v \in Accepts(reader) : v \in CheckColumn(kind) <=> ~Unfit(kind, v)
CopiedFrom(make, change, plain, kind) ==
  /\ kind # "date" /\ plain \in CheckColumn(kind)
  /\ ReaderFits(make, kind) /\ ReaderFits(change, kind)
Changed == {"crush_slug", "fragment_id", "uri", "settings_json", "created_at"}

\* Such columns are sound.
LEMMA CopiedColumns ==
  ASSUME NEW tables, NEW names, NEW make, NEW change, NEW plain, NEW kind,
         CopiedFrom(make, change, plain, kind), \A n \in names : n \notin Changed
  PROVE  \A c \in Of(tables, names, make, change, plain, kind) : ColumnIsSound(c)
<1> TAKE c \in Of(tables, names, make, change, plain, kind)
<1>1. PICK t \in tables, n \in names :
        c = [table |-> t, column |-> n, make |-> make, change |-> change,
             plain |-> plain, kind |-> kind]
  BY DEF Of
<1>2. /\ c.column \notin Changed /\ c.make = make /\ c.change = change
      /\ c.plain = plain /\ c.kind = kind
  BY <1>1
<1>3. \A v : ToArchiveRow(c, v) = v
  BY <1>2 DEF ToArchiveRow, Changed, CopiedFrom
<1>4. \A v : Unportable(c, v) <=> Unfit(kind, v)
  BY <1>2 DEF Unportable, Unfit
<1>5. c.column # "settings_json" /\ ~StaysBehind(c)
  BY <1>2 DEF Changed, StaysBehind
<1>6. ASSUME NEW v \in Accepts(make) \cup Accepts(change)
      PROVE  v \in CheckColumn(kind) <=> ~Unfit(kind, v)
  BY DEF CopiedFrom, ReaderFits
<1> QED
  BY <1>2, <1>3, <1>4, <1>5, <1>6 DEF ColumnIsSound, Exportable, CopiedFrom

\* Which reader goes with which kind of the archive: for texts,
LEMMA TextsAreCarried ==
  /\ CopiedFrom("readString", "readOptionalString", "name", "nonEmptyString")
  /\ CopiedFrom("readString", "readOptionalString", "name", "string")
  /\ CopiedFrom("readOptionalString", "readOptionalString", "empty", "longString")
  /\ CopiedFrom("readOptionalString", "readOptionalString", "empty", "string")
  /\ CopiedFrom("readOptionalString", "readOptionalString", "name", "string")
  /\ CopiedFrom("readOptionalString", "readOptionalString", "line", "longString")
  /\ CopiedFrom("readString", "readString", "name", "string")
  /\ CopiedFrom("readString", "readString", "page", "longString")
<1> USE DEF CopiedFrom, ReaderFits, Accepts, CheckColumn, Unfit, Prose, WrittenTexts
<1>1. CopiedFrom("readString", "readOptionalString", "name", "nonEmptyString")
  OBVIOUS
<1>2. CopiedFrom("readString", "readOptionalString", "name", "string")
  OBVIOUS
<1>3. CopiedFrom("readOptionalString", "readOptionalString", "empty", "longString")
  OBVIOUS
<1>4. CopiedFrom("readOptionalString", "readOptionalString", "empty", "string")
  OBVIOUS
<1>5. CopiedFrom("readOptionalString", "readOptionalString", "name", "string")
  OBVIOUS
<1>6. CopiedFrom("readOptionalString", "readOptionalString", "line", "longString")
  OBVIOUS
<1>7. CopiedFrom("readString", "readString", "name", "string")
  OBVIOUS
<1>8. CopiedFrom("readString", "readString", "page", "longString")
  OBVIOUS
<1> QED  BY <1>1, <1>2, <1>3, <1>4, <1>5, <1>6, <1>7, <1>8

\* for numbers,
LEMMA NumbersAreCarried ==
  /\ CopiedFrom("readOptionalNullableInteger 1", "readOptionalNullableInteger 1", "null",
                "nullableNumber")
  /\ CopiedFrom("readOptionalNullableInteger 1", "readOptionalNullableInteger 1", "null",
                "nullablePositiveInteger")
  /\ CopiedFrom("readOptionalInteger 1", "readOptionalInteger 1", "one", "positiveInteger")
  /\ CopiedFrom("readOptionalInteger 0", "readOptionalInteger 0", "one",
                "nonNegativeInteger")
  /\ CopiedFrom("readOptionalInteger 0", "readOptionalInteger 0", "zero", "number")
  /\ CopiedFrom("readOptionalNumber", "readOptionalNumber", "null", "nullableNumber")
  /\ CopiedFrom("clampConfidence", "clampConfidence", "half", "unitNumber")
<1> USE DEF CopiedFrom, ReaderFits, Accepts, CheckColumn, Unfit, Numbers
<1>1. CopiedFrom("readOptionalNullableInteger 1", "readOptionalNullableInteger 1", "null",
                 "nullableNumber")
  OBVIOUS
<1>2. CopiedFrom("readOptionalNullableInteger 1", "readOptionalNullableInteger 1", "null",
                 "nullablePositiveInteger")
  OBVIOUS
<1>3. CopiedFrom("readOptionalInteger 1", "readOptionalInteger 1", "one", "positiveInteger")
  OBVIOUS
<1>4. CopiedFrom("readOptionalInteger 0", "readOptionalInteger 0", "one",
                 "nonNegativeInteger")
  OBVIOUS
<1>5. CopiedFrom("readOptionalInteger 0", "readOptionalInteger 0", "zero", "number")
  OBVIOUS
<1>6. CopiedFrom("readOptionalNumber", "readOptionalNumber", "null", "nullableNumber")
  OBVIOUS
<1>7. CopiedFrom("clampConfidence", "clampConfidence", "half", "unitNumber")
  OBVIOUS
<1> QED  BY <1>1, <1>2, <1>3, <1>4, <1>5, <1>6, <1>7

\* for the words of a state,
LEMMA StatusesAreCarried ==
  /\ CopiedFrom("parseProjectStatus", "parseProjectStatus", "active", "projectStatus")
  /\ CopiedFrom("parseVolumeStatus", "parseVolumeStatus", "planned", "volumeStatus")
  /\ CopiedFrom("outline actions", "outline actions", "draft", "outlineStatus")
  /\ CopiedFrom("chapter stages", "chapter stages", "planned", "chapterStatus")
  /\ CopiedFrom("version actions", "version actions", "review", "versionStatus")
  /\ CopiedFrom("revision operations", "revision operations", "polish", "revisionOperation")
  /\ CopiedFrom("foreshadowTransitions", "foreshadowTransitions", "suggested",
                "foreshadowStatus")
  /\ CopiedFrom("eventTypes", "eventTypes", "suggested", "foreshadowEventType")
  /\ CopiedFrom("memory type", "memory type", "event", "memoryType")
  /\ CopiedFrom("proposal actions", "proposal actions", "proposed", "proposalStatus")
<1> USE DEF CopiedFrom, ReaderFits, Accepts, CheckColumn, Unfit
<1>1. CopiedFrom("parseProjectStatus", "parseProjectStatus", "active", "projectStatus")
  OBVIOUS
<1>2. CopiedFrom("parseVolumeStatus", "parseVolumeStatus", "planned", "volumeStatus")
  OBVIOUS
<1>3. CopiedFrom("outline actions", "outline actions", "draft", "outlineStatus")
  OBVIOUS
<1>4. CopiedFrom("chapter stages", "chapter stages", "planned", "chapterStatus")
  OBVIOUS
<1>5. CopiedFrom("version actions", "version actions", "review", "versionStatus")
  OBVIOUS
<1>6. CopiedFrom("revision operations", "revision operations", "polish",
                 "revisionOperation")
  OBVIOUS
<1>7. CopiedFrom("foreshadowTransitions", "foreshadowTransitions", "suggested",
                 "foreshadowStatus")
  OBVIOUS
<1>8. CopiedFrom("eventTypes", "eventTypes", "suggested", "foreshadowEventType")
  OBVIOUS
<1>9. CopiedFrom("memory type", "memory type", "event", "memoryType")
  OBVIOUS
<1>10. CopiedFrom("proposal actions", "proposal actions", "proposed", "proposalStatus")
  OBVIOUS
<1> QED  BY <1>1, <1>2, <1>3, <1>4, <1>5, <1>6, <1>7, <1>8, <1>9, <1>10

\* and for objects and lists.
LEMMA ObjectsAreCarried ==
  /\ CopiedFrom("readOptionalJsonObject", "readOptionalJsonObject", "object", "json")
  /\ CopiedFrom("readOptionalArrayOfStrings", "readOptionalArrayOfStrings", "none",
                "stringArray")
  /\ CopiedFrom("evidence", "evidence", "list", "stringArray")
<1> USE DEF CopiedFrom, ReaderFits, Accepts, CheckColumn, Unfit, Objects, Settings, Lists
<1>1. CopiedFrom("readOptionalJsonObject", "readOptionalJsonObject", "object", "json")
  OBVIOUS
<1>2. CopiedFrom("readOptionalArrayOfStrings", "readOptionalArrayOfStrings", "none",
                 "stringArray")
  OBVIOUS
<1>3. CopiedFrom("evidence", "evidence", "list", "stringArray")
  OBVIOUS
<1> QED  BY <1>1, <1>2, <1>3

\* The columns that an export changes.
LEMMA ChangedColumns ==
  /\ \A c \in Same({"projects"}, {"created_at"}, "clock", "iso", "date") : ColumnIsSound(c)
  /\ \A c \in Same({"project_configs"}, {"settings_json"}, "settings", "object", "json") :
       ColumnIsSound(c)
  /\ \A c \in Same({"characters"}, {"crush_slug"}, "readOptionalNullableString", "null",
                   "nullableString") : ColumnIsSound(c)
  /\ \A c \in Same({"source_materials"}, {"uri"}, "readUri", "null",
                   "nullablePortableUri") : ColumnIsSound(c)
  /\ \A c \in Same({"source_materials"}, {"fragment_id"}, "readOptionalNullableString",
                   "null", "nullableString") : ColumnIsSound(c)
<1> DEFINE col(t, n, reader, plain, kind) ==
      [table |-> t, column |-> n, make |-> reader, change |-> reader, plain |-> plain,
       kind |-> kind]
<1>1. ASSUME NEW t, NEW n, NEW reader, NEW plain, NEW kind,
             ColumnIsSound(col(t, n, reader, plain, kind))
      PROVE  \A c \in Same({t}, {n}, reader, plain, kind) : ColumnIsSound(c)
  BY <1>1 DEF Same, Of
<1>2. ColumnIsSound(col("projects", "created_at", "clock", "iso", "date"))
  BY DEF ColumnIsSound, Exportable, ToArchiveRow, CheckColumn, Accepts, Unportable,
         StaysBehind, Moments
<1>3. ColumnIsSound(col("project_configs", "settings_json", "settings", "object", "json"))
  <2> DEFINE c == col("project_configs", "settings_json", "settings", "object", "json")
  <2>1. /\ c.column = "settings_json" /\ c.kind = "json" /\ c.plain = "object"
        /\ c.make = "settings" /\ c.change = "settings"
    OBVIOUS
  <2> HIDE DEF c, col
  <2>2. \A v : ToArchiveRow(c, v) = SanitizePortableConfiguration(v)
    BY <2>1 DEF ToArchiveRow
  <2>3. /\ CheckColumn(c.kind) = {"object", "local path", "credential", "endpoint",
                                   "raw endpoint", "no endpoint"}
        /\ Accepts(c.make) \cup Accepts(c.change) = CheckColumn(c.kind) \cup {"deep"}
    BY <2>1 DEF CheckColumn, Accepts, Settings, Objects
  <2>4. ASSUME NEW v \in CheckColumn(c.kind) \cup {"deep"}
        PROVE  /\ SanitizePortableConfiguration(SanitizePortableConfiguration(v))
                    = SanitizePortableConfiguration(v)
               /\ SanitizePortableConfiguration(v) \in CheckColumn(c.kind)
                    /\ ~ConfigurationUnreadable(v)
                    /\ ConfigurationIsPortable(SanitizePortableConfiguration(v))
                    <=> ~Unportable(c, v)
    BY <2>1, <2>3 DEF SanitizePortableConfiguration, ConfigurationIsPortable,
       ConfigurationUnreadable, Unportable
  <2>5. /\ c.plain \in CheckColumn(c.kind) /\ ConfigurationIsPortable(c.plain)
        /\ SanitizePortableConfiguration(c.plain) = c.plain
    BY <2>1, <2>3 DEF SanitizePortableConfiguration, ConfigurationIsPortable
  <2>6. StaysBehind(c)
    BY <2>1 DEF StaysBehind
  <2>7. ASSUME NEW v \in Accepts(c.make) \cup Accepts(c.change)
        PROVE  /\ ToArchiveRow(c, ToArchiveRow(c, v)) = ToArchiveRow(c, v)
               /\ Exportable(c, v) <=> ~Unportable(c, v)
    <3>1. ToArchiveRow(c, v) = SanitizePortableConfiguration(v)
      BY <2>2
    <3>2. ToArchiveRow(c, ToArchiveRow(c, v)) = ToArchiveRow(c, v)
      BY <2>2, <2>3, <2>4, <3>1
    <3>3. Exportable(c, v) <=> /\ SanitizePortableConfiguration(v) \in CheckColumn(c.kind)
                               /\ ~ConfigurationUnreadable(v)
                               /\ ConfigurationIsPortable(SanitizePortableConfiguration(v))
      BY <2>1, <3>1 DEF Exportable
    <3> QED  BY <2>3, <2>4, <3>2, <3>3
  <2>8. ColumnIsSound(c)
    <3>1. ToArchiveRow(c, c.plain) = c.plain
      BY <2>2, <2>5
    <3> QED  BY <2>1, <2>5, <2>6, <2>7, <3>1, Zenon DEF ColumnIsSound
  <2> QED  BY <2>8 DEF c
<1>4. ColumnIsSound(col("characters", "crush_slug", "readOptionalNullableString", "null",
                        "nullableString"))
  BY DEF ColumnIsSound, Exportable, ToArchiveRow, CheckColumn, Accepts, Unportable,
         StaysBehind, Prose, WrittenTexts
<1>5. ColumnIsSound(col("source_materials", "uri", "readUri", "null",
                        "nullablePortableUri"))
  BY DEF ColumnIsSound, Exportable, ToArchiveRow, CheckColumn, Accepts, Unportable,
         StaysBehind, Links, PortableSourceUri
<1>6. ColumnIsSound(col("source_materials", "fragment_id", "readOptionalNullableString",
                        "null", "nullableString"))
  BY DEF ColumnIsSound, Exportable, ToArchiveRow, CheckColumn, Accepts, Unportable,
         StaysBehind, Prose, WrittenTexts
<1> HIDE DEF col
<1> QED  BY <1>1, <1>2, <1>3, <1>4, <1>5, <1>6

\* The three forms of columns that an export copies.
LEMMA FormsAreSound ==
  /\ \A tables, names, kind :
       (\A n \in names : n \notin Changed) /\ kind \in {"string", "nonEmptyString"} =>
         \A c \in Titled(tables, names, kind) : ColumnIsSound(c)
  /\ \A table, names, kind :
       (\A n \in names : n \notin Changed) /\ kind \in {"string", "longString"} =>
         \A c \in Told(table, names, kind) : ColumnIsSound(c)
  /\ \A tables, names, reader, plain, kind :
       (\A n \in names : n \notin Changed) /\ CopiedFrom(reader, reader, plain, kind) =>
         \A c \in Same(tables, names, reader, plain, kind) : ColumnIsSound(c)
<1>1. ASSUME NEW tables, NEW names, NEW kind, \A n \in names : n \notin Changed,
             kind \in {"string", "nonEmptyString"}
      PROVE  \A c \in Titled(tables, names, kind) : ColumnIsSound(c)
  <2>1. CopiedFrom("readString", "readOptionalString", "name", kind)
    BY <1>1, TextsAreCarried
  <2> QED  BY <1>1, <2>1, CopiedColumns DEF Titled
<1>2. ASSUME NEW table, NEW names, NEW kind, \A n \in names : n \notin Changed,
             kind \in {"string", "longString"}
      PROVE  \A c \in Told(table, names, kind) : ColumnIsSound(c)
  <2>1. CopiedFrom("readOptionalString", "readOptionalString", "empty", kind)
    BY <1>2, TextsAreCarried
  <2> QED  BY <1>2, <2>1, CopiedColumns DEF Told
<1>3. ASSUME NEW tables, NEW names, NEW reader, NEW plain, NEW kind,
             \A n \in names : n \notin Changed, CopiedFrom(reader, reader, plain, kind)
      PROVE  \A c \in Same(tables, names, reader, plain, kind) : ColumnIsSound(c)
  BY <1>3, CopiedColumns DEF Same
<1> QED  BY <1>1, <1>2, <1>3, Zenon

\* Every column of the archive is sound.
LEMMA ColumnsAreSound == \A c \in ArchiveColumns : ColumnIsSound(c)
<1> USE FormsAreSound, ChangedColumns, TextsAreCarried, NumbersAreCarried,
        StatusesAreCarried, ObjectsAreCarried DEF Changed
<1>1. ASSUME NEW table PROVE \A c \in OutlineColumns(table) : ColumnIsSound(c)
  BY DEF OutlineColumns
<1>2. ASSUME NEW table PROVE \A c \in MemoryColumns(table) : ColumnIsSound(c)
  BY DEF MemoryColumns
<1>3. \A c \in ProjectColumns : ColumnIsSound(c)
  BY DEF ProjectColumns
<1>4. \A c \in ConfigColumns : ColumnIsSound(c)
  BY DEF ConfigColumns
<1>5. \A c \in VolumeColumns : ColumnIsSound(c)
  BY DEF VolumeColumns
<1>6. \A c \in VolumeOutlineColumns : ColumnIsSound(c)
  BY <1>1 DEF VolumeOutlineColumns
<1>7. \A c \in ChapterOutlineColumns : ColumnIsSound(c)
  BY <1>1 DEF ChapterOutlineColumns
<1>8. \A c \in CharacterColumns : ColumnIsSound(c)
  BY DEF CharacterColumns
<1>9. \A c \in WorldviewColumns : ColumnIsSound(c)
  BY DEF WorldviewColumns
<1>10. \A c \in OrganizationColumns : ColumnIsSound(c)
  BY DEF OrganizationColumns
<1>11. \A c \in RelationColumns : ColumnIsSound(c)
  BY DEF RelationColumns
<1>12. \A c \in MaterialColumns : ColumnIsSound(c)
  BY DEF MaterialColumns
<1>13. \A c \in ChapterColumns : ColumnIsSound(c)
  BY DEF ChapterColumns
<1>14. \A c \in VersionColumns : ColumnIsSound(c)
  BY DEF VersionColumns
<1>15. \A c \in RevisionColumns : ColumnIsSound(c)
  BY DEF RevisionColumns
<1>16. \A c \in ForeshadowColumns : ColumnIsSound(c)
  BY DEF ForeshadowColumns
<1>17. \A c \in ForeshadowEventColumns : ColumnIsSound(c)
  BY DEF ForeshadowEventColumns
<1>18. \A c \in ProposalColumns : ColumnIsSound(c)
  BY <1>2 DEF ProposalColumns
<1> QED
  BY <1>2, <1>3, <1>4, <1>5, <1>6, <1>7, <1>8, <1>9, <1>10,
     <1>11, <1>12, <1>13, <1>14, <1>15, <1>16, <1>17, <1>18 DEF ArchiveColumns

\* Cells that requests have written.
WrittenCells(cells) ==
  /\ DOMAIN cells \subseteq ArchiveColumns
  /\ \A c \in DOMAIN cells : cells[c] \in Accepts(c.make) \cup Accepts(c.change)

\* An export is refused for a cell, and for nothing else.
LEMMA ExportSucceeds ==
  ASSUME NEW cells, NEW skills, WrittenCells(cells)
  PROVE  BuildArchive(cells, skills) = "ok"
           <=> \A c \in DOMAIN cells : Exportable(c, cells[c])
<1> DEFINE payload == ReadPayload(cells)
<1>1. /\ DOMAIN payload = {c \in DOMAIN cells : ToArchiveRow(c, cells[c]) # c.plain}
      /\ \A c \in DOMAIN payload : payload[c] = ToArchiveRow(c, cells[c])
  BY DEF ReadPayload
<1>2. /\ Built(cells, skills).cells = payload
      /\ Built(cells, skills).formatVersion = 1 /\ Built(cells, skills).digestMatches
  BY DEF Built
<1> HIDE DEF payload
<1>3. ValidateArchive(Built(cells, skills)) = "ok" <=>
        /\ \A c \in DOMAIN payload : payload[c] \in CheckColumn(c.kind)
        /\ \A c \in DOMAIN payload :
             c.column = "settings_json" => ConfigurationIsPortable(payload[c])
  BY <1>2 DEF ValidateArchive, CellsFitTheSchema
<1>4. BuildArchive(cells, skills) = "ok" <=>
        /\ \A c \in DOMAIN cells :
             c.column = "settings_json" => ~ConfigurationUnreadable(cells[c])
        /\ ValidateArchive(Built(cells, skills)) = "ok"
  BY DEF BuildArchive
<1>5. ASSUME NEW c \in DOMAIN cells, ToArchiveRow(c, cells[c]) = c.plain
      PROVE  /\ ToArchiveRow(c, cells[c]) \in CheckColumn(c.kind)
             /\ c.column = "settings_json" =>
                  ConfigurationIsPortable(ToArchiveRow(c, cells[c]))
  BY <1>5, ColumnsAreSound DEF WrittenCells, ColumnIsSound
<1>6. (\A c \in DOMAIN payload : payload[c] \in CheckColumn(c.kind)) <=>
        \A c \in DOMAIN cells : ToArchiveRow(c, cells[c]) \in CheckColumn(c.kind)
  BY <1>1, <1>5
<1>7. (\A c \in DOMAIN payload :
         c.column = "settings_json" => ConfigurationIsPortable(payload[c])) <=>
        \A c \in DOMAIN cells :
          c.column = "settings_json" => ConfigurationIsPortable(ToArchiveRow(c, cells[c]))
  BY <1>1, <1>5
<1> QED  BY <1>3, <1>4, <1>6, <1>7 DEF Exportable

\* What was exported is exported again, as it is.
LEMMA ExportIsStable ==
  ASSUME NEW cells, NEW skills, WrittenCells(cells), BuildArchive(cells, skills) = "ok"
  PROVE  /\ ReadPayload(ReadPayload(cells)) = ReadPayload(cells)
         /\ BuildArchive(ReadPayload(cells), {}) = "ok"
<1> DEFINE payload == ReadPayload(cells)
<1>1. payload = [c \in {d \in DOMAIN cells : ToArchiveRow(d, cells[d]) # d.plain}
                   |-> ToArchiveRow(c, cells[c])]
  BY DEF ReadPayload
<1> HIDE DEF payload
<1>2. \A c \in DOMAIN payload : /\ c \in DOMAIN cells /\ payload[c] = ToArchiveRow(c, cells[c])
                                /\ payload[c] # c.plain
  BY <1>1
<1>3. \A c \in DOMAIN payload : ToArchiveRow(c, payload[c]) = payload[c]
  BY <1>2, ColumnsAreSound DEF WrittenCells, ColumnIsSound
<1>4. ReadPayload(payload) = [c \in DOMAIN payload |-> payload[c]]
  <2>1. {c \in DOMAIN payload : ToArchiveRow(c, payload[c]) # c.plain} = DOMAIN payload
    BY <1>2, <1>3
  <2>2. ReadPayload(payload)
          = [c \in {d \in DOMAIN payload : ToArchiveRow(d, payload[d]) # d.plain}
               |-> ToArchiveRow(c, payload[c])]
    BY DEF ReadPayload
  <2> QED  BY <1>3, <2>1, <2>2
<1>5. ReadPayload(payload) = payload
  BY <1>1, <1>4
<1>6. /\ Built(payload, {}).cells = payload /\ Built(payload, {}).formatVersion = 1
      /\ Built(payload, {}).digestMatches
  BY <1>5 DEF Built
<1>7. \A c \in DOMAIN cells : Exportable(c, cells[c])
  BY ExportSucceeds
<1>8. /\ \A c \in DOMAIN payload : payload[c] \in CheckColumn(c.kind)
      /\ \A c \in DOMAIN payload :
           c.column = "settings_json" => ConfigurationIsPortable(payload[c])
  BY <1>2, <1>7 DEF Exportable
<1>9. ValidateArchive(Built(payload, {})) = "ok"
  BY <1>6, <1>8 DEF ValidateArchive, CellsFitTheSchema
<1>10. \A c \in DOMAIN payload :
         c.column = "settings_json" => ~ConfigurationUnreadable(payload[c])
  BY <1>8 DEF ConfigurationIsPortable, ConfigurationUnreadable
<1>11. BuildArchive(payload, {}) = "ok"
  BY <1>9, <1>10 DEF BuildArchive
<1> QED  BY <1>5, <1>11 DEF payload

\* A cell that comes back changed stays behind.
LEMMA OnlyTheRestStays ==
  ASSUME NEW cells, WrittenCells(cells), NEW c \in DOMAIN cells,
         Cell(Built(cells, {}).cells, c) # cells[c]
  PROVE  StaysBehind(c)
<1>1. Built(cells, {}).cells
        = [d \in {e \in DOMAIN cells : ToArchiveRow(e, cells[e]) # e.plain}
             |-> ToArchiveRow(d, cells[d])]
  BY DEF Built, ReadPayload
<1>2. Cell(Built(cells, {}).cells, c) = ToArchiveRow(c, cells[c])
  BY <1>1 DEF Cell
<1> QED  BY <1>2, ColumnsAreSound DEF WrittenCells, ColumnIsSound

\* The project's cells are written ones; a file holds what an export of the project
\* holds, whatever is written over its digest or version; what landed came from it.
Exported ==
  {a \in [cells : {ReadPayload(oddCells)}, skills : {skillsSet}, formatVersion : {1, 2},
          digestMatches : BOOLEAN] :
     a.digestMatches /\ a.formatVersion = 1 => ValidateArchive(a) = "ok"}
Copies == [slug : Nat, cells : {ReadPayload(oddCells)}, skills : SUBSET SkillName,
           missing : SUBSET SkillName]
ArchiveInv ==
  /\ WrittenCells(oddCells) /\ skillsSet \subseteq SkillName
  /\ archive # <<>> => /\ \E a \in Exported : archive = <<a>>
                       /\ BuildArchive(oddCells, skillsSet) = "ok"
  /\ landed \in Seq(Copies) /\ Len(landed) <= MaxCopies
  /\ landed # <<>> => archive # <<>>

\* The invariant holds first,
LEMMA ArchiveStart == ASSUME ArchiveInit PROVE ArchiveInv
<1>1. /\ oddCells = <<>> /\ skillsSet = {} /\ archive = <<>> /\ landed = <<>>
  BY DEF ArchiveInit
<1>2. WrittenCells(oddCells)
  BY <1>1 DEF WrittenCells
<1>3. landed \in Seq(Copies) /\ Len(landed) <= MaxCopies
  BY <1>1, ArchiveAssumption
<1> QED  BY <1>1, <1>2, <1>3 DEF ArchiveInv

\* and each request, export, import and harm keeps it.
LEMMA ArchiveStep ==
  ASSUME ArchiveInv, [ArchiveNext]_archiveVars PROVE ArchiveInv'
<1>1. CASE WriteCell
  <2>0. PICK c \in ArchiveColumns : \E v \in Accepts(c.make) \cup Accepts(c.change) :
          oddCells' = WithCell(oddCells, c, v)
    BY <1>1 DEF WriteCell
  <2>1. PICK v \in Accepts(c.make) \cup Accepts(c.change) :
          oddCells' = WithCell(oddCells, c, v)
    BY <2>0
  <2>2. archive = <<>> /\ UNCHANGED <<skillsSet, archive, landed>>
    BY <1>1 DEF WriteCell
  <2>3. landed = <<>>
    BY <2>2 DEF ArchiveInv
  <2>4. WrittenCells(oddCells')
    <3>1. WrittenCells(oddCells)
      BY DEF ArchiveInv
    <3>2. CASE v = c.plain
      BY <2>1, <3>1, <3>2 DEF WithCell, WrittenCells
    <3>3. CASE v # c.plain
      BY <2>1, <3>1, <3>3 DEF WithCell, WrittenCells
    <3> QED  BY <3>2, <3>3
  <2>5. landed' \in Seq(Copies') /\ Len(landed') <= MaxCopies
    BY <2>2, <2>3, ArchiveAssumption
  <2> QED  BY <2>2, <2>3, <2>4, <2>5 DEF ArchiveInv
<1>2. CASE SetSkill
  <2>1. /\ archive = <<>> /\ skillsSet' \subseteq SkillName
        /\ UNCHANGED <<oddCells, archive, landed>>
    BY <1>2 DEF SetSkill, ArchiveInv
  <2>2. Copies' = Copies
    BY <2>1 DEF Copies
  <2> QED  BY <2>1, <2>2 DEF ArchiveInv
<1>3. CASE ExportToFile
  <2>1. UNCHANGED <<oddCells, skillsSet, landed>>
    BY <1>3 DEF ExportToFile
  <2>2. Copies' = Copies /\ Exported' = Exported
    BY <2>1 DEF Copies, Exported
  <2>3. CASE portAnswer' = "ok"
    <3>1. /\ BuildArchive(oddCells, skillsSet) = "ok"
          /\ archive' = <<Built(oddCells, skillsSet)>>
      BY <1>3, <2>3 DEF ExportToFile
    <3>2. ValidateArchive(Built(oddCells, skillsSet)) = "ok"
      BY <3>1 DEF BuildArchive
    <3>3. Built(oddCells, skillsSet) \in Exported
      BY <3>2 DEF Exported, Built
    <3>4. archive' # <<>>
      BY <3>1
    <3> QED  BY <2>1, <2>2, <3>1, <3>3, <3>4 DEF ArchiveInv
  <2>4. CASE portAnswer' # "ok"
    <3>1. archive' = archive
      BY <1>3, <2>4 DEF ExportToFile
    <3> QED  BY <2>1, <2>2, <3>1 DEF ArchiveInv
  <2> QED  BY <2>3, <2>4
<1>4. CASE HarmArchive
  <2>1. /\ archive # <<>> /\ UNCHANGED <<oddCells, skillsSet, landed>>
        /\ \/ archive' = <<[archive[1] EXCEPT !.digestMatches = FALSE]>>
           \/ archive' = <<[archive[1] EXCEPT !.formatVersion = 2]>>
    BY <1>4 DEF HarmArchive
  <2>2. Copies' = Copies /\ Exported' = Exported
    BY <2>1 DEF Copies, Exported
  <2>3. PICK a \in Exported : archive = <<a>>
    BY <2>1 DEF ArchiveInv
  <2>4. /\ [a EXCEPT !.digestMatches = FALSE] \in Exported
        /\ [a EXCEPT !.formatVersion = 2] \in Exported
    BY <2>3 DEF Exported
  <2>5. \E b \in Exported : archive' = <<b>>
    BY <2>1, <2>3, <2>4
  <2>6. archive' # <<>>
    BY <2>5
  <2> QED  BY <2>1, <2>2, <2>5, <2>6 DEF ArchiveInv
<1>5. CASE ImportArchive
  <2>1. archive # <<>> /\ Len(landed) < MaxCopies /\ UNCHANGED <<oddCells, skillsSet, archive>>
    BY <1>5 DEF ImportArchive
  <2>2. Copies' = Copies /\ Exported' = Exported
    BY <2>1 DEF Copies, Exported
  <2>3. PICK a \in Exported : archive = <<a>>
    BY <2>1 DEF ArchiveInv
  <2>4. landed \in Seq(Copies) /\ skillsSet \subseteq SkillName
    BY DEF ArchiveInv
  <2>5. landed' \in Seq(Copies) /\ Len(landed') <= MaxCopies
    <3>1. CASE landed' = landed
      BY <2>1, <2>4, <3>1, ArchiveAssumption
    <3>2. ASSUME NEW here \in SUBSET SkillName,
                 landed' = Append(landed, [slug |-> UniqueSlug, cells |-> a.cells,
                                           skills |-> a.skills \cap here,
                                           missing |-> a.skills \ here])
          PROVE  landed' \in Seq(Copies) /\ Len(landed') <= MaxCopies
      <4>1. UniqueSlug \in Nat
        BY <2>4 DEF UniqueSlug
      <4>2. a.cells = ReadPayload(oddCells) /\ a.skills = skillsSet
        BY <2>3 DEF Exported
      <4>3. [slug |-> UniqueSlug, cells |-> a.cells, skills |-> a.skills \cap here,
             missing |-> a.skills \ here] \in Copies
        BY <2>4, <4>1, <4>2 DEF Copies
      <4> QED  BY <2>1, <2>4, <3>2, <4>3, ArchiveAssumption
    <3>3. archive[1] = a
      BY <2>3
    <3> QED  BY <1>5, <3>1, <3>2, <3>3 DEF ImportArchive
  <2> QED  BY <2>1, <2>2, <2>5 DEF ArchiveInv
<1>6. CASE UNCHANGED archiveVars
  BY <1>6 DEF archiveVars, ArchiveInv, Copies, Exported
<1> QED  BY <1>1, <1>2, <1>3, <1>4, <1>5, <1>6 DEF ArchiveNext

\* What the invariant says of the archive and its copies.
LEMMA ArchiveMeans == ASSUME ArchiveInv PROVE ArchiveRoundTrips
<1>1. WrittenCells(oddCells)
  BY DEF ArchiveInv
<1>2. ArchiveTypeInv
  <2>1. Len(archive) <= 1
    <3>1. CASE archive = <<>>  BY <3>1
    <3>2. ASSUME NEW a, archive = <<a>> PROVE Len(archive) <= 1  BY <3>2
    <3> QED  BY <3>1, <3>2 DEF ArchiveInv
  <2> QED  BY <2>1 DEF ArchiveInv, ArchiveTypeInv, WrittenCells
<1>3. (BuildArchive(oddCells, skillsSet) = "ok") =
        \A c \in DOMAIN oddCells :
          Unportable(c, oddCells[c]) => StaysBehind(c) /\ c.column # "settings_json"
  <2>1. \A c \in DOMAIN oddCells :
          Exportable(c, oddCells[c]) <=>
            (Unportable(c, oddCells[c]) => StaysBehind(c) /\ c.column # "settings_json")
    BY <1>1, ColumnsAreSound DEF WrittenCells, ColumnIsSound
  <2>2. BuildArchive(oddCells, skillsSet) = "ok"
          <=> \A c \in DOMAIN oddCells : Exportable(c, oddCells[c])
    BY <1>1, ExportSucceeds
  <2> QED  BY <2>1, <2>2
<1>4. \A c \in ArchiveColumns :
        c.plain \in CheckColumn(c.kind) /\ ToArchiveRow(c, c.plain) = c.plain
  BY ColumnsAreSound DEF ColumnIsSound
<1>5. \A i \in DOMAIN archive :
        archive[i].digestMatches /\ archive[i].formatVersion = 1 =>
          ValidateArchive(archive[i]) = "ok"
  <2>1. CASE archive = <<>>  BY <2>1
  <2>2. CASE archive # <<>>
    <3>1. PICK a \in Exported : archive = <<a>>
      BY <2>2 DEF ArchiveInv
    <3> QED  BY <3>1 DEF Exported
  <2> QED  BY <2>1, <2>2
<1>6. ASSUME NEW i \in DOMAIN landed
      PROVE  /\ BuildArchive(landed[i].cells, {}) = "ok"
             /\ ReadPayload(landed[i].cells) = landed[i].cells
  <2>1. landed \in Seq(Copies)
    BY DEF ArchiveInv
  <2>2. landed[i] \in Copies /\ landed # <<>>
    BY <2>1
  <2>3. landed[i].cells = ReadPayload(oddCells)
    BY <2>2 DEF Copies
  <2>4. BuildArchive(oddCells, skillsSet) = "ok"
    BY <2>2 DEF ArchiveInv
  <2> QED  BY <1>1, <2>3, <2>4, ExportIsStable
<1>7. \A c \in {d \in DOMAIN oddCells :
                  Cell(Built(oddCells, {}).cells, d) # oddCells[d]} : StaysBehind(c)
  BY <1>1, OnlyTheRestStays
<1> QED  BY <1>2, <1>3, <1>4, <1>5, <1>6, <1>7 DEF ArchiveRoundTrips

\* An export is refused only for the cells that the archive's schema cannot carry, an
\* untouched file is imported, a copy differs from its source only in what an export
\* leaves behind, and exports again to the same archive
\* (projectPortabilityService.ts, archiveSchema.ts).
THEOREM ArchivesRoundTrip == ArchiveSpec => []ArchiveRoundTrips
<1>1. ArchiveInit => ArchiveInv  BY ArchiveStart
<1>2. ArchiveInv /\ [ArchiveNext]_archiveVars => ArchiveInv'  BY ArchiveStep
<1>3. ArchiveInv => ArchiveRoundTrips  BY ArchiveMeans
<1> QED  BY <1>1, <1>2, <1>3, PTL DEF ArchiveSpec

-----------------------------------------------------------------------------
(* The assistant's runtimes *)

\* Where a prompt's handler is, and what it knows of its runtime.
ChatAt == {"unsent", "creating", "ready", "running", "completed", "cancelled", "error"}
ChatState == [at : ChatAt, in : Chat, on : Prompt \cup {Unmapped}]

\* The tables have the types of AssistantTypeInv, component by component.
AssistantTypes ==
  /\ archived \subseteq Chat /\ runtimes \in [Chat -> Prompt \cup {Unmapped}]
  /\ chat \in [Prompt -> ChatState]
  /\ busy \in [Prompt -> Prompt \cup {Unmapped}]
  /\ aborted \subseteq Prompt
  /\ confirmation \in [Prompt -> {"no", "waiting", "allowed", "denied"}]

\* A prompt is ready on a runtime; a runtime is taken by a prompt that runs on it, or
\* by one that failed as it began.
RuntimesAreTaken ==
  /\ \A p \in Prompt : chat[p].at = "ready" => chat[p].on \in Prompt
  /\ \A r \in Prompt : busy[r] # Unmapped =>
       chat[busy[r]].at \in {"running", "error"} /\ chat[busy[r]].on = r

\* The inductive invariant.
AssistantInv == AssistantTypes /\ RuntimesAreTaken /\ OneRunARuntime

\* A prompt's handler goes on, maybe on a runtime.
LEMMA ChatMoves ==
  ASSUME AssistantTypes, NEW p \in Prompt, NEW at \in ChatAt
  PROVE  /\ ChatGoes(p, at) =>
              /\ chat' \in [Prompt -> ChatState]
              /\ chat'[p].at = at /\ chat'[p].on = chat[p].on
              /\ \A q \in Prompt \ {p} : chat'[q] = chat[q]
         /\ \A r \in Prompt : ChatGetsRuntime(p, r) =>
              /\ chat' \in [Prompt -> ChatState]
              /\ chat'[p].at = "ready" /\ chat'[p].on = r
              /\ \A q \in Prompt \ {p} : chat'[q] = chat[q]
BY DEF AssistantTypes, ChatGoes, ChatGetsRuntime, ChatState, ChatAt

\* Before it runs, a prompt's handler takes no runtime and asks nothing.
LEMMA BeginningIsQuiet ==
  ASSUME AssistantInv, NEW p \in Prompt, NEW at \in {"ready", "creating", "error"},
         chat[p].at \in {"unsent", "creating", "ready"},
         chat' \in [Prompt -> ChatState], chat'[p].at = at,
         at = "ready" => chat'[p].on \in Prompt,
         \A q \in Prompt \ {p} : chat'[q] = chat[q],
         UNCHANGED <<busy, aborted, confirmation>>
  PROVE  RuntimesAreTaken' /\ OneRunARuntime'
<1>1. /\ busy \in [Prompt -> Prompt \cup {Unmapped}] /\ aborted \subseteq Prompt
      /\ chat \in [Prompt -> ChatState]
  BY DEF AssistantInv, AssistantTypes
<1>2. \A r \in Prompt : busy[r] # Unmapped => busy[r] \in Prompt \ {p}
  BY <1>1 DEF AssistantInv, RuntimesAreTaken
<1>3. p \notin aborted /\ confirmation[p] # "waiting"
  BY DEF AssistantInv, OneRunARuntime
<1>4. RuntimesAreTaken'
  BY <1>1, <1>2 DEF AssistantInv, RuntimesAreTaken
<1>5. OneRunARuntime'
  BY <1>1, <1>3 DEF AssistantInv, OneRunARuntime
<1>. QED
  BY <1>4, <1>5

\* What is aborted runs, and does not wait for the user after.
LEMMA AbortingIsHeard ==
  ASSUME AssistantInv, NEW ps \in SUBSET Prompt,
         \A p \in ps : chat[p].at \in {"running", "error"},
         aborted' = aborted \cup ps,
         confirmation' \in [Prompt -> {"no", "waiting", "allowed", "denied"}],
         \A p \in Prompt : confirmation'[p] = "waiting" =>
           confirmation[p] = "waiting" /\ p \notin ps,
         UNCHANGED <<chat, busy>>
  PROVE  /\ aborted' \subseteq Prompt
         /\ RuntimesAreTaken' /\ OneRunARuntime'
<1>1. aborted \subseteq Prompt
  BY DEF AssistantInv, AssistantTypes
<1>2. RuntimesAreTaken'
  BY DEF AssistantInv, RuntimesAreTaken
<1>3. OneRunARuntime'
  BY <1>1 DEF AssistantInv, OneRunARuntime
<1>. QED
  BY <1>1, <1>2, <1>3

\* Aborting what is active on some runtimes.
LEMMA ActiveRun ==
  ASSUME AssistantInv, NEW ss \in SUBSET Chat
  PROVE  /\ ActiveOn(Mapped(ss)) \in SUBSET Prompt
         /\ \A p \in ActiveOn(Mapped(ss)) : chat[p].at \in {"running", "error"}
<1>1. Mapped(ss) \subseteq Prompt
  BY DEF AssistantInv, AssistantTypes, Mapped
<1>. QED
  BY <1>1 DEF AssistantInv, AssistantTypes, RuntimesAreTaken, ActiveOn

\* The handlers' steps keep it.
LEMMA PromptsKeepRuntimes ==
  ASSUME AssistantInv, NEW p \in Prompt,
         \/ SendPrompt(p) \/ CreateRuntime(p) \/ BeginPrompt(p)
         \/ RequestConfirmation(p) \/ ConfirmOperation(p) \/ PromptEnds(p)
  PROVE  AssistantInv'
<1>t. /\ AssistantTypes /\ Unmapped \notin Prompt /\ chat[p] \in ChatState
      /\ chat[p].in \in Chat /\ runtimes[chat[p].in] \in Prompt \cup {Unmapped}
      /\ chat[p].on \in Prompt \cup {Unmapped}
  BY AssistantAssumption DEF AssistantInv, AssistantTypes, ChatState
<1>1. CASE SendPrompt(p)
  <2>1. /\ chat[p].at = "unsent"
        /\ \/ ChatGoes(p, "error") \/ ChatGoes(p, "creating")
           \/ runtimes[chat[p].in] \in Prompt /\ ChatGetsRuntime(p, runtimes[chat[p].in])
        /\ UNCHANGED <<archived, runtimes, busy, aborted, confirmation>>
    BY <1>1, <1>t DEF SendPrompt
  <2>2. /\ chat' \in [Prompt -> ChatState] /\ chat'[p].at \in {"ready", "creating", "error"}
        /\ chat'[p].at = "ready" => chat'[p].on \in Prompt
        /\ \A q \in Prompt \ {p} : chat'[q] = chat[q]
    BY <1>t, <2>1, ChatMoves DEF ChatAt
  <2>3. RuntimesAreTaken' /\ OneRunARuntime'
    BY <2>1, <2>2, BeginningIsQuiet
  <2>. QED
    BY <1>t, <2>1, <2>2, <2>3 DEF AssistantInv, AssistantTypes
<1>2. CASE CreateRuntime(p)
  <2>1. /\ chat[p].at = "creating"
        /\ \/ ChatGoes(p, "error") /\ UNCHANGED runtimes
           \/ /\ ChatGetsRuntime(p, p)
              /\ runtimes' = [runtimes EXCEPT ![chat[p].in] = p]
        /\ UNCHANGED <<archived, busy, aborted, confirmation>>
    BY <1>2 DEF CreateRuntime
  <2>2. /\ chat' \in [Prompt -> ChatState] /\ chat'[p].at \in {"ready", "creating", "error"}
        /\ chat'[p].at = "ready" => chat'[p].on \in Prompt
        /\ \A q \in Prompt \ {p} : chat'[q] = chat[q]
    BY <1>t, <2>1, ChatMoves DEF ChatAt
  <2>3. RuntimesAreTaken' /\ OneRunARuntime'
    BY <2>1, <2>2, BeginningIsQuiet
  <2>. QED
    BY <1>t, <2>1, <2>2, <2>3 DEF AssistantInv, AssistantTypes
<1>3. CASE BeginPrompt(p)
  <2>. DEFINE r == chat[p].on
  <2>1. /\ chat[p].at = "ready" /\ r \in Prompt
        /\ UNCHANGED <<archived, runtimes, aborted, confirmation>>
    BY <1>3 DEF BeginPrompt, AssistantInv, RuntimesAreTaken
  <2>2. CASE busy[r] # Unmapped /\ ChatGoes(p, "error") /\ UNCHANGED busy
    <3>1. /\ chat' \in [Prompt -> ChatState] /\ chat'[p].at = "error"
          /\ \A q \in Prompt \ {p} : chat'[q] = chat[q]
      BY <1>t, <2>2, ChatMoves DEF ChatAt
    <3>2. RuntimesAreTaken' /\ OneRunARuntime'
      BY <2>1, <2>2, <3>1, BeginningIsQuiet
    <3>. QED
      BY <1>t, <2>1, <2>2, <3>1, <3>2 DEF AssistantInv, AssistantTypes
  <2>3. CASE /\ busy[r] = Unmapped /\ busy' = [busy EXCEPT ![r] = p]
             /\ ChatGoes(p, IF chat[p].in \in archived THEN "error" ELSE "running")
    <3>1. /\ chat' \in [Prompt -> ChatState] /\ chat'[p].at \in {"error", "running"}
          /\ chat'[p].on = r
          /\ \A q \in Prompt \ {p} : chat'[q] = chat[q]
      <4>1. (IF chat[p].in \in archived THEN "error" ELSE "running") \in {"error", "running"}
        OBVIOUS
      <4>. QED
        BY <1>t, <2>3, <4>1, ChatMoves DEF ChatAt
    <3>2. /\ busy' \in [Prompt -> Prompt \cup {Unmapped}] /\ busy'[r] = p
          /\ \A s \in Prompt \ {r} : busy'[s] = busy[s]
      BY <1>t, <2>1, <2>3 DEF AssistantTypes
    <3>3. p \notin aborted /\ confirmation[p] # "waiting"
      BY <2>1 DEF AssistantInv, OneRunARuntime
    <3>4. \A s \in Prompt : busy[s] # Unmapped => busy[s] \in Prompt \ {p}
      BY <1>t, <2>1 DEF AssistantInv, AssistantTypes, RuntimesAreTaken
    <3>. HIDE DEF r
    <3>5. RuntimesAreTaken'
      BY <1>t, <2>1, <3>1, <3>2, <3>4 DEF AssistantInv, RuntimesAreTaken
    <3>6. \A q \in Prompt : chat[q].at = "running" => chat[q].on # r
      BY <1>t, <2>1, <2>3 DEF AssistantInv, OneRunARuntime
    <3>7. OneRunARuntime'
      BY <1>t, <2>1, <3>1, <3>2, <3>3, <3>6 DEF AssistantInv, OneRunARuntime, AssistantTypes
    <3>. QED
      BY <1>t, <2>1, <3>1, <3>2, <3>5, <3>7 DEF AssistantInv, AssistantTypes
  <2>. QED
    BY <1>3, <2>2, <2>3 DEF BeginPrompt
<1>4. CASE RequestConfirmation(p)
  BY <1>4 DEF RequestConfirmation, AssistantInv, AssistantTypes, RuntimesAreTaken, OneRunARuntime
<1>5. CASE ConfirmOperation(p)
  BY <1>5 DEF ConfirmOperation, AssistantInv, AssistantTypes, RuntimesAreTaken, OneRunARuntime
<1>6. CASE PromptEnds(p)
  <2>. DEFINE r == chat[p].on
  <2>1. /\ chat[p].at = "running" /\ confirmation[p] # "waiting"
        /\ ChatGoes(p, IF p \in aborted THEN "cancelled" ELSE "completed")
        /\ busy' = [busy EXCEPT ![r] = Unmapped]
        /\ UNCHANGED <<archived, runtimes, aborted, confirmation>>
        /\ r \in Prompt /\ busy[r] = p
    BY <1>6 DEF PromptEnds, AssistantInv, OneRunARuntime
  <2>2. /\ chat' \in [Prompt -> ChatState]
        /\ chat'[p].at = IF p \in aborted THEN "cancelled" ELSE "completed"
        /\ \A q \in Prompt \ {p} : chat'[q] = chat[q]
    <3>1. (IF p \in aborted THEN "cancelled" ELSE "completed") \in ChatAt
      BY DEF ChatAt
    <3>. QED
      BY <1>t, <2>1, <3>1, ChatMoves
  <2>3. /\ busy' \in [Prompt -> Prompt \cup {Unmapped}] /\ busy'[r] = Unmapped
        /\ \A s \in Prompt \ {r} : busy'[s] = busy[s]
    BY <1>t, <2>1 DEF AssistantTypes
  <2>4. \A s \in Prompt \ {r} : busy[s] # p
    BY <1>t, <2>1 DEF AssistantInv, RuntimesAreTaken
  <2>5. \A q \in Prompt \ {p} : chat[q].at = "running" => chat[q].on # r
    BY <1>t, <2>1 DEF AssistantInv, OneRunARuntime
  <2>. HIDE DEF r
  <2>6. RuntimesAreTaken'
    BY <1>t, <2>1, <2>2, <2>3, <2>4 DEF AssistantInv, RuntimesAreTaken, AssistantTypes
  <2>7. OneRunARuntime'
    BY <1>t, <2>1, <2>2, <2>3, <2>5 DEF AssistantInv, OneRunARuntime, AssistantTypes
  <2>. QED
    BY <1>t, <2>1, <2>2, <2>3, <2>6, <2>7 DEF AssistantInv, AssistantTypes
<1>. QED
  BY <1>1, <1>2, <1>3, <1>4, <1>5, <1>6

\* So do cancelling, archiving and disposing.
LEMMA StopsKeepRuntimes ==
  ASSUME AssistantInv,
         (\E s \in Chat : CancelPrompt(s) \/ ArchiveSession(s)) \/ DisposeAssistant
  PROVE  AssistantInv'
<1>t. AssistantTypes
  BY DEF AssistantInv
<1>1. ASSUME NEW ps \in SUBSET Prompt, AbortPrompts(ps)
      PROVE  /\ aborted' = aborted \cup ps
             /\ confirmation' \in [Prompt -> {"no", "waiting", "allowed", "denied"}]
             /\ \A p \in Prompt : confirmation'[p] = "waiting" =>
                  confirmation[p] = "waiting" /\ p \notin ps
  BY <1>t, <1>1 DEF AbortPrompts, AssistantTypes
<1>2. ASSUME NEW s \in Chat, CancelPrompt(s) \/ ArchiveSession(s)
      PROVE  AssistantInv'
  <2>. DEFINE ps == ActiveOn(Mapped({s}))
  <2>1. /\ AbortPrompts(ps) /\ UNCHANGED <<chat, busy>>
        /\ archived' \subseteq Chat /\ runtimes' \in [Chat -> Prompt \cup {Unmapped}]
    BY <1>t, <1>2 DEF CancelPrompt, ArchiveSession, AssistantTypes
  <2>2. ps \in SUBSET Prompt /\ \A p \in ps : chat[p].at \in {"running", "error"}
    BY ActiveRun
  <2>. HIDE DEF ps
  <2>3. /\ aborted' = aborted \cup ps
        /\ confirmation' \in [Prompt -> {"no", "waiting", "allowed", "denied"}]
        /\ \A p \in Prompt : confirmation'[p] = "waiting" =>
             confirmation[p] = "waiting" /\ p \notin ps
    BY <1>1, <2>1, <2>2
  <2>4. aborted' \subseteq Prompt /\ RuntimesAreTaken' /\ OneRunARuntime'
    BY <2>1, <2>2, <2>3, AbortingIsHeard
  <2>. QED
    BY <1>t, <2>1, <2>3, <2>4 DEF AssistantInv, AssistantTypes
<1>3. CASE DisposeAssistant
  <2>. DEFINE ps == ActiveOn(Mapped(Chat))
  <2>1. /\ aborted' = aborted \cup ps /\ UNCHANGED <<archived, chat, busy>>
        /\ confirmation' \in [Prompt -> {"no", "waiting", "allowed", "denied"}]
        /\ \A p \in Prompt : confirmation'[p] # "waiting"
        /\ runtimes' \in [Chat -> Prompt \cup {Unmapped}]
    BY <1>t, <1>3 DEF DisposeAssistant, AssistantTypes
  <2>2. ps \in SUBSET Prompt /\ \A p \in ps : chat[p].at \in {"running", "error"}
    BY ActiveRun
  <2>. HIDE DEF ps
  <2>4. aborted' \subseteq Prompt /\ RuntimesAreTaken' /\ OneRunARuntime'
    BY <2>1, <2>2, AbortingIsHeard
  <2>. QED
    BY <1>t, <2>1, <2>4 DEF AssistantInv, AssistantTypes
<1>. QED
  BY <1>2, <1>3

\* Nothing runs at first, and every step keeps it.
LEMMA AssistantInvHolds ==
  /\ AssistantInit => AssistantInv
  /\ AssistantInv /\ [AssistantNext]_assistantVars => AssistantInv'
  /\ AssistantInv => AssistantTypeInv /\ OneRunARuntime
<1>1. AssistantInit => AssistantInv
  BY DEF AssistantInit, AssistantInv, AssistantTypes, RuntimesAreTaken, OneRunARuntime,
         ChatState, ChatAt
<1>2. ASSUME AssistantInv, [AssistantNext]_assistantVars PROVE AssistantInv'
  <2>1. CASE AssistantNext
    BY <1>2, <2>1, PromptsKeepRuntimes, StopsKeepRuntimes DEF AssistantNext
  <2>2. CASE UNCHANGED assistantVars
    BY <1>2, <2>2 DEF assistantVars, AssistantInv, AssistantTypes, RuntimesAreTaken,
                      OneRunARuntime
  <2>. QED
    BY <1>2, <2>1, <2>2
<1>3. AssistantInv => AssistantTypeInv /\ OneRunARuntime
  BY DEF AssistantInv, AssistantTypes, AssistantTypeInv, ChatState, ChatAt
<1>. QED
  BY <1>1, <1>2, <1>3

-----------------------------------------------------------------------------
(* The parts beside each other *)

\* One part moves all along; and each part's inductive invariant.
Part == {"files", "backups", "workers", "staging", "credentials", "assistant", "replace"}
EveryPartInv ==
  /\ subject \in Part
  /\ FilesInv
  /\ BackupsInv /\ BackupsBounds
  /\ SlotInv
  /\ StagingInv /\ StagingBounds
  /\ KeyInv
  /\ AssistantInv
  /\ ReplacementInv

\* A step of the platform is a step of every part, or leaves it alone.
LEMMA EveryPartSteps ==
  ASSUME [PlatformNext]_platformVars
  PROVE  /\ [FilesNext]_filesVars /\ [BackupsNext]_backupVars /\ [PoolNext]_poolVars
         /\ [StagingNext]_stagingVars /\ [CredentialsNext]_credentialVars
         /\ [AssistantNext]_assistantVars /\ [ReplaceNext]_replaceVars
         /\ subject' = subject
<1>1. CASE FilesMoves
  BY <1>1 DEF FilesMoves
<1>2. CASE BackupsMoves
  BY <1>2 DEF BackupsMoves
<1>3. CASE ComputeMoves
  BY <1>3 DEF ComputeMoves
<1>4. CASE StagingMoves
  BY <1>4 DEF StagingMoves
<1>5. CASE CredentialsMoves
  BY <1>5 DEF CredentialsMoves
<1>6. CASE AssistantMoves
  BY <1>6 DEF AssistantMoves
<1>7. CASE ReplaceMoves
  BY <1>7 DEF ReplaceMoves
<1>8. CASE UNCHANGED platformVars
  BY <1>8 DEF platformVars
<1> QED
  BY <1>1, <1>2, <1>3, <1>4, <1>5, <1>6, <1>7, <1>8 DEF PlatformNext

\* The files' types are those of their inductive invariant.
LEMMA FilesTyped == FilesInv => FilesTypeInv
<1> SUFFICES ASSUME FilesInv PROVE FilesTypeInv
  OBVIOUS
<1>1. /\ FilesTypes
      /\ boot \in BootState /\ move \in MoveState /\ request \in [Request -> RequestState]
  BY DEF FilesInv, FilesTypes
<1>2. boot.pc \in BootPc /\ move.pc \in MovePc /\ move.owner \in Owner
  BY <1>1 DEF BootState, MoveState
<1>3. \A r \in Request : request[r].pc \in RequestPc
  BY <1>1 DEF RequestState
<1> QED
  BY <1>1, <1>2, <1>3
  DEF FilesTypes, FilesTypeInv, FileOrNone, BootPc, MovePc, RequestPc, RuntimeState

\* What stays as it is keeps what is known of it.
LEMMA BackupsKeepTheirs ==
  BackupsInv /\ BackupsBounds /\ [BackupsNext]_backupVars => BackupsInv' /\ BackupsBounds'
<1> SUFFICES ASSUME BackupsInv, BackupsBounds, [BackupsNext]_backupVars
             PROVE  BackupsInv' /\ BackupsBounds'
  OBVIOUS
<1>1. CASE BackupsNext
  BY <1>1, BackupsStep, BackupsBoundsStep
<1>2. CASE UNCHANGED backupVars
  BY <1>2 DEF backupVars, BackupsInv, BackupsBounds
<1> QED
  BY <1>1, <1>2

\* The parts that rest keep their invariants with the one that moves, and what the
\* one that moves promises follows from its own.
THEOREM PlatformStaysSound == PlatformSpec => []PlatformIsSound
<1>1. PlatformInit => EveryPartInv
  BY FilesBegin, BackupsBegin, BackupsBoundsBegin, SlotBegin, StagingBegin, KeyInit,
     AssistantInvHolds, ReplacementBegin
  DEF PlatformInit, EveryPartInv, Part
<1>2. EveryPartInv /\ [PlatformNext]_platformVars => EveryPartInv'
  BY EveryPartSteps, FilesStep, BackupsKeepTheirs, SlotStep, StagingStep, StagingBoundsStep,
     KeyStep, AssistantInvHolds, ReplacementStep
  DEF EveryPartInv
<1>3. ASSUME EveryPartInv PROVE PlatformIsSound
  <2>1. /\ FilesTypeInv /\ BackupsTypeInv /\ PoolTypeInv /\ StagingTypeInv
        /\ CredentialsTypeInv /\ AssistantTypeInv /\ OneRunARuntime /\ ReplaceTypeInv
    BY <1>3, FilesTyped, BackupsTypes, StagedTypes, AssistantInvHolds
    DEF EveryPartInv, SlotInv, KeyInv, ReplacementInv
  <2>2. subject \in Part
    BY <1>3 DEF EveryPartInv
  <2> QED
    BY <2>1, <2>2 DEF PlatformIsSound, Part
<1> QED
  BY <1>1, <1>2, <1>3, PTL DEF PlatformSpec
=============================================================================
