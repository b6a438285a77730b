--------------------------- MODULE ImportStaging ----------------------------
(***************************************************************************)
(* Files staged for import (projectPortabilityCoordinator.ts and the       *)
(* channels of main/ipc/projectPortability.ipc.ts).                        *)
(*                                                                         *)
(* An inspection copies the chosen file, reads and checks the copy, and    *)
(* gives out a token for it; the token is committed, cancelled or expires. *)
(* All of that awaits, and the coordinator may be disposed meanwhile; the  *)
(* staged bytes and tokens are counted against limits.                     *)
(***************************************************************************)
EXTENDS Naturals, Sequences, FiniteSets

CONSTANTS
  Token,           \* the tokens, one per inspection
  FileSizes,       \* the sizes of files within the limit of one file
  MaxActiveTokens, \* PROJECT_IMPORT_MAX_ACTIVE_TOKENS
  MaxStagedBytes,  \* PROJECT_IMPORT_MAX_STAGED_BYTES
  MaxTombstones    \* how many expired tokens are remembered

ASSUME ImportStagingAssumption ==
  /\ FileSizes \subseteq Nat \ {0}
  /\ MaxActiveTokens \in Nat /\ MaxStagedBytes \in Nat
  /\ MaxTombstones \in Nat \ {0}

VARIABLES
  inspection,   \* each token: how far its file is
  size,         \* the size of the bytes staged for it
  imports,      \* the tokens in the map
  stagedBytes,  \* the counter
  files,        \* the tokens whose copy is on disk
  lapsed,       \* the tokens whose time is over
  expired,      \* the expired tokens remembered, oldest first
  disposed,     \* the coordinator is disposed of
  imported      \* (history) how often a token's archive was imported

stagingVars == <<inspection, size, imports, stagedBytes, files, lapsed, expired,
                 disposed, imported>>

StagingInit ==
  /\ inspection = [t \in Token |-> "none"]
  /\ size = [t \in Token |-> 0]
  /\ imports = {} /\ stagedBytes = 0 /\ files = {} /\ lapsed = {}
  /\ expired = <<>> /\ disposed = FALSE
  /\ imported = [t \in Token |-> 0]

\* assertImportCapacity.
HasRoom(bytes) ==
  /\ Cardinality(imports) < MaxActiveTokens
  /\ stagedBytes + bytes <= MaxStagedBytes

StagedAs(t, pc) == inspection' = [inspection EXCEPT ![t] = pc]

-----------------------------------------------------------------------------
(* inspectFile.                                                            *)

InspectFile(t) ==
  /\ inspection[t] = "none" /\ ~disposed
  /\ \E bytes \in FileSizes : HasRoom(bytes) /\ size' = [size EXCEPT ![t] = bytes]
  /\ StagedAs(t, "copying")
  /\ UNCHANGED <<imports, stagedBytes, files, lapsed, expired, disposed, imported>>

\* The copy may be of a later, larger or smaller file.
CopySource(t) ==
  /\ inspection[t] = "copying"
  /\ \E bytes \in FileSizes : size' = [size EXCEPT ![t] = bytes]
  /\ files' = files \cup {t}
  /\ StagedAs(t, "reading")
  /\ UNCHANGED <<imports, stagedBytes, lapsed, expired, disposed, imported>>

ReadStaged(t) ==
  /\ inspection[t] = "reading" /\ t \in files
  /\ StagedAs(t, "inspecting")
  /\ UNCHANGED <<size, imports, stagedBytes, files, lapsed, expired, disposed,
                 imported>>

\* The archive is valid and there is still room: the token is given out.
StageImport_Unchecked(t) ==
  /\ inspection[t] = "inspecting"
  /\ imports' = imports \cup {t}
  /\ stagedBytes' = stagedBytes + size[t]
  /\ StagedAs(t, "staged")
  /\ UNCHANGED <<size, files, lapsed, expired, disposed, imported>>
StageImport(t) ==
  /\ inspection[t] = "inspecting" /\ HasRoom(size[t])
  /\ imports' = imports \cup {t}
  /\ stagedBytes' = stagedBytes + size[t]
  /\ StagedAs(t, "staged")
  /\ UNCHANGED <<size, files, lapsed, expired, disposed, imported>>

FailInspection(t) ==
  /\ inspection[t] \in {"copying", "reading", "inspecting"}
  /\ files' = files \ {t}
  /\ StagedAs(t, "ended")
  /\ UNCHANGED <<size, imports, stagedBytes, lapsed, expired, disposed, imported>>

-----------------------------------------------------------------------------
(* commitImport, cancelImport and the timers.                              *)

Unstage(t) ==
  /\ imports' = imports \ {t}
  /\ stagedBytes' = stagedBytes - size[t]

\* Without the limit on what is remembered.
RememberExpired_All(t) == expired' = Append(expired, t)

\* rememberExpiredToken: the oldest makes room.
RememberExpired(t) ==
  expired' = Append(IF Len(expired) >= MaxTombstones THEN Tail(expired)
                    ELSE expired, t)

\* The token is used up before anything is awaited.
CommitImport(t) ==
  /\ ~disposed /\ t \in imports /\ t \notin lapsed
  /\ Unstage(t)
  /\ StagedAs(t, "committing")
  /\ UNCHANGED <<size, files, lapsed, expired, disposed, imported>>
CommitLate(t) ==
  /\ ~disposed /\ t \in imports /\ t \in lapsed
  /\ Unstage(t) /\ RememberExpired(t)
  /\ files' = files \ {t}
  /\ StagedAs(t, "ended")
  /\ UNCHANGED <<size, lapsed, disposed, imported>>

\* The copy is read, compared with its hash, inspected and imported, unless
\* one of them fails; then it is deleted.
FinishImport(t) ==
  /\ inspection[t] = "committing"
  /\ \/ /\ t \in files /\ ~disposed
        /\ imported' = [imported EXCEPT ![t] = @ + 1]
     \/ UNCHANGED imported
  /\ files' = files \ {t}
  /\ StagedAs(t, "ended")
  /\ UNCHANGED <<size, imports, stagedBytes, lapsed, expired, disposed>>

CancelImport(t) ==
  /\ t \in imports
  /\ Unstage(t)
  /\ files' = files \ {t}
  /\ StagedAs(t, "ended")
  /\ UNCHANGED <<size, lapsed, expired, disposed, imported>>

TokenLapses(t) ==
  /\ t \in imports \ lapsed /\ lapsed' = lapsed \cup {t}
  /\ UNCHANGED <<inspection, size, imports, stagedBytes, files, expired, disposed,
                 imported>>

\* The timer of a token, which may be late; then that of its tombstone.
ExpireToken(t) ==
  /\ t \in imports \cap lapsed
  /\ inspection[t] = "staged"
  /\ Unstage(t) /\ RememberExpired(t)
  /\ files' = files \ {t}
  /\ StagedAs(t, "ended")
  /\ UNCHANGED <<size, lapsed, disposed, imported>>
ForgetTombstone(t) ==
  /\ \E i \in DOMAIN expired :
       /\ expired[i] = t
       /\ expired' = SubSeq(expired, 1, i - 1) \o SubSeq(expired, i + 1, Len(expired))
  /\ UNCHANGED <<inspection, size, imports, stagedBytes, files, lapsed, disposed,
                 imported>>

\* An inspection under way is not told; its copy goes with the directory.
DisposeStaging ==
  /\ ~disposed /\ disposed' = TRUE
  /\ inspection' = [t \in Token |-> IF t \in imports THEN "ended"
                                    ELSE inspection[t]]
  /\ imports' = {} /\ stagedBytes' = 0 /\ expired' = <<>> /\ files' = {}
  /\ UNCHANGED <<size, lapsed, imported>>

StagingNext ==
  \/ \E t \in Token :
       \/ InspectFile(t) \/ CopySource(t) \/ ReadStaged(t) \/ StageImport(t)
       \/ FailInspection(t) \/ CommitImport(t) \/ CommitLate(t)
       \/ FinishImport(t) \/ CancelImport(t) \/ TokenLapses(t)
       \/ ExpireToken(t) \/ ForgetTombstone(t)
  \/ DisposeStaging

StagingSpec == StagingInit /\ [][StagingNext]_stagingVars
-----------------------------------------------------------------------------
\* The map, the tombstones and the files are of tokens.
StagingTypeInv ==
  /\ inspection \in [Token -> {"none", "copying", "reading", "inspecting",
                               "staged", "committing", "ended"}]
  /\ size \in [Token -> FileSizes \cup {0}]
  /\ imports \cup files \cup lapsed \subseteq Token
  /\ stagedBytes \in Nat /\ disposed \in BOOLEAN
  /\ expired \in Seq(Token) /\ Len(expired) <= MaxTombstones
  /\ imported \in [Token -> Nat]

\* The bytes of the copies the map holds a token for, each one of its own.
BytesOf(t) == {t} \X (1..size[t])
Staged == UNION {BytesOf(t) : t \in imports}

\* However inspections, commits, cancellations and timers overlap: the bytes
\* of every token are counted once and given back once, the limits hold, a
\* staged token has its copy, no copy is left behind, and an archive is
\* imported at most once, by a token no longer in the map.
StagingIsAccounted ==
  /\ stagedBytes = Cardinality(Staged)
  /\ stagedBytes <= MaxStagedBytes /\ Cardinality(imports) <= MaxActiveTokens
  /\ imports = {t \in Token : inspection[t] = "staged"}
  /\ ~disposed =>
       files = {t \in Token : inspection[t] \in
                  {"reading", "inspecting", "staged", "committing"}}
  /\ \A t \in Token : imported[t] <= 1 /\ (imported[t] = 1 => t \notin imports)
=============================================================================
