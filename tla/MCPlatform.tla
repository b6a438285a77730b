------------------------------- MODULE MCPlatform -------------------------------
(***************************************************************************)
(* What the application stands on, each part on a small instance of its    *)
(* own: the database's files and backups, the worker pool, imports, keys,  *)
(* the assistant's runtimes and replaced files.                            *)
(*                                                                         *)
(* They share no state that their properties speak of, so they are checked *)
(* beside each other and not interleaved: the first state chooses which    *)
(* part moves, and the others rest where they begin.  What two of them do  *)
(* together is in the part itself: a restore stops the writers, a deleted  *)
(* key stops the agents, a comparison and a task share the worker pool.    *)
(***************************************************************************)
EXTENDS DatabaseFiles, Backups, ComputeWorkers, ImportStaging, Credentials,
        Assistant, FileReplace

VARIABLE subject   \* the part that moves

platformVars == <<subject, filesVars, backupVars, poolVars, stagingVars,
                  credentialVars, assistantVars, replaceVars>>

-----------------------------------------------------------------------------
(* Constants.                                                              *)

CONSTANTS
  r1, r2, w1, w2, b1, t1, t2, t3, app, proj, e1, e2, k1, k2, u1, u2, s1, s2,
  m1, m2

ShortPolicy == {[maxBackups |-> 2, maxAgeDays |-> 1]}
LongPolicy == [maxBackups |-> 3, maxAgeDays |-> 1]

-----------------------------------------------------------------------------
(* The composition.                                                        *)

\* Where the parts that can begin in several states rest.
Parked ==
  /\ \/ subject = "credentials"
     \/ /\ keyring = FALSE /\ plaintext = [c \in Config |-> NoKey]
        /\ endpoint = [c \in Config |-> e1]
  /\ \/ subject = "assistant"
     \/ chat = [p \in Prompt |-> [at |-> "unsent", in |-> s1, on |-> Unmapped]]
  /\ subject = "replace" \/ written = 0

PlatformInit ==
  /\ subject \in {"files", "backups", "workers", "staging", "credentials",
                  "assistant", "replace"}
  /\ FilesInit /\ BackupsInit /\ PoolInit /\ StagingInit
  /\ CredentialsInit /\ AssistantInit /\ ReplaceInit /\ Parked

FilesMoves ==
  /\ subject = "files" /\ FilesNext
  /\ UNCHANGED <<subject, backupVars, poolVars, stagingVars, credentialVars,
               assistantVars, replaceVars>>

BackupsMoves ==
  /\ subject = "backups" /\ BackupsNext
  /\ UNCHANGED <<subject, filesVars, poolVars, stagingVars, credentialVars,
               assistantVars, replaceVars>>

ComputeMoves ==
  /\ subject = "workers" /\ PoolNext
  /\ UNCHANGED <<subject, filesVars, backupVars, stagingVars, credentialVars,
               assistantVars, replaceVars>>

StagingMoves ==
  /\ subject = "staging" /\ StagingNext
  /\ UNCHANGED <<subject, filesVars, backupVars, poolVars, credentialVars,
               assistantVars, replaceVars>>

CredentialsMoves ==
  /\ subject = "credentials" /\ CredentialsNext
  /\ UNCHANGED <<subject, filesVars, backupVars, poolVars, stagingVars,
               assistantVars, replaceVars>>

AssistantMoves ==
  /\ subject = "assistant" /\ AssistantNext
  /\ UNCHANGED <<subject, filesVars, backupVars, poolVars, stagingVars,
               credentialVars, replaceVars>>

ReplaceMoves ==
  /\ subject = "replace" /\ ReplaceNext
  /\ UNCHANGED <<subject, filesVars, backupVars, poolVars, stagingVars,
               credentialVars, assistantVars>>

PlatformNext ==
  \/ FilesMoves \/ BackupsMoves \/ ComputeMoves \/ StagingMoves
  \/ CredentialsMoves \/ AssistantMoves \/ ReplaceMoves

PlatformSpec ==
  /\ PlatformInit /\ [][PlatformNext]_platformVars
  /\ FilesFairness /\ AssistantFairness

-----------------------------------------------------------------------------
\* Every part keeps its types and its bounds while it moves, and the assistant's
\* runtimes run one prompt each.
PlatformIsSound ==
  CASE subject = "files" -> FilesTypeInv
    [] subject = "backups" -> BackupsTypeInv
    [] subject = "workers" -> PoolTypeInv
    [] subject = "staging" -> StagingTypeInv
    [] subject = "credentials" -> CredentialsTypeInv
    [] subject = "assistant" -> AssistantTypeInv /\ OneRunARuntime
    [] subject = "replace" -> ReplaceTypeInv

\* What the user waits for comes: a restore serves the program again, whatever
\* fails on the way, and a prompt that was stopped ends.
RestoresAndStopsEnd == RestoringEnds /\ StoppedPromptEnds
=============================================================================
