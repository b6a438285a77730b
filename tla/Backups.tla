------------------------------ MODULE Backups -------------------------------
(***************************************************************************)
(* The user's backups and how many of them are kept                        *)
(* (main/backup/backupService.ts, startupRetention.ts, policyStore.ts and  *)
(* the backup channels of main/ipc/backup.ipc.ts).                         *)
(*                                                                         *)
(* A backup is a database file and, last, a metadata file; only both make  *)
(* it listed.  Copying and hashing are awaited, so creations overlap with  *)
(* each other and with the rest; what follows the hash runs alone, the     *)
(* clean-up included.  Backups are numbered in the order of createdAt.     *)
(***************************************************************************)
EXTENDS Naturals, Sequences, FiniteSets

CONSTANTS
  MaxBackups,     \* bound: backups ever begun
  MaxDays,        \* bound: days that pass
  MaxStops,       \* bound: ends of the program
  Policies,       \* the retention policies the user chooses from
  DefaultPolicy   \* DEFAULT_BACKUP_RETENTION_POLICY

ASSUME BackupsAssumption ==
  /\ MaxBackups \in Nat \ {0} /\ MaxDays \in Nat /\ MaxStops \in Nat
  /\ Policies \cup {DefaultPolicy} \subseteq
       [maxBackups : Nat \ {0}, maxAgeDays : Nat \ {0}]

VARIABLES
  record,      \* what is known of each backup begun: reason and day
  dbFiles,     \* the backups whose database file is under its final name
  metaFiles,   \* those whose metadata file is
  creating,    \* those whose copy is awaited
  tidyBy,      \* the policy each creation read before its first await
  policyFile,  \* the policy on disk, or NoPolicy
  day,         \* today
  phase,       \* of the program: down, starting (its retention), up
  stops,       \* ends of the program so far
  applied      \* (history) the policy of the last clean-up

backupVars == <<record, dbFiles, metaFiles, creating, tidyBy, policyFile, day,
                phase, stops, applied>>

NoPolicy == [maxBackups |-> 0, maxAgeDays |-> 0]
BackupId == 1..MaxBackups

\* There is a backup an older release made before a migration.
BackupsInit ==
  /\ record = <<[reason |-> "pre-migration", day |-> 0]>>
  /\ dbFiles = {1} /\ metaFiles = {1} /\ creating = {} /\ tidyBy = <<NoPolicy>>
  /\ policyFile = NoPolicy
  /\ day = 0 /\ phase = "down" /\ stops = 0
  /\ applied = NoPolicy

-----------------------------------------------------------------------------
(* listBackups and pruneBackups.                                           *)

Listed == dbFiles \cap metaFiles
OfReason(reason) == {b \in Listed : record[b].reason = reason}
Newest(s) == {b \in s : \A c \in s : c <= b}

\* The newest backup before a migration and the newest before a restore come
\* first, as long as there is room.
Singled(policy) ==
  LET migration == Newest(OfReason("pre-migration"))
  IN IF Cardinality(migration) >= policy.maxBackups THEN migration
     ELSE migration \cup Newest(OfReason("pre-restore"))

Expired(b, policy) ==
  /\ record[b].reason \in {"manual", "scheduled"}
  /\ record[b].day + policy.maxAgeDays < day

Priority(b) == CASE record[b].reason = "manual" -> 0
                 [] record[b].reason = "scheduled" -> 1
                 [] OTHER -> 2
Before_OldestFirst(b, c) ==
  Priority(b) < Priority(c) \/ (Priority(b) = Priority(c) /\ b < c)
Before(b, c) ==
  Priority(b) < Priority(c) \/ (Priority(b) = Priority(c) /\ b > c)

\* What is kept of the backups listed.
Retained(policy) ==
  LET room == policy.maxBackups - Cardinality(Singled(policy))
      eligible == {b \in Listed \ Singled(policy) : ~Expired(b, policy)}
  IN Singled(policy) \cup
     {b \in eligible : Cardinality({c \in eligible : Before(c, b)}) < room}

\* The rest goes; each may stay whole or, its metadata refusing, as half.
Tidy(policy) ==
  /\ applied' = policy
  /\ \E gone \in SUBSET (Listed \ Retained(policy)) :
       \E half \in SUBSET gone :
         /\ dbFiles' = dbFiles \ gone
         /\ metaFiles' = metaFiles \ (gone \ half)

\* BackupPolicyStore.load.
Policy == IF policyFile = NoPolicy THEN DefaultPolicy ELSE policyFile

-----------------------------------------------------------------------------
(* createBackup, and createBackupThenApplyRetention around it.             *)

Begin(reason, policy) ==
  /\ Len(record) < MaxBackups
  /\ record' = Append(record, [reason |-> reason, day |-> day])
  /\ tidyBy' = Append(tidyBy, policy)
  /\ creating' = creating \cup {Len(record) + 1}

\* Nothing is between a creation and its clean-up.
BackupsTurn == creating \cap dbFiles = {}

\* The copy is hashed: both files get their final names.
FinishCreate(b) ==
  /\ BackupsTurn /\ b \in creating
  /\ dbFiles' = dbFiles \cup {b} /\ metaFiles' = metaFiles \cup {b}
  /\ creating' = IF tidyBy[b] = NoPolicy THEN creating \ {b} ELSE creating
  /\ UNCHANGED <<record, tidyBy, policyFile, day, phase, stops, applied>>

\* It cleans up and answers, before anything else runs.
FinishTidy(b) ==
  /\ b \in creating \cap dbFiles
  /\ Tidy(tidyBy[b])
  /\ creating' = creating \ {b}
  /\ phase' = "up"
  /\ UNCHANGED <<record, tidyBy, policyFile, day, stops>>

\* A copy fails and leaves nothing.
FailCreate(b) ==
  /\ BackupsTurn /\ b \in creating
  /\ creating' = creating \ {b}
  /\ phase' = "up"
  /\ UNCHANGED <<record, dbFiles, metaFiles, tidyBy, policyFile, day, stops,
                 applied>>

-----------------------------------------------------------------------------
(* runStartupBackupRetention: a scheduled backup if the last one is a day  *)
(* old, else one clean-up.                                                 *)

Due == \A b \in OfReason("scheduled") : record[b].day < day

StartScheduled ==
  /\ phase = "down" /\ Due
  /\ Begin("scheduled", Policy)
  /\ phase' = "starting"
  /\ UNCHANGED <<dbFiles, metaFiles, policyFile, day, stops, applied>>

StartTidy ==
  /\ phase = "down" /\ ~Due
  /\ Tidy(Policy)
  /\ phase' = "up"
  /\ UNCHANGED <<record, creating, tidyBy, policyFile, day, stops>>

-----------------------------------------------------------------------------
(* The channels.                                                           *)

CreateManual ==
  /\ phase = "up" /\ BackupsTurn
  /\ Begin("manual", Policy)
  /\ UNCHANGED <<dbFiles, metaFiles, policyFile, day, phase, stops, applied>>

\* The copy a restore makes first is not followed by a clean-up.
CreatePreRestore ==
  /\ phase = "up" /\ BackupsTurn
  /\ Begin("pre-restore", NoPolicy)
  /\ UNCHANGED <<dbFiles, metaFiles, policyFile, day, phase, stops, applied>>

\* backup:update-policy: saved, then applied.
UpdatePolicy ==
  /\ phase = "up" /\ BackupsTurn
  /\ \E policy \in Policies :
       /\ policyFile' = policy
       /\ Tidy(policy)
  /\ UNCHANGED <<record, creating, tidyBy, day, phase, stops>>

\* replaceFileSafely fails where the old file cannot come back either.
LosePolicy ==
  /\ phase = "up" /\ BackupsTurn /\ policyFile # NoPolicy
  /\ policyFile' = NoPolicy
  /\ UNCHANGED <<record, dbFiles, metaFiles, creating, tidyBy, day, phase, stops,
                 applied>>

-----------------------------------------------------------------------------
DayPasses ==
  /\ BackupsTurn /\ day < MaxDays
  /\ day' = day + 1
  /\ UNCHANGED <<record, dbFiles, metaFiles, creating, tidyBy, policyFile, phase,
                 stops, applied>>

\* The program ends, at worst between the two renames of one creation or of
\* the policy.
StopProgram ==
  /\ phase # "down" /\ stops < MaxStops
  /\ stops' = stops + 1
  /\ phase' = "down" /\ creating' = {}
  /\ \/ UNCHANGED <<dbFiles, policyFile>>
     \/ \E b \in creating : dbFiles' = dbFiles \cup {b} /\ UNCHANGED policyFile
     \/ policyFile' = NoPolicy /\ UNCHANGED dbFiles
  /\ UNCHANGED <<record, metaFiles, tidyBy, day, applied>>

BackupsNext ==
  \/ StartScheduled \/ StartTidy
  \/ CreateManual \/ CreatePreRestore \/ UpdatePolicy \/ LosePolicy
  \/ \E b \in BackupId : FinishCreate(b) \/ FinishTidy(b) \/ FailCreate(b)
  \/ DayPasses \/ StopProgram

BackupsSpec == BackupsInit /\ [][BackupsNext]_backupVars

-----------------------------------------------------------------------------
\* Every file is of a backup begun; a finished one is not being created.
BackupsTypeInv ==
  /\ record \in Seq([reason : {"manual", "scheduled", "pre-migration",
                               "pre-restore"}, day : 0..MaxDays])
  /\ Len(record) <= MaxBackups /\ Len(tidyBy) = Len(record)
  /\ dbFiles \cup metaFiles \cup creating \subseteq DOMAIN record
  /\ Cardinality(creating \cap dbFiles) <= 1
  /\ policyFile \in Policies \cup {NoPolicy}
  /\ day \in 0..MaxDays /\ phase \in {"down", "starting", "up"}

\* How many backups of a kind a policy has room for, first come first served.
Singular == {"pre-migration", "pre-restore"}
Promised(reason, policy) ==
  CASE reason = "pre-migration" -> 1
    [] reason = "pre-restore" -> IF policy.maxBackups > 1 THEN 1 ELSE 0
    [] reason = "manual" ->
         policy.maxBackups
           - Cardinality({r \in Singular : OfReason(r) # {}})
    [] OTHER -> 0

\* pruneBackups: a backup that is not too old goes only when enough newer
\* ones of its kind stay: the newest before a migration, the newest before a
\* restore, and manual ones as many as the rest of the room.
NewerOnesStay == [][
  \A b \in Listed \ (dbFiles' \cap metaFiles') :
    \/ Expired(b, applied')
    \/ Cardinality({c \in dbFiles' \cap metaFiles' :
                      c > b /\ record[c].reason = record[b].reason})
         >= Promised(record[b].reason, applied')]_backupVars
=============================================================================
