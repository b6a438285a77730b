--------------------------- MODULE DatabaseFiles ----------------------------
(***************************************************************************)
(* The files a database lives in: opening, migrating and rolling back at   *)
(* start-up (main/database/lifecycle.ts), restoring a backup               *)
(* (restore.ts, runtimeStatus.ts, restoreDatabaseBackup of main.ts) and    *)
(* the gate that keeps requests from an unavailable database               *)
(* (ipc/shared.ts).  The process may die between any two file operations,  *)
(* and any of them may fail, MaxFaults times in all.                       *)
(*                                                                         *)
(* A content is the number of its last edit and how far it is migrated:    *)
(* old, boundary (all before version 8) or new.  Temporary names are       *)
(* unique, so what a crash leaves under one is never overwritten: left.    *)
(***************************************************************************)
EXTENDS Naturals, FiniteSets

CONSTANTS
  Request,    \* the restore requests
  Missing,    \* no file
  MaxEdits,   \* bound: edits of the user
  MaxFaults,  \* bound: file operations that fail, and crashes
  MaxAsks     \* bound: restores asked for

ASSUME DatabaseFilesAssumption ==
  /\ MaxEdits \in Nat /\ MaxFaults \in Nat /\ MaxAsks \in Nat
  /\ Missing \notin [edit : Nat, schema : {"old", "boundary", "new"}]
  /\ "startup" \notin Request

VARIABLES
  \* The disk.
  main,       \* the file at the database path
  last,       \* (history) the one that was there before a replacement
  displaced,  \* the displaced file of the last replacement
  left,       \* displaced files of earlier ones
  snapshots,  \* internal migration snapshots
  aside,      \* copies under backups/database/failed
  copies,     \* pre-restore backups
  \* The process.
  boot,       \* the pc of start-up and the snapshot it made
  runtime,    \* DatabaseRuntimeStatus.state
  connected,  \* a connection is open
  request,    \* each request: pc, and what it captured when it began
  move,       \* the replacement under way: pc, for whom, of what
  \* History and bounds.
  clock,      \* edits made so far
  faults,     \* operations that failed, and crashes, so far
  asks,       \* restores asked for so far
  safe        \* the last edit that no restore under way may lose

disk == <<main, last, displaced, left, snapshots, aside, copies>>
process == <<boot, runtime, connected, request, move>>
filesVars == <<disk, process, clock, faults, asks, safe>>

DbContent == [edit : 0..MaxEdits + 2, schema : {"old", "boundary", "new"}]
Blank == [edit |-> 0, schema |-> "old"]
Backup == [edit |-> 1, schema |-> "new"]   \* the backup the user restores

Owner == Request \cup {"startup"}
Down == [pc |-> "down", snapshot |-> Missing]
Waiting == [pc |-> "idle", available |-> FALSE, before |-> "ready",
            copy |-> Missing]
Still == [pc |-> "idle", owner |-> "startup", staged |-> Missing,
          rollback |-> FALSE]

FilesInit ==
  /\ main = [edit |-> 2, schema |-> "old"]
  /\ last = main /\ displaced = Missing /\ left = {} /\ snapshots = {} /\ aside = {}
  /\ copies = {}
  /\ boot = Down /\ runtime = "recovery-required" /\ connected = FALSE
  /\ request = [r \in Request |-> Waiting]
  /\ move = Still
  /\ clock = 2 /\ faults = 0 /\ asks = 0 /\ safe = 2

-----------------------------------------------------------------------------
Present(file) == IF file = Missing THEN {} ELSE {file}

\* An operation on files goes wrong.
Fails == faults < MaxFaults /\ faults' = faults + 1
Works == UNCHANGED faults

\* Code that awaits something may be overtaken; a replacement may not.
FilesTurn ==
  move.pc = "idle" /\ \A r \in Request : request[r].pc # "give up"

\* The handlers of the business channels and of backup:restore run.
BusinessAvailable == runtime = "ready"
RestoreAllowed == runtime # "restoring"

\* app.relaunch and app.exit: the process is gone; or relaunch throws.
Exits ==
  /\ boot' = Down /\ connected' = FALSE /\ move' = Still
  /\ request' = [r \in Request |-> Waiting]
  /\ runtime' = "recovery-required"
Relaunch(r) ==
  \/ Exits /\ Works
  \/ /\ Fails
     /\ runtime' = "recovery-required"
     /\ request' = [request EXCEPT ![r] = Waiting]
     /\ move' = Still
     /\ UNCHANGED <<boot, connected>>

StartupFails(state) ==
  /\ boot' = [Down EXCEPT !.pc = "failed"]
  /\ runtime' = state /\ connected' = FALSE

-----------------------------------------------------------------------------
(* initializeDatabaseLifecycle.                                            *)

OpenDatabase ==
  /\ boot.pc = "down"
  /\ \/ /\ Works
        /\ main' = IF main = Missing THEN Blank ELSE main
        /\ boot' = [Down EXCEPT !.pc =
             IF main # Missing /\ main.schema # "new"
             THEN "snapshot" ELSE "boundary"]
        /\ connected' = TRUE
        /\ runtime' = "recovery-required"
     \/ /\ Fails
        /\ StartupFails("recovery-required")
        /\ UNCHANGED main
  /\ UNCHANGED <<last, displaced, left, snapshots, aside, copies, request, move,
                 clock, safe>>

TakeSnapshot ==
  /\ boot.pc = "snapshot"
  /\ \/ /\ Works
        /\ snapshots' = snapshots \cup {main}
        /\ boot' = [boot EXCEPT !.pc = "boundary", !.snapshot = main]
        /\ UNCHANGED <<runtime, connected>>
     \/ Fails /\ StartupFails("recovery-required") /\ UNCHANGED snapshots
  /\ UNCHANGED <<last, main, displaced, left, aside, copies, request, move, clock,
                 safe>>

\* The error path of a migration: quarantine, which may fail unnoticed, and
\* on to the rollback if there is a snapshot.
AbandonMigration ==
  /\ Fails
  /\ aside' \in {aside, aside \cup {main}}
  /\ IF boot.snapshot = Missing
     THEN StartupFails("recovery-required")
     ELSE /\ boot' = [boot EXCEPT !.pc = "rollback"]
          /\ connected' = FALSE
          /\ UNCHANGED runtime
  /\ UNCHANGED <<main, snapshots>>

\* The migrations before version 8, then those of the credentials: if one of
\* them is pending, the program stops there.
MigrateBoundary ==
  /\ boot.pc = "boundary"
  /\ \/ /\ Works
        /\ main' = IF main.schema = "old"
                   THEN [main EXCEPT !.schema = "boundary"] ELSE main
        /\ \/ /\ boot' = [boot EXCEPT !.pc = "cleanup"]
              /\ UNCHANGED <<runtime, snapshots>>
           \/ /\ boot' = [Down EXCEPT !.pc = "open"]
              /\ runtime' = "credential-migration-required"
              /\ snapshots' = snapshots \ Present(boot.snapshot)
        /\ UNCHANGED <<aside, connected>>
     \/ AbandonMigration
  /\ UNCHANGED <<last, displaced, left, copies, request, move, clock, safe>>

\* The rest in one transaction; VACUUM or an inspection may fail after it.
MigrateRest ==
  /\ boot.pc = "cleanup"
  /\ \/ /\ Works
        /\ main' = [main EXCEPT !.schema = "new"]
        /\ snapshots' = snapshots \ Present(boot.snapshot)
        /\ boot' = [Down EXCEPT !.pc = "open"]
        /\ runtime' = "ready"
        /\ UNCHANGED <<aside, connected>>
     \/ AbandonMigration
     \/ /\ Fails
        /\ main' = [main EXCEPT !.schema = "new"]
        /\ boot' = [boot EXCEPT !.pc = "cleaned"]
        /\ UNCHANGED <<snapshots, aside, runtime, connected>>
  /\ UNCHANGED <<last, displaced, left, copies, request, move, clock, safe>>
RejectMigrated ==
  /\ boot.pc = "cleaned"
  /\ aside' \in {aside, aside \cup {main}}
  /\ IF boot.snapshot = Missing
     THEN StartupFails("recovery-required")
     ELSE /\ boot' = [boot EXCEPT !.pc = "rollback"]
          /\ connected' = FALSE
          /\ UNCHANGED runtime
  /\ UNCHANGED <<last, main, displaced, left, snapshots, copies, request, move,
                 clock, faults, safe>>

\* finalizeInternalMigrationSnapshot(..., 'failed').
Quarantine ==
  /\ snapshots' = snapshots \ Present(boot.snapshot)
  /\ aside' = aside \cup Present(boot.snapshot)

StageSnapshot ==
  /\ boot.pc = "rollback" /\ FilesTurn
  /\ \/ /\ Works
        /\ move' = [pc |-> "displace", owner |-> "startup",
                    staged |-> boot.snapshot, rollback |-> TRUE]
        /\ UNCHANGED <<boot, runtime, connected, snapshots, aside>>
     \/ /\ Fails
        /\ Quarantine
        /\ StartupFails("recovery-required")
        /\ UNCHANGED move
  /\ UNCHANGED <<last, main, displaced, left, copies, request, clock, safe>>

-----------------------------------------------------------------------------
(* replaceDatabaseFromStagedFile.                                          *)

Replacing(step) == [move EXCEPT !.pc = step]

\* The old file moves aside; if it cannot, nothing has happened.
Displace_Deletes ==
  /\ move.pc = "displace"
  /\ Works /\ main' = Missing
  /\ last' = IF main = Missing THEN last ELSE main
  /\ move' = Replacing("install")
  /\ UNCHANGED <<displaced, left, snapshots, aside, copies, boot, runtime,
                 connected, request, clock, safe>>
Displace ==
  /\ move.pc = "displace"
  /\ \/ /\ Works
        /\ main' = Missing /\ displaced' = main
        /\ last' = IF main = Missing THEN last ELSE main
        /\ left' = left \cup Present(displaced)
        /\ move' = Replacing("install")
     \/ /\ Fails /\ move' = Replacing("failed")
        /\ UNCHANGED <<main, last, displaced, left>>
  /\ UNCHANGED <<snapshots, aside, copies, boot, runtime, connected, request,
                 clock, safe>>

Install ==
  /\ move.pc = "install"
  /\ \/ Works /\ main' = move.staged /\ move' = Replacing("discard")
     \/ Fails /\ move' = Replacing("undo") /\ UNCHANGED main
  /\ UNCHANGED <<last, displaced, left, snapshots, aside, copies, boot, runtime,
                 connected, request, clock, safe>>

\* The old file goes for good.  If that fails, the new one goes instead.
Discard ==
  /\ move.pc = "discard"
  /\ \/ Works /\ displaced' = Missing /\ move' = Replacing("installed")
        /\ UNCHANGED main
     \/ /\ Fails /\ UNCHANGED displaced
        /\ IF displaced = Missing
           THEN move' = Replacing("failed") /\ UNCHANGED main
           ELSE move' = Replacing("undo") /\ main' = Missing
  /\ UNCHANGED <<last, left, snapshots, aside, copies, boot, runtime, connected,
                 request, clock, safe>>

\* The old file comes back, unless that fails too.
Undo ==
  /\ move.pc = "undo"
  /\ \/ Works /\ main' = displaced /\ displaced' = Missing
     \/ Fails /\ UNCHANGED <<main, displaced>>
  /\ move' = Replacing("failed")
  /\ UNCHANGED <<last, left, snapshots, aside, copies, boot, runtime, connected,
                 request, clock, safe>>

-----------------------------------------------------------------------------
(* What follows a replacement.                                             *)

FinishRollback ==
  /\ move.owner = "startup" /\ move.pc \in {"installed", "failed"}
  /\ Quarantine
  /\ \/ Works /\ StartupFails(IF move.pc = "installed"
                              THEN "migration-rolled-back"
                              ELSE "recovery-required")
     \/ move.pc = "installed" /\ Fails /\ StartupFails("recovery-required")
  /\ move' = Still
  /\ UNCHANGED <<last, main, displaced, left, copies, request, clock, safe>>

\* executeDatabaseRestore, when the new file is in place and reads well.
FinishRestore(r) ==
  /\ move.owner = r /\ move.pc = "installed" /\ ~move.rollback
  /\ Relaunch(r)
  /\ UNCHANGED <<disk, clock, safe>>

\* It is not, or not readable: what is at the path is set aside and the copy
\* made before is staged, across an await; without one nothing more is done.
RestoreGoesWrong(r) ==
  /\ move.owner = r /\ ~move.rollback
  /\ \/ move.pc = "failed" /\ Works
     \/ move.pc = "installed" /\ Fails
  /\ aside' \in {aside, aside \cup Present(main)}
  /\ move' = Still
  /\ request' = [request EXCEPT ![r].pc =
       IF request[r].copy # Missing THEN "rollback" ELSE "give up"]
  /\ UNCHANGED <<last, main, displaced, left, snapshots, copies, boot, runtime,
                 connected, clock, safe>>

StageRollback(r) ==
  /\ FilesTurn /\ request[r].pc = "rollback"
  /\ \/ /\ Works
        /\ move' = [pc |-> "displace", owner |-> r,
                    staged |-> request[r].copy, rollback |-> TRUE]
        /\ request' = [request EXCEPT ![r].pc = "moving"]
     \/ /\ Fails
        /\ request' = [request EXCEPT ![r].pc = "give up"]
        /\ UNCHANGED move
  /\ UNCHANGED <<disk, boot, runtime, connected, clock, safe>>

FinishRestoreRollback(r) ==
  /\ move.owner = r /\ move.rollback /\ move.pc \in {"installed", "failed"}
  /\ IF move.pc = "installed"
     THEN Relaunch(r)
     ELSE /\ request' = [request EXCEPT ![r].pc = "give up"]
          /\ move' = Still
          /\ UNCHANGED <<boot, runtime, connected, faults>>
  /\ UNCHANGED <<disk, clock, safe>>

GiveUp(r) ==
  /\ request[r].pc = "give up"
  /\ Relaunch(r)
  /\ UNCHANGED <<disk, clock, safe>>

-----------------------------------------------------------------------------
(* executeDatabaseRestore, up to the replacement.                          *)

Running == boot.pc \in {"open", "failed"} /\ FilesTurn

\* A request whose copy is made and which has not ended.
Late(r) == request[r].pc \notin {"idle", "verify"}

\* The edit a request may not lose is the last one before its copy.
Released(r) ==
  safe' = IF main # Missing /\ \A q \in Request \ {r} : ~Late(q)
          THEN main.edit ELSE safe

AskRestore(r) ==
  /\ Running /\ RestoreAllowed /\ request[r].pc = "idle"
  /\ asks < MaxAsks /\ asks' = asks + 1
  /\ request' = [request EXCEPT ![r] =
       [pc |-> "verify", available |-> connected, before |-> runtime,
        copy |-> Missing]]
  /\ UNCHANGED <<disk, boot, runtime, connected, move, clock, faults, safe>>

\* The backup is verified and, if the database was open when the request came,
\* a pre-restore backup is made; else the unusable file is copied, or not.
PrepareRestore_NoCopy(r) ==
  /\ Running /\ request[r].pc = "verify" /\ Works
  /\ request' = [request EXCEPT ![r].pc = "stage"]
  /\ safe' = IF main # Missing /\ \A q \in Request : ~Late(q)
             THEN main.edit ELSE safe
  /\ UNCHANGED <<disk, boot, runtime, connected, move, clock>>
PrepareRestore(r) ==
  /\ Running /\ request[r].pc = "verify"
  /\ IF request[r].available
     THEN \/ /\ Works /\ connected /\ main.schema = "new"
             /\ copies' = copies \cup {main}
             /\ request' = [request EXCEPT ![r].pc = "stage", ![r].copy = main]
             /\ safe' = IF \A q \in Request : ~Late(q) THEN main.edit ELSE safe
             /\ UNCHANGED aside
          \/ /\ IF connected /\ main.schema = "new" THEN Fails ELSE Works
             /\ request' = [request EXCEPT ![r] = Waiting]
             /\ UNCHANGED <<copies, aside, safe>>
     ELSE /\ Works
          /\ aside' \in {aside, aside \cup Present(main)}
          /\ request' = [request EXCEPT ![r].pc = "stage"]
          /\ safe' = Backup.edit
          /\ UNCHANGED copies
  /\ UNCHANGED <<last, main, displaced, left, snapshots, boot, runtime, connected,
                 move, clock>>

\* Staged and announced; the drain of the tasks begins.
StageBackup(r) ==
  /\ Running /\ request[r].pc = "stage"
  /\ \/ /\ Works
        /\ runtime' = "restoring"
        /\ request' = [request EXCEPT ![r].pc = "close"]
        /\ UNCHANGED safe
     \/ /\ Fails
        /\ request' = [request EXCEPT ![r] = Waiting]
        /\ Released(r)
        /\ UNCHANGED runtime
  /\ UNCHANGED <<disk, boot, connected, move, clock>>

\* shutdownDatabaseResources: writers do not drain in time, the connection
\* does not close, or it is closed and the file is free to be replaced.
NotDrained_StaysRestoring(r) ==
  /\ Running /\ request[r].pc = "close" /\ connected
  /\ request' = [request EXCEPT ![r] = Waiting]
  /\ Released(r)
  /\ UNCHANGED <<disk, boot, runtime, connected, move, clock, faults>>
NotDrained(r) ==
  /\ Running /\ request[r].pc = "close" /\ connected
  /\ runtime' = request[r].before
  /\ request' = [request EXCEPT ![r] = Waiting]
  /\ Released(r)
  /\ UNCHANGED <<disk, boot, connected, move, clock, faults>>
NotClosed(r) ==
  /\ Running /\ request[r].pc = "close" /\ connected
  /\ Fails
  /\ runtime' = "recovery-required"
  /\ request' = [request EXCEPT ![r].pc = "give up"]
  /\ UNCHANGED <<disk, boot, connected, move, clock, safe>>
Closed(r) ==
  /\ Running /\ request[r].pc = "close"
  /\ connected' = FALSE
  /\ request' = [request EXCEPT ![r].pc = "moving"]
  /\ move' = [pc |-> "displace", owner |-> r, staged |-> Backup,
              rollback |-> FALSE]
  /\ UNCHANGED <<disk, boot, runtime, clock, faults, safe>>

-----------------------------------------------------------------------------
(* The user and the machine.                                               *)

\* Requests write while the gate is open, tasks until they are drained.
EditDatabase ==
  /\ Running /\ connected /\ clock < MaxEdits + 2
  /\ BusinessAvailable \/ \E r \in Request : /\ request[r].pc = "close"
                                              /\ request[r].before = "ready"
  /\ clock' = clock + 1
  /\ main' = [main EXCEPT !.edit = clock']
  /\ safe' = IF \E r \in Request : Late(r) THEN safe ELSE clock'
  /\ UNCHANGED <<last, displaced, left, snapshots, aside, copies, process, faults>>

\* The program ends, by the user or by a crash at any point.
FilesQuit ==
  /\ Running /\ \A r \in Request : request[r].pc = "idle"
  /\ Exits
  /\ UNCHANGED <<disk, clock, faults, safe>>
FilesCrash ==
  /\ boot.pc # "down"
  /\ Exits /\ Fails
  /\ UNCHANGED <<disk, clock>>
  /\ safe' = IF main # Missing /\ (\A r \in Request : request[r].pc # "moving")
             THEN main.edit ELSE safe

RequestStep(r) ==
  /\ \/ FinishRestore(r) \/ RestoreGoesWrong(r) \/ StageRollback(r)
     \/ FinishRestoreRollback(r) \/ GiveUp(r) \/ PrepareRestore(r)
     \/ StageBackup(r) \/ NotDrained(r) \/ NotClosed(r) \/ Closed(r)
  /\ UNCHANGED asks
MoveStep == (Displace \/ Install \/ Discard \/ Undo) /\ UNCHANGED asks
StartupStep ==
  \/ OpenDatabase \/ TakeSnapshot \/ MigrateBoundary \/ MigrateRest
  \/ RejectMigrated \/ StageSnapshot \/ FinishRollback

FilesNext ==
  \/ /\ StartupStep \/ EditDatabase \/ FilesQuit \/ FilesCrash
     /\ UNCHANGED asks
  \/ MoveStep
  \/ \E r \in Request : AskRestore(r) \/ RequestStep(r)

\* File operations return and the drain has a deadline; whether the program
\* is started again is the user's business.
FilesFairness ==
  WF_filesVars(MoveStep) /\ \A r \in Request : WF_filesVars(RequestStep(r))

FilesSpec == FilesInit /\ [][FilesNext]_filesVars /\ FilesFairness
-----------------------------------------------------------------------------
\* The files hold contents, the process is where its code can be.
FilesTypeInv ==
  /\ {main, displaced} \subseteq DbContent \cup {Missing}
  /\ last \in DbContent
  /\ left \cup snapshots \cup aside \cup copies \subseteq DbContent
  /\ boot.pc \in {"down", "snapshot", "boundary", "cleanup", "cleaned",
                   "rollback", "open", "failed"}
  /\ boot.snapshot \in snapshots \cup {Missing}
  /\ runtime \in {"ready", "credential-migration-required", "restoring",
                  "recovery-required", "migration-rolled-back"}
  /\ \A r \in Request :
       /\ request[r].pc \in {"idle", "verify", "stage", "close", "moving",
                              "rollback", "give up"}
       /\ request[r].copy \in copies \cup {Missing}
  /\ move.pc \in {"idle", "displace", "install", "discard", "undo",
                   "installed", "failed"}
  /\ move.owner \in Owner

\* The contents on the disk, under whatever name.
Held == Present(main) \cup Present(displaced) \cup left \cup snapshots
        \cup aside \cup copies \cup {Backup}

\* Whatever fails and wherever the process dies, the last edit made before the
\* safety copy of a restore (or, with none under way, the last edit) is in a
\* file.  (What is written between that copy and the drain is lost when the
\* restore goes on.)
DataIsKept == \E file \in Held : file.edit = safe

\* replaceDatabaseFromStagedFile: for the rest of the program a replacement is
\* one step.  The path holds the old content or an installed one; while it is
\* vacant the old content is there to be renamed back, and only a start that
\* finds it vacant, after a crash between the two renames, begins an empty
\* database.
Contract == INSTANCE DatabaseContract WITH
  data <- IF main = Missing THEN last ELSE main,
  prior <- Present(displaced) \cup left,
  sources <- copies \cup snapshots \cup {Backup},
  vacant <- (main = Missing)
ImplementsDatabase == Contract!ContractSpec

\* A restore does not leave the program locked: the drain ends, and then the
\* status goes back, on to recovery, or the process exits.
RestoringEnds == runtime = "restoring" ~> runtime # "restoring"
=============================================================================
