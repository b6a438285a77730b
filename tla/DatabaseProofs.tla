--------------------------- MODULE DatabaseProofs ---------------------------
(***************************************************************************)
(* Proofs about the database's files: no edit is lost by a restore, a      *)
(* rollback or a crash, and the files implement the database of            *)
(* DatabaseContract.                                                       *)
(***************************************************************************)
EXTENDS DatabaseFiles, TLAPS

-----------------------------------------------------------------------------
(* The inductive invariant *)

RuntimeState == {"ready", "credential-migration-required", "restoring",
                 "recovery-required", "migration-rolled-back"}
BootPc == {"down", "snapshot", "boundary", "cleanup", "cleaned", "rollback", "open", "failed"}
RequestPc == {"idle", "verify", "stage", "close", "moving", "rollback", "give up"}
MovePc == {"idle", "displace", "install", "discard", "undo", "installed", "failed"}
FileOrNone == DbContent \cup {Missing}

BootState == [pc : BootPc, snapshot : FileOrNone]
RequestState == [pc : RequestPc, available : BOOLEAN, before : RuntimeState,
                 copy : FileOrNone]
MoveState == [pc : MovePc, owner : Owner, staged : FileOrNone, rollback : BOOLEAN]

\* The disk and the process have the types of FilesTypeInv, component by component.
FilesTypes ==
  /\ main \in FileOrNone /\ displaced \in FileOrNone
  /\ last \in DbContent
  /\ left \subseteq DbContent /\ snapshots \subseteq DbContent
  /\ aside \subseteq DbContent /\ copies \subseteq DbContent
  /\ boot \in BootState /\ boot.snapshot \in snapshots \cup {Missing}
  /\ runtime \in RuntimeState /\ connected \in BOOLEAN
  /\ request \in [Request -> RequestState]
  /\ \A r \in Request : request[r].copy \in copies \cup {Missing}
  /\ move \in MoveState
  /\ clock \in 2..MaxEdits + 2

\* No content a replacement can bring to the path is ahead of the user's edits.
EditsAreMade ==
  /\ \A file \in Present(main) \cup Present(displaced) : file.edit <= clock
  /\ \A file \in snapshots \cup copies : file.edit <= clock

\* While start-up works on the file it is there and nothing replaces it; its
\* snapshot is of the same edit.
StartupOwnsTheFile ==
  /\ boot.pc \in {"snapshot", "boundary", "cleanup", "cleaned"} =>
       main # Missing /\ move.pc = "idle"
  /\ boot.pc \in {"boundary", "cleanup", "cleaned"} /\ boot.snapshot # Missing =>
       boot.snapshot.edit = main.edit
  /\ boot.pc = "rollback" =>
       /\ boot.snapshot # Missing /\ ~ connected
       /\ move.pc = "idle" => main # Missing /\ boot.snapshot.edit = main.edit
  /\ boot.pc \notin {"open", "failed"} => \A r \in Request : request[r].pc = "idle"
  /\ connected => main # Missing /\ move.pc = "idle"
  /\ \A r \in Request :
       request[r].pc = "rollback" => request[r].copy # Missing /\ ~ connected

\* A replacement is start-up's or a request's, of a content that stays elsewhere.
ReplacementIsOwned ==
  move.pc # "idle" =>
    /\ move.staged \in copies \cup snapshots \cup {Backup}
    /\ IF move.owner = "startup"
       THEN boot.pc = "rollback" /\ move.staged = boot.snapshot
       ELSE boot.pc \in {"open", "failed"} /\ request[move.owner].pc = "moving"

\* Where the file that was at the path is at each step of a replacement.
ReplacementKnowsTheFile ==
  /\ move.pc = "displace" /\ move.owner = "startup" =>
       main # Missing /\ main.edit = move.staged.edit
  /\ move.pc \in {"install", "undo"} => main = Missing
  /\ move.pc = "discard" => main = move.staged
  /\ move.pc \in {"install", "discard", "undo"} =>
       /\ displaced \in {Missing, last}
       /\ move.owner = "startup" =>
            displaced # Missing /\ displaced.edit = move.staged.edit
  /\ main = Missing => last \in Present(displaced) \cup left

\* The edit that must not be lost is in a file nothing deletes, or in the one at
\* the path or moved aside; the former while a restore is under way.
SafeStored == \E file \in left \cup copies \cup aside \cup {Backup} : file.edit = safe
SafeInPlace == \E file \in Present(main) \cup Present(displaced) : file.edit = safe
SafeIsHeld ==
  /\ SafeStored \/ SafeInPlace
  /\ (\E r \in Request : Late(r)) => SafeStored

FilesInv ==
  /\ FilesTypes /\ EditsAreMade /\ StartupOwnsTheFile
  /\ ReplacementIsOwned /\ ReplacementKnowsTheFile /\ SafeIsHeld

-----------------------------------------------------------------------------
(* The values the process rests in, and how they change *)

\* What a process, a request and a replacement rest in is typed, and no content.
LEMMA RestingStates ==
  /\ Missing \notin DbContent /\ "startup" \notin Request /\ MaxEdits \in Nat
  /\ Backup \in DbContent /\ Backup.edit = 1
  /\ Blank \in DbContent /\ Blank.edit = 0
  /\ Down \in BootState /\ Down.pc = "down" /\ Down.snapshot = Missing
  /\ Waiting \in RequestState /\ Waiting.pc = "idle" /\ Waiting.copy = Missing
  /\ Still \in MoveState /\ Still.pc = "idle"
BY DatabaseFilesAssumption
DEF DbContent, Backup, Blank, Down, Waiting, Still, BootState, RequestState, MoveState,
    RuntimeState, Owner, BootPc, RequestPc, MovePc, FileOrNone

\* A migration leaves the edit of a content alone; an edit leaves its schema.
LEMMA ContentsChange ==
  ASSUME NEW c \in DbContent
  PROVE  /\ c.edit \in Nat /\ c.edit <= MaxEdits + 2
         /\ c.schema \in {"old", "boundary", "new"}
         /\ \A s \in {"old", "boundary", "new"} :
              /\ [c EXCEPT !.schema = s] \in DbContent
              /\ [c EXCEPT !.schema = s].edit = c.edit
              /\ [c EXCEPT !.schema = s].schema = s
         /\ \A e \in 0..MaxEdits + 2 :
              /\ [c EXCEPT !.edit = e] \in DbContent
              /\ [c EXCEPT !.edit = e].edit = e
              /\ [c EXCEPT !.edit = e].schema = c.schema
BY DatabaseFilesAssumption DEF DbContent

\* Start-up's place moves and its snapshot stays.
LEMMA BootGoes ==
  ASSUME NEW b \in BootState, NEW p \in BootPc
  PROVE  /\ b.pc \in BootPc /\ b.snapshot \in FileOrNone
         /\ [b EXCEPT !.pc = p] \in BootState
         /\ [b EXCEPT !.pc = p].pc = p /\ [b EXCEPT !.pc = p].snapshot = b.snapshot
BY DEF BootState

\* A request moves on.
LEMMA RequestGoes ==
  ASSUME FilesTypes, NEW r \in Request, NEW p \in RequestPc,
         request' = [request EXCEPT ![r].pc = p]
  PROVE  /\ request' \in [Request -> RequestState]
         /\ request'[r].pc = p /\ request'[r].copy = request[r].copy
         /\ \A q \in Request : q # r => request'[q] = request[q]
BY DEF FilesTypes, RequestState

\* A request ends.
LEMMA RequestEnds ==
  ASSUME FilesTypes, NEW r \in Request, request' = [request EXCEPT ![r] = Waiting]
  PROVE  /\ request' \in [Request -> RequestState]
         /\ request'[r].pc = "idle" /\ request'[r].copy = Missing
         /\ \A q \in Request : q # r => request'[q] = request[q]
BY RestingStates DEF FilesTypes

\* What is known of a request and of a replacement by their types.
LEMMA FieldTypes ==
  ASSUME FilesTypes
  PROVE  /\ boot.pc \in BootPc /\ boot.snapshot \in FileOrNone
         /\ \A r \in Request : request[r].pc \in RequestPc /\ request[r].copy \in FileOrNone
                               /\ request[r].before \in RuntimeState
         /\ move.pc \in MovePc /\ move.owner \in Request \cup {"startup"}
         /\ move.staged \in FileOrNone
BY DEF FilesTypes, BootState, RequestState, MoveState, Owner

\* A replacement moves on.
LEMMA MoveGoes ==
  ASSUME FilesTypes, NEW p \in MovePc, move' = Replacing(p)
  PROVE  /\ move' \in MoveState /\ move'.pc = p /\ move'.owner = move.owner
         /\ move'.staged = move.staged
BY DEF FilesTypes, MoveState, Replacing

\* A replacement begins.
LEMMA MoveBegins ==
  ASSUME NEW o \in Owner, NEW file \in DbContent, NEW b \in BOOLEAN,
         move' = [pc |-> "displace", owner |-> o, staged |-> file, rollback |-> b]
  PROVE  /\ move' \in MoveState /\ move'.pc = "displace" /\ move'.owner = o
         /\ move'.staged = file
BY DEF MoveState, MovePc, FileOrNone

\* A start that fails leaves no connection and no snapshot it knows of.
LEMMA StartupFailing ==
  ASSUME NEW state \in RuntimeState, StartupFails(state)
  PROVE  /\ boot' \in BootState /\ boot'.pc = "failed" /\ boot'.snapshot = Missing
         /\ runtime' \in RuntimeState /\ connected' = FALSE
BY RestingStates DEF StartupFails, BootState, BootPc

-----------------------------------------------------------------------------
(* The edit that must not be lost *)

\* What is stored for good stays so.
LEMMA StoredStays ==
  ASSUME SafeStored, left \subseteq left', copies \subseteq copies', aside \subseteq aside',
         safe' = safe
  PROVE  SafeStored' /\ SafeIsHeld'
BY DEF SafeStored, SafeIsHeld

\* Nothing is lost where no file leaves the path and no restore begins.
LEMMA HeldStays ==
  ASSUME SafeIsHeld, main' = main, displaced' = displaced,
         left \subseteq left', copies \subseteq copies', aside \subseteq aside',
         safe' = safe, (\E r \in Request : Late(r)') => \E r \in Request : Late(r)
  PROVE  SafeIsHeld'
BY DEF SafeIsHeld, SafeStored, SafeInPlace, Present

\* With no restore under way it is enough that the path has the edit.
LEMMA HeldAtThePath ==
  ASSUME main' \in DbContent, main'.edit = safe', Missing \notin DbContent,
         (\E r \in Request : Late(r)') => SafeStored'
  PROVE  SafeIsHeld'
BY DEF SafeIsHeld, SafeStored, SafeInPlace, Present

-----------------------------------------------------------------------------
(* The steps *)

\* A process that ends, wherever it is, leaves the files as they are.
LEMMA ExitKeeps ==
  ASSUME FilesInv, Exits, UNCHANGED <<disk, clock>>, SafeIsHeld'
  PROVE  FilesInv'
<1> USE RestingStates
<1>1. FilesTypes'
  BY DEF Exits, FilesInv, FilesTypes, disk, RuntimeState
<1>2. /\ main' = main /\ displaced' = displaced /\ last' = last /\ left' = left
      /\ copies' = copies /\ snapshots' = snapshots /\ clock' = clock
      /\ boot'.pc = "down" /\ move'.pc = "idle" /\ connected' = FALSE
      /\ \A r \in Request : request'[r].pc = "idle"
  BY DEF Exits, disk
<1>3. EditsAreMade'
  BY <1>2 DEF FilesInv, EditsAreMade, Present
<1>4. StartupOwnsTheFile' /\ ReplacementIsOwned'
  BY <1>2 DEF StartupOwnsTheFile, ReplacementIsOwned
<1>5. ReplacementKnowsTheFile'
  BY <1>2 DEF FilesInv, ReplacementKnowsTheFile, Present
<1> QED
  BY <1>1, <1>3, <1>4, <1>5 DEF FilesInv

\* A request acts while no replacement is left under way: it may copy the file,
\* and the rest of the disk stays.
LEMMA RequestKeeps ==
  ASSUME FilesInv, NEW r \in Request,
         UNCHANGED <<main, last, displaced, left, snapshots, boot, clock>>,
         boot.pc \in {"open", "failed"},
         move' \in MoveState, move'.pc = "idle",
         aside \subseteq aside', aside' \subseteq aside \cup Present(main),
         copies \subseteq copies', copies' \subseteq copies \cup Present(main),
         connected' \in BOOLEAN, connected' => connected,
         runtime' \in RuntimeState,
         request' \in [Request -> RequestState],
         \A q \in Request : q # r => request'[q] = request[q],
         request'[r].copy \in copies' \cup {Missing},
         request'[r].pc = "rollback" => request'[r].copy # Missing /\ ~ connected',
         SafeIsHeld'
  PROVE  FilesInv'
<1> USE RestingStates
<1>1. Present(main) \subseteq DbContent
  BY DEF FilesInv, FilesTypes, Present, FileOrNone
<1>2. FilesTypes'
  BY <1>1 DEF FilesInv, FilesTypes
<1>3. EditsAreMade'
  BY DEF FilesInv, EditsAreMade, Present
<1>4. StartupOwnsTheFile'
  BY DEF FilesInv, StartupOwnsTheFile
<1>5. ReplacementIsOwned'
  BY DEF ReplacementIsOwned
<1>6. ReplacementKnowsTheFile'
  BY DEF FilesInv, ReplacementKnowsTheFile, Present
<1> QED
  BY <1>2, <1>3, <1>4, <1>5, <1>6 DEF FilesInv

\* Start-up acts on its own: no request and no replacement is under way, and the
\* path has a content.
LEMMA StartupKeeps ==
  ASSUME FilesInv, UNCHANGED <<last, displaced, left, copies, request, move, clock>>,
         boot.pc \notin {"open", "failed", "rollback"},
         main' \in FileOrNone, main = Missing \/ main' # Missing,
         main' # Missing => main'.edit <= clock,
         snapshots' \subseteq DbContent,
         \A file \in snapshots' : file.edit <= clock,
         aside' \subseteq DbContent,
         boot' \in BootState, boot'.snapshot \in snapshots' \cup {Missing},
         runtime' \in RuntimeState, connected' \in BOOLEAN,
         boot'.pc \in {"snapshot", "boundary", "cleanup", "cleaned", "rollback"} =>
           /\ main' # Missing
           /\ boot'.pc # "snapshot" /\ boot'.snapshot # Missing =>
                boot'.snapshot.edit = main'.edit,
         boot'.pc = "rollback" => boot'.snapshot # Missing /\ ~ connected',
         connected' => main' # Missing,
         SafeIsHeld'
  PROVE  FilesInv'
<1> USE RestingStates
<1>0. move.pc = "idle" /\ \A r \in Request : request[r].pc = "idle"
  BY FieldTypes DEF FilesInv, ReplacementIsOwned, StartupOwnsTheFile
<1>1. FilesTypes'
  BY DEF FilesInv, FilesTypes
<1>2. EditsAreMade'
  BY DEF FilesInv, EditsAreMade, Present
<1>3. StartupOwnsTheFile'
  BY <1>0 DEF StartupOwnsTheFile
<1>4. ReplacementIsOwned'
  BY <1>0 DEF ReplacementIsOwned
<1>5. ReplacementKnowsTheFile'
  BY <1>0 DEF FilesInv, ReplacementKnowsTheFile, Present
<1> QED
  BY <1>1, <1>2, <1>3, <1>4, <1>5 DEF FilesInv

\* initializeDatabaseLifecycle, up to the rollback.
LEMMA StartupSteps ==
  ASSUME FilesInv,
         OpenDatabase \/ TakeSnapshot \/ MigrateBoundary \/ MigrateRest \/ RejectMigrated
  PROVE  FilesInv'
<1> USE RestingStates
<1> HIDE DEF Down, Waiting, Still, Backup, Blank
<1>t. FilesTypes /\ EditsAreMade /\ StartupOwnsTheFile /\ SafeIsHeld
  BY DEF FilesInv
<1>f. boot \in BootState /\ boot.snapshot \in snapshots \cup {Missing}
  BY <1>t DEF FilesTypes
<1>s. \A state \in RuntimeState : StartupFails(state) =>
        /\ boot' \in BootState /\ boot'.pc = "failed" /\ boot'.snapshot = Missing
        /\ runtime' \in RuntimeState /\ connected' = FALSE
  BY StartupFailing
<1>n. \A p \in BootPc : /\ [Down EXCEPT !.pc = p] \in BootState
                        /\ [Down EXCEPT !.pc = p].pc = p
                        /\ [Down EXCEPT !.pc = p].snapshot = Missing
                        /\ [boot EXCEPT !.pc = p] \in BootState
                        /\ [boot EXCEPT !.pc = p].pc = p
                        /\ [boot EXCEPT !.pc = p].snapshot = boot.snapshot
  BY <1>f, BootGoes
<1>c. main # Missing => /\ main.edit <= clock
                        /\ \A x \in {"old", "boundary", "new"} :
                             /\ [main EXCEPT !.schema = x] \in DbContent
                             /\ [main EXCEPT !.schema = x].edit = main.edit
  BY <1>t, ContentsChange DEF FilesTypes, FileOrNone, EditsAreMade, Present
<1>q. clock \in Nat /\ clock >= 2
  BY <1>t DEF FilesTypes
<1> DEFINE Frame == UNCHANGED <<last, displaced, left, copies, request, move, clock, safe>>
           Early == boot.pc \notin {"open", "failed", "rollback"}
           MainGoes == /\ main' \in FileOrNone /\ (main = Missing \/ main' # Missing)
                       /\ main' # Missing => main'.edit <= clock
                       /\ main # Missing => main'.edit = main.edit
           FilesGo == /\ snapshots' \subseteq DbContent
                      /\ \A file \in snapshots' : file.edit <= clock
                      /\ aside \subseteq aside' /\ aside' \subseteq DbContent
           BootGo == /\ boot' \in BootState /\ boot'.snapshot \in snapshots' \cup {Missing}
                     /\ runtime' \in RuntimeState /\ connected' \in BOOLEAN
                     /\ boot'.pc \in {"snapshot", "boundary", "cleanup", "cleaned",
                                      "rollback"} =>
                          /\ main' # Missing
                          /\ boot'.pc # "snapshot" /\ boot'.snapshot # Missing =>
                               boot'.snapshot.edit = main'.edit
                     /\ boot'.pc = "rollback" => boot'.snapshot # Missing /\ ~ connected'
                     /\ connected' => main' # Missing
<1>k. Frame /\ Early /\ MainGoes /\ FilesGo /\ BootGo => FilesInv'
  <2> SUFFICES ASSUME Frame, Early, MainGoes, FilesGo, BootGo PROVE FilesInv'
    OBVIOUS
  <2>1. \A r \in Request : Late(r)' <=> Late(r)
    BY DEF Late
  <2>2. SafeStored => SafeStored'
    BY StoredStays
  <2>3. SafeInPlace => SafeInPlace'
    BY DEF SafeInPlace, Present
  <2>4. SafeIsHeld'
    BY <1>t, <2>1, <2>2, <2>3 DEF SafeIsHeld
  <2>5. UNCHANGED <<last, displaced, left, copies, request, move, clock>>
    OBVIOUS
  <2>6. /\ main' \in FileOrNone /\ (main = Missing \/ main' # Missing)
        /\ (main' # Missing => main'.edit <= clock)
        /\ snapshots' \subseteq DbContent /\ aside' \subseteq DbContent
        /\ \A file \in snapshots' : file.edit <= clock
    OBVIOUS
  <2> HIDE DEF Frame, MainGoes, FilesGo
  <2> QED
    BY <2>4, <2>5, <2>6, StartupKeeps
<1>x. main # Missing /\ aside' \in {aside, aside \cup {main}} =>
        aside \subseteq aside' /\ aside' \subseteq DbContent
  BY <1>t DEF FilesTypes, FileOrNone
<1>y. snapshots \subseteq DbContent /\ \A file \in snapshots : file.edit <= clock
  BY <1>t DEF FilesTypes, EditsAreMade
<1>z. main \in FileOrNone /\ aside \subseteq DbContent /\ runtime \in RuntimeState
      /\ connected \in BOOLEAN /\ (connected => main # Missing)
  BY <1>t DEF FilesTypes, StartupOwnsTheFile
<1> USE DEF Works, Fails
<1>1. CASE OpenDatabase
  <2>1. Frame /\ Early
    BY <1>1 DEF OpenDatabase
  <2>2. MainGoes /\ FilesGo
    BY <1>1, <1>c, <1>q, <1>y, <1>z DEF OpenDatabase, FileOrNone
  <2>3. BootGo
    <3>1. CASE /\ main' = IF main = Missing THEN Blank ELSE main
               /\ boot' = [Down EXCEPT !.pc = IF main # Missing /\ main.schema # "new"
                                              THEN "snapshot" ELSE "boundary"]
               /\ connected' = TRUE /\ runtime' = "recovery-required"
      BY <3>1, <1>n DEF BootPc, RuntimeState
    <3>2. CASE StartupFails("recovery-required")
      BY <3>2, <1>s DEF RuntimeState
    <3> QED
      BY <1>1, <3>1, <3>2 DEF OpenDatabase
  <2> QED
    BY <2>1, <2>2, <2>3, <1>k
<1>2. CASE TakeSnapshot
  <2>0. main # Missing
    BY <1>2, <1>t DEF TakeSnapshot, StartupOwnsTheFile
  <2>1. Frame /\ Early
    BY <1>2 DEF TakeSnapshot
  <2>2. MainGoes /\ FilesGo
    BY <1>2, <1>c, <1>y, <1>z, <2>0 DEF TakeSnapshot, FileOrNone
  <2>3. BootGo
    <3>1. CASE /\ snapshots' = snapshots \cup {main}
               /\ boot' = [boot EXCEPT !.pc = "boundary", !.snapshot = main]
               /\ UNCHANGED <<runtime, connected>>
      <4>1. boot' \in BootState /\ boot'.pc = "boundary" /\ boot'.snapshot = main
        BY <3>1, <1>f, <1>z DEF BootState, BootPc
      <4> QED
        BY <3>1, <4>1, <1>2, <1>z, <2>0 DEF TakeSnapshot
    <3>2. CASE StartupFails("recovery-required")
      BY <3>2, <1>s DEF RuntimeState
    <3> QED
      BY <1>2, <3>1, <3>2 DEF TakeSnapshot
  <2> QED
    BY <2>1, <2>2, <2>3, <1>k
<1>m. ASSUME boot.pc \in {"boundary", "cleanup", "cleaned"},
             aside' \in {aside, aside \cup {main}}, UNCHANGED <<main, snapshots>>,
             IF boot.snapshot = Missing THEN StartupFails("recovery-required")
             ELSE /\ boot' = [boot EXCEPT !.pc = "rollback"]
                  /\ connected' = FALSE /\ UNCHANGED runtime
      PROVE  MainGoes /\ FilesGo /\ BootGo
  <2>0. main # Missing /\ (boot.snapshot # Missing => boot.snapshot.edit = main.edit)
    BY <1>m, <1>t DEF StartupOwnsTheFile
  <2>1. MainGoes /\ FilesGo
    BY <1>m, <1>c, <1>x, <1>y, <1>z, <2>0
  <2>2. CASE boot.snapshot = Missing
    BY <1>m, <1>s, <2>1, <2>2 DEF RuntimeState
  <2>3. CASE boot.snapshot # Missing
    <3>1. boot' \in BootState /\ boot'.pc = "rollback" /\ boot'.snapshot = boot.snapshot
      BY <1>m, <1>n, <2>3 DEF BootPc
    <3> QED
      BY <1>m, <1>f, <1>z, <2>0, <2>1, <2>3, <3>1
  <2> QED
    BY <2>2, <2>3
<1>3. CASE MigrateBoundary
  <2>0. main # Missing /\ (boot.snapshot # Missing => boot.snapshot.edit = main.edit)
    BY <1>3, <1>t DEF MigrateBoundary, StartupOwnsTheFile
  <2>1. Frame /\ Early
    BY <1>3 DEF MigrateBoundary
  <2>2. CASE AbandonMigration
    BY <1>3, <1>m, <2>1, <2>2, <1>k DEF AbandonMigration, MigrateBoundary
  <2>3. CASE ~ AbandonMigration
    <3>1. main' = (IF main.schema = "old" THEN [main EXCEPT !.schema = "boundary"] ELSE main)
          /\ UNCHANGED <<aside, connected>>
          /\ snapshots' \subseteq snapshots
      BY <1>3, <2>3 DEF MigrateBoundary
    <3>2. main' \in DbContent /\ main'.edit = main.edit
      BY <3>1, <2>0, <1>c, <1>z DEF FileOrNone
    <3>3. MainGoes /\ FilesGo
      BY <3>1, <3>2, <2>0, <1>c, <1>y, <1>z DEF FileOrNone
    <3>4. CASE /\ boot' = [boot EXCEPT !.pc = "cleanup"]
               /\ UNCHANGED <<runtime, snapshots>>
      <4>1. boot' \in BootState /\ boot'.pc = "cleanup" /\ boot'.snapshot = boot.snapshot
        BY <3>4, <1>n DEF BootPc
      <4>2. BootGo
        BY <3>1, <3>2, <3>4, <4>1, <1>f, <1>z, <2>0
      <4> QED
        BY <2>1, <3>3, <4>2, <1>k
    <3>5. CASE /\ boot' = [Down EXCEPT !.pc = "open"]
               /\ runtime' = "credential-migration-required"
      <4>1. BootGo
        BY <3>1, <3>2, <3>5, <1>n, <1>z DEF BootPc, RuntimeState
      <4> QED
        BY <2>1, <3>3, <4>1, <1>k
    <3> QED
      BY <1>3, <2>3, <3>4, <3>5 DEF MigrateBoundary
  <2> QED
    BY <2>2, <2>3
<1>4. CASE MigrateRest
  <2>0. main # Missing /\ (boot.snapshot # Missing => boot.snapshot.edit = main.edit)
    BY <1>4, <1>t DEF MigrateRest, StartupOwnsTheFile
  <2>1. Frame /\ Early
    BY <1>4 DEF MigrateRest
  <2>2. CASE AbandonMigration
    BY <1>4, <1>m, <2>1, <2>2, <1>k DEF AbandonMigration, MigrateRest
  <2>3. CASE ~ AbandonMigration
    <3>1. main' = [main EXCEPT !.schema = "new"] /\ UNCHANGED <<aside, connected>>
          /\ snapshots' \subseteq snapshots
      BY <1>4, <2>3 DEF MigrateRest
    <3>2. main' \in DbContent /\ main'.edit = main.edit
      BY <3>1, <2>0, <1>c
    <3>3. MainGoes /\ FilesGo
      BY <3>1, <3>2, <2>0, <1>c, <1>y, <1>z DEF FileOrNone
    <3>4. CASE /\ boot' = [boot EXCEPT !.pc = "cleaned"]
               /\ UNCHANGED <<runtime, snapshots>>
      <4>1. boot' \in BootState /\ boot'.pc = "cleaned" /\ boot'.snapshot = boot.snapshot
        BY <3>4, <1>n DEF BootPc
      <4>2. BootGo
        BY <3>1, <3>2, <3>4, <4>1, <1>f, <1>z, <2>0
      <4> QED
        BY <2>1, <3>3, <4>2, <1>k
    <3>5. CASE boot' = [Down EXCEPT !.pc = "open"] /\ runtime' = "ready"
      <4>1. BootGo
        BY <3>1, <3>2, <3>5, <1>n, <1>z DEF BootPc, RuntimeState
      <4> QED
        BY <2>1, <3>3, <4>1, <1>k
    <3> QED
      BY <1>4, <2>3, <3>4, <3>5 DEF MigrateRest
  <2> QED
    BY <2>2, <2>3
<1>5. CASE RejectMigrated
  <2>1. Frame /\ Early
    BY <1>5 DEF RejectMigrated
  <2> QED
    BY <1>5, <1>m, <2>1, <1>k DEF RejectMigrated
<1> QED
  BY <1>1, <1>2, <1>3, <1>4, <1>5

\* A failed start with a snapshot sets it aside and is over.
LEMMA RollbackEnds ==
  ASSUME FilesInv, boot.pc = "rollback", Quarantine,
         NEW state \in RuntimeState, StartupFails(state),
         move' \in MoveState, move'.pc = "idle",
         UNCHANGED <<last, main, displaced, left, copies, request, clock, safe>>
  PROVE  FilesInv'
<1> USE RestingStates
<1>1. /\ boot' \in BootState /\ boot'.pc = "failed" /\ boot'.snapshot = Missing
      /\ runtime' \in RuntimeState /\ connected' = FALSE
  BY StartupFailing
<1>2. /\ snapshots' \subseteq snapshots /\ aside \subseteq aside'
      /\ aside' \subseteq aside \cup snapshots
  BY DEF Quarantine, Present, FilesInv, FilesTypes
<1>3. FilesTypes'
  BY <1>1, <1>2 DEF FilesInv, FilesTypes
<1>4. EditsAreMade' /\ ReplacementKnowsTheFile'
  BY <1>2 DEF FilesInv, EditsAreMade, ReplacementKnowsTheFile, Present
<1>5. StartupOwnsTheFile' /\ ReplacementIsOwned'
  BY <1>1 DEF FilesInv, StartupOwnsTheFile, ReplacementIsOwned
<1>6. SafeIsHeld'
  BY <1>2, HeldStays DEF FilesInv, Late
<1> QED
  BY <1>3, <1>4, <1>5, <1>6 DEF FilesInv

\* The rollback of a failed migration begins, or is given up, or has ended.
LEMMA RollbackSteps ==
  ASSUME FilesInv, StageSnapshot \/ FinishRollback
  PROVE  FilesInv'
<1> USE RestingStates
<1> HIDE DEF Down, Waiting, Still, Backup, Blank
<1>1. CASE FinishRollback
  <2>1. boot.pc = "rollback"
    BY <1>1 DEF FinishRollback, FilesInv, ReplacementIsOwned
  <2>2. /\ Quarantine /\ move' = Still
        /\ UNCHANGED <<last, main, displaced, left, copies, request, clock, safe>>
        /\ \E state \in RuntimeState : StartupFails(state)
    BY <1>1 DEF FinishRollback, RuntimeState
  <2> QED
    BY <2>1, <2>2, RollbackEnds
<1>2. CASE StageSnapshot /\ StartupFails("recovery-required") /\ Quarantine /\ UNCHANGED move
  BY <1>2, RollbackEnds DEF StageSnapshot, FilesTurn, FilesInv, FilesTypes, RuntimeState
<1>3. CASE /\ StageSnapshot
           /\ move' = [pc |-> "displace", owner |-> "startup",
                       staged |-> boot.snapshot, rollback |-> TRUE]
           /\ UNCHANGED <<boot, runtime, connected, snapshots, aside>>
  <2>0. /\ boot.pc = "rollback" /\ move.pc = "idle"
        /\ UNCHANGED <<last, main, displaced, left, copies, request, clock, safe>>
    BY <1>3 DEF StageSnapshot, FilesTurn
  <2>1. /\ boot.snapshot # Missing /\ boot.snapshot \in snapshots
        /\ main # Missing /\ boot.snapshot.edit = main.edit /\ ~ connected
    BY <2>0 DEF FilesInv, FilesTypes, StartupOwnsTheFile
  <2>2. /\ move' \in MoveState /\ move'.pc = "displace" /\ move'.owner = "startup"
        /\ move'.staged = boot.snapshot
    <3>1. boot.snapshot \in DbContent /\ "startup" \in Owner
      BY <2>1 DEF FilesInv, FilesTypes, Owner
    <3> QED
      BY <3>1, <1>3, MoveBegins
  <2>3. FilesTypes' /\ EditsAreMade'
    BY <1>3, <2>0, <2>2 DEF FilesInv, FilesTypes, EditsAreMade
  <2>4. StartupOwnsTheFile' /\ ReplacementIsOwned'
    BY <1>3, <2>0, <2>1, <2>2 DEF FilesInv, StartupOwnsTheFile, ReplacementIsOwned
  <2>5. ReplacementKnowsTheFile'
    BY <2>0, <2>1, <2>2 DEF FilesInv, ReplacementKnowsTheFile
  <2>6. SafeIsHeld'
    BY <1>3, <2>0, HeldStays DEF FilesInv, Late
  <2> QED
    BY <2>3, <2>4, <2>5, <2>6 DEF FilesInv
<1> QED
  BY <1>1, <1>2, <1>3 DEF StageSnapshot

\* A replacement goes on: what is left to show is where the files are.
LEMMA MoveKeeps ==
  ASSUME FilesInv, move.pc # "idle", NEW p \in MovePc, p # "idle", move' = Replacing(p),
         UNCHANGED <<snapshots, aside, copies, boot, runtime, connected, request, clock>>,
         {main', displaced'} \subseteq {main, displaced, move.staged, Missing},
         last' \in DbContent, left' \subseteq left \cup Present(displaced),
         ReplacementKnowsTheFile', SafeIsHeld'
  PROVE  FilesInv'
<1> USE RestingStates
<1>1. /\ move' \in MoveState /\ move'.pc = p /\ move'.owner = move.owner
      /\ move'.staged = move.staged
  BY MoveGoes DEF FilesInv
<1>2. move.staged \in DbContent /\ move.staged.edit <= clock
  BY DEF FilesInv, FilesTypes, EditsAreMade, ReplacementIsOwned
<1>3. main' \in FileOrNone /\ displaced' \in FileOrNone /\ left' \subseteq DbContent
  BY <1>2 DEF FilesInv, FilesTypes, FileOrNone, Present
<1>4. FilesTypes'
  BY <1>1, <1>3 DEF FilesInv, FilesTypes
<1>5. EditsAreMade'
  BY <1>2 DEF FilesInv, EditsAreMade, Present
<1>6. StartupOwnsTheFile'
  BY <1>1 DEF FilesInv, StartupOwnsTheFile, ReplacementIsOwned
<1>7. ReplacementIsOwned'
  BY <1>1 DEF FilesInv, ReplacementIsOwned
<1> QED
  BY <1>4, <1>5, <1>6, <1>7 DEF FilesInv

\* replaceDatabaseFromStagedFile: the steps of a replacement and their faults.
LEMMA MoveSteps ==
  ASSUME FilesInv, Displace \/ Install \/ Discard \/ Undo
  PROVE  FilesInv'
<1> USE RestingStates DEF Works, Fails
<1> HIDE DEF Down, Waiting, Still, Backup, Blank
<1>i. FilesTypes /\ ReplacementIsOwned /\ ReplacementKnowsTheFile /\ SafeIsHeld
  BY DEF FilesInv
<1>m. \A p \in MovePc : move' = Replacing(p) =>
        /\ move'.pc = p /\ move'.owner = move.owner /\ move'.staged = move.staged
  BY <1>i, MoveGoes
<1>d. main \in FileOrNone /\ displaced \in FileOrNone /\ last \in DbContent
  BY <1>i DEF FilesTypes
<1>l. move.pc # "idle" /\ move.owner # "startup" => SafeStored
  BY <1>i, FieldTypes DEF ReplacementIsOwned, SafeIsHeld, Late
<1>r. UNCHANGED request => \A r \in Request : Late(r)' <=> Late(r)
  BY DEF Late
<1>s. /\ left \subseteq left' /\ UNCHANGED <<copies, aside, safe, request>>
      /\ (SafeInPlace /\ ~ SafeStored => SafeStored' \/ SafeInPlace')
      => SafeIsHeld'
  <2> SUFFICES ASSUME left \subseteq left', UNCHANGED <<copies, aside, safe, request>>,
                      SafeInPlace /\ ~ SafeStored => SafeStored' \/ SafeInPlace'
               PROVE  SafeIsHeld'
    OBVIOUS
  <2>1. SafeStored => SafeIsHeld'
    BY StoredStays
  <2>2. ~ SafeStored => ~ \E r \in Request : Late(r)'
    BY <1>i, <1>r DEF SafeIsHeld
  <2> QED
    BY <1>i, <2>1, <2>2 DEF SafeIsHeld
<1>1. CASE Displace
  <2>1. CASE /\ main' = Missing /\ displaced' = main
             /\ last' = (IF main = Missing THEN last ELSE main)
             /\ left' = left \cup Present(displaced) /\ move' = Replacing("install")
    <3>1. move.pc = "displace" /\ UNCHANGED <<copies, aside, safe, request>>
      BY <1>1 DEF Displace
    <3>2. SafeInPlace => SafeStored' \/ SafeInPlace'
      BY <2>1, <3>1, <1>d DEF SafeInPlace, SafeStored, Present, FileOrNone
    <3>3. SafeIsHeld'
      BY <2>1, <3>1, <3>2, <1>s
    <3>4. ReplacementKnowsTheFile'
      BY <2>1, <3>1, <1>d, <1>i, <1>m DEF ReplacementKnowsTheFile, Present, FileOrNone, MovePc
    <3>5. last' \in DbContent
      BY <2>1, <1>d DEF FileOrNone
    <3> QED
      BY <1>1, <2>1, <3>1, <3>3, <3>4, <3>5, MoveKeeps DEF Displace, MovePc
  <2>2. CASE move' = Replacing("failed") /\ UNCHANGED <<main, last, displaced, left>>
    <3>1. move.pc = "displace" /\ UNCHANGED <<copies, aside, safe, request>>
      BY <1>1 DEF Displace
    <3>2. SafeIsHeld'
      BY <2>2, <3>1, <1>i, HeldStays DEF Late
    <3>3. ReplacementKnowsTheFile'
      BY <2>2, <1>i, <1>m DEF ReplacementKnowsTheFile, MovePc
    <3> QED
      BY <1>1, <2>2, <3>1, <3>2, <3>3, <1>d, MoveKeeps DEF Displace, MovePc
  <2> QED
    BY <1>1, <2>1, <2>2 DEF Displace
<1>2. CASE Install
  <2>0. /\ move.pc = "install" /\ main = Missing
        /\ UNCHANGED <<last, displaced, left, copies, aside, safe, request>>
    BY <1>2, <1>i DEF Install, ReplacementKnowsTheFile
  <2>1. SafeInPlace => SafeInPlace'
    BY <2>0 DEF SafeInPlace, Present
  <2>2. SafeIsHeld'
    BY <2>0, <2>1, <1>s
  <2>s. move.staged # Missing
    BY <1>i, <2>0 DEF ReplacementIsOwned, FilesTypes
  <2>3. CASE main' = move.staged /\ move' = Replacing("discard")
    <3>1. ReplacementKnowsTheFile'
      BY <2>0, <2>3, <2>s, <1>i, <1>m DEF ReplacementKnowsTheFile, MovePc
    <3> QED
      BY <1>2, <2>0, <2>2, <2>3, <3>1, <1>d, MoveKeeps DEF Install, MovePc
  <2>4. CASE move' = Replacing("undo") /\ UNCHANGED main
    <3>1. ReplacementKnowsTheFile'
      BY <2>0, <2>4, <1>i, <1>m DEF ReplacementKnowsTheFile, MovePc
    <3> QED
      BY <1>2, <2>0, <2>2, <2>4, <3>1, <1>d, MoveKeeps DEF Install, MovePc
  <2> QED
    BY <1>2, <2>3, <2>4 DEF Install
<1>3. CASE Discard
  <2>0. /\ move.pc = "discard" /\ main = move.staged /\ main # Missing
        /\ UNCHANGED <<last, left, copies, aside, safe, request>>
    BY <1>3, <1>i DEF Discard, ReplacementKnowsTheFile, ReplacementIsOwned, FilesTypes
  <2>1. CASE displaced' = Missing /\ move' = Replacing("installed") /\ UNCHANGED main
    <3>1. SafeInPlace /\ ~ SafeStored => SafeInPlace'
      BY <2>0, <2>1, <1>i, <1>l DEF ReplacementKnowsTheFile, SafeInPlace, Present
    <3>2. SafeIsHeld'
      BY <2>0, <3>1, <1>s
    <3>3. ReplacementKnowsTheFile'
      BY <2>0, <2>1, <1>m DEF ReplacementKnowsTheFile, MovePc
    <3> QED
      BY <1>3, <2>0, <2>1, <3>2, <3>3, <1>d, MoveKeeps DEF Discard, MovePc
  <2>2. CASE displaced = Missing /\ move' = Replacing("failed") /\ UNCHANGED <<main, displaced>>
    <3>1. SafeIsHeld'
      BY <2>0, <2>2, <1>i, HeldStays DEF Late
    <3>2. ReplacementKnowsTheFile'
      BY <2>0, <2>2, <1>m DEF ReplacementKnowsTheFile, MovePc
    <3> QED
      BY <1>3, <2>0, <2>2, <3>1, <3>2, <1>d, MoveKeeps DEF Discard, MovePc
  <2>3. CASE /\ displaced # Missing /\ move' = Replacing("undo")
             /\ main' = Missing /\ UNCHANGED displaced
    <3>1. SafeInPlace /\ ~ SafeStored => SafeInPlace'
      BY <2>0, <2>3, <1>i, <1>l DEF ReplacementKnowsTheFile, SafeInPlace, Present
    <3>2. SafeIsHeld'
      BY <2>0, <3>1, <1>s
    <3>3. ReplacementKnowsTheFile'
      BY <2>0, <2>3, <1>i, <1>m DEF ReplacementKnowsTheFile, MovePc, Present
    <3> QED
      BY <1>3, <2>0, <2>3, <3>2, <3>3, <1>d, MoveKeeps DEF Discard, MovePc
  <2> QED
    BY <1>3, <2>1, <2>2, <2>3 DEF Discard
<1>4. CASE Undo
  <2>0. /\ move.pc = "undo" /\ main = Missing /\ displaced \in {Missing, last}
        /\ last \in Present(displaced) \cup left /\ move' = Replacing("failed")
        /\ UNCHANGED <<last, left, copies, aside, safe, request>>
    BY <1>4, <1>i DEF Undo, ReplacementKnowsTheFile
  <2>1. CASE main' = displaced /\ displaced' = Missing
    <3>1. SafeInPlace => SafeInPlace'
      BY <2>0, <2>1 DEF SafeInPlace, Present
    <3>2. SafeIsHeld'
      BY <2>0, <3>1, <1>s
    <3>3. ReplacementKnowsTheFile'
      BY <2>0, <2>1, <1>m DEF ReplacementKnowsTheFile, MovePc, Present
    <3> QED
      BY <1>4, <2>0, <2>1, <3>2, <3>3, <1>d, MoveKeeps DEF Undo, MovePc
  <2>2. CASE UNCHANGED <<main, displaced>>
    <3>1. SafeIsHeld'
      BY <2>0, <2>2, <1>i, HeldStays DEF Late
    <3>2. ReplacementKnowsTheFile'
      BY <2>0, <2>2, <1>m DEF ReplacementKnowsTheFile, MovePc
    <3> QED
      BY <1>4, <2>0, <2>2, <3>1, <3>2, <1>d, MoveKeeps DEF Undo, MovePc
  <2> QED
    BY <1>4, <2>1, <2>2 DEF Undo
<1> QED
  BY <1>1, <1>2, <1>3, <1>4

\* A request that is not idle runs beside a program that is up or failed.
LEMMA RequestsAreUp ==
  ASSUME FilesInv, NEW r \in Request, request[r].pc # "idle"
  PROVE  boot.pc \in {"open", "failed"}
BY FieldTypes DEF FilesInv, StartupOwnsTheFile

\* app.relaunch: the process is gone, or it stays and asks for recovery.
LEMMA RelaunchKeeps ==
  ASSUME FilesInv, NEW r \in Request, Late(r), Relaunch(r), UNCHANGED <<disk, clock, safe>>
  PROVE  FilesInv'
<1> USE RestingStates
<1> HIDE DEF Down, Waiting, Still, Backup, Blank
<1>1. SafeIsHeld'
  BY StoredStays DEF FilesInv, SafeIsHeld, disk
<1>2. CASE Exits
  BY <1>1, <1>2, ExitKeeps
<1>3. CASE /\ runtime' = "recovery-required" /\ move' = Still
           /\ request' = [request EXCEPT ![r] = Waiting]
           /\ UNCHANGED <<boot, connected>>
  <2>1. boot.pc \in {"open", "failed"}
    BY RequestsAreUp DEF Late
  <2>2. /\ request' \in [Request -> RequestState]
        /\ request'[r].pc = "idle" /\ request'[r].copy = Missing
        /\ \A q \in Request : q # r => request'[q] = request[q]
    BY <1>3, RequestEnds DEF FilesInv
  <2>3. connected \in BOOLEAN
    BY DEF FilesInv, FilesTypes
  <2>4. UNCHANGED <<main, last, displaced, left, snapshots, aside, copies>>
    BY DEF disk
  <2> QED
    BY <1>1, <1>3, <2>1, <2>2, <2>3, <2>4, RequestKeeps DEF RuntimeState
<1> QED
  BY <1>2, <1>3 DEF Relaunch

\* What follows a replacement for a request.
LEMMA AfterwardsSteps ==
  ASSUME FilesInv, NEW r \in Request,
         FinishRestore(r) \/ RestoreGoesWrong(r) \/ StageRollback(r)
         \/ FinishRestoreRollback(r) \/ GiveUp(r)
  PROVE  FilesInv'
<1> USE RestingStates
<1> HIDE DEF Down, Waiting, Still, Backup, Blank
<1>i. FilesTypes /\ ReplacementIsOwned /\ StartupOwnsTheFile /\ SafeIsHeld
  BY DEF FilesInv
<1>o. move.pc # "idle" /\ move.owner = r =>
        /\ request[r].pc = "moving" /\ Late(r) /\ boot.pc \in {"open", "failed"}
        /\ ~ connected
  BY <1>i DEF ReplacementIsOwned, Late, StartupOwnsTheFile
<1>c. connected \in BOOLEAN /\ runtime \in RuntimeState
  BY <1>i DEF FilesTypes
<1>g. \A p \in RequestPc : request' = [request EXCEPT ![r].pc = p] =>
        /\ request' \in [Request -> RequestState]
        /\ request'[r].pc = p /\ request'[r].copy = request[r].copy
        /\ \A q \in Request : q # r => request'[q] = request[q]
  BY <1>i, RequestGoes
<1>y. request[r].copy \in copies \cup {Missing}
  BY <1>i DEF FilesTypes
<1>1. CASE FinishRestore(r)
  BY <1>1, <1>o, RelaunchKeeps DEF FinishRestore
<1>2. CASE RestoreGoesWrong(r)
  <2>1. /\ Late(r) /\ boot.pc \in {"open", "failed"} /\ move' = Still /\ ~ connected
        /\ UNCHANGED <<main, last, displaced, left, snapshots, copies, boot, runtime,
                       connected, clock, safe>>
        /\ aside \subseteq aside' /\ aside' \subseteq aside \cup Present(main)
    BY <1>2, <1>o DEF RestoreGoesWrong
  <2>2. \E p \in RequestPc : /\ request' = [request EXCEPT ![r].pc = p]
                             /\ p = "rollback" => request[r].copy # Missing
    BY <1>2 DEF RestoreGoesWrong, RequestPc
  <2>3. /\ request' \in [Request -> RequestState] /\ request'[r].copy = request[r].copy
        /\ request'[r].pc = "rollback" => request'[r].copy # Missing
        /\ \A q \in Request : q # r => request'[q] = request[q]
    BY <2>2, <1>g
  <2>4. SafeIsHeld'
    BY <2>1, <1>i, StoredStays DEF SafeIsHeld
  <2> QED
    BY <2>1, <2>3, <2>4, <1>c, <1>y, RequestKeeps
<1>3. CASE StageRollback(r)
  <2>0. /\ request[r].pc = "rollback" /\ move.pc = "idle"
        /\ UNCHANGED <<main, last, displaced, left, snapshots, aside, copies, boot, runtime,
                       connected, clock, safe>>
    BY <1>3 DEF StageRollback, FilesTurn, disk
  <2>1. /\ Late(r) /\ boot.pc \in {"open", "failed"} /\ request[r].copy # Missing
    BY <2>0, <1>i, RequestsAreUp DEF Late, StartupOwnsTheFile
  <2>2. SafeIsHeld'
    BY <2>0, <2>1, <1>i, StoredStays DEF SafeIsHeld
  <2>3. CASE request' = [request EXCEPT ![r].pc = "give up"] /\ UNCHANGED move
    BY <2>0, <2>1, <2>2, <2>3, <1>c, <1>g, <1>y, <1>i, RequestKeeps DEF RequestPc, FilesTypes
  <2>4. CASE /\ move' = [pc |-> "displace", owner |-> r,
                         staged |-> request[r].copy, rollback |-> TRUE]
             /\ request' = [request EXCEPT ![r].pc = "moving"]
    <3>1. request[r].copy \in copies /\ request[r].copy \in DbContent /\ r \in Owner
      BY <2>1, <1>i, <1>y DEF FilesTypes, Owner
    <3>2. /\ move' \in MoveState /\ move'.pc = "displace" /\ move'.owner = r
          /\ move'.staged = request[r].copy
      BY <2>4, <3>1, MoveBegins
    <3>3. /\ request' \in [Request -> RequestState]
          /\ request'[r].pc = "moving" /\ request'[r].copy = request[r].copy
          /\ \A q \in Request : q # r => request'[q] = request[q]
      BY <2>4, <1>g DEF RequestPc
    <3>n. ~ connected
      BY <2>0, <1>i DEF StartupOwnsTheFile
    <3>4. FilesTypes' /\ EditsAreMade'
      BY <2>0, <3>2, <3>3 DEF FilesInv, FilesTypes, EditsAreMade
    <3>5. StartupOwnsTheFile' /\ ReplacementIsOwned'
      BY <2>0, <2>1, <3>1, <3>2, <3>3, <3>n, <1>i
      DEF StartupOwnsTheFile, ReplacementIsOwned
    <3>6. ReplacementKnowsTheFile'
      BY <2>0, <3>2 DEF FilesInv, ReplacementKnowsTheFile
    <3> QED
      BY <2>2, <3>4, <3>5, <3>6 DEF FilesInv
  <2> QED
    BY <1>3, <2>3, <2>4 DEF StageRollback
<1>4. CASE FinishRestoreRollback(r)
  <2>1. CASE Relaunch(r)
    BY <1>4, <2>1, <1>o, RelaunchKeeps DEF FinishRestoreRollback
  <2>2. CASE /\ request' = [request EXCEPT ![r].pc = "give up"]
             /\ move' = Still /\ UNCHANGED <<boot, runtime, connected>>
    <3>1. /\ Late(r) /\ boot.pc \in {"open", "failed"}
          /\ UNCHANGED <<main, last, displaced, left, snapshots, aside, copies, clock, safe>>
      BY <1>4, <1>o DEF FinishRestoreRollback, disk
    <3>2. SafeIsHeld'
      BY <3>1, <1>i, StoredStays DEF SafeIsHeld
    <3> QED
      BY <2>2, <3>1, <3>2, <1>c, <1>g, <1>y, RequestKeeps DEF RequestPc
  <2> QED
    BY <1>4, <2>1, <2>2 DEF FinishRestoreRollback
<1>5. CASE GiveUp(r)
  BY <1>5, RelaunchKeeps DEF GiveUp, Late
<1> QED
  BY <1>1, <1>2, <1>3, <1>4, <1>5

\* executeDatabaseRestore, from the question to the replacement.
LEMMA RestoreSteps ==
  ASSUME FilesInv, NEW r \in Request,
         AskRestore(r) \/ PrepareRestore(r) \/ StageBackup(r) \/ NotDrained(r)
         \/ NotClosed(r) \/ Closed(r)
  PROVE  FilesInv'
<1> USE RestingStates
<1> HIDE DEF Down, Waiting, Still, Backup, Blank
<1>i. FilesTypes /\ StartupOwnsTheFile /\ SafeIsHeld
  BY DEF FilesInv
<1>u. /\ boot.pc \in {"open", "failed"} /\ move.pc = "idle" /\ UNCHANGED boot
      /\ UNCHANGED <<main, last, displaced, left, snapshots, clock>>
  BY DEF AskRestore, PrepareRestore, StageBackup, NotDrained, NotClosed, Closed, Running,
         FilesTurn, disk
<1>c. /\ connected \in BOOLEAN /\ runtime \in RuntimeState /\ move \in MoveState
      /\ request[r].before \in RuntimeState /\ request[r].copy \in copies \cup {Missing}
      /\ request[r].pc \in RequestPc /\ (connected => main \in DbContent)
  BY <1>i, FieldTypes DEF FilesTypes, StartupOwnsTheFile, FileOrNone
<1>g. \A p \in RequestPc : request' = [request EXCEPT ![r].pc = p] =>
        /\ request' \in [Request -> RequestState]
        /\ request'[r].pc = p /\ request'[r].copy = request[r].copy
        /\ \A q \in Request : q # r => request'[q] = request[q]
  BY <1>i, RequestGoes
<1>e. request' = [request EXCEPT ![r] = Waiting] =>
        /\ request' \in [Request -> RequestState]
        /\ request'[r].pc = "idle" /\ request'[r].copy = Missing
        /\ \A q \in Request : q # r => request'[q] = request[q]
  BY <1>i, RequestEnds
<1>l. ASSUME Released(r), UNCHANGED <<main, displaced, left, copies, aside>>, Late(r),
             \A q \in Request : q # r => request'[q] = request[q], ~ Late(r)'
      PROVE  SafeIsHeld'
  <2>1. SafeStored
    BY <1>l, <1>i DEF SafeIsHeld
  <2>2. CASE safe' = safe
    BY <1>l, <2>1, <2>2, StoredStays
  <2>3. CASE main # Missing /\ (\A q \in Request \ {r} : ~ Late(q)) /\ safe' = main.edit
    <3>1. \A q \in Request : ~ Late(q)'
      BY <1>l, <2>3 DEF Late
    <3> QED
      BY <1>l, <2>3, <3>1 DEF SafeIsHeld, SafeInPlace, Present
  <2> QED
    BY <1>l, <2>2, <2>3 DEF Released
<1>1. CASE AskRestore(r)
  <2>1. /\ request' \in [Request -> RequestState] /\ request'[r].pc = "verify"
        /\ request'[r].copy = Missing
        /\ \A q \in Request : q # r => request'[q] = request[q]
    BY <1>1, <1>c, <1>i DEF AskRestore, FilesTypes, RequestState, RequestPc, FileOrNone
  <2>2. UNCHANGED <<aside, copies, safe, move, connected, runtime>>
    BY <1>1 DEF AskRestore, disk
  <2>3. SafeIsHeld'
    <3>1. (\E q \in Request : Late(q)') => \E q \in Request : Late(q)
      BY <2>1 DEF Late
    <3> QED
      BY <2>2, <3>1, <1>u, <1>i, HeldStays
  <2> QED
    BY <2>1, <2>2, <2>3, <1>u, <1>c, RequestKeeps
<1>2. CASE PrepareRestore(r)
  <2>0. /\ request[r].pc = "verify" /\ ~ Late(r)
        /\ UNCHANGED <<move, connected, runtime>>
    BY <1>2 DEF PrepareRestore, Late
  <2>1. CASE /\ connected /\ copies' = copies \cup {main}
             /\ request' = [request EXCEPT ![r].pc = "stage", ![r].copy = main]
             /\ safe' = (IF \A q \in Request : ~ Late(q) THEN main.edit ELSE safe)
             /\ UNCHANGED aside
    <3>1. /\ request' \in [Request -> RequestState] /\ request'[r].pc = "stage"
          /\ request'[r].copy = main
          /\ \A q \in Request : q # r => request'[q] = request[q]
      BY <2>1, <1>c, <1>i DEF FilesTypes, RequestState, RequestPc, FileOrNone
    <3>2. SafeStored'
      <4>1. CASE \A q \in Request : ~ Late(q)
        BY <2>1, <4>1 DEF SafeStored
      <4>2. CASE \E q \in Request : Late(q)
        BY <2>1, <4>2, <1>u, <1>i DEF SafeStored, SafeIsHeld
      <4> QED
        BY <4>1, <4>2
    <3>3. copies' \subseteq copies \cup Present(main)
      BY <2>1, <1>c DEF Present
    <3>4. SafeIsHeld'
      BY <3>2 DEF SafeIsHeld
    <3> QED
      BY <2>0, <2>1, <3>1, <3>3, <3>4, <1>u, <1>c, RequestKeeps
  <2>2. CASE /\ request' = [request EXCEPT ![r] = Waiting]
             /\ UNCHANGED <<copies, aside, safe>>
    <3>1. (\E q \in Request : Late(q)') => \E q \in Request : Late(q)
      BY <2>2, <1>e DEF Late
    <3>2. SafeIsHeld'
      BY <2>2, <3>1, <1>u, <1>i, HeldStays
    <3> QED
      BY <2>0, <2>2, <3>2, <1>e, <1>u, <1>c, RequestKeeps
  <2>3. CASE /\ aside' \in {aside, aside \cup Present(main)}
             /\ request' = [request EXCEPT ![r].pc = "stage"]
             /\ safe' = Backup.edit /\ UNCHANGED copies
    <3>1. /\ request' \in [Request -> RequestState] /\ request'[r].pc = "stage"
          /\ request'[r].copy = request[r].copy
          /\ \A q \in Request : q # r => request'[q] = request[q]
      BY <2>3, <1>g DEF RequestPc
    <3>2. SafeIsHeld'
      BY <2>3 DEF SafeIsHeld, SafeStored
    <3> QED
      BY <2>0, <2>3, <3>1, <3>2, <1>u, <1>c, RequestKeeps
  <2> QED
    BY <1>2, <2>1, <2>2, <2>3 DEF PrepareRestore
<1>3. CASE StageBackup(r)
  <2>0. /\ request[r].pc = "stage" /\ Late(r)
        /\ UNCHANGED <<move, connected, aside, copies>>
    BY <1>3 DEF StageBackup, Late, disk
  <2>1. CASE /\ runtime' = "restoring" /\ UNCHANGED safe
             /\ request' = [request EXCEPT ![r].pc = "close"]
    <3>1. SafeIsHeld'
      BY <2>0, <2>1, <1>u, <1>i, StoredStays DEF SafeIsHeld
    <3>2. /\ request' \in [Request -> RequestState] /\ request'[r].pc = "close"
          /\ request'[r].copy = request[r].copy
          /\ \A q \in Request : q # r => request'[q] = request[q]
      BY <2>1, <1>g DEF RequestPc
    <3> QED
      BY <2>0, <2>1, <3>1, <3>2, <1>u, <1>c, RequestKeeps DEF RuntimeState
  <2>2. CASE /\ request' = [request EXCEPT ![r] = Waiting] /\ Released(r)
             /\ UNCHANGED runtime
    <3>1. SafeIsHeld'
      BY <2>0, <2>2, <1>u, <1>e, <1>l DEF Late
    <3> QED
      BY <2>0, <2>2, <3>1, <1>u, <1>c, <1>e, RequestKeeps
  <2> QED
    BY <1>3, <2>1, <2>2 DEF StageBackup
<1>4. CASE NotDrained(r)
  <2>0. /\ Late(r) /\ Released(r) /\ request' = [request EXCEPT ![r] = Waiting]
        /\ runtime' \in RuntimeState
        /\ UNCHANGED <<move, connected, aside, copies>>
    BY <1>4, <1>c DEF NotDrained, Late, disk
  <2>1. SafeIsHeld'
    BY <2>0, <1>u, <1>e, <1>l DEF Late
  <2> QED
    BY <2>0, <2>1, <1>u, <1>c, <1>e, RequestKeeps
<1>5. CASE NotClosed(r)
  <2>0. /\ Late(r) /\ request' = [request EXCEPT ![r].pc = "give up"]
        /\ runtime' \in RuntimeState
        /\ UNCHANGED <<move, connected, aside, copies, safe>>
    BY <1>5 DEF NotClosed, Late, disk, RuntimeState
  <2>1. SafeIsHeld'
    BY <2>0, <1>u, <1>i, StoredStays DEF SafeIsHeld
  <2>2. /\ request' \in [Request -> RequestState] /\ request'[r].pc = "give up"
        /\ request'[r].copy = request[r].copy
        /\ \A q \in Request : q # r => request'[q] = request[q]
    BY <2>0, <1>g DEF RequestPc
  <2> QED
    BY <2>0, <2>1, <2>2, <1>u, <1>c, RequestKeeps
<1>6. CASE Closed(r)
  <2>0. /\ Late(r) /\ request' = [request EXCEPT ![r].pc = "moving"]
        /\ connected' = FALSE
        /\ move' = [pc |-> "displace", owner |-> r, staged |-> Backup, rollback |-> FALSE]
        /\ UNCHANGED <<runtime, aside, copies, safe>>
    BY <1>6 DEF Closed, Late, disk
  <2>1. SafeIsHeld'
    BY <2>0, <1>u, <1>i, StoredStays DEF SafeIsHeld
  <2>2. /\ request' \in [Request -> RequestState] /\ request'[r].pc = "moving"
        /\ request'[r].copy = request[r].copy
        /\ \A q \in Request : q # r => request'[q] = request[q]
    BY <2>0, <1>g DEF RequestPc
  <2>3. /\ move' \in MoveState /\ move'.pc = "displace" /\ move'.owner = r
        /\ move'.staged = Backup
    <3>1. r \in Owner
      BY DEF Owner
    <3> QED
      BY <2>0, <3>1, MoveBegins
  <2>4. FilesTypes' /\ EditsAreMade'
    BY <2>0, <2>2, <2>3, <1>u, <1>c DEF FilesInv, FilesTypes, EditsAreMade
  <2>5. StartupOwnsTheFile' /\ ReplacementIsOwned'
    BY <2>0, <2>2, <2>3, <1>u, <1>i DEF StartupOwnsTheFile, ReplacementIsOwned
  <2>6. ReplacementKnowsTheFile'
    BY <2>3, <1>u DEF FilesInv, ReplacementKnowsTheFile
  <2> QED
    BY <2>1, <2>4, <2>5, <2>6 DEF FilesInv
<1> QED
  BY <1>1, <1>2, <1>3, <1>4, <1>5, <1>6

\* The user edits, quits, or the machine stops.
LEMMA UserSteps ==
  ASSUME FilesInv, EditDatabase \/ FilesQuit \/ FilesCrash
  PROVE  FilesInv'
<1> USE RestingStates
<1> HIDE DEF Down, Waiting, Still, Backup, Blank
<1>i. FilesTypes /\ StartupOwnsTheFile /\ SafeIsHeld
  BY DEF FilesInv
<1>1. CASE EditDatabase
  <2>1. /\ boot.pc \in {"open", "failed"} /\ move.pc = "idle" /\ connected
        /\ main # Missing /\ clock' = clock + 1 /\ clock' \in 2..MaxEdits + 2
        /\ main' = [main EXCEPT !.edit = clock']
        /\ safe' = (IF \E r \in Request : Late(r) THEN safe ELSE clock')
        /\ UNCHANGED <<last, displaced, left, snapshots, aside, copies, boot, runtime,
                       connected, request, move>>
    <3>1. clock \in 2..MaxEdits + 2 /\ clock < MaxEdits + 2 /\ clock' = clock + 1
      BY <1>1, <1>i DEF EditDatabase, FilesTypes
    <3>2. clock' \in 2..MaxEdits + 2
      BY <3>1
    <3>3. connected /\ main # Missing
      BY <1>1, <1>i DEF EditDatabase, StartupOwnsTheFile
    <3> QED
      BY <1>1, <3>1, <3>2, <3>3 DEF EditDatabase, Running, FilesTurn, process
  <2>2. main' \in DbContent /\ main'.edit = clock'
    <3>1. main \in DbContent
      BY <2>1, <1>i DEF FilesTypes, FileOrNone
    <3>2. \A e \in 0..MaxEdits + 2 : /\ [main EXCEPT !.edit = e] \in DbContent
                                     /\ [main EXCEPT !.edit = e].edit = e
      BY <3>1 DEF DbContent
    <3>3. clock' \in 0..MaxEdits + 2
      BY <2>1
    <3> QED
      BY <2>1, <3>2, <3>3
  <2>3. FilesTypes'
    BY <2>1, <2>2, <1>i DEF FilesTypes, FileOrNone
  <2>4. EditsAreMade'
    <3>1. Present(displaced) \cup snapshots \cup copies \subseteq DbContent
      BY <1>i DEF FilesTypes, FileOrNone, Present
    <3>2. \A file \in DbContent : file.edit \in Nat
      BY ContentsChange
    <3>3. \A file \in Present(displaced) \cup snapshots \cup copies : file.edit <= clock
      BY DEF FilesInv, EditsAreMade
    <3>4. clock \in Nat /\ clock' = clock + 1
      BY <2>1, <1>i DEF FilesTypes
    <3>5. \A file \in Present(displaced) \cup snapshots \cup copies : file.edit <= clock'
      BY <3>1, <3>2, <3>3, <3>4
    <3>6. Present(main)' = {main'} /\ main'.edit <= clock'
      BY <2>1, <2>2, <3>4 DEF Present
    <3>7. /\ Present(displaced)' = Present(displaced)
          /\ snapshots' = snapshots /\ copies' = copies
      BY <2>1 DEF Present
    <3> QED
      BY <3>5, <3>6, <3>7 DEF EditsAreMade
  <2>5. StartupOwnsTheFile' /\ ReplacementIsOwned'
    BY <2>1, <2>2, <1>i DEF StartupOwnsTheFile, ReplacementIsOwned
  <2>6. ReplacementKnowsTheFile'
    BY <2>1, <2>2 DEF FilesInv, ReplacementKnowsTheFile
  <2>7. SafeIsHeld'
    <3>1. CASE \E r \in Request : Late(r)
      BY <2>1, <3>1, <1>i, StoredStays DEF SafeIsHeld
    <3>2. CASE ~ \E r \in Request : Late(r)
      BY <2>1, <2>2, <3>2, HeldAtThePath DEF Late
    <3> QED
      BY <3>1, <3>2
  <2> QED
    BY <2>3, <2>4, <2>5, <2>6, <2>7 DEF FilesInv
<1>2. CASE FilesQuit
  <2>1. Exits /\ UNCHANGED <<disk, clock, safe>>
    BY <1>2 DEF FilesQuit
  <2>2. SafeIsHeld'
    BY <2>1, <1>i, HeldStays DEF Exits, disk, Late
  <2> QED
    BY <2>1, <2>2, ExitKeeps
<1>3. CASE FilesCrash
  <2>1. /\ Exits /\ UNCHANGED <<disk, clock>>
        /\ UNCHANGED <<main, displaced, left, copies, aside>>
    BY <1>3 DEF FilesCrash, disk
  <2>2. \A r \in Request : ~ Late(r)'
    BY <2>1 DEF Exits, Late
  <2>3. SafeIsHeld'
    <3>1. CASE safe' = safe
      BY <2>1, <2>2, <3>1, <1>i, HeldStays
    <3>2. CASE main # Missing /\ safe' = main.edit
      BY <2>1, <2>2, <3>2, <1>i, HeldAtThePath DEF FilesTypes, FileOrNone
    <3> QED
      BY <1>3, <3>1, <3>2 DEF FilesCrash
  <2> QED
    BY <2>1, <2>3, ExitKeeps
<1> QED
  BY <1>1, <1>2, <1>3

-----------------------------------------------------------------------------
(* The invariant and what follows from it *)

\* Every step of the program, of the machine and of the user keeps the invariant.
LEMMA FilesStep == FilesInv /\ [FilesNext]_filesVars => FilesInv'
<1> SUFFICES ASSUME FilesInv, [FilesNext]_filesVars PROVE FilesInv'
  OBVIOUS
<1>1. CASE StartupStep
  BY <1>1, StartupSteps, RollbackSteps DEF StartupStep
<1>2. CASE EditDatabase \/ FilesQuit \/ FilesCrash
  BY <1>2, UserSteps
<1>3. CASE MoveStep
  BY <1>3, MoveSteps DEF MoveStep
<1>4. ASSUME NEW r \in Request, AskRestore(r) \/ RequestStep(r) PROVE FilesInv'
  BY <1>4, RestoreSteps, AfterwardsSteps DEF RequestStep
<1>5. CASE UNCHANGED filesVars
  BY <1>5 DEF filesVars, disk, process, FilesInv, FilesTypes, EditsAreMade,
     StartupOwnsTheFile, ReplacementIsOwned, ReplacementKnowsTheFile, SafeIsHeld, SafeStored,
     SafeInPlace, Late, Present
<1> QED
  BY <1>1, <1>2, <1>3, <1>4, <1>5 DEF FilesNext

\* A program begins with an old database and its last edit.
LEMMA FilesBegin == FilesInit => FilesInv
<1> SUFFICES ASSUME FilesInit PROVE FilesInv
  OBVIOUS
<1> USE RestingStates
<1>m. main \in DbContent /\ main.edit = 2 /\ MaxEdits \in Nat
  BY DEF FilesInit, DbContent
<1> HIDE DEF Down, Waiting, Still, Backup, Blank
<1>1. FilesTypes
  <2>1. last \in DbContent /\ main \in FileOrNone /\ displaced \in FileOrNone
    BY <1>m DEF FilesInit, FileOrNone
  <2>2. request \in [Request -> RequestState] /\ \A r \in Request : request[r].copy = Missing
    BY DEF FilesInit
  <2>3. clock \in 2..MaxEdits + 2
    BY <1>m DEF FilesInit
  <2> QED
    BY <2>1, <2>2, <2>3 DEF FilesInit, FilesTypes, RuntimeState
<1>2. EditsAreMade
  BY <1>m DEF FilesInit, EditsAreMade, Present
<1>3. StartupOwnsTheFile /\ ReplacementIsOwned
  BY DEF FilesInit, StartupOwnsTheFile, ReplacementIsOwned
<1>4. ReplacementKnowsTheFile
  BY <1>m DEF FilesInit, ReplacementKnowsTheFile
<1>5. SafeIsHeld
  BY <1>m DEF FilesInit, SafeIsHeld, SafeStored, SafeInPlace, Late, Present
<1> QED
  BY <1>1, <1>2, <1>3, <1>4, <1>5 DEF FilesInv

\* The invariant holds whenever the program runs.
LEMMA FilesInvHolds == FilesInit /\ [][FilesNext]_filesVars => []FilesInv
BY FilesBegin, FilesStep, PTL

\* lifecycle.ts, restore.ts: whatever fails and wherever the process dies, the last
\* edit made before the safety copy of a restore, or with none under way the last
\* edit, is in a file.
THEOREM NoEditIsLost == FilesSpec => []DataIsKept
<1>1. FilesInv => DataIsKept
  BY DEF FilesInv, SafeIsHeld, SafeStored, SafeInPlace, DataIsKept, Held
<1> QED
  BY <1>1, FilesInvHolds, PTL DEF FilesSpec

-----------------------------------------------------------------------------
(* The files implement the database of DatabaseContract *)

\* A file, an edit of it or a migration of it is a step of the contract.
LEMMA RankOrder ==
  /\ Contract!Rank["old"] = 0 /\ Contract!Rank["boundary"] = 1 /\ Contract!Rank["new"] = 2
BY DEF Contract!Rank

\* What the contract asks of every step: a vacant path has its content aside, and
\* contents are contents.
LEMMA ContractSide ==
  ASSUME FilesInv
  PROVE  /\ main = Missing => last \in Present(displaced) \cup left
         /\ last \in DbContent /\ main \in DbContent \cup {Missing}
         /\ copies \cup snapshots \cup {Backup} \subseteq DbContent
BY RestingStates DEF FilesInv, FilesTypes, ReplacementKnowsTheFile, FileOrNone

\* Every step of the files is a step of the contract, or none.
LEMMA FilesStepIsContractStep ==
  ASSUME FilesInv, FilesInv', [FilesNext]_filesVars
  PROVE  [Contract!ContractNext]_(Contract!ContractVars)
<1> USE RestingStates
<1> HIDE DEF Down, Waiting, Still, Backup, Blank
<1>i. FilesTypes /\ StartupOwnsTheFile /\ ReplacementIsOwned /\ ReplacementKnowsTheFile
      /\ EditsAreMade
  BY DEF FilesInv
<1>d. last \in DbContent /\ main \in DbContent \cup {Missing}
  BY ContractSide
<1>1. /\ main' = Missing => last' \in Present(displaced)' \cup left'
      /\ last' \in DbContent /\ main' \in DbContent \cup {Missing}
      /\ copies' \cup snapshots' \cup {Backup} \subseteq DbContent
  BY DEF FilesInv, FilesTypes, ReplacementKnowsTheFile, FileOrNone
<1> DEFINE Step == Contract!Advance \/ Contract!Install \/ Contract!TakeBack
                   \/ Contract!Keep \/ Contract!Forget
<1>2. Step => Contract!ContractNext
  BY <1>1 DEF Contract!ContractNext
<1> SUFFICES Step
  BY <1>2
<1>3. UNCHANGED <<main, last>> => Contract!Keep
  BY DEF Contract!Keep
<1>4. /\ main \in DbContent /\ main' \in DbContent
      /\ main'.edit >= main.edit
      /\ Contract!Rank[main'.schema] >= Contract!Rank[main.schema]
      => Contract!Advance
  BY DEF Contract!Advance
<1>5. CASE OpenDatabase
  <2>1. CASE main = Missing /\ main' = Blank
    BY <2>1 DEF Contract!Forget
  <2>2. CASE UNCHANGED main
    BY <1>5, <2>2, <1>3 DEF OpenDatabase
  <2> QED
    BY <1>5, <2>1, <2>2 DEF OpenDatabase
<1>6. CASE MigrateBoundary \/ MigrateRest
  <2>1. main \in DbContent
    BY <1>6, <1>i, <1>d DEF MigrateBoundary, MigrateRest, StartupOwnsTheFile
  <2>2. /\ \A x \in {"old", "boundary", "new"} :
             /\ [main EXCEPT !.schema = x] \in DbContent
             /\ [main EXCEPT !.schema = x].edit = main.edit
             /\ [main EXCEPT !.schema = x].schema = x
        /\ main.edit \in Nat /\ main.schema \in {"old", "boundary", "new"}
    BY <2>1, ContentsChange
  <2>3. CASE UNCHANGED main
    BY <1>6, <1>3, <2>3 DEF MigrateBoundary, MigrateRest
  <2>4. CASE main' = [main EXCEPT !.schema = "new"]
    BY <1>4, <2>1, <2>2, <2>4, RankOrder
  <2>5. CASE main.schema = "old" /\ main' = [main EXCEPT !.schema = "boundary"]
    BY <1>4, <2>1, <2>2, <2>5, RankOrder
  <2> QED
    BY <1>6, <2>3, <2>4, <2>5 DEF MigrateBoundary, MigrateRest, AbandonMigration
<1>7. CASE Displace
  <2>1. Contract!Keep
    BY <1>7, <1>3 DEF Displace, Contract!Keep
  <2> QED
    BY <2>1
<1>8. CASE Install
  <2>1. main = Missing /\ move.staged \in copies \cup snapshots \cup {Backup}
        /\ move.staged # Missing
    BY <1>8, <1>i DEF Install, ReplacementKnowsTheFile, ReplacementIsOwned, FilesTypes
  <2>2. CASE main' = move.staged
    BY <2>1, <2>2 DEF Contract!Install
  <2>3. CASE UNCHANGED main
    BY <1>8, <1>3, <2>3 DEF Install
  <2> QED
    BY <1>8, <2>2, <2>3 DEF Install
<1>9. CASE Discard
  <2>1. /\ main = move.staged /\ move.staged \in copies \cup snapshots \cup {Backup}
        /\ move.staged # Missing /\ displaced \in {Missing, last} /\ UNCHANGED <<last, left>>
    BY <1>9, <1>i DEF Discard, ReplacementKnowsTheFile, ReplacementIsOwned, FilesTypes
  <2>2. CASE displaced # Missing /\ main' = Missing /\ UNCHANGED displaced
    BY <2>1, <2>2 DEF Contract!TakeBack, Present
  <2>3. CASE UNCHANGED main
    BY <1>3, <2>1, <2>3
  <2> QED
    BY <1>9, <2>2, <2>3 DEF Discard
<1>10. CASE Undo
  <2>1. main = Missing /\ displaced \in {Missing, last} /\ UNCHANGED last
    BY <1>10, <1>i DEF Undo, ReplacementKnowsTheFile
  <2>2. Contract!Keep
    BY <1>10, <2>1 DEF Undo, Contract!Keep
  <2> QED
    BY <2>2
<1>11. CASE EditDatabase
  <2>1. main \in DbContent /\ main' = [main EXCEPT !.edit = clock + 1]
        /\ clock + 1 \in 0..MaxEdits + 2 /\ main.edit <= clock /\ clock \in Nat
    BY <1>11, <1>i, <1>d
    DEF EditDatabase, StartupOwnsTheFile, FilesTypes, EditsAreMade, Present
  <2>2. main'.edit = clock + 1 /\ main'.schema = main.schema /\ main' \in DbContent
    BY <2>1 DEF DbContent
  <2>3. main.edit \in Nat /\ main.schema \in {"old", "boundary", "new"}
    BY <2>1, ContentsChange
  <2> QED
    BY <1>4, <2>1, <2>2, <2>3, RankOrder
<1>12. CASE UNCHANGED <<main, last>>
  BY <1>3, <1>12
<1>13. CASE TakeSnapshot \/ RejectMigrated \/ StageSnapshot \/ FinishRollback
  BY <1>12, <1>13 DEF TakeSnapshot, RejectMigrated, StageSnapshot, FinishRollback, StartupFails
<1>14. CASE FilesQuit \/ FilesCrash
  BY <1>12, <1>14 DEF FilesQuit, FilesCrash, disk
<1>15. ASSUME NEW r \in Request, AskRestore(r) \/ RequestStep(r)
       PROVE  UNCHANGED <<main, last>>
  BY <1>15 DEF AskRestore, RequestStep, FinishRestore, RestoreGoesWrong, StageRollback,
     FinishRestoreRollback, GiveUp, PrepareRestore, StageBackup, NotDrained, NotClosed,
     Closed, disk
<1>16. CASE UNCHANGED filesVars
  BY <1>12, <1>16 DEF filesVars, disk
<1> QED
  BY <1>5, <1>6, <1>7, <1>8, <1>9, <1>10, <1>11, <1>12, <1>13, <1>14, <1>15, <1>16
  DEF FilesNext, StartupStep, MoveStep

\* lifecycle.ts, restore.ts: to the rest of the program the database file is one
\* content that is replaced in one step, and comes back or stays aside while a
\* replacement has not ended.
THEOREM FilesImplementTheDatabase == FilesSpec => ImplementsDatabase
<1>1. FilesInit => Contract!ContractInit
  <2> SUFFICES ASSUME FilesInit PROVE Contract!ContractInit
    OBVIOUS
  <2>1. FilesInv
    BY FilesBegin
  <2>2. main \in DbContent /\ displaced = Missing /\ left = {}
    BY ContractSide, RestingStates, <2>1 DEF FilesInit, DbContent
  <2> QED
    BY <2>1, <2>2, ContractSide, RestingStates DEF Contract!ContractInit, Present
<1>2. FilesInv /\ FilesInv' /\ [FilesNext]_filesVars
      => [Contract!ContractNext]_(Contract!ContractVars)
  BY FilesStepIsContractStep
<1> QED
  BY <1>1, <1>2, FilesInvHolds, PTL DEF FilesSpec, ImplementsDatabase, Contract!ContractSpec
=============================================================================
