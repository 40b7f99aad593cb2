---------------------------- MODULE UpdateEngine ----------------------------
(***************************************************************************)
(* Failure-safe RP2040 firmware update: the first-stage loader, the        *)
(* alternating update journal, and the part of the running application     *)
(* that stages, marks, confirms and restarts (firmware_update_engine.cpp,  *)
(* firmware_loader.cpp, firmware_trial.cpp, firmware_staging.cpp).         *)
(*                                                                         *)
(* Flash is modelled at the granularity of one erase or one program        *)
(* operation.  An application slot is an array of units: unit 0 is the     *)
(* manifest sector, units 1..PayloadLen[i] hold the payload of image i.    *)
(* Power may be lost between any two operations or inside one of them, and *)
(* flash cells may rot or fail, within a named budget.                     *)
(***************************************************************************)
EXTENDS Integers, FiniteSets

CONSTANTS
    Images,         \* firmware builds, each identified by build id and payload hash
    PoolImages,     \* the builds whose manifest requires loader ABI 2
    PayloadLen,     \* payload units of each build
    Version,        \* version of each build, as the downgrade check orders it
    MaxPayload,     \* payload units a slot can hold
    SeqMod,         \* journal sequence numbers are taken modulo this (2^32)
    MaxDamage,      \* bound on sectors that rot
    MaxFaults,      \* bound on erase and program operations that fail
    Erased, Junk, Rotten,  \* contents of a unit that belong to no image
    Unreadable,     \* a journal sector holding no valid record
    NoImage         \* no application is running

Slots == {"Active", "Rollback", "Staging"}
Sectors == {"A", "B"}
States == {"Confirmed", "Pending", "BackupReady", "Trial"}
Results == {"None", "Installed", "RolledBack", "Rejected", "Recovered"}
Units == 0..MaxPayload
Contents == Images \cup {Erased, Junk, Rotten}

JournalRecord ==
    [seq: 0..(SeqMod - 1), state: States, image: Images, result: Results]

ASSUME ImagesAssumption ==
    /\ Images # {}
    /\ PoolImages \subseteq Images
    /\ Images \cap {Erased, Junk, Rotten, NoImage} = {}
    /\ Erased # Junk /\ Erased # Rotten /\ Junk # Rotten
    /\ Unreadable \notin JournalRecord
ASSUME SizeAssumption ==
    /\ MaxPayload \in Nat \ {0}
    /\ PayloadLen \in [Images -> 1..MaxPayload]
    /\ Version \in [Images -> Nat]
ASSUME SeqAssumption == SeqMod \in Nat /\ SeqMod >= 4
ASSUME BudgetAssumption == MaxDamage \in Nat /\ MaxFaults \in Nat

VARIABLES
    \* flash
    slot,       \* the three application slots
    journal,    \* the two update-journal sectors
    fence,      \* core pool metadata: "none", "record" (magic only), "guard"
    \* volatile state
    pc,         \* what the processor is about to do
    xfer,       \* the copy in progress in the loader
    commit,     \* the journal record about to be committed
    running,    \* the application in control, NoImage while it is the loader
    trial,      \* trial_active: "no", "yes" (starting up), "failed" (not confirmed)
    rx,         \* the firmware staging receiver
    \* environment and history
    steady,     \* the supply holds from now on
    damage,     \* sectors that have rotted so far
    faults,     \* flash operations that have failed so far
    accepted,   \* the build last accepted other than by a rollback
    tried       \* the candidate of the newest TRIAL record has been started

flash == <<slot, journal, fence>>
control == <<xfer, commit>>
app == <<running, trial, rx>>
history == <<accepted, tried>>
environment == <<steady, damage, faults>>
vars == <<flash, pc, control, app, environment, history>>

PcValues == {"off", "boot", "copyErase", "copyProgram", "copyManifest", "install",
             "journalErase", "journalProgram", "start", "app", "stageManifest", "usb"}
Transfers == [from: Slots, to: Slots, image: Images, at: Units]
Records == [state: States, image: Images, result: Results]
NoTransfer == [from |-> "Active", to |-> "Active", image |-> NoImage, at |-> 0]
NoRecord == [state |-> "Confirmed", image |-> NoImage, result |-> "None"]
RxStates == {"Idle", "Manifest", "Erasing", "Payload", "Ready", "Failed"}
Receivers == [state: RxStates, image: Images \cup {NoImage}, at: 0..(MaxPayload + 1),
              intact: BOOLEAN, committed: BOOLEAN]
RxInit == [state |-> "Idle", image |-> NoImage, at |-> 0,
           intact |-> TRUE, committed |-> FALSE]

TypeOK ==
    /\ slot \in [Slots -> [Units -> Contents]]
    /\ journal \in [Sectors -> JournalRecord \cup {Unreadable}]
    /\ fence \in {"none", "record", "guard"}
    /\ pc \in PcValues
    /\ xfer \in Transfers \cup {NoTransfer}
    /\ commit \in Records \cup {NoRecord}
    /\ running \in Images \cup {NoImage}
    /\ trial \in {"no", "yes", "failed"}
    /\ rx \in Receivers
    /\ steady \in BOOLEAN
    /\ damage \in 0..MaxDamage
    /\ faults \in 0..MaxFaults
    /\ accepted \in Images
    /\ tried \in BOOLEAN

-----------------------------------------------------------------------------
(* The alternating journal *)

NextSeq(s) == IF s = SeqMod - 1 THEN 0 ELSE s + 1

\* Mutant of Newer: an unsigned comparison, wrong where the number wraps.
NewerUnsigned(a, b) == a > b

\* The signed comparison (int32_t)(a - b) > 0, for a width of SeqMod.
Newer(a, b) ==
    LET distance == IF a >= b THEN a - b ELSE SeqMod + a - b
    IN  distance > 0 /\ 2 * distance < SeqMod

Readable(k) == journal[k] # Unreadable

JournalValid == Readable("A") \/ Readable("B")

CurrentSector ==
    IF Readable("A") /\ (Readable("B") => Newer(journal["A"].seq, journal["B"].seq))
    THEN "A" ELSE "B"

Current == journal[CurrentSector]

StateIs(s) == JournalValid /\ Current.state = s

\* Mutant of TargetSector: the record is written over the current one.
TargetCurrentSector == IF JournalValid /\ CurrentSector = "A" THEN "A" ELSE "B"

TargetSector == IF JournalValid /\ CurrentSector = "A" THEN "B" ELSE "A"

NewRecord ==
    [seq |-> IF JournalValid THEN NextSeq(Current.seq) ELSE 1,
     state |-> commit.state, image |-> commit.image, result |-> commit.result]

-----------------------------------------------------------------------------
(* Images in slots *)

Manifest(s) == slot[s][0]

ManifestValid(s) == Manifest(s) \in Images

PoolCompatible(i) == fence = "none" \/ i \in PoolImages

PayloadMatches(units, i) == \A u \in 1..PayloadLen[i] : units[u] = i

ValidUnits(units) ==
    /\ units[0] \in Images
    /\ PoolCompatible(units[0])
    /\ PayloadMatches(units, units[0])

ImageValid(s) == ValidUnits(slot[s])

CandidateStaged == ImageValid("Staging") /\ Manifest("Staging") = Current.image

RunningIsTrial ==
    /\ StateIs("Trial")
    /\ ImageValid("Active")
    /\ Manifest("Active") = Current.image

\* confirm_running_firmware finds its work done.
ConfirmedAlready ==
    /\ StateIs("Confirmed")
    /\ ImageValid("Active")
    /\ Manifest("Active") = Current.image

\* NOR flash: only an erased unit takes what is programmed.
Programmed(old, new) == IF old = Erased THEN new ELSE Junk

-----------------------------------------------------------------------------
(* Initial states: a factory installation.  It writes the loader, the active *)
(* slot and both journal sectors, and leaves the other slots as they were.   *)

BlankSlot == [u \in Units |-> Erased]
Holding(i) ==
    [u \in Units |-> IF u <= PayloadLen[i] THEN i ELSE Erased]
FactoryRecord(i) ==
    [seq |-> 1, state |-> "Confirmed", image |-> i, result |-> "None"]
OtherSlots == {BlankSlot} \cup {Holding(i) : i \in Images}

Init ==
    /\ fence \in {"none", "guard"}
    /\ \E i \in Images, r, s \in OtherSlots :
          /\ PoolCompatible(i)
          /\ slot = [x \in Slots |-> CASE x = "Active" -> Holding(i)
                                       [] x = "Rollback" -> r
                                       [] x = "Staging" -> s]
          /\ journal = [k \in Sectors |-> IF k = "A" THEN FactoryRecord(i) ELSE Unreadable]
          /\ accepted = i
    /\ pc = "off"
    /\ xfer = NoTransfer
    /\ commit = NoRecord
    /\ running = NoImage
    /\ trial = "no"
    /\ rx = RxInit
    /\ steady = FALSE
    /\ damage = 0
    /\ faults = 0
    /\ tried = FALSE

-----------------------------------------------------------------------------
(* The loader: process_firmware_boot *)

PowerOn ==
    /\ pc = "off"
    /\ pc' = "boot"
    /\ UNCHANGED <<flash, control, app, environment, history>>

StartDecided ==
    /\ pc' = "start"
    /\ UNCHANGED control

EnterUsbRecovery ==
    /\ pc' = "usb"
    /\ UNCHANGED control

BeginCopy(from, to, state, image, result) ==
    /\ pc' = "copyErase"
    /\ xfer' = [from |-> from, to |-> to, image |-> Manifest(from), at |-> 0]
    /\ commit' = [state |-> state, image |-> image, result |-> result]

BeginCommit(state, image, result) ==
    /\ pc' = "journalErase"
    /\ commit' = [state |-> state, image |-> image, result |-> result]
    /\ UNCHANGED xfer

RestoreFrom(source, result) ==
    BeginCopy(source, "Active", "Confirmed", Manifest(source), result)

RecoverWithoutUpdate ==
    \/ /\ ImageValid("Active")
       /\ StartDecided
    \/ /\ ~ImageValid("Active")
       /\ ImageValid("Rollback")
       /\ RestoreFrom("Rollback", "Recovered")
    \/ /\ ~ImageValid("Active")
       /\ ~ImageValid("Rollback")
       /\ ImageValid("Staging")
       /\ RestoreFrom("Staging", "Recovered")
    \/ /\ \A s \in Slots : ~ImageValid(s)
       /\ EnterUsbRecovery

BootWithoutJournal ==
    /\ ~JournalValid
    /\ RecoverWithoutUpdate

\* FLASH selected and RESET released: manifest and vectors only, no payload hash.
BootConfirmedFast ==
    /\ StateIs("Confirmed")
    /\ ManifestValid("Active")
    /\ PoolCompatible(Manifest("Active"))
    /\ StartDecided

BootConfirmed ==
    /\ StateIs("Confirmed")
    /\ RecoverWithoutUpdate

RestoreRollbackOrUsb ==
    \/ /\ ImageValid("Rollback")
       /\ RestoreFrom("Rollback", "RolledBack")
    \/ /\ ~ImageValid("Rollback")
       /\ EnterUsbRecovery

\* Mutant of BootTrial: CONFIRMED is committed before the rollback is restored.
BootTrialCommitFirst ==
    /\ StateIs("Trial")
    /\ ImageValid("Rollback")
    /\ BeginCommit("Confirmed", Manifest("Rollback"), "RolledBack")

BootTrial ==
    /\ StateIs("Trial")
    /\ RestoreRollbackOrUsb

BootStaleCandidate ==
    /\ StateIs("Pending") \/ StateIs("BackupReady")
    /\ ~CandidateStaged
    /\ \/ /\ StateIs("Pending")
          /\ ImageValid("Active")
          /\ BeginCommit("Confirmed", Manifest("Active"), "Rejected")
       \/ /\ ~(StateIs("Pending") /\ ImageValid("Active"))
          /\ RestoreRollbackOrUsb

\* Mutant of BootPending: the candidate is installed without a backup.
BootPendingInstalls ==
    /\ StateIs("Pending")
    /\ CandidateStaged
    /\ BeginCopy("Staging", "Active", "Trial", Manifest("Staging"), "None")

\* Mutant of BootPending: a damaged active image is not recovered from.
BootPendingGivesUp ==
    /\ StateIs("Pending")
    /\ CandidateStaged
    /\ \/ /\ ImageValid("Active")
          /\ BeginCopy("Active", "Rollback", "BackupReady", Manifest("Staging"), "None")
       \/ /\ ~ImageValid("Active")
          /\ EnterUsbRecovery

\* Mutant of BootPending: the update waits for a command that never comes.
BootPendingWaits ==
    /\ StateIs("Pending")
    /\ CandidateStaged
    /\ StartDecided

BootPending ==
    /\ StateIs("Pending")
    /\ CandidateStaged
    /\ \/ /\ ImageValid("Active")
          /\ BeginCopy("Active", "Rollback", "BackupReady", Manifest("Staging"), "None")
       \/ /\ ~ImageValid("Active")
          /\ RecoverWithoutUpdate

\* Mutant of BootBackupReady: the backup is repeated, from whatever is active now.
BootBackupAgain ==
    /\ StateIs("BackupReady")
    /\ CandidateStaged
    /\ IF ImageValid("Active")
       THEN BeginCopy("Active", "Rollback", "BackupReady", Manifest("Staging"), "None")
       ELSE pc' = "install" /\ UNCHANGED control

BootBackupReady ==
    /\ StateIs("BackupReady")
    /\ CandidateStaged
    /\ pc' = "install"
    /\ UNCHANGED control

Boot ==
    /\ pc = "boot"
    /\ \/ BootWithoutJournal
       \/ BootConfirmedFast
       \/ BootConfirmed
       \/ BootTrial
       \/ BootStaleCandidate
       \/ BootPending
       \/ BootBackupReady
    /\ UNCHANGED <<flash, app, environment, history>>

Install ==
    /\ pc = "install"
    /\ \/ /\ ImageValid("Rollback")
          /\ ImageValid("Staging")
          /\ BeginCopy("Staging", "Active", "Trial", Manifest("Staging"), "None")
       \/ /\ ~(ImageValid("Rollback") /\ ImageValid("Staging"))
          /\ EnterUsbRecovery
    /\ UNCHANGED <<flash, app, environment, history>>

-----------------------------------------------------------------------------
(* The loader: copy_image.  Erase every sector, manifest first; program the  *)
(* payload; hash it; program the manifest last.                              *)

WriteUnit(s, u, content) == slot' = [slot EXCEPT ![s][u] = content]

\* Mutant of CopyErase: the size to erase is rounded down.
CopyEraseShort ==
    /\ pc = "copyErase"
    /\ WriteUnit(xfer.to, xfer.at, Erased)
    /\ IF xfer.at + 1 < PayloadLen[xfer.image]
       THEN /\ xfer' = [xfer EXCEPT !.at = @ + 1]
            /\ pc' = "copyErase"
       ELSE /\ xfer' = [xfer EXCEPT !.at = 1]
            /\ pc' = "copyProgram"
    /\ UNCHANGED <<journal, fence, commit, app, environment, history>>

\* Mutant of CopyErase: the manifest is erased last.
CopyEraseDescending ==
    /\ pc = "copyErase"
    /\ WriteUnit(xfer.to, PayloadLen[xfer.image] - xfer.at, Erased)
    /\ IF xfer.at < PayloadLen[xfer.image]
       THEN /\ xfer' = [xfer EXCEPT !.at = @ + 1]
            /\ pc' = "copyErase"
       ELSE /\ xfer' = [xfer EXCEPT !.at = 1]
            /\ pc' = "copyProgram"
    /\ UNCHANGED <<journal, fence, commit, app, environment, history>>

CopyErase ==
    /\ pc = "copyErase"
    /\ WriteUnit(xfer.to, xfer.at, Erased)
    /\ IF xfer.at < PayloadLen[xfer.image]
       THEN /\ xfer' = [xfer EXCEPT !.at = @ + 1]
            /\ pc' = "copyErase"
       ELSE /\ xfer' = [xfer EXCEPT !.at = 1]
            /\ pc' = "copyProgram"
    /\ UNCHANGED <<journal, fence, commit, app, environment, history>>

CopyProgram ==
    /\ pc = "copyProgram"
    /\ WriteUnit(xfer.to, xfer.at,
                 Programmed(slot[xfer.to][xfer.at], slot[xfer.from][xfer.at]))
    /\ IF slot'[xfer.to][xfer.at] # slot[xfer.from][xfer.at]
       THEN EnterUsbRecovery
       ELSE IF xfer.at < PayloadLen[xfer.image]
       THEN /\ xfer' = [xfer EXCEPT !.at = @ + 1]
            /\ UNCHANGED <<pc, commit>>
       ELSE IF PayloadMatches(slot'[xfer.to], xfer.image)
       THEN /\ xfer' = [xfer EXCEPT !.at = 0]
            /\ pc' = "copyManifest"
            /\ UNCHANGED commit
       ELSE EnterUsbRecovery
    /\ UNCHANGED <<journal, fence, app, environment, history>>

CopyManifest ==
    /\ pc = "copyManifest"
    /\ WriteUnit(xfer.to, 0, Programmed(slot[xfer.to][0], Manifest(xfer.from)))
    /\ IF ValidUnits(slot'[xfer.to])
       THEN /\ pc' = "journalErase"
            /\ xfer' = NoTransfer
            /\ UNCHANGED commit
       ELSE EnterUsbRecovery
    /\ UNCHANGED <<journal, fence, app, environment, history>>

-----------------------------------------------------------------------------
(* commit_journal, for the loader and for the application *)

JournalErase ==
    /\ pc = "journalErase"
    /\ journal' = [journal EXCEPT ![TargetSector] = Unreadable]
    /\ pc' = "journalProgram"
    /\ UNCHANGED <<slot, fence, control, app, environment, history>>

\* What a record that has become durable means for the history variables.
RecordCommit ==
    /\ accepted' = IF commit.state = "Confirmed" /\ commit.result # "RolledBack"
                   THEN commit.image ELSE accepted
    /\ tried' = (tried /\ commit.state # "Trial")

ProgramRecord ==
    /\ journal' = [journal EXCEPT ![TargetSector] = NewRecord]
    /\ RecordCommit

LoaderCommit ==
    /\ pc = "journalProgram"
    /\ running = NoImage
    /\ ProgramRecord
    /\ pc' = IF commit.state = "BackupReady" THEN "install" ELSE "start"
    /\ commit' = NoRecord
    /\ UNCHANGED <<slot, fence, xfer, app, environment>>

\* mark_update_pending returns Ok and the receiver is READY.
PendingCommit ==
    /\ pc = "journalProgram"
    /\ running # NoImage
    /\ commit.state = "Pending"
    /\ ProgramRecord
    /\ pc' = "app"
    /\ commit' = NoRecord
    /\ rx' = [rx EXCEPT !.state = "Ready"]
    /\ UNCHANGED <<slot, fence, xfer, running, trial, environment>>

\* confirm_running_firmware returns Ok and the watchdog is disarmed.
ConfirmCommit ==
    /\ pc = "journalProgram"
    /\ running # NoImage
    /\ commit.state = "Confirmed"
    /\ ProgramRecord
    /\ pc' = "app"
    /\ commit' = NoRecord
    /\ trial' = "no"
    /\ UNCHANGED <<slot, fence, xfer, running, rx, environment>>

-----------------------------------------------------------------------------
(* The application: start, trial and confirmation *)

\* start_active_application, then the early runtime hook of the application.
StartActive ==
    /\ pc = "start"
    /\ pc' = "app"
    /\ running' = Manifest("Active")
    /\ trial' = IF RunningIsTrial THEN "yes" ELSE "no"
    /\ tried' = (tried \/ RunningIsTrial)
    /\ UNCHANGED <<flash, control, rx, environment, accepted>>

\* Mutant of Confirm: the running image is not compared with the trial record.
ConfirmUnchecked ==
    /\ pc = "app"
    /\ trial = "yes"
    /\ BeginCommit("Confirmed", Manifest("Active"), "Installed")
    /\ UNCHANGED <<trial, flash, running, rx, environment, history>>

\* firmware_trial_confirm, reached once the FPGA and the mailbox are up.
Confirm ==
    /\ pc = "app"
    /\ trial = "yes"
    /\ IF RunningIsTrial
       THEN /\ BeginCommit("Confirmed", Manifest("Active"), "Installed")
            /\ UNCHANGED trial
       ELSE /\ trial' = IF ConfirmedAlready THEN "no" ELSE "failed"
            /\ UNCHANGED <<pc, control>>
    /\ UNCHANGED <<flash, running, rx, environment, history>>

\* The main loop serves commands once the confirmation has been attempted.
Serving == pc = "app" /\ trial # "yes"

\* RECONFIGURE with restart, FW_APPLY: watchdog_reboot into the loader.
Restart ==
    /\ Serving
    /\ pc' = "off"
    /\ running' = NoImage
    /\ trial' = "no"
    /\ rx' = RxInit
    /\ UNCHANGED <<flash, control, environment, history>>

\* Mutant of WatchdogReset: only a failed confirmation ends in a reset.
WatchdogOnlyAfterFailure ==
    /\ pc = "app"
    /\ trial = "failed"
    /\ pc' = "off"
    /\ running' = NoImage
    /\ trial' = "no"
    /\ rx' = RxInit
    /\ UNCHANGED <<flash, control, environment, history>>

\* A trial that hangs, panics, or failed to confirm stops feeding the watchdog.
WatchdogReset ==
    /\ pc = "app"
    /\ trial # "no"
    /\ pc' = "off"
    /\ running' = NoImage
    /\ trial' = "no"
    /\ rx' = RxInit
    /\ UNCHANGED <<flash, control, environment, history>>

(* The first flash mutation migrates the core pool.  Only builds of loader   *)
(* ABI 2 contain the pool, and core_flash refuses to migrate during a trial. *)
\* The first allocation record, or a torn part of it, is in flash.
MigrateRecord ==
    /\ Serving
    /\ trial = "no"
    /\ running \in PoolImages
    /\ fence = "none"
    /\ fence' = "record"
    /\ UNCHANGED <<slot, journal, pc, control, app, environment, history>>

\* A migration interrupted in its first record starts over by erasing it.
MigrateRetry ==
    /\ Serving
    /\ trial = "no"
    /\ running \in PoolImages
    /\ fence = "record"
    /\ fence' = "none"
    /\ UNCHANGED <<slot, journal, pc, control, app, environment, history>>

\* The guard page is programmed before pool data changes, and never erased.
MigrateGuard ==
    /\ Serving
    /\ running \in PoolImages
    /\ fence = "record"
    /\ fence' = "guard"
    /\ UNCHANGED <<slot, journal, pc, control, app, environment, history>>

-----------------------------------------------------------------------------
(* The application: FirmwareStagingReceiver.  A package travels in commands  *)
(* of the service loop; its payload may arrive corrupted.                    *)

ReceiveBegin ==
    /\ Serving
    /\ rx.state # "Ready" /\ ~rx.committed
    /\ JournalValid => StateIs("Confirmed")
    /\ rx' = [RxInit EXCEPT !.state = "Manifest"]
    /\ UNCHANGED <<flash, pc, control, running, trial, environment, history>>

Downgrade(i) == ManifestValid("Active") /\ Version[i] < Version[Manifest("Active")]

\* The manifest sector is complete: it is accepted, or refused as older.
ReceiveManifest(i) ==
    /\ Serving
    /\ rx.state = "Manifest"
    /\ rx' = IF Downgrade(i) THEN [rx EXCEPT !.state = "Failed"]
                             ELSE [rx EXCEPT !.state = "Erasing", !.image = i]
    /\ UNCHANGED <<flash, pc, control, running, trial, environment, history>>

ReceiveErase ==
    /\ Serving
    /\ rx.state = "Erasing"
    /\ WriteUnit("Staging", rx.at, Erased)
    /\ rx' = IF rx.at < PayloadLen[rx.image]
             THEN [rx EXCEPT !.at = @ + 1]
             ELSE [rx EXCEPT !.at = 1, !.state = "Payload"]
    /\ UNCHANGED <<journal, fence, pc, control, running, trial, environment, history>>

ReceivePayload(data) ==
    /\ Serving
    /\ rx.state = "Payload"
    /\ rx.at <= PayloadLen[rx.image]
    /\ WriteUnit("Staging", rx.at, Programmed(slot["Staging"][rx.at], data))
    /\ rx' = IF slot'["Staging"][rx.at] = data
             THEN [rx EXCEPT !.at = @ + 1, !.intact = IF data = rx.image THEN @ ELSE FALSE]
             ELSE [rx EXCEPT !.state = "Failed"]
    /\ UNCHANGED <<journal, fence, pc, control, running, trial, environment, history>>

\* finish(): the payload hash is checked before the manifest is programmed.
ReceiveFinish ==
    /\ Serving
    /\ rx.state = "Payload"
    /\ rx.at = PayloadLen[rx.image] + 1
    /\ IF rx.intact
       THEN /\ pc' = "stageManifest"
            /\ UNCHANGED rx
       ELSE /\ rx' = [rx EXCEPT !.state = "Failed"]
            /\ UNCHANGED pc
    /\ UNCHANGED <<flash, control, running, trial, environment, history>>

MarkAllowed(units) ==
    /\ ImageValid("Active")
    /\ ValidUnits(units)

\* Mutant of AlreadyPending: the state of the record is not compared.
AlreadyNamed(i) == JournalValid /\ Current.image = i

AlreadyPending(i) == StateIs("Pending") /\ Current.image = i

ReceiveFails(committed) ==
    /\ pc' = "app"
    /\ rx' = [rx EXCEPT !.state = "Failed", !.committed = committed]
    /\ UNCHANGED control

\* finish(), continued: program the manifest, read it back, validate the image
\* (without the pool fence), then mark_update_pending.
StageManifest ==
    /\ pc = "stageManifest"
    /\ WriteUnit("Staging", 0, Programmed(slot["Staging"][0], rx.image))
    /\ LET staged == slot'["Staging"]
           marked == PayloadMatches(staged, rx.image) /\ MarkAllowed(staged)
       IN  IF staged[0] # rx.image
           THEN ReceiveFails(FALSE)
           ELSE IF marked /\ AlreadyPending(rx.image)
           THEN /\ pc' = "app"
                /\ rx' = [rx EXCEPT !.state = "Ready", !.committed = TRUE]
                /\ UNCHANGED control
           ELSE IF marked /\ (JournalValid => StateIs("Confirmed"))
           THEN /\ BeginCommit("Pending", rx.image, "None")
                /\ rx' = [rx EXCEPT !.committed = TRUE]
           ELSE ReceiveFails(TRUE)
    /\ UNCHANGED <<journal, fence, running, trial, environment, history>>

ReceiveAbort ==
    /\ Serving
    /\ rx.state \notin {"Idle", "Ready"} /\ ~rx.committed
    /\ rx' = RxInit
    /\ UNCHANGED <<flash, pc, control, running, trial, environment, history>>

Receive ==
    \/ ReceiveBegin
    \/ \E i \in Images : ReceiveManifest(i)
    \/ ReceiveErase
    \/ \E data \in {rx.image, Junk} : ReceivePayload(data)
    \/ ReceiveFinish
    \/ StageManifest
    \/ ReceiveAbort

-----------------------------------------------------------------------------
(* The environment: power, failing flash operations, rotting cells *)

\* What an erase, or the programming of a whole unit, may leave behind when it
\* is cut short.  (Cut short before its first effect: nothing changes.)
TornErase == {Junk, Erased}
TornProgram(i) == {Junk, i}

\* The unit the current flash operation works on is left with one of outcomes.
Torn(s, u, outcomes) ==
    /\ \E c \in outcomes : WriteUnit(s, u, c)
    /\ UNCHANGED <<journal, history>>

PowerLossEffect ==
    \/ UNCHANGED <<slot, journal, history>>
    \/ /\ pc = "copyErase"
       /\ Torn(xfer.to, xfer.at, TornErase)
    \/ /\ pc \in {"copyProgram", "copyManifest"}
       /\ Torn(xfer.to, xfer.at, TornProgram(xfer.image))
    \/ /\ Serving /\ rx.state = "Erasing"
       /\ Torn("Staging", rx.at, TornErase)
    \/ /\ Serving /\ rx.state = "Payload" /\ rx.at <= PayloadLen[rx.image]
       /\ Torn("Staging", rx.at, TornProgram(rx.image))
    \/ /\ pc = "stageManifest"
       /\ Torn("Staging", 0, TornProgram(rx.image))
    \/ /\ pc = "journalErase"
       /\ journal' = [journal EXCEPT ![TargetSector] = Unreadable]
       /\ UNCHANGED <<slot, history>>
    \/ /\ pc = "journalProgram"
       /\ ProgramRecord
       /\ UNCHANGED slot

PowerLoss ==
    /\ ~steady
    /\ pc # "off"
    /\ PowerLossEffect
    /\ pc' = "off"
    /\ xfer' = NoTransfer
    /\ commit' = NoRecord
    /\ running' = NoImage
    /\ trial' = "no"
    /\ rx' = RxInit
    /\ UNCHANGED <<fence, environment>>

\* From here on the supply holds (only the liveness properties need it).
PowerSettles ==
    /\ ~steady
    /\ steady' = TRUE
    /\ UNCHANGED <<flash, pc, control, app, damage, faults, history>>

FaultyJournalWrite ==
    /\ pc \in {"journalErase", "journalProgram"}
    /\ \E r \in {journal[TargetSector], Unreadable} :
          journal' = [journal EXCEPT ![TargetSector] = r]

\* An operation of the loader fails its verification: FlashError, USB recovery.
LoaderFault ==
    /\ running = NoImage
    /\ \/ /\ pc \in {"copyErase", "copyProgram", "copyManifest"}
          /\ \E c \in {slot[xfer.to][xfer.at], Junk} : WriteUnit(xfer.to, xfer.at, c)
          /\ UNCHANGED journal
       \/ /\ FaultyJournalWrite
          /\ UNCHANGED slot
    /\ EnterUsbRecovery
    /\ UNCHANGED app

\* An operation of the application fails: the call returns an error.
JournalFault ==
    /\ running # NoImage
    /\ FaultyJournalWrite
    /\ pc' = "app"
    /\ commit' = NoRecord
    /\ IF commit.state = "Pending"
       THEN /\ rx' = [rx EXCEPT !.state = "Failed"]
            /\ UNCHANGED trial
       ELSE /\ trial' = "failed"
            /\ UNCHANGED rx
    /\ UNCHANGED <<slot, xfer, running>>

ReceiverFault ==
    /\ \/ /\ Serving
          /\ rx.state = "Erasing" \/ (rx.state = "Payload" /\ rx.at <= PayloadLen[rx.image])
          /\ WriteUnit("Staging", rx.at, Junk)
          /\ UNCHANGED pc
       \/ /\ pc = "stageManifest"
          /\ WriteUnit("Staging", 0, Junk)
          /\ pc' = "app"
    /\ rx' = [rx EXCEPT !.state = "Failed"]
    /\ UNCHANGED <<journal, control, running, trial>>

FlashFault ==
    /\ faults < MaxFaults
    /\ faults' = faults + 1
    /\ LoaderFault \/ JournalFault \/ ReceiverFault
    /\ UNCHANGED <<fence, steady, damage, history>>

\* A sector rots, while the device is off or the application is running.
Damage ==
    /\ damage < MaxDamage
    /\ damage' = damage + 1
    /\ pc \in {"off", "app"}
    /\ \/ /\ \E s \in Slots, u \in Units : WriteUnit(s, u, Rotten)
          /\ UNCHANGED journal
       \/ /\ \E k \in Sectors : journal' = [journal EXCEPT ![k] = Unreadable]
          /\ UNCHANGED slot
    /\ UNCHANGED <<fence, pc, control, app, steady, faults, history>>

-----------------------------------------------------------------------------

LoaderStep ==
    \/ PowerOn
    \/ Boot
    \/ Install
    \/ CopyErase
    \/ CopyProgram
    \/ CopyManifest
    \/ LoaderCommit
    \/ StartActive

AppStep ==
    \/ Confirm
    \/ ConfirmCommit
    \/ PendingCommit
    \/ Receive
    \/ Restart
    \/ MigrateRecord
    \/ MigrateRetry
    \/ MigrateGuard

Environment ==
    \/ WatchdogReset
    \/ PowerLoss
    \/ PowerSettles
    \/ FlashFault
    \/ Damage

Next == LoaderStep \/ JournalErase \/ AppStep \/ Environment

Spec == Init /\ [][Next]_vars

(* The processor runs: the loader and a started commit go on, and a trial    *)
(* that is not confirmed is reset by the watchdog; the supply holds at last. *)
Progress ==
    \/ LoaderStep
    \/ JournalErase
    \/ ConfirmCommit
    \/ PendingCommit
    \/ StageManifest
    \/ WatchdogReset

Fairness == WF_vars(Progress) /\ WF_vars(PowerSettles)

FairSpec == Spec /\ Fairness

-----------------------------------------------------------------------------
(* Properties *)

\* No cell has rotted and no flash operation has failed so far.
Sound == damage = 0 /\ faults = 0

\* Power loss alone never strands the device: process_firmware_boot reaches USB
\* recovery only after flash has rotted or failed.
NeverStranded == pc = "usb" => ~Sound

\* From the BACKUP_READY record to the confirmation, the rollback slot holds the
\* whole of the build that was accepted before the update.
RollbackKept ==
    Sound /\ (StateIs("BackupReady") \/ StateIs("Trial"))
        => ImageValid("Rollback") /\ Manifest("Rollback") = accepted

\* Whenever the journal says CONFIRMED, the active slot holds the whole of the
\* build the record names, and it is the one last accepted (a rollback brings
\* back exactly that build).
ConfirmedIsAccepted ==
    Sound /\ StateIs("Confirmed")
        => /\ ImageValid("Active")
           /\ Manifest("Active") = accepted
           /\ Current.image = accepted

\* The loader hands over only to an image that was completely written (a cell may
\* have rotted since: the FLASH fast path does not hash the payload), and the
\* pool fence never has an ABI-1 build in control.
StartsOnlyComplete ==
    /\ pc = "start" =>
          /\ ManifestValid("Active")
          /\ \A u \in 1..PayloadLen[Manifest("Active")] :
                slot["Active"][u] \in {Manifest("Active"), Rotten}
    /\ running # NoImage => PoolCompatible(running)

\* Rotten cells alone strand the device only when the rollback image is among the
\* losses: otherwise every branch of process_firmware_boot finds an image.
UsbMeansBackupLost == pc = "usb" /\ faults = 0 => ~ImageValid("Rollback")

\* FW_END answers READY only for a candidate that is whole and durably PENDING:
\* any later reset installs it.
ReadyMeansPending ==
    Sound /\ rx.state = "Ready"
        => /\ StateIs("Pending")
           /\ Current.image = rx.image
           /\ Manifest("Staging") = rx.image
           /\ PayloadMatches(slot["Staging"], rx.image)

\* A journal commit is atomic: whatever the step, interrupted ones included, the
\* record a reader selects is the previous one or the new one, across the wrap of
\* the sequence number.
JournalAtomic ==
    [][Sound' => JournalValid' /\ Current' \in {Current, NewRecord}]_vars

\* docs/rp2040-firmware-updates.md:360, "Power loss committing TRIAL | Installation
\* repeats or the verified candidate is trialled": no candidate is rolled back
\* before it has been started.
TriedBeforeRollback ==
    StateIs("Confirmed") /\ Current.result = "RolledBack" => tried

\* docs/rp2040-firmware-updates.md:365, "Active and rollback are both invalid | Use
\* valid staging only as recovery, otherwise enter USB BOOTSEL": the loader gives
\* up only when no slot holds a valid image.
StagingIsLastResort ==
    pc = "usb" =>
        ImageValid("Active") \/ ImageValid("Rollback") \/ ~ImageValid("Staging")

\* The state diagram of the update protocol: no step skips the backup or the trial.
UpdateOrder ==
    [][Sound' /\ Current'.state # Current.state
        => <<Current.state, Current'.state>> \in
             {<<"Confirmed", "Pending">>, <<"Pending", "BackupReady">>,
              <<"Pending", "Confirmed">>, <<"BackupReady", "Trial">>,
              <<"Trial", "Confirmed">>}]_vars

\* The active slot is rewritten only while a verified backup exists and the
\* journal tells the next boot to finish the job.
ActiveGuarded ==
    [][Sound' /\ slot'["Active"] # slot["Active"]
        => /\ StateIs("BackupReady") \/ StateIs("Trial")
           /\ ImageValid("Rollback")]_vars

\* A build is accepted as INSTALLED only while that very build is running on trial
\* and its image is intact: a stale or damaged one cannot confirm.
InstalledIsRunning ==
    [][accepted' # accepted /\ Current'.result = "Installed"
        => running = accepted' /\ tried /\ ImageValid("Active")]_vars

\* Once a backup is ready the update ends, installed or rolled back.
InstallResolves ==
    StateIs("BackupReady") \/ StateIs("Trial") ~> StateIs("Confirmed")

\* A reset with a pending update leads to a trial of it, or to its rejection.
PendingProcessed ==
    StateIs("Pending") /\ pc = "off"
        ~> StateIs("Trial") \/ (StateIs("Confirmed") /\ Current.result = "Rejected")
=============================================================================
