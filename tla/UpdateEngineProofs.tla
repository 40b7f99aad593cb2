------------------------- MODULE UpdateEngineProofs -------------------------
(* Proofs about UpdateEngine, for every value of its constants: it is well    *)
(* typed, and what no rotten cell and no failing operation can take away      *)
(* (WornInv) is inductive.                                                    *)
EXTENDS UpdateEngineInvariant, TLAPS

TypeInv == TypeOK /\ ControlOK

USE DEF flash, control, app, history, environment, vars

\* Writing a unit of a slot keeps the slots well typed and the other units.
LEMMA WriteUnitType ==
    ASSUME slot \in [Slots -> [Units -> Contents]],
           NEW s \in Slots, NEW u \in Units, NEW c \in Contents,
           WriteUnit(s, u, c)
    PROVE  /\ slot' \in [Slots -> [Units -> Contents]]
           /\ slot'[s][u] = c
           /\ \A t \in Slots, v \in Units :
                 <<t, v>> # <<s, u>> => slot'[t][v] = slot[t][v]
           /\ \A t \in Slots : t # s => slot'[t] = slot[t]
BY DEF WriteUnit

LEMMA ContentsType ==
    /\ Images \subseteq Contents
    /\ Erased \in Contents /\ Junk \in Contents /\ Rotten \in Contents
    /\ \A i \in Images : PayloadLen[i] \in 1..MaxPayload
    /\ 0 \in Units
    /\ \A i \in Images : \A u \in 0..PayloadLen[i] : u \in Units
    /\ Erased \notin Images /\ Junk \notin Images /\ Rotten \notin Images
    /\ NoImage \notin Images
BY ImagesAssumption, SizeAssumption DEF Contents, Units

\* What is programmed is the new content or junk.
LEMMA ProgrammedType ==
    ASSUME NEW old \in Contents, NEW new \in Contents
    PROVE  Programmed(old, new) \in Contents
BY DEF Programmed, Contents

\* The record of a commit is well typed, whatever the journal holds.
LEMMA NewRecordType ==
    ASSUME journal \in [Sectors -> JournalRecord \cup {Unreadable}],
           commit \in Records
    PROVE  /\ NewRecord \in JournalRecord
           /\ TargetSector \in Sectors
<1>1. TargetSector \in Sectors
  BY DEF TargetSector, Sectors
<1>2. JournalValid => Current \in JournalRecord
  BY DEF JournalValid, Current, CurrentSector, Readable, Sectors
<1>3. (IF JournalValid THEN NextSeq(Current.seq) ELSE 1) \in 0..(SeqMod - 1)
  BY <1>2, SeqAssumption DEF NextSeq, JournalRecord
<1>4. QED
  BY <1>1, <1>3 DEF NewRecord, JournalRecord, Records

LEMMA TypeInit == Init => TypeInv
<1> SUFFICES ASSUME Init PROVE TypeInv
  OBVIOUS
<1>1. PICK i \in Images, r \in OtherSlots, s \in OtherSlots :
          /\ slot = [x \in Slots |-> CASE x = "Active" -> Holding(i)
                                       [] x = "Rollback" -> r
                                       [] x = "Staging" -> s]
          /\ journal = [k \in Sectors |-> IF k = "A" THEN FactoryRecord(i) ELSE Unreadable]
          /\ accepted = i
  BY DEF Init
<1>2. \A j \in Images : Holding(j) \in [Units -> Contents]
  BY ContentsType DEF Holding
<1>3. BlankSlot \in [Units -> Contents]
  BY ContentsType DEF BlankSlot
<1>4. r \in [Units -> Contents] /\ s \in [Units -> Contents]
  BY <1>2, <1>3 DEF OtherSlots
<1>5. slot \in [Slots -> [Units -> Contents]]
  BY <1>1, <1>2, <1>4 DEF Slots
<1>6. FactoryRecord(i) \in JournalRecord
  BY SeqAssumption DEF FactoryRecord, JournalRecord, States, Results
<1>7. journal \in [Sectors -> JournalRecord \cup {Unreadable}]
  BY <1>1, <1>6 DEF Sectors
<1>8. RxInit \in Receivers
  BY SizeAssumption DEF RxInit, Receivers, RxStates
<1>9. TypeOK
  <2>1. accepted \in Images
    BY <1>1
  <2>2. damage \in 0..MaxDamage /\ faults \in 0..MaxFaults
    BY BudgetAssumption DEF Init
  <2>3. /\ fence \in {"none", "record", "guard"}
        /\ pc \in PcValues
        /\ xfer = NoTransfer /\ commit = NoRecord /\ running = NoImage
        /\ trial = "no" /\ rx = RxInit
        /\ steady \in BOOLEAN /\ tried \in BOOLEAN
    BY DEF Init, PcValues
  <2>4. QED
    BY <1>5, <1>7, <1>8, <2>1, <2>2, <2>3 DEF TypeOK
<1>10. ControlOK
  BY DEF Init, ControlOK, Copying, Committing, RxInit
<1>11. QED
  BY <1>9, <1>10 DEF TypeInv

-----------------------------------------------------------------------------
(* Type correctness, action by action *)

\* An image the loader may copy names a build.
LEMMA ValidNamesBuild ==
    ASSUME NEW s \in Slots, ImageValid(s)
    PROVE  ManifestValid(s)
BY DEF ImageValid, ValidUnits, ManifestValid, Manifest

\* Beginning a copy, as every branch of the boot decision does.
LEMMA BeginCopyType ==
    ASSUME NEW from \in Slots, NEW to \in Slots, NEW state \in States,
           NEW image \in Images, NEW result \in Results,
           ImageValid(from), ControlOK,
           to # "Active" => state = "BackupReady", state # "Pending",
           BeginCopy(from, to, state, image, result),
           running' = running, rx' = rx
    PROVE  /\ pc' \in PcValues
           /\ xfer' \in Transfers
           /\ commit' \in Records
           /\ ControlOK'
<1>1. Manifest(from) \in Images
  BY DEF ImageValid, ValidUnits, Manifest
<1>2. /\ pc' = "copyErase" /\ xfer' \in Transfers /\ commit' \in Records
      /\ xfer'.to = to /\ xfer'.at = 0 /\ xfer'.image \in Images
      /\ commit'.state = state
  BY <1>1, ContentsType DEF BeginCopy, Transfers, Records
<1>3. ControlOK'
  BY <1>2, ContentsType DEF ControlOK, Copying, Committing
<1>4. QED
  BY <1>2, <1>3 DEF PcValues

LEMMA BootType ==
    ASSUME TypeInv, Boot
    PROVE  TypeInv'
<1> USE DEF TypeInv
<1> DEFINE Goal == /\ pc' \in PcValues
                   /\ xfer' \in Transfers \cup {NoTransfer}
                   /\ commit' \in Records \cup {NoRecord}
                   /\ ControlOK'
<1>1. SUFFICES Goal
  BY DEF Boot, TypeOK
<1>2. UNCHANGED <<slot, journal, running, rx>> /\ pc = "boot"
  BY DEF Boot
<1>3. ASSUME ManifestValid("Active"), StartDecided PROVE Goal
  BY <1>2, <1>3 DEF StartDecided, TypeOK, ControlOK, Copying, Committing, PcValues,
     ManifestValid, Manifest
<1>4. ASSUME EnterUsbRecovery PROVE Goal
  BY <1>2, <1>4 DEF EnterUsbRecovery, TypeOK, ControlOK, Copying, Committing, PcValues
<1>5. ASSUME NEW s \in Slots, NEW r \in Results, ImageValid(s), RestoreFrom(s, r) PROVE Goal
  <2>1. Manifest(s) \in Images
    BY <1>5, ValidNamesBuild DEF ManifestValid
  <2>2. QED
    BY <1>2, <1>5, <2>1, BeginCopyType DEF RestoreFrom, States, Slots
<1>6. ASSUME RecoverWithoutUpdate PROVE Goal
  <2>1. "Active" \in Slots /\ "Rollback" \in Slots /\ "Staging" \in Slots
        /\ "Recovered" \in Results
    BY DEF Slots, Results
  <2>2. QED
    BY <1>3, <1>4, <1>5, <1>6, <2>1, ValidNamesBuild DEF RecoverWithoutUpdate
<1>7. ASSUME RestoreRollbackOrUsb PROVE Goal
  BY <1>4, <1>5, <1>7 DEF RestoreRollbackOrUsb, Slots, Results
<1>8. CASE BootWithoutJournal
  BY <1>6, <1>8 DEF BootWithoutJournal
<1>9. CASE BootConfirmedFast
  BY <1>3, <1>9 DEF BootConfirmedFast
<1>10. CASE BootConfirmed
  BY <1>6, <1>10 DEF BootConfirmed
<1>11. CASE BootTrial
  BY <1>7, <1>11 DEF BootTrial
<1>12. CASE BootStaleCandidate
  <2>1. CASE RestoreRollbackOrUsb
    BY <1>7, <2>1
  <2>2. CASE /\ ImageValid("Active")
             /\ BeginCommit("Confirmed", Manifest("Active"), "Rejected")
    <3>1. ManifestValid("Active")
      BY <2>2, ValidNamesBuild DEF Slots
    <3>2. pc' = "journalErase" /\ xfer' = xfer
          /\ commit' \in Records /\ commit'.state = "Confirmed"
      BY <2>2, <3>1 DEF BeginCommit, ManifestValid, Records, States, Results
    <3>3. QED
      BY <1>2, <3>1, <3>2
         DEF TypeOK, ControlOK, Copying, Committing, PcValues, ManifestValid, Manifest
  <2>3. QED
    BY <1>12, <2>1, <2>2 DEF BootStaleCandidate
<1>13. CASE BootPending
  <2>1. CASE RecoverWithoutUpdate
    BY <1>6, <2>1
  <2>2. CASE /\ ImageValid("Active")
             /\ BeginCopy("Active", "Rollback", "BackupReady", Manifest("Staging"), "None")
    <3>1. Manifest("Staging") \in Images
      BY <1>13, ValidNamesBuild DEF BootPending, CandidateStaged, ManifestValid, Slots
    <3>2. QED
      BY <1>2, <2>2, <3>1, BeginCopyType DEF States, Results, Slots
  <2>3. QED
    BY <1>13, <2>1, <2>2 DEF BootPending
<1>14. CASE BootBackupReady
  BY <1>2, <1>14 DEF BootBackupReady, TypeOK, ControlOK, Copying, Committing, PcValues
<1>15. QED
  BY <1>8, <1>9, <1>10, <1>11, <1>12, <1>13, <1>14 DEF Boot

LEMMA InstallType ==
    ASSUME TypeInv, Install
    PROVE  TypeInv'
<1> USE DEF TypeInv
<1>1. CASE EnterUsbRecovery
  BY <1>1 DEF Install, EnterUsbRecovery, TypeOK, ControlOK, Copying, Committing, PcValues
<1>2. CASE /\ ImageValid("Staging")
           /\ BeginCopy("Staging", "Active", "Trial", Manifest("Staging"), "None")
  <2>1. Manifest("Staging") \in Images
    BY <1>2 DEF ImageValid, ValidUnits, Manifest
  <2>2. /\ pc' \in PcValues /\ xfer' \in Transfers
        /\ commit' \in Records /\ ControlOK'
    BY <1>2, <2>1, BeginCopyType DEF Install, States, Results, Slots
  <2>3. QED
    BY <2>2 DEF Install, TypeOK
<1>3. QED
  BY <1>1, <1>2 DEF Install

LEMMA CopyType ==
    ASSUME TypeInv, CopyErase \/ CopyProgram \/ CopyManifest
    PROVE  TypeInv'
<1> USE DEF TypeInv
<1>1. /\ xfer \in Transfers /\ commit \in Records
      /\ xfer.at \in Units /\ xfer.to \in Slots /\ xfer.from \in Slots
      /\ xfer.image \in Images /\ xfer.at <= PayloadLen[xfer.image]
      /\ PayloadLen[xfer.image] \in 1..MaxPayload
  BY ContentsType
     DEF CopyErase, CopyProgram, CopyManifest, ControlOK, Copying, Transfers
<1>2. CASE CopyErase
  <2>1. slot' \in [Slots -> [Units -> Contents]]
    BY <1>1, <1>2, WriteUnitType, ContentsType DEF CopyErase, TypeOK
  <2>2. pc' \in {"copyErase", "copyProgram"} /\ xfer' \in Transfers
        /\ xfer'.image = xfer.image /\ xfer'.to = xfer.to
        /\ xfer'.at <= PayloadLen[xfer'.image]
        /\ (pc' = "copyProgram" => xfer'.at = 1)
    BY <1>1, <1>2, SizeAssumption DEF CopyErase, Transfers, Units
  <2>3. QED
    BY <1>1, <1>2, <2>1, <2>2
       DEF CopyErase, TypeOK, ControlOK, Copying, Committing, PcValues
<1>3. CASE CopyProgram
  <2>1. slot' \in [Slots -> [Units -> Contents]]
    BY <1>1, <1>3, WriteUnitType, ProgrammedType DEF CopyProgram, TypeOK
  <2>2. CASE EnterUsbRecovery
    BY <1>1, <1>3, <2>1, <2>2
       DEF CopyProgram, EnterUsbRecovery, TypeOK, ControlOK, Copying, Committing, PcValues
  <2>3. CASE ~EnterUsbRecovery
    <3>1. /\ pc' \in {"copyProgram", "copyManifest"} /\ xfer' \in Transfers
          /\ commit' = commit
          /\ xfer'.image = xfer.image /\ xfer'.to = xfer.to
          /\ xfer'.at <= PayloadLen[xfer'.image]
          /\ pc' = "copyProgram" => xfer'.at > 0
          /\ pc' = "copyManifest" => xfer'.at = 0
      BY <1>1, <1>3, <2>3, SizeAssumption DEF CopyProgram, Transfers, Units, EnterUsbRecovery
    <3>2. QED
      BY <1>1, <1>3, <2>1, <3>1
         DEF CopyProgram, TypeOK, ControlOK, Copying, Committing, PcValues
  <2>4. QED
    BY <2>2, <2>3
<1>4. CASE CopyManifest
  <2>1. slot' \in [Slots -> [Units -> Contents]]
    BY <1>1, <1>4, WriteUnitType, ProgrammedType, ContentsType DEF CopyManifest, TypeOK, Manifest
  <2>2. CASE EnterUsbRecovery
    BY <1>1, <1>4, <2>1, <2>2
       DEF CopyManifest, EnterUsbRecovery, TypeOK, ControlOK, Copying, Committing, PcValues
  <2>3. CASE ~EnterUsbRecovery
    <3>1. /\ ValidUnits(slot'[xfer.to]) /\ pc' = "journalErase"
          /\ xfer' = NoTransfer /\ commit' = commit
      BY <1>4, <2>3 DEF CopyManifest
    <3>2. commit.state # "BackupReady" => ManifestValid("Active")'
      BY <1>1, <1>4, <3>1
         DEF CopyManifest, ControlOK, Copying, ManifestValid, Manifest, ValidUnits
    <3>3. running' = NoImage => commit.state # "Pending"
      BY <1>4 DEF CopyManifest, ControlOK, Copying
    <3>4. QED
      BY <1>1, <1>4, <2>1, <3>1, <3>2, <3>3
         DEF CopyManifest, TypeOK, ControlOK, Copying, Committing, PcValues
  <2>4. QED
    BY <2>2, <2>3
<1>5. QED
  BY <1>2, <1>3, <1>4

LEMMA JournalType ==
    ASSUME TypeInv,
           JournalErase \/ LoaderCommit \/ PendingCommit \/ ConfirmCommit
    PROVE  TypeInv'
<1> USE DEF TypeInv
<1>1. commit \in Records /\ commit.image \in Images
  BY DEF JournalErase, LoaderCommit, PendingCommit, ConfirmCommit,
         ControlOK, Committing, Records
<1>2. TargetSector \in Sectors /\ NewRecord \in JournalRecord
  BY <1>1, NewRecordType DEF TypeOK
<1>3. CASE JournalErase
  BY <1>1, <1>2, <1>3
     DEF JournalErase, TypeOK, ControlOK, Copying, Committing, PcValues, ManifestValid, Manifest
<1>4. ASSUME ProgramRecord
      PROVE  /\ journal' \in [Sectors -> JournalRecord \cup {Unreadable}]
             /\ accepted' \in Images /\ tried' \in BOOLEAN
  BY <1>1, <1>2, <1>4 DEF ProgramRecord, RecordCommit, TypeOK
<1>5. CASE LoaderCommit
  BY <1>1, <1>4, <1>5
     DEF LoaderCommit, TypeOK, ControlOK, Copying, Committing, PcValues, ManifestValid, Manifest
<1>6. CASE PendingCommit
  BY <1>1, <1>4, <1>6
     DEF PendingCommit, TypeOK, ControlOK, Copying, Committing, PcValues, Receivers, RxStates
<1>7. CASE ConfirmCommit
  BY <1>1, <1>4, <1>7
     DEF ConfirmCommit, TypeOK, ControlOK, Copying, Committing, PcValues
<1>8. QED
  BY <1>3, <1>5, <1>6, <1>7

\* The steps that leave the slots and the journal alone.
LEMMA AppType ==
    ASSUME TypeInv,
           \/ PowerOn \/ StartActive \/ Confirm \/ Restart \/ WatchdogReset
           \/ MigrateRecord \/ MigrateRetry \/ MigrateGuard \/ PowerSettles
    PROVE  TypeInv'
<1> USE DEF TypeInv
<1>1. RxInit \in Receivers /\ RxInit.state = "Idle"
  BY SizeAssumption DEF RxInit, Receivers, RxStates
<1>2. CASE PowerOn
  BY <1>2 DEF PowerOn, TypeOK, ControlOK, Copying, Committing, PcValues
<1>3. CASE StartActive
  BY <1>3 DEF StartActive, TypeOK, ControlOK, Copying, Committing, PcValues,
     ManifestValid, Manifest
<1>4. CASE Confirm
  <2>1. CASE RunningIsTrial
    <3>1. Manifest("Active") \in Images
      BY <2>1 DEF RunningIsTrial, ImageValid, ValidUnits, Manifest
    <3>2. commit' \in Records /\ pc' = "journalErase"
      BY <1>4, <2>1, <3>1 DEF Confirm, BeginCommit, Records, States, Results
    <3>3. QED
      BY <1>4, <2>1, <3>2, ContentsType
         DEF Confirm, BeginCommit, TypeOK, ControlOK, Copying, Committing, PcValues
  <2>2. CASE ~RunningIsTrial
    BY <1>4, <2>2 DEF Confirm, TypeOK, ControlOK, Copying, Committing, PcValues
  <2>3. QED
    BY <2>1, <2>2
<1>5. CASE Restart \/ WatchdogReset
  BY <1>1, <1>5
     DEF Restart, WatchdogReset, TypeOK, ControlOK, Copying, Committing, PcValues
<1>6. CASE MigrateRecord \/ MigrateRetry \/ MigrateGuard
  BY <1>6 DEF MigrateRecord, MigrateRetry, MigrateGuard, Serving,
     TypeOK, ControlOK, Copying, Committing, ManifestValid, Manifest
<1>7. CASE PowerSettles
  BY <1>7 DEF PowerSettles, TypeOK, ControlOK, Copying, Committing, ManifestValid, Manifest
<1>8. QED
  BY <1>2, <1>3, <1>4, <1>5, <1>6, <1>7

\* An update of the receiver's record keeps it well typed.
LEMMA ReceiverUpdate ==
    ASSUME rx \in Receivers, NEW n \in 0..(MaxPayload + 1), NEW state \in RxStates,
           NEW intact \in BOOLEAN
    PROVE  /\ [rx EXCEPT !.at = n] \in Receivers
           /\ [rx EXCEPT !.at = n, !.state = state] \in Receivers
           /\ [rx EXCEPT !.state = state] \in Receivers
           /\ [rx EXCEPT !.at = n, !.intact = intact] \in Receivers
           /\ [rx EXCEPT !.state = state, !.committed = intact] \in Receivers
           /\ [rx EXCEPT !.committed = intact] \in Receivers
BY DEF Receivers

LEMMA ReceiveType ==
    ASSUME TypeInv, Receive
    PROVE  TypeInv'
<1> USE DEF TypeInv
<1>1. /\ RxInit \in Receivers /\ RxInit.state = "Idle" /\ rx \in Receivers
      /\ \A i \in Images : PayloadLen[i] \in 1..MaxPayload
      /\ "Staging" \in Slots
  BY SizeAssumption, ContentsType DEF RxInit, Receivers, RxStates, TypeOK, Slots
<1>2. CASE ReceiveBegin
  BY <1>1, <1>2 DEF ReceiveBegin, Serving, TypeOK, ControlOK, Copying, Committing,
     Receivers, RxStates, ManifestValid, Manifest, RxInit
<1>3. ASSUME NEW i \in Images, ReceiveManifest(i) PROVE TypeInv'
  <2>1. rx' \in Receivers
    BY <1>1, <1>3 DEF ReceiveManifest, Receivers, RxStates
  <2>2. rx'.state = "Failed" \/ (rx'.state = "Erasing" /\ rx'.image = i /\ rx'.at = rx.at)
    BY <1>1, <1>3 DEF ReceiveManifest, Receivers
  <2>3. QED
    BY <1>1, <1>3, <2>1, <2>2
       DEF ReceiveManifest, Serving, TypeOK, ControlOK, Copying, Committing
<1>4. CASE ReceiveErase
  <2>1. rx.image \in Images /\ rx.at \in Units /\ rx.at <= PayloadLen[rx.image]
    BY <1>1, <1>4, SizeAssumption DEF ReceiveErase, ControlOK, Units, Receivers
  <2>2. slot' \in [Slots -> [Units -> Contents]]
    BY <1>1, <1>4, <2>1, WriteUnitType, ContentsType DEF ReceiveErase, TypeOK
  <2>3. /\ rx'.image = rx.image
        /\ \/ rx' = [rx EXCEPT !.at = @ + 1] /\ rx.at < PayloadLen[rx.image]
           \/ rx' = [rx EXCEPT !.at = 1, !.state = "Payload"]
    BY <1>1, <1>4 DEF ReceiveErase, Receivers
  <2>4. \/ rx'.state = "Erasing" /\ rx'.at <= PayloadLen[rx.image]
        \/ rx'.state = "Payload" /\ rx'.at = 1
    BY <1>1, <1>4, <2>1, <2>3, SizeAssumption DEF ReceiveErase, Receivers, Units
  <2>5. rx.at + 1 \in 0..(MaxPayload + 1) /\ 1 \in 0..(MaxPayload + 1)
    BY <2>1, SizeAssumption DEF Units
  <2>6. rx' \in Receivers
    BY <1>1, <2>3, <2>5, ReceiverUpdate DEF RxStates
  <2>7. QED
    BY <1>1, <1>4, <2>1, <2>2, <2>3, <2>4, <2>6
       DEF ReceiveErase, Serving, TypeOK, ControlOK, Copying, Committing
<1>5. ASSUME NEW data \in {rx.image, Junk}, ReceivePayload(data) PROVE TypeInv'
  <2>1. rx.image \in Images /\ rx.at \in Units /\ rx.at \in 1..PayloadLen[rx.image]
        /\ data \in Contents
    BY <1>1, <1>5, SizeAssumption, ContentsType
       DEF ReceivePayload, ControlOK, Units, Receivers
  <2>2. slot' \in [Slots -> [Units -> Contents]]
    BY <1>1, <1>5, <2>1, WriteUnitType, ProgrammedType DEF ReceivePayload, TypeOK
  <2>3. CASE rx' = [rx EXCEPT !.state = "Failed"]
    <3>1. rx' \in Receivers /\ rx'.state = "Failed"
      BY <1>1, <2>3 DEF Receivers, RxStates
    <3>2. QED
      BY <1>1, <1>5, <2>2, <3>1
         DEF ReceivePayload, Serving, TypeOK, ControlOK, Copying, Committing
  <2>4. CASE rx' = [rx EXCEPT !.at = @ + 1, !.intact = IF data = rx.image THEN @ ELSE FALSE]
    <3>1. (IF data = rx.image THEN rx.intact ELSE FALSE) \in BOOLEAN
      BY <1>1 DEF Receivers
    <3>2. rx.at + 1 \in 0..(MaxPayload + 1) /\ rx.at + 1 \in 1..(PayloadLen[rx.image] + 1)
      BY <2>1, SizeAssumption DEF Units
    <3>3. rx' \in Receivers
      <4>1. rx' = [rx EXCEPT !.at = rx.at + 1,
                             !.intact = IF data = rx.image THEN rx.intact ELSE FALSE]
        BY <2>4
      <4>2. "Failed" \in RxStates
        BY DEF RxStates
      <4>3. QED
        BY <1>1, <3>1, <3>2, <4>1, <4>2, ReceiverUpdate, Zenon
    <3>4. rx'.image = rx.image /\ rx'.state = "Payload" /\ rx'.at = rx.at + 1
      BY <1>1, <1>5, <2>4 DEF Receivers, ReceivePayload
    <3>5. QED
      BY <1>1, <1>5, <2>1, <2>2, <3>2, <3>3, <3>4
         DEF ReceivePayload, Serving, TypeOK, ControlOK, Copying, Committing
  <2>5. QED
    BY <1>5, <2>3, <2>4 DEF ReceivePayload
<1>6. CASE ReceiveFinish
  BY <1>1, <1>6 DEF ReceiveFinish, Serving, TypeOK, ControlOK, Copying, Committing,
     PcValues, Receivers, RxStates, ManifestValid, Manifest
<1>7. CASE StageManifest
  <2>1. rx.image \in Images
    BY <1>7 DEF StageManifest, ControlOK
  <2>2. slot' \in [Slots -> [Units -> Contents]]
    BY <1>1, <1>7, <2>1, WriteUnitType, ProgrammedType, ContentsType
       DEF StageManifest, TypeOK
  <2>3. /\ rx' \in Receivers /\ rx'.image = rx.image /\ rx'.at = rx.at
        /\ rx'.state \in {rx.state, "Ready", "Failed"}
    <3>1. \/ rx' = [rx EXCEPT !.state = "Failed", !.committed = FALSE]
          \/ rx' = [rx EXCEPT !.state = "Failed", !.committed = TRUE]
          \/ rx' = [rx EXCEPT !.state = "Ready", !.committed = TRUE]
          \/ rx' = [rx EXCEPT !.committed = TRUE]
      BY <1>7, Zenon DEF StageManifest, ReceiveFails
    <3>2. QED
      BY <1>1, <3>1 DEF Receivers, RxStates
  <2>4. /\ xfer' = xfer
        /\ \/ pc' = "app" /\ commit' = commit
           \/ pc' = "journalErase"
              /\ commit' = [state |-> "Pending", image |-> rx.image, result |-> "None"]
    BY <1>7, Zenon DEF StageManifest, BeginCommit, ReceiveFails
  <2>5. \/ pc' = "app" /\ commit' = commit
        \/ pc' = "journalErase" /\ commit' \in Records
    BY <2>1, <2>4 DEF Records, States, Results
  <2>6. UNCHANGED <<journal, fence, running, trial, environment, history>>
        /\ pc = "stageManifest" /\ rx.state = "Payload"
    BY <1>7 DEF StageManifest, ControlOK
  <2>7. TypeOK'
    BY <2>2, <2>3, <2>4, <2>5, <2>6 DEF TypeOK, PcValues
  <2>8. running \in Images /\ NoImage \notin Images
    BY <2>6, ContentsType DEF ControlOK
  <2>9. ControlOK'
    BY <1>1, <2>1, <2>3, <2>5, <2>6, <2>8
       DEF ControlOK, Copying, Committing
  <2>10. QED
    BY <2>7, <2>9
<1>8. CASE ReceiveAbort
  BY <1>1, <1>8 DEF ReceiveAbort, Serving, TypeOK, ControlOK, Copying, Committing,
     ManifestValid, Manifest
<1>9. QED
  BY <1>2, <1>3, <1>4, <1>5, <1>6, <1>7, <1>8 DEF Receive

-----------------------------------------------------------------------------
(* The environment *)

\* The unit an interrupted operation leaves behind is well typed.
LEMMA TornType ==
    ASSUME TypeOK, NEW s \in Slots, NEW u \in Units, NEW outcomes \in SUBSET Contents,
           Torn(s, u, outcomes)
    PROVE  /\ slot' \in [Slots -> [Units -> Contents]]
           /\ UNCHANGED <<journal, accepted, tried>>
BY WriteUnitType DEF Torn, TypeOK

LEMMA PowerLossType ==
    ASSUME TypeInv, PowerLoss
    PROVE  TypeInv'
<1> USE DEF TypeInv
<1> DEFINE Goal == /\ slot' \in [Slots -> [Units -> Contents]]
                   /\ journal' \in [Sectors -> JournalRecord \cup {Unreadable}]
                   /\ accepted' \in Images /\ tried' \in BOOLEAN
<1>1. /\ "Staging" \in Slots /\ 0 \in Units /\ TornErase \in SUBSET Contents
      /\ \A i \in Images : TornProgram(i) \in SUBSET Contents
  BY ContentsType DEF Slots, TornErase, TornProgram
<1>2. Goal
  <2>1. CASE UNCHANGED <<slot, journal, history>>
    BY <2>1 DEF TypeOK
  <2>2. CASE pc = "copyErase" /\ Torn(xfer.to, xfer.at, TornErase)
    <3>1. xfer.to \in Slots /\ xfer.at \in Units
      BY <2>2 DEF ControlOK, Copying, Transfers
    <3>2. QED
      BY <1>1, <2>2, <3>1, TornType DEF TypeOK
  <2>3. CASE /\ pc \in {"copyProgram", "copyManifest"}
             /\ Torn(xfer.to, xfer.at, TornProgram(xfer.image))
    <3>1. xfer.to \in Slots /\ xfer.at \in Units /\ xfer.image \in Images
      BY <2>3 DEF ControlOK, Copying, Transfers
    <3>2. QED
      BY <1>1, <2>3, <3>1, TornType DEF TypeOK
  <2>4. CASE rx.state = "Erasing" /\ Torn("Staging", rx.at, TornErase)
    <3>1. rx.at \in Units
      BY <2>4, ContentsType, SizeAssumption DEF ControlOK, TypeOK, Receivers, Units
    <3>2. QED
      BY <1>1, <2>4, <3>1, TornType DEF TypeOK
  <2>5. CASE /\ rx.state = "Payload" /\ rx.at <= PayloadLen[rx.image]
             /\ Torn("Staging", rx.at, TornProgram(rx.image))
    <3>1. rx.at \in Units /\ rx.image \in Images
      BY <2>5, ContentsType, SizeAssumption DEF ControlOK, TypeOK, Receivers, Units
    <3>2. QED
      BY <1>1, <2>5, <3>1, TornType DEF TypeOK
  <2>6. CASE pc = "stageManifest" /\ Torn("Staging", 0, TornProgram(rx.image))
    <3>1. rx.image \in Images
      BY <2>6 DEF ControlOK
    <3>2. QED
      BY <1>1, <2>6, <3>1, TornType DEF TypeOK
  <2>7. CASE /\ pc = "journalErase"
             /\ journal' = [journal EXCEPT ![TargetSector] = Unreadable]
             /\ UNCHANGED <<slot, history>>
    BY <2>7 DEF TypeOK
  <2>8. CASE pc = "journalProgram" /\ ProgramRecord /\ UNCHANGED slot
    <3>1. commit \in Records /\ commit.image \in Images
      BY <2>8 DEF ControlOK, Committing, Records
    <3>2. TargetSector \in Sectors /\ NewRecord \in JournalRecord
      BY <3>1, NewRecordType DEF TypeOK
    <3>3. QED
      BY <2>8, <3>1, <3>2 DEF ProgramRecord, RecordCommit, TypeOK
  <2>9. QED
    BY <2>1, <2>2, <2>3, <2>4, <2>5, <2>6, <2>7, <2>8 DEF PowerLoss, PowerLossEffect
<1>3. RxInit \in Receivers /\ RxInit.state = "Idle"
  BY SizeAssumption DEF RxInit, Receivers, RxStates
<1>4. QED
  BY <1>2, <1>3 DEF PowerLoss, TypeOK, ControlOK, Copying, Committing, PcValues

LEMMA FaultyJournalWriteType ==
    ASSUME TypeOK, FaultyJournalWrite
    PROVE  journal' \in [Sectors -> JournalRecord \cup {Unreadable}]
<1>1. TargetSector \in Sectors
  BY DEF TargetSector, Sectors
<1>2. QED
  BY <1>1 DEF FaultyJournalWrite, TypeOK

LEMMA FlashFaultType ==
    ASSUME TypeInv, FlashFault
    PROVE  TypeInv'
<1> USE DEF TypeInv
<1>1. faults' \in 0..MaxFaults
  BY BudgetAssumption DEF FlashFault, TypeOK
<1>2. /\ "Staging" \in Slots /\ 0 \in Units /\ Junk \in Contents
      /\ rx \in Receivers
  BY ContentsType DEF Slots, TypeOK
<1>3. CASE LoaderFault
  <2>1. slot' \in [Slots -> [Units -> Contents]]
        /\ journal' \in [Sectors -> JournalRecord \cup {Unreadable}]
    <3>1. CASE /\ pc \in {"copyErase", "copyProgram", "copyManifest"}
               /\ \E c \in {slot[xfer.to][xfer.at], Junk} : WriteUnit(xfer.to, xfer.at, c)
               /\ UNCHANGED journal
      <4>1. xfer.to \in Slots /\ xfer.at \in Units
        BY <3>1 DEF ControlOK, Copying, Transfers
      <4>2. slot[xfer.to][xfer.at] \in Contents
        BY <4>1 DEF TypeOK
      <4>3. QED
        BY <1>2, <3>1, <4>1, <4>2, WriteUnitType DEF TypeOK
    <3>2. CASE FaultyJournalWrite /\ UNCHANGED slot
      BY <3>2, FaultyJournalWriteType DEF TypeOK
    <3>3. QED
      BY <1>3, <3>1, <3>2 DEF LoaderFault
  <2>2. QED
    BY <1>1, <1>3, <2>1
       DEF FlashFault, LoaderFault, EnterUsbRecovery, TypeOK, ControlOK, Copying,
           Committing, PcValues
<1>4. CASE JournalFault
  <2>1. journal' \in [Sectors -> JournalRecord \cup {Unreadable}]
    BY <1>4, FaultyJournalWriteType DEF JournalFault
  <2>2. running \in Images
    BY <1>4 DEF JournalFault, TypeOK
  <2>3. rx' \in Receivers /\ (rx'.state = "Failed" \/ rx' = rx)
    BY <1>2, <1>4 DEF JournalFault, Receivers, RxStates
  <2>4. QED
    BY <1>1, <1>4, <2>1, <2>2, <2>3
       DEF FlashFault, JournalFault, TypeOK, ControlOK, Copying, Committing, PcValues
<1>5. CASE ReceiverFault
  <2>1. /\ \E u \in Units : WriteUnit("Staging", u, Junk)
        /\ pc' = "app" /\ running \in Images
    BY <1>2, <1>5, ContentsType, SizeAssumption
       DEF ReceiverFault, Serving, ControlOK, Receivers, Units
  <2>2. slot' \in [Slots -> [Units -> Contents]]
    BY <1>2, <2>1, WriteUnitType DEF TypeOK
  <2>3. rx' \in Receivers /\ rx'.state = "Failed"
    BY <1>2, <1>5 DEF ReceiverFault, Receivers, RxStates
  <2>4. QED
    BY <1>1, <1>5, <2>1, <2>2, <2>3
       DEF FlashFault, ReceiverFault, TypeOK, ControlOK, Copying, Committing, PcValues
<1>6. QED
  BY <1>3, <1>4, <1>5 DEF FlashFault

LEMMA DamageType ==
    ASSUME TypeInv, Damage
    PROVE  TypeInv'
<1> USE DEF TypeInv
<1>1. damage' \in 0..MaxDamage
  BY BudgetAssumption DEF Damage, TypeOK
<1>2. slot' \in [Slots -> [Units -> Contents]]
  BY WriteUnitType, ContentsType DEF Damage, TypeOK
<1>3. journal' \in [Sectors -> JournalRecord \cup {Unreadable}]
  BY DEF Damage, TypeOK
<1>4. QED
  BY <1>1, <1>2, <1>3, ContentsType
     DEF Damage, TypeOK, ControlOK, Copying, Committing

LEMMA TypeStep ==
    ASSUME TypeInv, [Next]_vars
    PROVE  TypeInv'
<1>1. CASE UNCHANGED vars
  BY <1>1 DEF TypeInv, TypeOK, ControlOK, Copying, Committing, ManifestValid, Manifest
<1>2. CASE LoaderStep
  BY <1>2, BootType, InstallType, CopyType, JournalType, AppType DEF LoaderStep
<1>3. CASE JournalErase
  BY <1>3, JournalType
<1>4. CASE AppStep
  BY <1>4, JournalType, AppType, ReceiveType DEF AppStep
<1>5. CASE Environment
  BY <1>5, AppType, PowerLossType, FlashFaultType, DamageType DEF Environment
<1>6. QED
  BY <1>1, <1>2, <1>3, <1>4, <1>5 DEF Next

\* Every state the update machinery reaches is well typed, and at each control
\* point the transfer, the commit and the receiver are those it needs.
THEOREM TypeCorrect == Spec => [](TypeOK /\ ControlOK)
<1>1. Init => TypeInv
  BY TypeInit
<1>2. TypeInv /\ [Next]_vars => TypeInv'
  BY TypeStep
<1>3. QED
  BY <1>1, <1>2, PTL DEF Spec, TypeInv

-----------------------------------------------------------------------------
(* Whatever rots and whatever fails: WornInv is inductive *)

USE DEF TypeInv

-----------------------------------------------------------------------------
(* The journal and the slots, seen through one step *)

LEMMA JournalKept ==
    ASSUME journal' = journal
    PROVE  /\ JournalValid' <=> JournalValid
           /\ JournalOK' <=> JournalOK
           /\ Consecutive' <=> Consecutive
           /\ Current' = Current
           /\ \A s \in States : StateIs(s)' <=> StateIs(s)
BY DEF JournalValid, JournalOK, Consecutive, Current, CurrentSector, Readable, StateIs, States

LEMMA SlotKept ==
    ASSUME NEW s \in Slots, slot'[s] = slot[s], fence' = fence
    PROVE  /\ ImageValid(s)' <=> ImageValid(s)
           /\ Manifest(s)' = Manifest(s)
           /\ ManifestValid(s)' <=> ManifestValid(s)
           /\ Intact(s)' <=> Intact(s)
           /\ \A i \in Images : Holds(s, i)' <=> Holds(s, i)
BY DEF ImageValid, ValidUnits, PayloadMatches, PoolCompatible, Manifest, ManifestValid,
   Intact, Holds

\* With the slots and the fence left alone, what is held stays held.
LEMMA HoldsKept ==
    ASSUME UNCHANGED <<slot, fence>>
    PROVE  /\ \A s \in Slots, i \in Images : Holds(s, i)' <=> Holds(s, i)
           /\ \A s \in Slots : ImageValid(s)' <=> ImageValid(s)
           /\ \A s \in Slots : Manifest(s)' = Manifest(s)
           /\ \A s \in Slots : ManifestValid(s)' <=> ManifestValid(s)
           /\ \A s \in Slots : Intact(s)' <=> Intact(s)
           /\ \A i : PoolCompatible(i)' <=> PoolCompatible(i)
BY SlotKept DEF Slots, PoolCompatible

LEMMA SectorLost ==
    ASSUME TypeOK, Consecutive, NEW k \in Sectors, NEW r \in {journal[k], Unreadable},
           journal' = [journal EXCEPT ![k] = r]
    PROVE  Consecutive'
BY DEF TypeOK, Consecutive, Readable, Sectors

\* The next number is newer than its predecessor and not the reverse, also where
\* the number wraps.
LEMMA NextIsNewer ==
    ASSUME NEW s \in 0..(SeqMod - 1)
    PROVE  Newer(NextSeq(s), s) /\ ~Newer(s, NextSeq(s))
BY SeqAssumption DEF Newer, NextSeq

\* Programming the older sector makes the new record the one a reader selects.
LEMMA ProgramMakesCurrent ==
    ASSUME TypeOK, Consecutive, commit \in Records,
           journal' = [journal EXCEPT ![TargetSector] = NewRecord]
    PROVE  /\ JournalOK' /\ JournalValid' /\ Consecutive'
           /\ Current' = NewRecord
           /\ \A s \in States : StateIs(s)' <=> commit.state = s
<1>1. /\ journal \in [Sectors -> JournalRecord \cup {Unreadable}]
      /\ NewRecord \in JournalRecord /\ NewRecord # Unreadable
      /\ Unreadable \notin JournalRecord
  BY NewRecordType, ImagesAssumption DEF TypeOK
<1>2. /\ JournalValid => NewRecord.seq = NextSeq(Current.seq)
      /\ NewRecord.state = commit.state
  BY <1>1 DEF NewRecord
<1>3. CASE JournalValid /\ CurrentSector = "A"
  <2>1. /\ Readable("A") /\ TargetSector = "B" /\ Current = journal["A"]
        /\ journal' = [journal EXCEPT !["B"] = NewRecord]
    BY <1>1, <1>3 DEF JournalValid, CurrentSector, Readable, TargetSector, Current
  <2>2. journal'["A"] = journal["A"] /\ journal'["B"] = NewRecord
    BY <1>1, <2>1 DEF Sectors
  <2>3. journal["A"] \in JournalRecord
    BY <1>1, <2>1 DEF Readable, Sectors
  <2>4. ~Newer(journal'["A"].seq, journal'["B"].seq)
    BY <1>2, <1>3, <2>1, <2>2, <2>3, NextIsNewer DEF JournalRecord
  <2>5. Readable("A")' /\ Readable("B")' /\ CurrentSector' = "B"
    BY <1>1, <2>1, <2>2, <2>4 DEF Readable, CurrentSector
  <2>6. QED
    BY <1>2, <1>3, <2>1, <2>2, <2>5 DEF JournalOK, Consecutive, JournalValid, Current, StateIs
<1>4. CASE JournalValid /\ CurrentSector # "A"
  <2>1. /\ Readable("B") /\ TargetSector = "A" /\ Current = journal["B"]
        /\ CurrentSector = "B"
        /\ journal' = [journal EXCEPT !["A"] = NewRecord]
    BY <1>1, <1>4 DEF JournalValid, CurrentSector, Readable, TargetSector, Current
  <2>2. journal'["B"] = journal["B"] /\ journal'["A"] = NewRecord
    BY <1>1, <2>1 DEF Sectors
  <2>3. journal["B"] \in JournalRecord
    BY <1>1, <2>1 DEF Readable, Sectors
  <2>4. Newer(journal'["A"].seq, journal'["B"].seq)
    BY <1>2, <1>4, <2>1, <2>2, <2>3, NextIsNewer DEF JournalRecord
  <2>5. Readable("A")' /\ Readable("B")' /\ CurrentSector' = "A"
    BY <1>1, <2>1, <2>2, <2>4 DEF Readable, CurrentSector
  <2>6. QED
    BY <1>2, <1>4, <2>1, <2>2, <2>5 DEF JournalOK, Consecutive, JournalValid, Current, StateIs
<1>5. CASE ~JournalValid
  <2>1. /\ ~Readable("B") /\ TargetSector = "A"
        /\ journal'["B"] = journal["B"] /\ journal'["A"] = NewRecord
    BY <1>1, <1>5 DEF JournalValid, Readable, TargetSector, Sectors
  <2>2. Readable("A")' /\ ~Readable("B")' /\ CurrentSector' = "A"
    BY <1>1, <2>1 DEF Readable, CurrentSector
  <2>3. QED
    BY <1>2, <2>1, <2>2 DEF JournalOK, Consecutive, JournalValid, Current, StateIs
<1>6. QED
  BY <1>3, <1>4, <1>5

-----------------------------------------------------------------------------
(* What stays true as flash wears out: the boot decision *)

\* Where the loader decides, it is alone, and it decides from what it has seen.
LEMMA BootDecision ==
    ASSUME WornInv, Boot \/ Install
    PROVE  /\ running = NoImage
           /\ UNCHANGED <<slot, journal, fence, running, trial, rx, damage, faults, tried>>
           /\ \/ pc' = "start" /\ PoolCompatible(Manifest("Active"))
              \/ pc' = "usb" /\ (faults = 0 => ~ImageValid("Rollback"))
              \/ pc' = "install" /\ ImageValid("Staging")
              \/ /\ pc' = "journalErase" /\ PoolCompatible(Manifest("Active"))
                 /\ commit'.state = "Confirmed" /\ commit'.result = "Rejected"
              \/ /\ pc' = "copyErase" /\ xfer'.at = 0
                 /\ xfer'.from \in Slots /\ ImageValid(xfer'.from)
                 /\ xfer'.image = Manifest(xfer'.from)
                 /\ xfer'.to # xfer'.from /\ xfer'.to # "Staging"
                 /\ commit'.state = "BackupReady" => ImageValid("Staging")
                 /\ commit'.result # "Installed"
<1> DEFINE Goal ==
       \/ pc' = "start" /\ PoolCompatible(Manifest("Active"))
       \/ pc' = "usb" /\ (faults = 0 => ~ImageValid("Rollback"))
       \/ pc' = "install" /\ ImageValid("Staging")
       \/ /\ pc' = "journalErase" /\ PoolCompatible(Manifest("Active"))
          /\ commit'.state = "Confirmed" /\ commit'.result = "Rejected"
       \/ /\ pc' = "copyErase" /\ xfer'.at = 0
          /\ xfer'.from \in Slots /\ ImageValid(xfer'.from)
          /\ xfer'.image = Manifest(xfer'.from)
          /\ xfer'.to # xfer'.from /\ xfer'.to # "Staging"
          /\ commit'.state = "BackupReady" => ImageValid("Staging")
          /\ commit'.result # "Installed"
<1>1. /\ running = NoImage /\ pc \in {"boot", "install"}
      /\ UNCHANGED <<slot, journal, fence, running, trial, rx, damage, faults, tried>>
  BY DEF Boot, Install, WornInv, WornOK, StartedOK
<1>2. /\ "Active" \in Slots /\ "Rollback" \in Slots /\ "Staging" \in Slots
      /\ \A s \in Slots : ImageValid(s) => PoolCompatible(Manifest(s))
  BY DEF Slots, ImageValid, ValidUnits, Manifest
<1>3. ASSUME RestoreFrom("Rollback", "RolledBack"), ImageValid("Rollback")
      PROVE  Goal
  BY <1>2, <1>3 DEF RestoreFrom, BeginCopy
<1>4. ASSUME RestoreRollbackOrUsb
      PROVE  Goal
  BY <1>3, <1>4 DEF RestoreRollbackOrUsb, EnterUsbRecovery
<1>5. ASSUME RecoverWithoutUpdate
      PROVE  Goal
  BY <1>2, <1>5 DEF RecoverWithoutUpdate, StartDecided, RestoreFrom, BeginCopy, EnterUsbRecovery
<1>6. ASSUME Boot
      PROVE  Goal
  <2>1. CASE BootWithoutJournal \/ BootConfirmed
    BY <1>5, <2>1 DEF BootWithoutJournal, BootConfirmed
  <2>2. CASE BootConfirmedFast
    BY <2>2 DEF BootConfirmedFast, StartDecided
  <2>3. CASE BootTrial
    BY <1>4, <2>3 DEF BootTrial
  <2>4. CASE BootStaleCandidate
    BY <1>2, <1>4, <2>4 DEF BootStaleCandidate, BeginCommit
  <2>5. CASE BootPending
    BY <1>2, <1>5, <2>5 DEF BootPending, CandidateStaged, BeginCopy
  <2>6. CASE BootBackupReady
    BY <2>6 DEF BootBackupReady, CandidateStaged
  <2>7. QED
    BY <1>6, <2>1, <2>2, <2>3, <2>4, <2>5, <2>6 DEF Boot
<1>7. ASSUME Install
      PROVE  Goal
  <2>1. ImageValid("Staging")
    BY <1>7 DEF Install, WornInv, WornOK, LoaderOK
  <2>2. QED
    BY <1>2, <1>7, <2>1 DEF Install, BeginCopy, EnterUsbRecovery
<1>8. QED
  BY <1>1, <1>6, <1>7

LEMMA BootWorn ==
    ASSUME WornInv, Boot \/ Install
    PROVE  WornOK'
<1>1. /\ running = NoImage
      /\ UNCHANGED <<slot, journal, fence, running, trial, rx, damage, faults, tried>>
  BY BootDecision
<1>2. /\ \A s \in Slots : /\ Intact(s)' <=> Intact(s)
                          /\ ImageValid(s)' <=> ImageValid(s)
                          /\ Manifest(s)' = Manifest(s)
      /\ \A i : PoolCompatible(i)' <=> PoolCompatible(i)
      /\ "Active" \in Slots /\ "Staging" \in Slots /\ "Rollback" \in Slots
  BY <1>1, HoldsKept DEF Slots
<1>3. Consecutive' /\ \A s \in Slots : Intact(s)'
  BY <1>1, <1>2, JournalKept DEF WornInv, WornOK
<1>4. rx.state = "Idle" /\ ReceiverOK' /\ StartedOK'
  <2>1. rx.state = "Idle" /\ pc' # "stageManifest"
    BY <1>1, BootDecision DEF WornInv, WornOK, ReceiverOK
  <2>2. QED
    BY <1>1, <2>1 DEF ReceiverOK, StartedOK
<1>5. CASE pc' = "copyErase"
  <2>1. /\ xfer'.at = 0 /\ xfer'.from \in Slots /\ ImageValid(xfer'.from)
        /\ xfer'.image = Manifest(xfer'.from)
        /\ xfer'.to # xfer'.from /\ xfer'.to # "Staging"
        /\ commit'.state = "BackupReady" => ImageValid("Staging")
        /\ commit'.result # "Installed"
    BY <1>5, BootDecision
  <2>2. Holds(xfer.from, xfer.image)'
    BY <1>2, <2>1 DEF Holds
  <2>3. CopyHolds'
    BY <1>1, <1>2, <1>5, <2>1, <2>2 DEF CopyHolds, Copied
  <2>4. QED
    BY <1>3, <1>4, <1>5, <2>3
       DEF WornOK, LoaderOK, UsbMeansBackupLost, Committing
<1>6. CASE pc' # "copyErase"
  <2>1. CopyHolds'
    BY <1>6, BootDecision DEF CopyHolds, Copying
  <2>2. LoaderOK' /\ UsbMeansBackupLost'
    BY <1>1, <1>2, <1>6, BootDecision DEF LoaderOK, UsbMeansBackupLost, Committing
  <2>3. QED
    BY <1>3, <1>4, <2>1, <2>2 DEF WornOK
<1>7. QED
  BY <1>5, <1>6

-----------------------------------------------------------------------------
(* The copy *)

\* What a copy may rely on, however worn the flash is.
LEMMA WornCopyContext ==
    ASSUME WornInv, Copying
    PROVE  /\ running = NoImage /\ rx.state = "Idle"
           /\ xfer \in Transfers /\ commit \in Records
           /\ xfer.from \in Slots /\ xfer.to \in Slots /\ xfer.from # xfer.to
           /\ xfer.to # "Staging"
           /\ xfer.image \in Images /\ xfer.at \in Units
           /\ xfer.at <= PayloadLen[xfer.image]
           /\ PayloadLen[xfer.image] \in 1..MaxPayload
           /\ Holds(xfer.from, xfer.image)
           /\ commit.state = "BackupReady" => ImageValid("Staging")
           /\ commit.result # "Installed"
           /\ Copied
BY ContentsType DEF WornInv, WornOK, ControlOK, Copying, Transfers, CopyHolds, ReceiverOK

\* A copy that goes on, its manifest not yet in place.
LEMMA CopyGoesOn ==
    ASSUME WornInv, Copying, Copying', UNCHANGED <<journal, fence, app, environment, history>>,
           commit' = commit, NEW u \in Units, NEW c \in Contents, WriteUnit(xfer.to, u, c),
           xfer'.from = xfer.from, xfer'.to = xfer.to, xfer'.image = xfer.image,
           slot'[xfer.to][0] = Erased, Copied'
    PROVE  WornOK'
<1>1. /\ xfer.to \in Slots /\ xfer.from \in Slots /\ xfer.from # xfer.to
      /\ xfer.to # "Staging" /\ rx.state = "Idle" /\ running = NoImage
      /\ Holds(xfer.from, xfer.image) /\ xfer.image \in Images
  BY WornCopyContext
<1>2. \A s \in Slots : s # xfer.to => slot'[s] = slot[s]
  BY <1>1, WriteUnitType DEF WornInv, TypeOK
<1>3. \A s \in Slots : Intact(s)'
  <2>1. ASSUME NEW s \in Slots, s # xfer.to PROVE Intact(s)'
    BY <1>2, <2>1, SlotKept DEF WornInv, WornOK
  <2>2. Intact(xfer.to)'
    <3>1. PICK s \in Slots : s = xfer.to
      BY <1>1
    <3>2. ~ManifestValid(s)'
      BY <3>1, ContentsType DEF ManifestValid, Manifest
    <3>3. Intact(s)'
      BY <3>2 DEF Intact
    <3>4. QED
      BY <3>1, <3>3 DEF Intact, ManifestValid, Manifest
  <2>3. QED
    BY <2>1, <2>2 DEF Intact, ManifestValid, Manifest
<1>4. CopyHolds'
  <2>1. Holds(xfer.from, xfer.image)'
    <3>1. slot'[xfer.from] = slot[xfer.from]
      BY <1>1, <1>2
    <3>2. QED
      BY <1>1, <3>1
         DEF Holds, ImageValid, ValidUnits, PayloadMatches, PoolCompatible, Manifest
  <2>2. ImageValid("Staging")' <=> ImageValid("Staging")
    BY <1>1, <1>2, SlotKept DEF Slots
  <2>3. QED
    BY <1>1, <2>1, <2>2, WornCopyContext DEF CopyHolds
<1>5. ReceiverOK' /\ StartedOK' /\ LoaderOK' /\ UsbMeansBackupLost'
  BY <1>1 DEF ReceiverOK, StartedOK, LoaderOK, UsbMeansBackupLost, Copying, Committing
<1>6. Consecutive'
  BY JournalKept DEF WornInv, WornOK
<1>7. QED
  BY <1>3, <1>4, <1>5, <1>6 DEF WornOK

LEMMA CopyEraseWorn ==
    ASSUME WornInv, CopyErase
    PROVE  WornOK'
<1>1. /\ Copying /\ pc = "copyErase" /\ WriteUnit(xfer.to, xfer.at, Erased)
      /\ UNCHANGED <<journal, fence, commit, app, environment, history>>
      /\ Erased \in Contents /\ 0 \in Units
  BY ContentsType DEF CopyErase, Copying
<1>2. /\ xfer'.from = xfer.from /\ xfer'.to = xfer.to /\ xfer'.image = xfer.image
      /\ \/ xfer.at < PayloadLen[xfer.image] /\ pc' = "copyErase" /\ xfer'.at = xfer.at + 1
         \/ xfer.at = PayloadLen[xfer.image] /\ pc' = "copyProgram" /\ xfer'.at = 1
  BY <1>1, WornCopyContext DEF CopyErase, Transfers, Units
<1>3. \A u \in 0..xfer.at : slot'[xfer.to][u] = Erased
  <2>1. \A u \in 0..(xfer.at - 1) : slot[xfer.to][u] = Erased
    BY <1>1, WornCopyContext DEF Copied
  <2>2. \A u \in 0..xfer.at : u \in Units /\ (u = xfer.at \/ u \in 0..(xfer.at - 1))
    BY <1>1, WornCopyContext, SizeAssumption DEF Units
  <2>3. /\ slot'[xfer.to][xfer.at] = Erased
        /\ \A v \in Units : v # xfer.at => slot'[xfer.to][v] = slot[xfer.to][v]
    BY <1>1, WornCopyContext, WriteUnitType DEF WornInv, TypeOK
  <2>4. QED
    BY <2>1, <2>2, <2>3
<1>4. /\ slot'[xfer.to][0] = Erased /\ Copying'
      /\ xfer.at \in Units /\ PayloadLen[xfer.image] \in 1..MaxPayload
  BY <1>1, <1>2, <1>3, WornCopyContext DEF Copying, Units
<1>5. Copied'
  BY <1>2, <1>3, <1>4, SizeAssumption DEF Copied, Units
<1>6. QED
  BY <1>1, <1>2, <1>4, <1>5, CopyGoesOn

\* The source is whole and the unit erased, so what is read back is what was written.
LEMMA CopyProgramEffect ==
    ASSUME WornInv, CopyProgram
    PROVE  /\ WriteUnit(xfer.to, xfer.at, xfer.image)
           /\ commit' = commit
           /\ xfer'.from = xfer.from /\ xfer'.to = xfer.to /\ xfer'.image = xfer.image
           /\ slot'[xfer.to][0] = Erased
           /\ \A u \in 1..xfer.at : slot'[xfer.to][u] = xfer.image
           /\ \A u \in (xfer.at + 1)..PayloadLen[xfer.image] : slot'[xfer.to][u] = Erased
           /\ \/ xfer.at < PayloadLen[xfer.image] /\ pc' = "copyProgram" /\ xfer'.at = xfer.at + 1
              \/ xfer.at = PayloadLen[xfer.image] /\ pc' = "copyManifest"
<1>1. Copying /\ pc = "copyProgram" /\ UNCHANGED <<journal, fence>>
  BY DEF CopyProgram, Copying
<1>2. /\ xfer.at \in 1..PayloadLen[xfer.image]
      /\ PayloadLen[xfer.image] \in 1..MaxPayload
      /\ \A u \in 0..PayloadLen[xfer.image] : u \in Units
      /\ xfer.to \in Slots /\ xfer \in Transfers /\ xfer.image \in Contents
  BY <1>1, WornCopyContext, SizeAssumption, ContentsType DEF WornInv, ControlOK, Copying, Units
<1>3. /\ slot[xfer.to][xfer.at] = Erased
      /\ slot[xfer.from][xfer.at] = xfer.image
      /\ slot[xfer.to][0] = Erased
      /\ \A u \in 1..(xfer.at - 1) : slot[xfer.to][u] = xfer.image
      /\ \A u \in xfer.at..PayloadLen[xfer.image] : slot[xfer.to][u] = Erased
  BY <1>1, <1>2, WornCopyContext
     DEF Copied, Holds, ImageValid, ValidUnits, PayloadMatches, Manifest
<1>4. WriteUnit(xfer.to, xfer.at, xfer.image)
  BY <1>3 DEF CopyProgram, Programmed
<1>5. /\ slot'[xfer.to][xfer.at] = xfer.image
      /\ \A v \in Units : v # xfer.at => slot'[xfer.to][v] = slot[xfer.to][v]
  BY <1>2, <1>4, WriteUnitType DEF WornInv, TypeOK
<1>6. /\ slot'[xfer.to][0] = Erased
      /\ \A u \in 1..xfer.at : slot'[xfer.to][u] = xfer.image
      /\ \A u \in (xfer.at + 1)..PayloadLen[xfer.image] : slot'[xfer.to][u] = Erased
  <2>1. \A u \in 1..xfer.at : u \in Units /\ (u = xfer.at \/ u \in 1..(xfer.at - 1))
    BY <1>2, SizeAssumption DEF Units
  <2>2. \A u \in (xfer.at + 1)..PayloadLen[xfer.image] :
           u \in Units /\ u # xfer.at /\ u \in xfer.at..PayloadLen[xfer.image]
    BY <1>2, SizeAssumption DEF Units
  <2>3. 0 \in Units /\ 0 # xfer.at
    BY <1>2, ContentsType
  <2>4. QED
    BY <1>3, <1>5, <2>1, <2>2, <2>3
<1>7. slot'[xfer.to][xfer.at] = slot[xfer.from][xfer.at]
  BY <1>3, <1>5
<1>8. CASE xfer.at < PayloadLen[xfer.image]
  BY <1>2, <1>4, <1>6, <1>7, <1>8 DEF CopyProgram, Transfers
<1>9. CASE xfer.at = PayloadLen[xfer.image]
  <2>1. PayloadMatches(slot'[xfer.to], xfer.image)
    BY <1>6, <1>9 DEF PayloadMatches
  <2>2. QED
    BY <1>2, <1>4, <1>6, <1>7, <1>9, <2>1 DEF CopyProgram, Transfers
<1>10. QED
  BY <1>2, <1>8, <1>9

LEMMA CopyProgramWorn ==
    ASSUME WornInv, CopyProgram
    PROVE  WornOK'
<1>1. /\ Copying /\ UNCHANGED <<journal, fence, app, environment, history>>
  BY DEF CopyProgram, Copying
<1>2. /\ xfer.at \in Units /\ xfer.image \in Contents /\ xfer.at <= PayloadLen[xfer.image]
      /\ PayloadLen[xfer.image] \in 1..MaxPayload
  BY <1>1, WornCopyContext, ContentsType
<1>3. Copying' /\ Copied'
  BY <1>2, CopyProgramEffect, SizeAssumption DEF Copying, Copied, PayloadMatches, Units
<1>4. QED
  BY <1>1, <1>2, <1>3, CopyGoesOn, CopyProgramEffect

\* The manifest is programmed over the whole payload, and the loader sees it.
LEMMA CopyManifestWorn ==
    ASSUME WornInv, CopyManifest
    PROVE  WornOK'
<1>1. /\ Copying /\ pc = "copyManifest"
      /\ UNCHANGED <<journal, fence, app, environment, history>>
  BY DEF CopyManifest, Copying
<1>2. /\ 0 \in Units /\ xfer.image \in Contents /\ xfer.image \in Images
      /\ \A u \in 1..PayloadLen[xfer.image] : u \in Units /\ u # 0
      /\ xfer.to \in Slots /\ xfer.to # "Staging"
      /\ rx.state = "Idle" /\ running = NoImage
      /\ Holds(xfer.from, xfer.image)
      /\ slot[xfer.to][0] = Erased
      /\ PayloadMatches(slot[xfer.to], xfer.image)
  BY <1>1, WornCopyContext, ContentsType DEF Copied
<1>3. WriteUnit(xfer.to, 0, xfer.image)
  BY <1>2 DEF CopyManifest, Programmed, Holds
<1>4. /\ slot'[xfer.to][0] = xfer.image
      /\ \A v \in Units : v # 0 => slot'[xfer.to][v] = slot[xfer.to][v]
      /\ \A s \in Slots : s # xfer.to => slot'[s] = slot[s]
  BY <1>2, <1>3, WriteUnitType DEF WornInv, TypeOK
<1>5. PayloadMatches(slot'[xfer.to], xfer.image)
  BY <1>2, <1>4 DEF PayloadMatches
<1>6. PoolCompatible(xfer.image)
  BY <1>2 DEF Holds, ImageValid, ValidUnits, Manifest
<1>7. ValidUnits(slot'[xfer.to])
  BY <1>2, <1>4, <1>5, <1>6 DEF ValidUnits
<1>8. pc' = "journalErase" /\ commit' = commit
  BY <1>7 DEF CopyManifest
<1>9. \A s \in Slots : Intact(s)'
  <2>1. ASSUME NEW s \in Slots, s # xfer.to PROVE Intact(s)'
    BY <1>1, <1>4, <2>1, SlotKept DEF WornInv, WornOK
  <2>2. ASSUME NEW s \in Slots, s = xfer.to PROVE Intact(s)'
    BY <1>4, <1>5, <2>2 DEF Intact, PayloadMatches, Manifest
  <2>3. QED
    BY <2>1, <2>2
<1>10. LoaderOK'
  <2>1. ImageValid("Staging")' <=> ImageValid("Staging")
    BY <1>1, <1>2, <1>4, SlotKept DEF Slots
  <2>2. commit.state # "BackupReady" => xfer.to = "Active"
    BY <1>1 DEF WornInv, ControlOK
  <2>3. xfer.to = "Active" => PoolCompatible(Manifest("Active"))'
    BY <1>1, <1>4, <1>6 DEF PoolCompatible, Manifest
  <2>4. QED
    BY <1>1, <1>8, <2>1, <2>2, <2>3, WornCopyContext DEF LoaderOK
<1>11. Consecutive' /\ CopyHolds' /\ ReceiverOK' /\ StartedOK' /\ UsbMeansBackupLost'
  BY <1>1, <1>2, <1>8, JournalKept
     DEF WornInv, WornOK, CopyHolds, ReceiverOK, StartedOK, UsbMeansBackupLost, Copying
<1>12. QED
  BY <1>9, <1>10, <1>11 DEF WornOK

-----------------------------------------------------------------------------
(* The commit *)

\* A commit leaves the slots and who is running alone.
LEMMA CommitKeeps ==
    ASSUME WornInv, Committing, UNCHANGED <<slot, fence, running>>
    PROVE  /\ \A s \in Slots : Intact(s)'
           /\ ImageValid("Staging")' <=> ImageValid("Staging")
           /\ ImageValid("Active")' <=> ImageValid("Active")
           /\ ManifestValid("Staging")' <=> ManifestValid("Staging")
           /\ Manifest("Active")' = Manifest("Active")
           /\ \A i : PoolCompatible(i)' <=> PoolCompatible(i)
           /\ commit \in Records
           /\ running = NoImage => rx.state = "Idle"
           /\ LoaderOK /\ StartedOK /\ ReceiverOK
           /\ pc # "copyErase" /\ pc # "usb" /\ pc # "stageManifest"
BY HoldsKept DEF WornInv, WornOK, ControlOK, Committing, Slots, ReceiverOK

LEMMA JournalEraseWorn ==
    ASSUME WornInv, JournalErase
    PROVE  WornOK'
<1>1. /\ Committing /\ pc = "journalErase" /\ pc' = "journalProgram"
      /\ UNCHANGED <<slot, fence, commit, running, trial, rx, tried>>
      /\ journal' = [journal EXCEPT ![TargetSector] = Unreadable]
  BY DEF JournalErase, Committing
<1>2. Consecutive'
  BY <1>1, SectorLost DEF WornInv, WornOK, TargetSector, Sectors
<1>3. LoaderOK'
  BY <1>1, CommitKeeps DEF LoaderOK, Committing
<1>4. StartedOK'
  BY <1>1, CommitKeeps DEF StartedOK, Committing
<1>5. ReceiverOK'
  BY <1>1, CommitKeeps DEF ReceiverOK, Committing
<1>6. CopyHolds' /\ UsbMeansBackupLost'
  BY <1>1 DEF CopyHolds, Copying, UsbMeansBackupLost
<1>7. QED
  BY <1>1, <1>2, <1>3, <1>4, <1>5, <1>6, CommitKeeps DEF WornOK

LEMMA CommitWorn ==
    ASSUME WornInv, LoaderCommit \/ PendingCommit \/ ConfirmCommit
    PROVE  WornOK'
<1>1. /\ Committing /\ pc = "journalProgram" /\ ProgramRecord
      /\ UNCHANGED <<slot, fence, running>>
      /\ pc' \in {"install", "start", "app"}
  BY DEF LoaderCommit, PendingCommit, ConfirmCommit, Committing
<1>2. Consecutive' /\ tried' = (tried /\ commit.state # "Trial")
  BY <1>1, CommitKeeps, ProgramMakesCurrent
     DEF WornInv, WornOK, ProgramRecord, RecordCommit
<1>3. CopyHolds' /\ UsbMeansBackupLost' /\ ~Committing'
  BY <1>1 DEF CopyHolds, Copying, Committing, UsbMeansBackupLost
<1>4. CASE LoaderCommit
  <2>1. /\ running = NoImage /\ UNCHANGED rx
        /\ pc' = IF commit.state = "BackupReady" THEN "install" ELSE "start"
    BY <1>4 DEF LoaderCommit
  <2>2. LoaderOK'
    BY <1>1, <1>3, <2>1, CommitKeeps DEF LoaderOK
  <2>3. ReceiverOK' /\ StartedOK'
    BY <1>1, <1>3, <2>1, CommitKeeps DEF ReceiverOK, StartedOK
  <2>4. QED
    BY <1>1, <1>2, <1>3, <2>2, <2>3, CommitKeeps DEF WornOK
<1>5. CASE PendingCommit \/ ConfirmCommit
  <2>1. /\ running # NoImage /\ pc' = "app"
        /\ trial' = "yes" => trial = "yes"
        /\ commit.state # "Trial"
        /\ \/ rx' = [rx EXCEPT !.state = "Ready"]
           \/ rx' = rx /\ commit.state # "Pending"
    BY <1>5 DEF PendingCommit, ConfirmCommit
  <2>2. StartedOK'
    BY <1>1, <1>2, <1>3, <2>1, CommitKeeps DEF StartedOK
  <2>3. rx'.state = "Ready" \/ (rx' = rx /\ commit.state # "Pending")
    BY <2>1 DEF WornInv, TypeOK, Receivers
  <2>4. ReceiverOK'
    <3>1. CASE rx'.state = "Ready"
      BY <1>1, <2>1, <3>1 DEF ReceiverOK
    <3>2. CASE rx' = rx /\ commit.state # "Pending"
      BY <1>1, <2>1, <3>2, CommitKeeps DEF ReceiverOK
    <3>3. QED
      BY <2>3, <3>1, <3>2
  <2>5. LoaderOK'
    BY <1>1, <1>3, <2>1 DEF LoaderOK
  <2>6. QED
    BY <1>1, <1>2, <1>3, <2>2, <2>4, <2>5, CommitKeeps DEF WornOK
<1>6. QED
  BY <1>4, <1>5

-----------------------------------------------------------------------------
(* The application *)

\* The steps that leave the slots and the journal alone.
LEMMA AppWorn ==
    ASSUME WornInv,
           \/ PowerOn \/ StartActive \/ Confirm \/ Restart \/ WatchdogReset
           \/ MigrateRecord \/ MigrateRetry \/ MigrateGuard \/ PowerSettles
    PROVE  WornOK'
<1>1. UNCHANGED <<slot, journal>>
  BY DEF PowerOn, StartActive, Confirm, Restart, WatchdogReset, MigrateRecord,
     MigrateRetry, MigrateGuard, PowerSettles
<1>2. Consecutive' /\ \A s \in Slots : Intact(s)'
  BY <1>1, JournalKept DEF WornInv, WornOK, Intact, ManifestValid, Manifest
<1>3. /\ pc \in {"app", "stageManifest"} => running # NoImage
      /\ pc \in {"off", "boot", "start", "install", "usb"} => running = NoImage
  BY ContentsType DEF WornInv, ControlOK, WornOK, StartedOK
<1>4. CASE PowerOn
  <2>1. pc = "off" /\ pc' = "boot" /\ UNCHANGED <<fence, app, environment, history>>
    BY <1>4 DEF PowerOn
  <2>2. CopyHolds' /\ LoaderOK' /\ UsbMeansBackupLost'
    BY <2>1 DEF CopyHolds, LoaderOK, UsbMeansBackupLost, Copying, Committing
  <2>3. ReceiverOK' /\ StartedOK'
    BY <1>3, <2>1 DEF WornInv, WornOK, ReceiverOK, StartedOK
  <2>4. QED
    BY <1>2, <2>2, <2>3 DEF WornOK
<1>5. CASE StartActive
  <2>1. /\ pc = "start" /\ pc' = "app" /\ running' = Manifest("Active")
        /\ tried' = (tried \/ RunningIsTrial)
        /\ trial' = IF RunningIsTrial THEN "yes" ELSE "no"
        /\ UNCHANGED <<fence, rx>>
    BY <1>5 DEF StartActive
  <2>2. PoolCompatible(Manifest("Active")) /\ rx.state = "Idle"
    BY <1>3, <2>1 DEF WornInv, WornOK, LoaderOK, ReceiverOK
  <2>3. CopyHolds' /\ LoaderOK' /\ UsbMeansBackupLost' /\ ReceiverOK'
    BY <2>1, <2>2
       DEF CopyHolds, LoaderOK, UsbMeansBackupLost, Copying, Committing, ReceiverOK
  <2>4. StartedOK'
    BY <1>1, <2>1, <2>2 DEF StartedOK, Committing, PoolCompatible, Manifest
  <2>5. QED
    BY <1>2, <2>3, <2>4 DEF WornOK
<1>6. CASE Confirm
  <2>1. /\ pc = "app" /\ trial = "yes" /\ running # NoImage
        /\ UNCHANGED <<fence, running, rx, tried>>
    BY <1>3, <1>6 DEF Confirm
  <2>2. /\ tried /\ PoolCompatible(running) /\ Manifest("Active") \in {running, Rotten}
        /\ rx.state = "Payload" =>
             /\ ~ManifestValid("Staging")
             /\ rx.intact =>
                   \A u \in 1..(rx.at - 1) : slot["Staging"][u] \in {rx.image, Rotten}
    BY <2>1 DEF WornInv, WornOK, StartedOK, ReceiverOK, Committing
  <2>3. \/ /\ pc' = "journalErase" /\ RunningIsTrial /\ trial' = trial
           /\ commit' = [state |-> "Confirmed", image |-> Manifest("Active"),
                         result |-> "Installed"]
        \/ pc' = "app" /\ trial' # "yes" /\ commit' = commit
    BY <1>6 DEF Confirm, BeginCommit
  <2>4. CopyHolds' /\ LoaderOK' /\ UsbMeansBackupLost'
    BY <2>1, <2>3 DEF CopyHolds, LoaderOK, UsbMeansBackupLost, Copying, Committing
  <2>5. ReceiverOK'
    BY <1>1, <2>1, <2>2, <2>3 DEF WornInv, WornOK, ReceiverOK, ManifestValid, Manifest
  <2>6. StartedOK'
    <3>1. RunningIsTrial => ImageValid("Active") /\ Manifest("Active") = running
      BY <2>2, ContentsType DEF RunningIsTrial, ImageValid, ValidUnits, Manifest
    <3>2. ImageValid("Active")' <=> ImageValid("Active")
      BY <1>1, <2>1, HoldsKept DEF Slots
    <3>3. QED
      BY <1>1, <2>1, <2>2, <2>3, <3>1, <3>2 DEF StartedOK, Committing, PoolCompatible, Manifest
  <2>7. QED
    BY <1>2, <2>4, <2>5, <2>6 DEF WornOK
<1>7. CASE Restart \/ WatchdogReset
  <2>1. /\ pc' = "off" /\ running' = NoImage /\ rx' = RxInit
    BY <1>7 DEF Restart, WatchdogReset
  <2>2. CopyHolds' /\ LoaderOK' /\ UsbMeansBackupLost' /\ ReceiverOK' /\ StartedOK'
    BY <2>1 DEF CopyHolds, LoaderOK, UsbMeansBackupLost, ReceiverOK, StartedOK,
       Copying, Committing, RxInit
  <2>3. QED
    BY <1>2, <2>2 DEF WornOK
<1>8. CASE MigrateRecord \/ MigrateRetry \/ MigrateGuard
  <2>1. /\ pc = "app" /\ pc' = "app" /\ running \in PoolImages /\ running # NoImage
        /\ UNCHANGED <<running, trial, rx, tried, commit>>
    BY <1>3, <1>8 DEF MigrateRecord, MigrateRetry, MigrateGuard, Serving
  <2>2. CopyHolds' /\ LoaderOK' /\ UsbMeansBackupLost'
    BY <2>1 DEF CopyHolds, LoaderOK, UsbMeansBackupLost, Copying, Committing
  <2>3. ReceiverOK'
    BY <1>1, <2>1 DEF WornInv, WornOK, ReceiverOK, ManifestValid, Manifest, Committing
  <2>4. StartedOK'
    BY <1>1, <2>1 DEF WornInv, WornOK, StartedOK, Committing, PoolCompatible, Manifest
  <2>5. QED
    BY <1>2, <2>2, <2>3, <2>4 DEF WornOK
<1>9. CASE PowerSettles
  <2>1. UNCHANGED <<pc, fence, xfer, commit, running, trial, rx, faults, tried>>
    BY <1>9 DEF PowerSettles
  <2>2. /\ CopyHolds' /\ LoaderOK' /\ UsbMeansBackupLost'
    BY <1>1, <2>1, HoldsKept
       DEF WornInv, WornOK, CopyHolds, Copied, LoaderOK, UsbMeansBackupLost, Copying,
           Committing, Slots, Holds, ImageValid, ValidUnits, PoolCompatible, PayloadMatches,
           Manifest
  <2>3. ReceiverOK' /\ StartedOK'
    BY <1>1, <2>1
       DEF WornInv, WornOK, ReceiverOK, StartedOK, Committing, ManifestValid, ImageValid,
           ValidUnits, PoolCompatible, PayloadMatches, Manifest
  <2>4. QED
    BY <1>2, <2>2, <2>3 DEF WornOK
<1>10. QED
  BY <1>4, <1>5, <1>6, <1>7, <1>8, <1>9

-----------------------------------------------------------------------------
(* The receiver *)

\* One unit is written, and no manifest stands over a payload that is not its own.
LEMMA IntactWrite ==
    ASSUME TypeOK, NEW s \in Slots, NEW u \in Units, NEW c \in Contents, WriteUnit(s, u, c),
           \A t \in Slots : Intact(t),
           \/ u = 0 /\ c \notin Images
           \/ u = 0 /\ c \in Images /\ \A v \in 1..PayloadLen[c] : slot[s][v] \in {c, Rotten}
           \/ u # 0 /\ (c = Rotten \/ ~ManifestValid(s))
           \/ c = slot[s][u]
    PROVE  \A t \in Slots : Intact(t)'
<1> SUFFICES ASSUME NEW t \in Slots PROVE Intact(t)'
  OBVIOUS
<1>1. /\ slot'[s][u] = c
      /\ \A v \in Units : v # u => slot'[s][v] = slot[s][v]
      /\ t # s => slot'[t] = slot[t]
      /\ 0 \in Units
  BY WriteUnitType, ContentsType DEF TypeOK
<1>2. \A i \in Images : \A v \in 1..PayloadLen[i] : v \in Units /\ v # 0
  BY ContentsType
<1>3. CASE t # s
  BY <1>1, <1>3 DEF Intact, ManifestValid, Manifest
<1>4. CASE t = s /\ u = 0 /\ c # slot[s][u]
  BY <1>1, <1>2, <1>4 DEF Intact, ManifestValid, Manifest
<1>5. CASE t = s /\ u # 0 /\ c # slot[s][u]
  BY <1>1, <1>2, <1>5 DEF Intact, ManifestValid, Manifest
<1>6. CASE t = s /\ c = slot[s][u]
  <2>1. \A v \in Units : slot'[s][v] = slot[s][v]
    BY <1>1, <1>6
  <2>2. QED
    BY <1>1, <1>2, <1>6, <2>1 DEF Intact, ManifestValid, Manifest
<1>7. QED
  BY <1>3, <1>4, <1>5, <1>6

\* What a step of the receiver cannot disturb.
LEMMA ReceiveKeeps ==
    ASSUME WornInv, pc \in {"app", "stageManifest"},
           UNCHANGED <<journal, fence, running, trial, tried>>,
           slot'["Active"] = slot["Active"],
           pc' \in {"app", "stageManifest"} \/ (pc' = "journalErase" /\ commit'.state = "Pending")
    PROVE  Consecutive' /\ CopyHolds' /\ LoaderOK' /\ StartedOK' /\ UsbMeansBackupLost'
<1>1. running # NoImage
  BY ContentsType DEF WornInv, ControlOK
<1>2. Consecutive'
  BY JournalKept DEF WornInv, WornOK
<1>3. CopyHolds' /\ LoaderOK' /\ UsbMeansBackupLost'
  BY <1>1 DEF CopyHolds, LoaderOK, UsbMeansBackupLost, Copying, Committing
<1>4. StartedOK'
  BY <1>1 DEF WornInv, WornOK, StartedOK, Committing, PoolCompatible, Manifest
<1>5. QED
  BY <1>2, <1>3, <1>4

LEMMA ReceiveEraseWorn ==
    ASSUME WornInv, ReceiveErase
    PROVE  WornOK'
<1>1. /\ pc = "app" /\ pc' = "app" /\ rx.state = "Erasing"
      /\ UNCHANGED <<journal, fence, running, trial, tried>>
      /\ WriteUnit("Staging", rx.at, Erased)
  BY DEF ReceiveErase, Serving
<1>2. /\ rx.image \in Images /\ rx.at \in 0..PayloadLen[rx.image] /\ rx.at \in Units
      /\ PayloadLen[rx.image] \in 1..MaxPayload
      /\ Erased \in Contents /\ Erased \notin Images /\ "Staging" \in Slots /\ 0 \in Units
      /\ rx.at > 0 => ~ManifestValid("Staging")
  BY <1>1, ContentsType
     DEF WornInv, TypeOK, ControlOK, Receivers, Units, Slots, WornOK, ReceiverOK
<1>3. /\ slot'["Staging"][rx.at] = Erased
      /\ \A v \in Units : v # rx.at => slot'["Staging"][v] = slot["Staging"][v]
      /\ slot'["Active"] = slot["Active"]
  BY <1>1, <1>2, WriteUnitType DEF WornInv, TypeOK, Slots
<1>4. \A s \in Slots : Intact(s)'
  BY <1>1, <1>2, IntactWrite DEF WornInv, WornOK
<1>5. ~ManifestValid("Staging")'
  BY <1>2, <1>3 DEF ManifestValid, Manifest
<1>6. \/ rx'.state = "Erasing"
      \/ rx'.state = "Payload" /\ rx'.at = 1
  BY <1>1 DEF ReceiveErase, WornInv, TypeOK, Receivers
<1>7. ReceiverOK'
  BY <1>1, <1>2, <1>5, <1>6, ContentsType DEF ReceiverOK, WornInv, ControlOK
<1>8. QED
  BY <1>1, <1>3, <1>4, <1>7, ReceiveKeeps DEF WornOK

LEMMA ReceivePayloadWorn ==
    ASSUME WornInv, NEW data \in {rx.image, Junk}, ReceivePayload(data)
    PROVE  WornOK'
<1> DEFINE written == Programmed(slot["Staging"][rx.at], data)
<1>1. /\ pc = "app" /\ pc' = "app" /\ rx.state = "Payload" /\ rx.at <= PayloadLen[rx.image]
      /\ UNCHANGED <<journal, fence, running, trial, tried>>
      /\ WriteUnit("Staging", rx.at, written)
  BY DEF ReceivePayload, Serving
<1>2. /\ rx.image \in Images /\ rx.at \in 1..PayloadLen[rx.image] /\ rx.at \in Units
      /\ data \in Contents /\ "Staging" \in Slots /\ 0 \in Units
      /\ running # NoImage
  BY <1>1, ContentsType, SizeAssumption
     DEF WornInv, TypeOK, ControlOK, Receivers, Units, Slots
<1>3. /\ ~ManifestValid("Staging")
      /\ rx.intact => \A u \in 1..(rx.at - 1) : slot["Staging"][u] \in {rx.image, Rotten}
  BY <1>1 DEF WornInv, WornOK, ReceiverOK, Committing
<1>4. written \in Contents
  BY <1>2, ProgrammedType DEF WornInv, TypeOK
<1>5. /\ slot'["Staging"][rx.at] = written
      /\ \A v \in Units : v # rx.at => slot'["Staging"][v] = slot["Staging"][v]
      /\ slot'["Active"] = slot["Active"]
  BY <1>1, <1>2, <1>4, WriteUnitType DEF WornInv, TypeOK, Slots
<1>6. \A s \in Slots : Intact(s)'
  BY <1>1, <1>2, <1>3, <1>4, IntactWrite DEF WornInv, WornOK
<1>7. ~ManifestValid("Staging")'
  BY <1>2, <1>3, <1>5 DEF ManifestValid, Manifest
<1>8. ReceiverOK'
  <2>1. CASE rx' = [rx EXCEPT !.state = "Failed"]
    <3>1. rx'.state = "Failed"
      BY <2>1 DEF WornInv, TypeOK, Receivers
    <3>2. QED
      BY <1>1, <1>2, <3>1 DEF ReceiverOK
  <2>2. CASE /\ slot'["Staging"][rx.at] = data
             /\ rx' = [rx EXCEPT !.at = @ + 1, !.intact = IF data = rx.image THEN @ ELSE FALSE]
    <3>1. /\ rx'.image = rx.image /\ rx'.state = "Payload" /\ rx'.at = rx.at + 1
          /\ rx'.intact => rx.intact /\ data = rx.image
      BY <1>1, <2>2 DEF WornInv, TypeOK, Receivers
    <3>2. \A u \in 1..rx.at : u \in Units /\ (u = rx.at \/ u \in 1..(rx.at - 1))
      BY <1>2, SizeAssumption DEF Units
    <3>3. rx'.intact => \A u \in 1..rx.at : slot'["Staging"][u] \in {rx.image, Rotten}
      BY <1>3, <1>5, <2>2, <3>1, <3>2
    <3>4. rx'.at - 1 = rx.at
      BY <1>2, <3>1
    <3>5. QED
      BY <1>1, <1>2, <1>7, <3>1, <3>3, <3>4 DEF ReceiverOK
  <2>3. QED
    BY <2>1, <2>2 DEF ReceivePayload
<1>9. QED
  BY <1>1, <1>5, <1>6, <1>8, ReceiveKeeps DEF WornOK

\* The manifest of a candidate whose payload was seen whole.
LEMMA StageManifestWorn ==
    ASSUME WornInv, StageManifest
    PROVE  WornOK'
<1> DEFINE written == Programmed(slot["Staging"][0], rx.image)
<1>1. /\ pc = "stageManifest" /\ rx.state = "Payload"
      /\ UNCHANGED <<journal, fence, running, trial, tried>>
      /\ WriteUnit("Staging", 0, written)
  BY DEF StageManifest, WornInv, ControlOK
<1>2. /\ rx.image \in Images /\ "Staging" \in Slots /\ 0 \in Units /\ running # NoImage
      /\ rx.image \in Contents /\ PayloadLen[rx.image] \in 1..MaxPayload
  BY <1>1, ContentsType DEF WornInv, ControlOK, Slots
<1>3. \A u \in 1..PayloadLen[rx.image] : slot["Staging"][u] \in {rx.image, Rotten}
  <2>1. /\ rx.at = PayloadLen[rx.image] + 1
        /\ \A u \in 1..(rx.at - 1) : slot["Staging"][u] \in {rx.image, Rotten}
    BY <1>1 DEF WornInv, WornOK, ReceiverOK, Committing
  <2>2. rx.at - 1 = PayloadLen[rx.image]
    BY <1>2, <2>1
  <2>3. QED
    BY <2>1, <2>2
<1>4. written \in {rx.image, Junk} /\ written \in Contents /\ Junk \notin Images
  BY <1>2, ContentsType DEF Programmed
<1>5. \A s \in Slots : Intact(s)'
  BY <1>1, <1>2, <1>3, <1>4, IntactWrite DEF WornInv, WornOK
<1>6. slot'["Active"] = slot["Active"]
  BY <1>1, <1>2, <1>4, WriteUnitType DEF WornInv, TypeOK, Slots
<1>7. \/ pc' = "app" /\ \/ rx' = [rx EXCEPT !.state = "Failed", !.committed = FALSE]
                        \/ rx' = [rx EXCEPT !.state = "Failed", !.committed = TRUE]
                        \/ rx' = [rx EXCEPT !.state = "Ready", !.committed = TRUE]
      \/ /\ pc' = "journalErase"
         /\ commit' = [state |-> "Pending", image |-> rx.image, result |-> "None"]
  BY Zenon DEF StageManifest, ReceiveFails, BeginCommit
<1>8. \/ pc' = "app" /\ rx'.state \in {"Failed", "Ready"}
      \/ pc' = "journalErase" /\ commit'.state = "Pending" /\ rx'.state = "Payload"
  <2>1. CASE pc' = "app"
    BY <1>7, <2>1 DEF WornInv, TypeOK, Receivers
  <2>2. CASE pc' = "journalErase"
    <3>1. rx' = [rx EXCEPT !.committed = TRUE]
      BY <2>2, Zenon DEF StageManifest, ReceiveFails
    <3>2. QED
      BY <1>1, <1>7, <2>2, <3>1 DEF WornInv, TypeOK, Receivers
  <2>3. QED
    BY <1>7, <2>1, <2>2
<1>9. ReceiverOK'
  BY <1>1, <1>2, <1>8 DEF ReceiverOK, Committing
<1>10. QED
  BY <1>1, <1>5, <1>6, <1>8, <1>9, ReceiveKeeps DEF WornOK

LEMMA ReceiveWorn ==
    ASSUME WornInv, Receive
    PROVE  WornOK'
<1>1. rx \in Receivers /\ (pc = "app" => running # NoImage)
  BY ContentsType DEF WornInv, TypeOK, ControlOK
<1>2. ASSUME pc = "app", UNCHANGED <<slot, journal, fence, running, trial, tried>>,
             pc' \in {"app", "stageManifest"}, ReceiverOK'
      PROVE  WornOK'
  <2>1. \A s \in Slots : Intact(s)'
    BY <1>2, HoldsKept DEF WornInv, WornOK
  <2>2. QED
    BY <1>2, <2>1, ReceiveKeeps DEF WornOK
<1>3. CASE ReceiveBegin \/ ReceiveAbort
  <2>1. /\ pc = "app" /\ pc' = "app" /\ rx'.state \in {"Idle", "Manifest"}
        /\ UNCHANGED <<slot, journal, fence, running, trial, tried>>
    BY <1>3 DEF ReceiveBegin, ReceiveAbort, Serving, RxInit
  <2>2. QED
    BY <1>1, <1>2, <2>1 DEF ReceiverOK
<1>4. ASSUME NEW i \in Images, ReceiveManifest(i) PROVE WornOK'
  <2>1. /\ pc = "app" /\ pc' = "app" /\ rx.state = "Manifest"
        /\ UNCHANGED <<slot, journal, fence, running, trial, tried>>
        /\ \/ rx'.state = "Failed"
           \/ rx'.state = "Erasing" /\ rx'.at = rx.at
    BY <1>1, <1>4 DEF ReceiveManifest, Serving, Receivers
  <2>2. rx.at = 0
    BY <2>1 DEF WornInv, ControlOK
  <2>3. QED
    BY <1>1, <1>2, <2>1, <2>2 DEF ReceiverOK
<1>5. CASE ReceiveErase
  BY <1>5, ReceiveEraseWorn
<1>6. ASSUME NEW data \in {rx.image, Junk}, ReceivePayload(data) PROVE WornOK'
  BY <1>6, ReceivePayloadWorn
<1>7. CASE ReceiveFinish
  <2>1. /\ pc = "app" /\ rx.state = "Payload" /\ rx.at = PayloadLen[rx.image] + 1
        /\ UNCHANGED <<slot, journal, fence, running, trial, tried>>
        /\ \/ pc' = "stageManifest" /\ rx' = rx /\ rx.intact
           \/ pc' = "app" /\ rx'.state = "Failed"
    BY <1>1, <1>7 DEF ReceiveFinish, Serving, Receivers
  <2>2. /\ ~ManifestValid("Staging")
        /\ rx.intact => \A u \in 1..(rx.at - 1) : slot["Staging"][u] \in {rx.image, Rotten}
    BY <2>1 DEF WornInv, WornOK, ReceiverOK, Committing
  <2>3. ReceiverOK'
    BY <1>1, <2>1, <2>2 DEF ReceiverOK, ManifestValid, Manifest
  <2>4. QED
    BY <1>2, <2>1, <2>3
<1>8. CASE StageManifest
  BY <1>8, StageManifestWorn
<1>9. QED
  BY <1>3, <1>4, <1>5, <1>6, <1>7, <1>8 DEF Receive

-----------------------------------------------------------------------------
(* The environment *)

\* Whatever a copy leaves in the unit it works on, no manifest stands over a
\* payload that is not its own.
LEMMA CopyCutShort ==
    ASSUME WornInv, Copying, NEW c \in Contents, WriteUnit(xfer.to, xfer.at, c),
           c \in Images => pc # "copyErase" /\ c = xfer.image
    PROVE  \A s \in Slots : Intact(s)'
<1>1. /\ xfer.to \in Slots /\ xfer.at \in Units /\ 0 \in Units /\ TypeOK
      /\ \A s \in Slots : Intact(s)
  BY WornCopyContext, ContentsType DEF WornInv, WornOK
<1>2. CASE xfer.at = 0
  <2>1. c \in Images => \A v \in 1..PayloadLen[c] : slot[xfer.to][v] \in {c, Rotten}
    BY <1>2, WornCopyContext DEF Copied, PayloadMatches, WornInv, ControlOK, Copying
  <2>2. QED
    BY <1>1, <1>2, <2>1, IntactWrite
<1>3. CASE xfer.at # 0
  <2>1. slot[xfer.to][0] = Erased
    BY <1>3, WornCopyContext DEF Copied, WornInv, ControlOK, Copying, Units
  <2>2. ~ManifestValid(xfer.to)
    BY <2>1, ContentsType DEF ManifestValid, Manifest
  <2>3. QED
    BY <1>1, <1>3, <2>2, IntactWrite
<1>4. QED
  BY <1>2, <1>3

\* The same for the unit the receiver works on.
LEMMA ReceiveCutShort ==
    ASSUME WornInv, NEW u \in Units, NEW c \in Contents, WriteUnit("Staging", u, c),
           \/ pc = "app" /\ rx.state \in {"Erasing", "Payload"} /\ u = rx.at
           \/ pc = "stageManifest" /\ u = 0,
           c \in Images => rx.state = "Payload" /\ c = rx.image
    PROVE  \A s \in Slots : Intact(s)'
<1>1. /\ "Staging" \in Slots /\ 0 \in Units /\ TypeOK /\ \A s \in Slots : Intact(s)
  BY ContentsType DEF WornInv, WornOK, Slots
<1>2. CASE pc = "stageManifest"
  <2>1. /\ rx.image \in Images /\ rx.at = PayloadLen[rx.image] + 1 /\ rx.intact
        /\ rx.state = "Payload" /\ PayloadLen[rx.image] \in 1..MaxPayload
    BY <1>2, ContentsType DEF WornInv, ControlOK, WornOK, ReceiverOK
  <2>2. \A v \in 1..(rx.at - 1) : slot["Staging"][v] \in {rx.image, Rotten}
    BY <1>2, <2>1 DEF WornInv, WornOK, ReceiverOK, Committing
  <2>3. rx.at - 1 = PayloadLen[rx.image]
    BY <2>1
  <2>4. QED
    BY <1>1, <1>2, <2>2, <2>3, IntactWrite
<1>3. CASE pc = "app"
  <2>1. /\ u = rx.at
        /\ u # 0 => ~ManifestValid("Staging")
        /\ u = 0 => c \notin Images
    BY <1>3, SizeAssumption DEF WornInv, ControlOK, WornOK, ReceiverOK, Committing, Units
  <2>2. QED
    BY <1>1, <2>1, IntactWrite
<1>4. QED
  BY <1>2, <1>3

LEMMA PowerLossWorn ==
    ASSUME WornInv, PowerLoss
    PROVE  WornOK'
<1>1. CopyHolds' /\ LoaderOK' /\ ReceiverOK' /\ StartedOK' /\ UsbMeansBackupLost'
  BY DEF PowerLoss, RxInit, CopyHolds, LoaderOK, ReceiverOK, StartedOK, UsbMeansBackupLost,
     Copying, Committing
<1>2. Consecutive'
  <2>1. \/ journal' = journal
        \/ journal' = [journal EXCEPT ![TargetSector] = Unreadable]
        \/ Committing /\ journal' = [journal EXCEPT ![TargetSector] = NewRecord]
    BY DEF PowerLoss, PowerLossEffect, Torn, ProgramRecord, Committing
  <2>2. QED
    BY <2>1, JournalKept, SectorLost, ProgramMakesCurrent
       DEF WornInv, WornOK, ControlOK, TargetSector, Sectors
<1>3. \A s \in Slots : Intact(s)'
  <2>1. fence' = fence
    BY DEF PowerLoss
  <2>2. /\ {Junk, Erased} \subseteq Contents /\ Images \subseteq Contents
        /\ Junk \notin Images /\ Erased \notin Images
        /\ 0 \in Units
    BY ContentsType
  <2>3. CASE UNCHANGED slot
    BY <2>1, <2>3, HoldsKept DEF WornInv, WornOK
  <2>4. CASE pc = "copyErase" /\ Torn(xfer.to, xfer.at, TornErase)
    <3>1. PICK c \in {Junk, Erased} : WriteUnit(xfer.to, xfer.at, c)
      BY <2>4 DEF Torn, TornErase
    <3>2. QED
      BY <2>2, <2>4, <3>1, CopyCutShort DEF Copying
  <2>5. CASE /\ pc \in {"copyProgram", "copyManifest"}
             /\ Torn(xfer.to, xfer.at, TornProgram(xfer.image))
    <3>1. PICK c \in {Junk, xfer.image} : WriteUnit(xfer.to, xfer.at, c)
      BY <2>5 DEF Torn, TornProgram
    <3>2. Copying /\ xfer.image \in Images
      BY <2>5, WornCopyContext DEF Copying
    <3>3. QED
      BY <2>2, <2>5, <3>1, <3>2, CopyCutShort
  <2>6. CASE Serving /\ rx.state = "Erasing" /\ Torn("Staging", rx.at, TornErase)
    <3>1. PICK c \in {Junk, Erased} : WriteUnit("Staging", rx.at, c)
      BY <2>6 DEF Torn, TornErase
    <3>2. pc = "app" /\ rx.at \in Units
      BY <2>6, ContentsType, SizeAssumption
         DEF Serving, WornInv, TypeOK, Receivers, ControlOK, Units
    <3>3. QED
      BY <2>2, <2>6, <3>1, <3>2, ReceiveCutShort
  <2>7. CASE /\ Serving /\ rx.state = "Payload" /\ rx.at <= PayloadLen[rx.image]
             /\ Torn("Staging", rx.at, TornProgram(rx.image))
    <3>1. PICK c \in {Junk, rx.image} : WriteUnit("Staging", rx.at, c)
      BY <2>7 DEF Torn, TornProgram
    <3>2. pc = "app" /\ rx.image \in Images
      BY <2>7 DEF Serving, WornInv, ControlOK
    <3>3. rx.at \in Units
      BY <2>7, <3>2, ContentsType, SizeAssumption
         DEF WornInv, TypeOK, Receivers, Units
    <3>4. QED
      BY <2>2, <2>7, <3>1, <3>2, <3>3, ReceiveCutShort
  <2>8. CASE pc = "stageManifest" /\ Torn("Staging", 0, TornProgram(rx.image))
    <3>1. PICK c \in {Junk, rx.image} : WriteUnit("Staging", 0, c)
      BY <2>8 DEF Torn, TornProgram
    <3>2. rx.image \in Images /\ rx.state = "Payload"
      BY <2>8 DEF WornInv, ControlOK
    <3>3. QED
      BY <2>2, <2>8, <3>1, <3>2, ReceiveCutShort
  <2>9. QED
    BY <2>3, <2>4, <2>5, <2>6, <2>7, <2>8 DEF PowerLoss, PowerLossEffect
<1>4. QED
  BY <1>1, <1>2, <1>3 DEF WornOK

\* A failing operation is answered with USB recovery in the loader, and with an
\* error in the application.
LEMMA FlashFaultWorn ==
    ASSUME WornInv, FlashFault
    PROVE  WornOK'
<1>1. /\ faults' # 0 /\ UNCHANGED <<fence, tried>>
      /\ Junk \in Contents /\ Junk \notin Images
      /\ "Staging" \in Slots /\ "Active" \in Slots /\ 0 \in Units
  BY ContentsType DEF FlashFault, WornInv, TypeOK, Slots
<1>2. UsbMeansBackupLost'
  BY <1>1 DEF UsbMeansBackupLost
<1>3. (journal' = journal \/ FaultyJournalWrite) => Consecutive'
  BY JournalKept, SectorLost
     DEF FaultyJournalWrite, WornInv, WornOK, TargetSector, Sectors
<1>4. (slot' = slot) => \A s \in Slots : Intact(s)'
  BY <1>1, HoldsKept DEF WornInv, WornOK
<1>5. CASE LoaderFault
  <2>1. running = NoImage /\ pc' = "usb" /\ UNCHANGED <<running, rx>>
    BY <1>5 DEF LoaderFault, EnterUsbRecovery
  <2>2. CopyHolds' /\ LoaderOK' /\ ReceiverOK' /\ StartedOK'
    BY <2>1 DEF WornInv, WornOK, CopyHolds, LoaderOK, ReceiverOK, StartedOK, Copying, Committing
  <2>3. Consecutive'
    BY <1>3, <1>5 DEF LoaderFault
  <2>4. \A s \in Slots : Intact(s)'
    <3>1. ASSUME Copying, NEW c \in {slot[xfer.to][xfer.at], Junk},
                 WriteUnit(xfer.to, xfer.at, c)
          PROVE  \A s \in Slots : Intact(s)'
      <4>1. CASE c = Junk
        BY <1>1, <3>1, <4>1, CopyCutShort
      <4>2. CASE c = slot[xfer.to][xfer.at]
        <5>1. xfer.to \in Slots /\ xfer.at \in Units /\ c \in Contents
          BY <3>1, <4>2, WornCopyContext DEF WornInv, TypeOK
        <5>2. QED
          BY <3>1, <4>2, <5>1, IntactWrite DEF WornInv, WornOK
      <4>3. QED
        BY <3>1, <4>1, <4>2
    <3>2. QED
      BY <1>4, <1>5, <3>1 DEF LoaderFault, Copying
  <2>5. QED
    BY <1>2, <2>2, <2>3, <2>4 DEF WornOK
<1>6. CASE JournalFault
  <2>1. /\ running # NoImage /\ pc' = "app" /\ Committing
        /\ UNCHANGED <<slot, running>>
        /\ trial' = "yes" => trial = "yes"
    BY <1>6 DEF JournalFault, FaultyJournalWrite, Committing
  <2>2. \/ rx' = rx /\ commit.state # "Pending"
        \/ rx'.state = "Failed"
    BY <1>6 DEF JournalFault, WornInv, TypeOK, Receivers
  <2>3. CopyHolds' /\ LoaderOK'
    BY <2>1 DEF CopyHolds, LoaderOK, Copying, Committing
  <2>4. ReceiverOK'
    BY <1>1, <2>1, <2>2, CommitKeeps DEF ReceiverOK
  <2>5. StartedOK'
    BY <1>1, <2>1, CommitKeeps DEF StartedOK, Committing
  <2>6. Consecutive' /\ \A s \in Slots : Intact(s)'
    BY <1>3, <1>4, <1>6, <2>1 DEF JournalFault
  <2>7. QED
    BY <1>2, <2>3, <2>4, <2>5, <2>6 DEF WornOK
<1>7. CASE ReceiverFault
  <2>1. /\ pc \in {"app", "stageManifest"} /\ pc' = "app"
        /\ UNCHANGED <<journal, running, trial>>
        /\ rx' = [rx EXCEPT !.state = "Failed"]
    BY <1>7 DEF ReceiverFault, Serving
  <2>2. PICK u \in Units :
           /\ WriteUnit("Staging", u, Junk)
           /\ \/ pc = "app" /\ rx.state \in {"Erasing", "Payload"} /\ u = rx.at
              \/ pc = "stageManifest" /\ u = 0
    <3>1. CASE pc = "stageManifest"
      BY <1>1, <1>7, <3>1 DEF ReceiverFault, Serving
    <3>2. CASE pc # "stageManifest"
      <4>1. /\ rx.state = "Erasing" \/ (rx.state = "Payload" /\ rx.at <= PayloadLen[rx.image])
            /\ WriteUnit("Staging", rx.at, Junk) /\ pc = "app"
        BY <1>7, <3>2 DEF ReceiverFault, Serving
      <4>2. rx.image \in Images /\ rx.at \in 0..PayloadLen[rx.image]
        BY <4>1, ContentsType, SizeAssumption DEF WornInv, TypeOK, Receivers, ControlOK
      <4>3. rx.at \in Units
        BY <4>2, ContentsType
      <4>4. QED
        BY <4>1, <4>3
    <3>3. QED
      BY <3>1, <3>2
  <2>3. \A s \in Slots : Intact(s)'
    BY <1>1, <2>2, ReceiveCutShort
  <2>4. rx'.state = "Failed"
    BY <2>1 DEF WornInv, TypeOK, Receivers
  <2>5. slot'["Active"] = slot["Active"]
    BY <1>1, <2>2, WriteUnitType DEF WornInv, TypeOK, Slots
  <2>6. running # NoImage
    BY <2>1, ContentsType DEF WornInv, ControlOK
  <2>7. ReceiverOK'
    BY <2>1, <2>4, <2>6 DEF ReceiverOK
  <2>8. CopyHolds' /\ LoaderOK' /\ StartedOK'
    BY <1>1, <2>1, <2>5, <2>6
       DEF CopyHolds, LoaderOK, StartedOK, WornInv, WornOK, Copying, Committing,
           PoolCompatible, Manifest
  <2>9. QED
    BY <1>2, <1>3, <2>1, <2>3, <2>7, <2>8 DEF WornOK
<1>8. QED
  BY <1>5, <1>6, <1>7 DEF FlashFault

LEMMA DamageWorn ==
    ASSUME WornInv, Damage
    PROVE  WornOK'
<1>1. /\ pc \in {"off", "app"}
      /\ UNCHANGED <<fence, pc, commit, xfer, running, trial, rx, tried, faults>>
      /\ Rotten \in Contents /\ Rotten \notin Images /\ 0 \in Units
      /\ "Active" \in Slots /\ "Staging" \in Slots
  BY ContentsType DEF Damage, Slots
<1>2. CopyHolds' /\ LoaderOK' /\ UsbMeansBackupLost'
  BY <1>1 DEF CopyHolds, LoaderOK, UsbMeansBackupLost, Copying, Committing
<1>3. CASE slot' = slot
  <2>1. Consecutive'
    BY <1>3, SectorLost, JournalKept, <1>1 DEF Damage, WriteUnit, WornInv, WornOK
  <2>2. \A s \in Slots : Intact(s)'
    BY <1>1, <1>3, HoldsKept DEF WornInv, WornOK
  <2>3. ReceiverOK' /\ StartedOK'
    BY <1>1, <1>3 DEF WornInv, WornOK, ReceiverOK, StartedOK, Committing, ManifestValid,
       Manifest, PoolCompatible
  <2>4. QED
    BY <1>2, <2>1, <2>2, <2>3 DEF WornOK
<1>4. ASSUME NEW s \in Slots, NEW u \in Units, WriteUnit(s, u, Rotten), journal' = journal
      PROVE  WornOK'
  <2>1. Consecutive'
    BY <1>4, JournalKept DEF WornInv, WornOK
  <2>2. \A t \in Slots : Intact(t)'
    BY <1>1, <1>4, IntactWrite DEF WornInv, WornOK
  <2>3. \A t \in Slots, v \in Units : slot'[t][v] \in {slot[t][v], Rotten}
    BY <1>1, <1>4, WriteUnitType DEF WornInv, TypeOK
  <2>4. ReceiverOK'
    <3>1. ManifestValid("Staging")' => ManifestValid("Staging")
      BY <1>1, <2>3 DEF ManifestValid, Manifest
    <3>2. rx.state = "Payload" => \A v \in 1..(rx.at - 1) : v \in Units
      BY SizeAssumption, ContentsType DEF WornInv, TypeOK, ControlOK, Receivers, Units
    <3>3. QED
      BY <1>1, <2>3, <3>1, <3>2 DEF WornInv, WornOK, ReceiverOK, Committing
  <2>5. StartedOK'
    BY <1>1, <2>3 DEF WornInv, WornOK, StartedOK, Committing, Manifest, PoolCompatible
  <2>6. QED
    BY <1>2, <2>1, <2>2, <2>4, <2>5 DEF WornOK
<1>5. QED
  BY <1>3, <1>4 DEF Damage

-----------------------------------------------------------------------------
(* The theorems *)

LEMMA WornInit == Init => WornInv
<1> SUFFICES ASSUME Init PROVE WornInv
  OBVIOUS
<1>1. TypeOK /\ ControlOK
  BY TypeInit
<1>2. PICK i \in Images, r \in OtherSlots, s \in OtherSlots :
          /\ slot = [x \in Slots |-> CASE x = "Active" -> Holding(i)
                                       [] x = "Rollback" -> r
                                       [] x = "Staging" -> s]
          /\ journal = [k \in Sectors |-> IF k = "A" THEN FactoryRecord(i) ELSE Unreadable]
  BY DEF Init
<1>3. Consecutive
  BY <1>2 DEF Consecutive, Readable, Sectors
<1>4. \A t \in Slots : Intact(t)
  <2>1. ASSUME NEW b \in OtherSlots, b[0] \in Images
        PROVE  \A u \in 1..PayloadLen[b[0]] : b[u] = b[0]
    <3>1. 0 \in Units /\ Erased \notin Images
          /\ \A j \in Images : \A u \in 0..PayloadLen[j] : u \in Units
      BY ContentsType
    <3>2. PICK j \in Images : b = Holding(j)
      BY <2>1, <3>1 DEF OtherSlots, BlankSlot
    <3>3. \A u \in 0..PayloadLen[j] : b[u] = j
      BY <3>1, <3>2, ContentsType DEF Holding
    <3>4. QED
      BY <3>3, ContentsType
  <2>2. Holding(i) \in OtherSlots
    BY DEF OtherSlots
  <2>3. \A t \in Slots : slot[t] \in OtherSlots
    BY <1>2, <2>2 DEF Slots
  <2>4. QED
    BY <2>1, <2>3 DEF Intact, ManifestValid, Manifest
<1>5. pc = "off" /\ running = NoImage /\ rx.state = "Idle"
  BY DEF Init, RxInit
<1>6. CopyHolds /\ LoaderOK /\ ReceiverOK /\ StartedOK /\ UsbMeansBackupLost
  BY <1>5 DEF CopyHolds, LoaderOK, ReceiverOK, StartedOK, UsbMeansBackupLost, Copying, Committing
<1>7. QED
  BY <1>1, <1>3, <1>4, <1>6 DEF WornInv, WornOK

LEMMA WornStutters ==
    ASSUME WornInv, UNCHANGED vars
    PROVE  WornOK'
<1>1. /\ Consecutive' /\ \A s \in Slots : Intact(s)'
  BY JournalKept, HoldsKept DEF WornInv, WornOK
<1>2. CopyHolds'
  BY DEF WornInv, WornOK, CopyHolds, Copying, Copied, Holds, ImageValid, ValidUnits,
     PayloadMatches, PoolCompatible, Manifest
<1>3. LoaderOK' /\ UsbMeansBackupLost'
  BY DEF WornInv, WornOK, LoaderOK, UsbMeansBackupLost, Committing, ImageValid, ValidUnits,
     PayloadMatches, PoolCompatible, Manifest
<1>4. ReceiverOK'
  BY DEF WornInv, WornOK, ReceiverOK, Committing, ManifestValid, Manifest
<1>5. StartedOK'
  BY DEF WornInv, WornOK, StartedOK, Committing, ImageValid, ValidUnits, PayloadMatches,
     PoolCompatible, Manifest
<1>6. QED
  BY <1>1, <1>2, <1>3, <1>4, <1>5 DEF WornOK

LEMMA WornStep ==
    ASSUME WornInv, [Next]_vars
    PROVE  WornInv'
<1>1. TypeInv'
  BY TypeStep DEF WornInv
<1>2. CASE UNCHANGED vars
  BY <1>1, <1>2, WornStutters DEF WornInv
<1>3. CASE LoaderStep \/ JournalErase
  BY <1>1, <1>3, AppWorn, BootWorn, CopyEraseWorn, CopyProgramWorn, CopyManifestWorn,
     JournalEraseWorn, CommitWorn DEF LoaderStep, WornInv
<1>4. CASE AppStep
  BY <1>1, <1>4, AppWorn, CommitWorn, ReceiveWorn DEF AppStep, WornInv
<1>5. CASE Environment
  BY <1>1, <1>5, AppWorn, PowerLossWorn, FlashFaultWorn, DamageWorn DEF Environment, WornInv
<1>6. QED
  BY <1>2, <1>3, <1>4, <1>5 DEF Next

\* However many cells rot and operations fail, and wherever the power is lost.
THEOREM WornInvariant == Spec => []WornInv
<1>1. Init => WornInv
  BY WornInit
<1>2. WornInv /\ [Next]_vars => WornInv'
  BY WornStep
<1>3. QED
  BY <1>1, <1>2, PTL DEF Spec

\* No image that was partly written, or that the pool fence bars, is ever in control.
THEOREM OnlyCompleteStarts == Spec => []StartsOnlyComplete
<1>1. ASSUME WornInv PROVE StartsOnlyComplete
  <2>1. pc = "start" => ManifestValid("Active")
    BY <1>1 DEF WornInv, ControlOK
  <2>2. Intact("Active")
    BY <1>1 DEF WornInv, WornOK, Slots
  <2>3. running # NoImage => PoolCompatible(running)
    BY <1>1 DEF WornInv, WornOK, StartedOK
  <2>4. QED
    BY <2>1, <2>2, <2>3 DEF StartsOnlyComplete, Intact
<1>2. QED
  BY <1>1, WornInvariant, PTL

\* Without a failed operation, USB recovery means that the rollback image is lost.
THEOREM UsbOnlyWithoutBackup == Spec => []UsbMeansBackupLost
<1>1. WornInv => UsbMeansBackupLost
  BY DEF WornInv, WornOK
<1>2. QED
  BY <1>1, WornInvariant, PTL

\* Only the running trial build, whole in the active slot, is accepted as installed.
THEOREM OnlyRunningInstalls == Spec => InstalledIsRunning
<1>1. ASSUME WornInv, [Next]_vars, accepted' # accepted, Current'.result = "Installed"
      PROVE  running = accepted' /\ tried /\ ImageValid("Active")
  <2>1. Committing /\ ProgramRecord
    <3>1. CASE UNCHANGED vars
      BY <1>1, <3>1
    <3>2. CASE LoaderStep \/ JournalErase
      BY <1>1, <3>2 DEF LoaderStep, PowerOn, Boot, Install, CopyErase, CopyProgram,
         CopyManifest, LoaderCommit, StartActive, JournalErase, Committing
    <3>3. CASE AppStep
      BY <1>1, <3>3 DEF AppStep, Confirm, ConfirmCommit, PendingCommit, Restart,
         MigrateRecord, MigrateRetry, MigrateGuard, Receive, ReceiveBegin, ReceiveManifest,
         ReceiveErase, ReceivePayload, ReceiveFinish, StageManifest, ReceiveAbort, Committing
    <3>4. CASE Environment
      BY <1>1, <3>4 DEF Environment, WatchdogReset, PowerLoss, PowerLossEffect, Torn,
         PowerSettles, FlashFault, Damage, Committing
    <3>5. QED
      BY <1>1, <3>1, <3>2, <3>3, <3>4 DEF Next
  <2>2. commit \in Records /\ LoaderOK /\ StartedOK
    BY <1>1, <2>1 DEF WornInv, WornOK, ControlOK
  <2>3. Current' = NewRecord
    BY <1>1, <2>1, <2>2, ProgramMakesCurrent DEF WornInv, WornOK, ProgramRecord
  <2>4. commit.result = "Installed"
    BY <1>1, <2>3 DEF NewRecord
  <2>5. commit.state = "Confirmed" /\ accepted' = commit.image
    BY <1>1, <2>1 DEF ProgramRecord, RecordCommit
  <2>6. running # NoImage
    BY <2>1, <2>2, <2>4 DEF LoaderOK
  <2>7. QED
    BY <2>1, <2>2, <2>5, <2>6 DEF StartedOK
<1>2. WornInv /\ [Next]_vars
        => [accepted' # accepted /\ Current'.result = "Installed"
              => running = accepted' /\ tried /\ ImageValid("Active")]_vars
  BY <1>1
<1>3. QED
  BY <1>2, WornInvariant, PTL DEF Spec, InstalledIsRunning
=============================================================================
