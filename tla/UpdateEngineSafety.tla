-------------------------- MODULE UpdateEngineSafety --------------------------
(* As long as the flash is sound, power loss at any point never strands the   *)
(* device, and a candidate that is marked stays whole: SafeOK and MarkedOK    *)
(* are inductive, for every value of the constants.                           *)
EXTENDS UpdateEngineProofs

USE DEF TypeInv, Consecutive, Copied, flash, control, app, history, environment, vars

-----------------------------------------------------------------------------
(* The journal and the slots, seen through one step *)

\* Erasing the older sector leaves the record a reader selects.
LEMMA EraseKeepsCurrent ==
    ASSUME TypeOK, JournalOK,
           journal' = [journal EXCEPT ![TargetSector] = Unreadable]
    PROVE  /\ JournalOK' /\ JournalValid'
           /\ Current' = Current
           /\ TargetSector' = TargetSector
           /\ \A s \in States : StateIs(s)' <=> StateIs(s)
<1>1. journal \in [Sectors -> JournalRecord \cup {Unreadable}]
  BY DEF TypeOK
<1>2. /\ JournalValid' /\ Current' = Current /\ TargetSector' = TargetSector
      /\ ~(Readable("A")' /\ Readable("B")')
  BY <1>1 DEF JournalOK, JournalValid, Current, CurrentSector, TargetSector, Readable, Sectors
<1>3. QED
  BY <1>2 DEF JournalOK, StateIs, JournalValid

\* A step that leaves the journal and the two slots it relies on alone.
LEMMA BackupKept ==
    ASSUME TypeOK, SafeOK, journal' = journal, fence' = fence, accepted' = accepted,
           slot'["Active"] = slot["Active"], slot'["Rollback"] = slot["Rollback"],
           StateIs("BackupReady") => slot'["Staging"] = slot["Staging"]
    PROVE  JournalOK' /\ BackupOK'
<1>1. Current' = Current /\ \A s \in States : StateIs(s)' <=> StateIs(s)
  BY JournalKept
<1>2. Holds("Active", accepted)' <=> Holds("Active", accepted)
  BY DEF Holds, ImageValid, ValidUnits, PayloadMatches, PoolCompatible, Manifest
<1>3. Holds("Rollback", accepted)' <=> Holds("Rollback", accepted)
  BY DEF Holds, ImageValid, ValidUnits, PayloadMatches, PoolCompatible, Manifest
<1>4. StateIs("BackupReady") =>
         (Holds("Staging", Current.image)' <=> Holds("Staging", Current.image))
  BY <1>1 DEF Holds, ImageValid, ValidUnits, PayloadMatches, PoolCompatible, Manifest
<1>5. QED
  BY <1>1, <1>2, <1>3, <1>4, JournalKept DEF SafeOK, BackupOK, States

-----------------------------------------------------------------------------
(* The boot decision *)

\* Beginning a copy of a whole image establishes what the copy relies on.
LEMMA BeginCopySafe ==
    ASSUME TypeInv, SafeOK, running = NoImage,
           UNCHANGED <<slot, journal, fence, running, trial, rx, accepted>>,
           NEW from \in Slots, NEW to \in Slots, NEW state \in States,
           NEW image \in Images, NEW result \in Results,
           ImageValid(from), BeginCopy(from, to, state, image, result),
           \/ /\ from = "Active" /\ to = "Rollback" /\ state = "BackupReady"
              /\ StateIs("Pending")
              /\ ImageValid("Staging") /\ image = Manifest("Staging")
           \/ /\ from = "Staging" /\ to = "Active" /\ state = "Trial"
              /\ image = Manifest(from) /\ StateIs("BackupReady")
           \/ /\ from = "Rollback" /\ to = "Active" /\ state = "Confirmed"
              /\ result = "RolledBack" /\ image = Manifest(from)
              /\ StateIs("Trial")
    PROVE  SafeOK'
<1>1. Manifest(from) \in Images
  BY DEF ImageValid, ValidUnits, Manifest
<1>2. /\ pc' = "copyErase"
      /\ xfer' = [from |-> from, to |-> to, image |-> Manifest(from), at |-> 0]
      /\ commit' = [state |-> state, image |-> image, result |-> result]
  BY DEF BeginCopy
<1>3. JournalOK' /\ BackupOK'
  BY BackupKept
<1>4. /\ \A s \in States : StateIs(s)' <=> StateIs(s)
      /\ ImageValid("Staging")' <=> ImageValid("Staging")
      /\ Manifest("Staging")' = Manifest("Staging")
      /\ ImageValid(from)' /\ Manifest(from)' = Manifest(from)
  BY JournalKept, SlotKept DEF Slots
<1>5. /\ Holds(xfer.from, xfer.image)'
      /\ state = "BackupReady" => Holds("Staging", commit.image)'
  BY <1>2, <1>4 DEF Holds
<1>6. CopyOK'
  BY <1>2, <1>4, <1>5 DEF CopyOK, Copying, States
<1>7. CommitOK' /\ RunningOK' /\ pc' # "usb"
  BY <1>2 DEF CommitOK, RunningOK, Committing
<1>8. QED
  BY <1>3, <1>6, <1>7 DEF SafeOK

LEMMA BootSafe ==
    ASSUME TypeInv, SafeOK, Boot
    PROVE  SafeOK'
<1>1. /\ pc = "boot" /\ running = NoImage /\ JournalValid
      /\ UNCHANGED <<slot, journal, fence, running, trial, rx, accepted>>
  BY DEF Boot, SafeOK, RunningOK, JournalOK
<1>2. JournalOK' /\ BackupOK'
  BY <1>1, BackupKept
<1>3. /\ \A s \in States : StateIs(s)' <=> StateIs(s)
      /\ \A s \in Slots : ImageValid(s)' <=> ImageValid(s)
  BY <1>1, JournalKept, SlotKept
<1>4. /\ StateIs("Confirmed") \/ StateIs("Pending") => ImageValid("Active")
      /\ StateIs("BackupReady") \/ StateIs("Trial") => ImageValid("Rollback")
  BY DEF SafeOK, BackupOK, Holds
<1>5. /\ "Active" \in Slots /\ "Rollback" \in Slots /\ "Staging" \in Slots
      /\ "Confirmed" \in States /\ "BackupReady" \in States /\ "Trial" \in States
      /\ "Pending" \in States
      /\ "RolledBack" \in Results /\ "None" \in Results
  BY DEF Slots, States, Results
<1>6. \A s \in Slots : ImageValid(s) => Manifest(s) \in Images
  BY DEF ImageValid, ValidUnits, Manifest
<1>7. ASSUME StartDecided, StateIs("Confirmed") PROVE SafeOK'
  BY <1>1, <1>2, <1>3, <1>5, <1>7
     DEF StartDecided, SafeOK, CopyOK, CommitOK, RunningOK, Copying, Committing
<1>8. ASSUME RestoreRollbackOrUsb, StateIs("Trial") PROVE SafeOK'
  <2>1. ImageValid("Rollback") /\ RestoreFrom("Rollback", "RolledBack")
    BY <1>4, <1>8 DEF RestoreRollbackOrUsb
  <2>2. QED
    BY <1>1, <1>5, <1>6, <1>8, <2>1, BeginCopySafe DEF RestoreFrom
<1>9. CASE BootConfirmedFast
  BY <1>7, <1>9 DEF BootConfirmedFast
<1>10. CASE BootConfirmed
  BY <1>4, <1>5, <1>7, <1>10 DEF BootConfirmed, RecoverWithoutUpdate
<1>11. CASE BootTrial
  BY <1>8, <1>11 DEF BootTrial
<1>12. CASE BootStaleCandidate
  <2>1. CASE StateIs("Pending")
    <3>1. ImageValid("Active") /\ BeginCommit("Confirmed", Manifest("Active"), "Rejected")
      BY <1>4, <1>12, <2>1 DEF BootStaleCandidate
    <3>2. Holds("Active", Manifest("Active"))'
      BY <1>1, <1>3, <1>5, <3>1, SlotKept DEF Holds
    <3>3. StateIs("Pending")'
      BY <1>3, <1>5, <2>1
    <3>4. /\ pc' = "journalErase" /\ Manifest("Active")' = Manifest("Active")
          /\ commit' = [state |-> "Confirmed", image |-> Manifest("Active"),
                        result |-> "Rejected"]
      BY <1>1, <1>5, <3>1, SlotKept DEF BeginCommit
    <3>5. Holds("Active", commit.image)'
      BY <3>2, <3>4 DEF Holds
    <3>6. QED
      BY <1>1, <1>2, <3>3, <3>4, <3>5
         DEF SafeOK, CopyOK, CommitOK, RunningOK, Copying, Committing
  <2>2. CASE StateIs("BackupReady")
    BY <1>12, <2>2 DEF BootStaleCandidate, CandidateStaged, SafeOK, BackupOK, Holds
  <2>3. QED
    BY <1>12, <2>1, <2>2 DEF BootStaleCandidate
<1>13. CASE BootPending
  <2>1. /\ StateIs("Pending") /\ ImageValid("Active") /\ ImageValid("Staging")
        /\ BeginCopy("Active", "Rollback", "BackupReady", Manifest("Staging"), "None")
    BY <1>4, <1>13 DEF BootPending, CandidateStaged
  <2>2. QED
    BY <1>1, <1>5, <1>6, <2>1, BeginCopySafe
<1>14. CASE BootBackupReady
  BY <1>1, <1>2, <1>3, <1>5, <1>14
     DEF BootBackupReady, CandidateStaged, SafeOK, CopyOK, CommitOK, RunningOK,
         Copying, Committing
<1>15. QED
  BY <1>1, <1>9, <1>10, <1>11, <1>12, <1>13, <1>14 DEF Boot, BootWithoutJournal

LEMMA InstallSafe ==
    ASSUME TypeInv, SafeOK, Install
    PROVE  SafeOK'
<1>1. /\ StateIs("BackupReady") /\ running = NoImage /\ pc = "install"
      /\ ImageValid("Rollback") /\ ImageValid("Staging")
      /\ UNCHANGED <<slot, journal, fence, running, trial, rx, accepted>>
  BY DEF Install, SafeOK, RunningOK, BackupOK, Holds
<1>2. BeginCopy("Staging", "Active", "Trial", Manifest("Staging"), "None")
  BY <1>1 DEF Install
<1>3. Manifest("Staging") \in Images
  BY <1>1 DEF ImageValid, ValidUnits, Manifest
<1>4. QED
  BY <1>1, <1>2, <1>3, BeginCopySafe DEF Slots, States, Results

-----------------------------------------------------------------------------
(* The copy *)

\* What a copy may rely on: who is not running, and which units it writes.
LEMMA CopyContext ==
    ASSUME TypeInv, SafeOK, Copying
    PROVE  /\ running = NoImage
           /\ xfer \in Transfers /\ commit \in Records
           /\ xfer.from \in Slots /\ xfer.to \in Slots /\ xfer.from # xfer.to
           /\ xfer.image \in Images /\ xfer.at \in Units
           /\ xfer.at <= PayloadLen[xfer.image]
           /\ PayloadLen[xfer.image] \in 1..MaxPayload
           /\ xfer.to # "Staging"
           /\ xfer.to # "Active" => xfer.to = "Rollback" /\ StateIs("Pending")
           /\ xfer.to = "Active" => StateIs("BackupReady") \/ StateIs("Trial")
           /\ Holds(xfer.from, xfer.image)
BY ContentsType DEF ControlOK, Copying, Transfers, SafeOK, CopyOK, RunningOK

\* A step of a copy touches only its destination, which no promise rests on.
LEMMA CopyKeepsBackup ==
    ASSUME TypeInv, SafeOK, Copying, UNCHANGED <<journal, fence, accepted>>,
           NEW u \in Units, NEW c \in Contents, WriteUnit(xfer.to, u, c)
    PROVE  /\ JournalOK' /\ BackupOK'
           /\ \A s \in States : StateIs(s)' <=> StateIs(s)
           /\ \A s \in Slots : s # xfer.to =>
                 /\ ImageValid(s)' <=> ImageValid(s)
                 /\ Manifest(s)' = Manifest(s)
                 /\ \A i \in Images : Holds(s, i)' <=> Holds(s, i)
           /\ slot'[xfer.to][u] = c
           /\ \A v \in Units : v # u => slot'[xfer.to][v] = slot[xfer.to][v]
<1>1. xfer.to \in Slots
  BY CopyContext
<1>2. /\ \A s \in Slots : s # xfer.to => slot'[s] = slot[s]
      /\ slot'[xfer.to][u] = c
      /\ \A v \in Units : v # u => slot'[xfer.to][v] = slot[xfer.to][v]
  BY <1>1, WriteUnitType DEF TypeOK
<1>3. \A s \in Slots : s # xfer.to =>
         /\ ImageValid(s)' <=> ImageValid(s)
         /\ Manifest(s)' = Manifest(s)
         /\ \A i \in Images : Holds(s, i)' <=> Holds(s, i)
  BY <1>2, SlotKept
<1>4. Current' = Current /\ \A s \in States : StateIs(s)' <=> StateIs(s)
  BY JournalKept
<1>5. /\ Holds("Staging", Current.image) => Holds("Staging", Current.image)'
      /\ Holds("Active", accepted) /\ xfer.to # "Active" => Holds("Active", accepted)'
      /\ Holds("Rollback", accepted) /\ xfer.to # "Rollback" => Holds("Rollback", accepted)'
  BY <1>3, <1>4, CopyContext DEF Holds, Slots
<1>6. BackupOK'
  BY <1>4, <1>5, CopyContext DEF SafeOK, BackupOK, States, StateIs
<1>7. QED
  BY <1>2, <1>3, <1>4, <1>6, JournalKept DEF SafeOK

LEMMA CopyKeepsStaging ==
    ASSUME TypeInv, SafeOK, Copying, UNCHANGED <<fence, commit>>,
           NEW u \in Units, NEW c \in Contents, WriteUnit(xfer.to, u, c)
    PROVE  Holds("Staging", commit.image)' <=> Holds("Staging", commit.image)
<1>1. slot'["Staging"] = slot["Staging"]
  BY CopyContext, WriteUnitType DEF TypeOK, Slots
<1>2. QED
  BY <1>1 DEF Holds, ImageValid, ValidUnits, PayloadMatches, PoolCompatible, Manifest

LEMMA SourceKept ==
    ASSUME TypeInv, SafeOK, Copying, fence' = fence,
           NEW u \in Units, NEW c \in Contents, WriteUnit(xfer.to, u, c),
           xfer'.from = xfer.from, xfer'.image = xfer.image
    PROVE  Holds(xfer.from, xfer.image)'
<1>1. slot'[xfer.from] = slot[xfer.from]
  BY CopyContext, WriteUnitType DEF TypeOK
<1>2. Holds(xfer.from, xfer.image)
  BY CopyContext
<1>3. QED
  BY <1>1, <1>2
     DEF Holds, ImageValid, ValidUnits, PayloadMatches, PoolCompatible, Manifest

LEMMA CopyEraseSafe ==
    ASSUME TypeInv, SafeOK, CopyErase
    PROVE  SafeOK'
<1>1. Copying /\ UNCHANGED <<journal, fence, accepted, commit, running>>
  BY DEF CopyErase, Copying
<1>2. WriteUnit(xfer.to, xfer.at, Erased)
  BY DEF CopyErase
<1>3. xfer.at \in Units /\ Erased \in Contents
  BY <1>1, CopyContext, ContentsType
<1>4. /\ xfer'.from = xfer.from /\ xfer'.to = xfer.to /\ xfer'.image = xfer.image
      /\ \/ xfer.at < PayloadLen[xfer.image] /\ pc' = "copyErase" /\ xfer'.at = xfer.at + 1
         \/ xfer.at = PayloadLen[xfer.image] /\ pc' = "copyProgram" /\ xfer'.at = 1
  BY <1>1, CopyContext DEF CopyErase, Transfers, Units
<1>5. \A u \in 0..xfer.at : slot'[xfer.to][u] = Erased
  <2>1. \A u \in 0..(xfer.at - 1) : slot[xfer.to][u] = Erased
    BY <1>1 DEF CopyErase, SafeOK, CopyOK
  <2>2. \A u \in 0..xfer.at : u \in Units /\ (u = xfer.at \/ u \in 0..(xfer.at - 1))
    BY <1>3, SizeAssumption DEF Units
  <2>3. QED
    BY <1>1, <1>2, <1>3, <2>1, <2>2, CopyKeepsBackup
<1>6. CopyOK'
  <2>1. Holds(xfer.from, xfer.image)'
    BY <1>1, <1>2, <1>3, <1>4, SourceKept
  <2>2. /\ Holds("Staging", commit.image)' <=> Holds("Staging", commit.image)
        /\ \A s \in States : StateIs(s)' <=> StateIs(s)
    BY <1>1, <1>2, <1>3, CopyKeepsBackup, CopyKeepsStaging
  <2>3. /\ pc' = "copyErase" =>
              \A u \in 0..(xfer'.at - 1) : slot'[xfer.to][u] = Erased
        /\ pc' = "copyProgram" =>
              /\ slot'[xfer.to][0] = Erased
              /\ \A u \in 1..(xfer'.at - 1) : slot'[xfer.to][u] = xfer.image
              /\ \A u \in xfer'.at..PayloadLen[xfer.image] : slot'[xfer.to][u] = Erased
    BY <1>3, <1>4, <1>5, SizeAssumption DEF Units
  <2>4. pc' # "copyManifest"
    BY <1>4
  <2>5. QED
    BY <1>1, <1>4, <2>1, <2>2, <2>3, <2>4 DEF SafeOK, CopyOK, Copying, States
<1>7. JournalOK' /\ BackupOK'
  BY <1>1, <1>2, <1>3, CopyKeepsBackup
<1>8. QED
  BY <1>1, <1>4, <1>6, <1>7, CopyContext DEF SafeOK, CommitOK, RunningOK, Committing

LEMMA CopyProgramSafe ==
    ASSUME TypeInv, SafeOK, CopyProgram
    PROVE  SafeOK'
<1> DEFINE to == xfer.to
<1>1. /\ Copying /\ pc = "copyProgram"
      /\ UNCHANGED <<journal, fence, accepted, running>>
  BY DEF CopyProgram, Copying
<1>2. /\ xfer.at \in Units /\ xfer.at \in 1..PayloadLen[xfer.image]
      /\ PayloadLen[xfer.image] \in 1..MaxPayload
      /\ \A u \in 0..PayloadLen[xfer.image] : u \in Units
  BY <1>1, CopyContext, SizeAssumption, ContentsType DEF ControlOK, Copying, Units
<1>3. /\ slot[xfer.to][xfer.at] = Erased
      /\ slot[xfer.from][xfer.at] = xfer.image
      /\ slot[xfer.to][0] = Erased
      /\ \A u \in 1..(xfer.at - 1) : slot[xfer.to][u] = xfer.image
      /\ \A u \in xfer.at..PayloadLen[xfer.image] : slot[xfer.to][u] = Erased
  BY <1>1, <1>2, CopyContext
     DEF SafeOK, CopyOK, Holds, ImageValid, ValidUnits, PayloadMatches, Manifest
<1>4. WriteUnit(xfer.to, xfer.at, xfer.image)
  BY <1>3 DEF CopyProgram, Programmed
<1>5. xfer.image \in Contents
  BY <1>1, CopyContext, ContentsType
<1>6. /\ slot'[xfer.to][xfer.at] = xfer.image
      /\ \A v \in Units : v # xfer.at => slot'[xfer.to][v] = slot[xfer.to][v]
  BY <1>1, <1>2, <1>4, <1>5, CopyKeepsBackup
<1>7. /\ slot'[xfer.to][0] = Erased
      /\ \A u \in 1..xfer.at : slot'[xfer.to][u] = xfer.image
      /\ \A u \in (xfer.at + 1)..PayloadLen[xfer.image] : slot'[xfer.to][u] = Erased
  <2>1. \A u \in 1..xfer.at : u \in Units /\ (u = xfer.at \/ u \in 1..(xfer.at - 1))
    BY <1>2, SizeAssumption DEF Units
  <2>2. \A u \in (xfer.at + 1)..PayloadLen[xfer.image] :
           u \in Units /\ u # xfer.at /\ u \in xfer.at..PayloadLen[xfer.image]
    BY <1>2, SizeAssumption DEF Units
  <2>3. 0 \in Units /\ 0 # xfer.at
    BY <1>2, ContentsType
  <2>4. QED
    BY <1>3, <1>6, <2>1, <2>2, <2>3
<1>8. /\ commit' = commit
      /\ xfer'.from = xfer.from /\ xfer'.to = xfer.to /\ xfer'.image = xfer.image
      /\ \/ xfer.at < PayloadLen[xfer.image] /\ pc' = "copyProgram" /\ xfer'.at = xfer.at + 1
         \/ xfer.at = PayloadLen[xfer.image] /\ pc' = "copyManifest"
  <2>1. slot'[xfer.to][xfer.at] = slot[xfer.from][xfer.at]
    BY <1>3, <1>6
  <2>2. CASE xfer.at < PayloadLen[xfer.image]
    BY <1>1, <1>2, <2>1, <2>2, CopyContext DEF CopyProgram, Transfers
  <2>3. CASE xfer.at = PayloadLen[xfer.image]
    <3>1. PayloadMatches(slot'[xfer.to], xfer.image)
      BY <1>7, <2>3 DEF PayloadMatches
    <3>2. QED
      BY <1>1, <1>2, <2>1, <2>3, <3>1, CopyContext DEF CopyProgram, Transfers
  <2>4. QED
    BY <1>2, <2>2, <2>3
<1>9. CopyOK'
  <2>1. Holds(xfer.from, xfer.image)'
    BY <1>1, <1>2, <1>4, <1>5, <1>8, SourceKept
  <2>2. /\ Holds("Staging", commit.image)' <=> Holds("Staging", commit.image)
        /\ \A s \in States : StateIs(s)' <=> StateIs(s)
    BY <1>1, <1>2, <1>4, <1>5, <1>8, CopyKeepsBackup, CopyKeepsStaging
  <2>3. /\ pc' = "copyProgram" =>
              /\ slot'[xfer.to][0] = Erased
              /\ \A u \in 1..(xfer'.at - 1) : slot'[xfer.to][u] = xfer.image
              /\ \A u \in xfer'.at..PayloadLen[xfer.image] : slot'[xfer.to][u] = Erased
        /\ pc' = "copyManifest" =>
              /\ slot'[xfer.to][0] = Erased
              /\ PayloadMatches(slot'[xfer.to], xfer.image)
    BY <1>2, <1>7, <1>8 DEF PayloadMatches
  <2>4. pc' # "copyErase"
    BY <1>8
  <2>5. QED
    BY <1>1, <1>8, <2>1, <2>2, <2>3, <2>4 DEF SafeOK, CopyOK, Copying, States, PayloadMatches
<1>10. JournalOK' /\ BackupOK'
  BY <1>1, <1>2, <1>4, <1>5, CopyKeepsBackup
<1>11. QED
  BY <1>1, <1>8, <1>9, <1>10, CopyContext DEF SafeOK, CommitOK, RunningOK, Committing

LEMMA CopyManifestSafe ==
    ASSUME TypeInv, SafeOK, CopyManifest
    PROVE  SafeOK'
<1>1. /\ Copying /\ pc = "copyManifest"
      /\ UNCHANGED <<journal, fence, accepted, running>>
  BY DEF CopyManifest, Copying
<1>2. /\ 0 \in Units /\ xfer.image \in Contents /\ xfer.image \in Images
      /\ \A u \in 1..PayloadLen[xfer.image] : u \in Units /\ u # 0
  BY <1>1, CopyContext, ContentsType
<1>3. /\ Holds(xfer.from, xfer.image)
      /\ slot[xfer.to][0] = Erased
      /\ PayloadMatches(slot[xfer.to], xfer.image)
  BY <1>1 DEF SafeOK, CopyOK
<1>4. WriteUnit(xfer.to, 0, xfer.image)
  BY <1>3 DEF CopyManifest, Programmed, Holds
<1>5. /\ slot'[xfer.to][0] = xfer.image
      /\ \A v \in Units : v # 0 => slot'[xfer.to][v] = slot[xfer.to][v]
      /\ \A s \in States : StateIs(s)' <=> StateIs(s)
      /\ JournalOK' /\ BackupOK'
  BY <1>1, <1>2, <1>4, CopyKeepsBackup
<1>6. PayloadMatches(slot'[xfer.to], xfer.image)
  BY <1>2, <1>3, <1>5 DEF PayloadMatches
<1>7. PoolCompatible(xfer.image)
  BY <1>3 DEF Holds, ImageValid, ValidUnits, Manifest
<1>8. ValidUnits(slot'[xfer.to])
  BY <1>2, <1>5, <1>6, <1>7 DEF ValidUnits
<1>9. pc' = "journalErase" /\ commit' = commit /\ xfer' = NoTransfer
  BY <1>8 DEF CopyManifest
<1>10. PICK i \in Images : i = xfer.image
  BY <1>2
<1>11. /\ xfer.to = "Active" => Holds("Active", i)'
       /\ xfer.to = "Rollback" => Holds("Rollback", i)'
  BY <1>1, <1>5, <1>8, <1>10 DEF Holds, ImageValid, ValidUnits, PoolCompatible, Manifest
<1>12. CommitOK'
  <2>1. CASE xfer.from = "Active" /\ xfer.to = "Rollback" /\ commit.state = "BackupReady"
             /\ StateIs("Pending") /\ Holds("Staging", commit.image)
    <3>1. Holds("Active", accepted)
      BY <2>1 DEF SafeOK, BackupOK
    <3>2. xfer.image = accepted
      BY <1>3, <2>1, <3>1 DEF Holds
    <3>3. Holds("Rollback", accepted)'
      BY <1>1, <1>10, <1>11, <2>1, <3>2 DEF Holds
    <3>4. Holds("Staging", commit.image)'
      BY <1>1, <1>2, <1>4, <1>9, <2>1, CopyKeepsStaging
    <3>5. QED
      BY <1>5, <1>9, <2>1, <3>3, <3>4 DEF CommitOK, States
  <2>2. CASE xfer.from = "Staging" /\ xfer.to = "Active" /\ commit.state = "Trial"
             /\ commit.image = xfer.image /\ StateIs("BackupReady")
    <3>1. Holds("Active", commit.image)'
      BY <1>9, <1>10, <1>11, <2>2 DEF Holds
    <3>2. QED
      BY <1>5, <1>9, <2>2, <3>1 DEF CommitOK, States
  <2>3. CASE xfer.from = "Rollback" /\ xfer.to = "Active" /\ commit.state = "Confirmed"
             /\ commit.result = "RolledBack" /\ commit.image = xfer.image
             /\ StateIs("Trial")
    <3>1. Holds("Rollback", accepted)
      BY <2>3 DEF SafeOK, BackupOK
    <3>2. commit.image = accepted
      BY <1>3, <2>3, <3>1 DEF Holds
    <3>3. Holds("Active", commit.image)' /\ StateIs("Trial")'
      BY <1>5, <1>9, <1>10, <1>11, <2>3 DEF Holds, States
    <3>4. QED
      BY <1>1, <1>9, <2>3, <3>2, <3>3 DEF CommitOK
  <2>4. QED
    BY <1>1, <2>1, <2>2, <2>3 DEF SafeOK, CopyOK
<1>13. QED
  BY <1>1, <1>5, <1>9, <1>12, CopyContext DEF SafeOK, CopyOK, RunningOK, Copying

-----------------------------------------------------------------------------
(* The commit *)

LEMMA JournalEraseSafe ==
    ASSUME TypeInv, SafeOK, JournalErase
    PROVE  SafeOK'
<1>1. /\ JournalOK' /\ JournalValid' /\ Current' = Current
      /\ \A s \in States : StateIs(s)' <=> StateIs(s)
  BY EraseKeepsCurrent DEF JournalErase, SafeOK
<1>2. /\ pc = "journalErase" /\ pc' = "journalProgram"
      /\ UNCHANGED <<slot, fence, xfer, commit, running, trial, accepted>>
  BY DEF JournalErase
<1>3. BackupOK'
  BY <1>1, <1>2
     DEF SafeOK, BackupOK, States, Holds, ImageValid, ValidUnits, PayloadMatches,
         PoolCompatible, Manifest
<1>4. CommitOK'
  BY <1>1, <1>2
     DEF SafeOK, CommitOK, Committing, States, Holds, ImageValid, ValidUnits,
         PayloadMatches, PoolCompatible, Manifest
<1>5. RunningOK'
  BY <1>1, <1>2
     DEF SafeOK, RunningOK, States, Holds, ImageValid, ValidUnits, PayloadMatches,
         PoolCompatible, Manifest
<1>6. QED
  BY <1>1, <1>2, <1>3, <1>4, <1>5 DEF SafeOK, CopyOK, Copying

\* A record becomes durable: its promise holds already.
LEMMA ProgramRecordSafe ==
    ASSUME TypeInv, SafeOK, pc = "journalProgram", ProgramRecord, UNCHANGED <<slot, fence>>
    PROVE  /\ JournalOK' /\ JournalValid' /\ BackupOK'
           /\ Current' = NewRecord
           /\ \A s \in States : StateIs(s)' <=> commit.state = s
           /\ commit \in Records
           /\ commit.state = "Trial" => Holds("Active", Current.image)'
<1>1. commit \in Records /\ commit.image \in Images /\ commit.state \in States
  BY DEF ControlOK, Committing, Records
<1>2. /\ JournalOK' /\ JournalValid' /\ Current' = NewRecord
      /\ \A s \in States : StateIs(s)' <=> commit.state = s
  BY <1>1, ProgramMakesCurrent DEF SafeOK, JournalOK, ProgramRecord
<1>3. Current'.image = commit.image
  BY <1>2 DEF NewRecord
<1>4. accepted' = IF commit.state = "Confirmed" /\ commit.result # "RolledBack"
                  THEN commit.image ELSE accepted
  BY DEF ProgramRecord, RecordCommit
<1>5. PICK i \in Images, a \in Images : i = commit.image /\ a = accepted
  BY <1>1 DEF TypeOK
<1>6. /\ Holds("Active", i)' <=> Holds("Active", i)
      /\ Holds("Active", a)' <=> Holds("Active", a)
      /\ Holds("Rollback", a)' <=> Holds("Rollback", a)
      /\ Holds("Staging", i)' <=> Holds("Staging", i)
  BY HoldsKept DEF Slots
<1>7. CASE commit.state = "Confirmed"
  <2>1. Holds("Active", i) /\ accepted' = i
    BY <1>4, <1>5, <1>7 DEF SafeOK, CommitOK, Committing
  <2>2. QED
    BY <1>1, <1>2, <1>3, <1>5, <1>6, <1>7, <2>1 DEF BackupOK, Holds, States
<1>8. CASE commit.state = "Pending"
  <2>1. Holds("Active", a) /\ accepted' = a
    BY <1>4, <1>5, <1>8 DEF SafeOK, CommitOK, Committing, BackupOK
  <2>2. QED
    BY <1>1, <1>2, <1>6, <1>8, <2>1 DEF BackupOK, Holds, States
<1>9. CASE commit.state = "BackupReady"
  <2>1. Holds("Rollback", a) /\ Holds("Staging", i) /\ accepted' = a
    BY <1>4, <1>5, <1>9 DEF SafeOK, CommitOK, Committing
  <2>2. QED
    BY <1>1, <1>2, <1>3, <1>5, <1>6, <1>9, <2>1 DEF BackupOK, Holds, States
<1>10. CASE commit.state = "Trial"
  <2>1. Holds("Rollback", a) /\ Holds("Active", i) /\ accepted' = a
    BY <1>4, <1>5, <1>10 DEF SafeOK, CommitOK, Committing, BackupOK
  <2>2. QED
    BY <1>1, <1>2, <1>3, <1>5, <1>6, <1>10, <2>1 DEF BackupOK, Holds, States
<1>11. QED
  BY <1>1, <1>7, <1>8, <1>9, <1>10 DEF States

LEMMA CommitSafe ==
    ASSUME TypeInv, SafeOK, LoaderCommit \/ PendingCommit \/ ConfirmCommit
    PROVE  SafeOK'
<1>1. /\ pc = "journalProgram" /\ ProgramRecord
      /\ UNCHANGED <<slot, fence, running>>
  BY DEF LoaderCommit, PendingCommit, ConfirmCommit
<1>2. /\ JournalOK' /\ BackupOK'
      /\ \A s \in States : StateIs(s)' <=> commit.state = s
      /\ commit.state = "Trial" => Holds("Active", Current.image)'
      /\ commit.state \in States
  BY <1>1, ProgramRecordSafe DEF Records
<1>3. pc' \in {"install", "start", "app"}
  BY DEF LoaderCommit, PendingCommit, ConfirmCommit
<1>4. CASE LoaderCommit
  <2>1. commit.state # "Pending"
    BY <1>1, <1>4 DEF LoaderCommit, ControlOK, Committing
  <2>2. RunningOK'
    BY <1>2, <1>4, <2>1 DEF LoaderCommit, RunningOK, States
  <2>3. QED
    BY <1>2, <1>3, <2>2 DEF SafeOK, CopyOK, CommitOK, Copying, Committing
<1>5. CASE PendingCommit \/ ConfirmCommit
  <2>1. /\ running # NoImage /\ running' = running /\ pc' = "app"
        /\ commit.state \in {"Pending", "Confirmed"}
    BY <1>5 DEF PendingCommit, ConfirmCommit
  <2>2. Holds("Active", running)'
    BY <1>1, <2>1
       DEF SafeOK, RunningOK, Holds, ImageValid, ValidUnits, PayloadMatches,
           PoolCompatible, Manifest
  <2>3. RunningOK'
    BY <1>2, <2>1, <2>2 DEF RunningOK, States
  <2>4. QED
    BY <1>2, <1>3, <2>3 DEF SafeOK, CopyOK, CommitOK, Copying, Committing
<1>6. QED
  BY <1>4, <1>5

-----------------------------------------------------------------------------
(* The application *)

LEMMA StartSafe ==
    ASSUME TypeInv, SafeOK, PowerOn \/ StartActive \/ Restart \/ WatchdogReset \/ PowerSettles
    PROVE  SafeOK'
<1>1. UNCHANGED <<slot, journal, fence, accepted, xfer, commit>>
  BY DEF PowerOn, StartActive, Restart, WatchdogReset, PowerSettles
<1>2. /\ JournalOK' /\ BackupOK'
      /\ \A s \in States : StateIs(s)' <=> StateIs(s)
  BY <1>1, BackupKept, JournalKept
<1>3. CASE PowerOn
  BY <1>1, <1>2, <1>3
     DEF PowerOn, SafeOK, CopyOK, CommitOK, RunningOK, Copying, Committing
<1>4. CASE StartActive
  <2>1. /\ ManifestValid("Active")
        /\ StateIs("Confirmed") \/ (StateIs("Trial") /\ Holds("Active", Current.image))
    BY <1>4 DEF StartActive, ControlOK, SafeOK, RunningOK
  <2>2. ImageValid("Active")
    BY <2>1 DEF SafeOK, BackupOK, Holds
  <2>3. Holds("Active", running)'
    BY <1>1, <1>4, <2>2
       DEF StartActive, Holds, ImageValid, ValidUnits, PayloadMatches, PoolCompatible,
           Manifest
  <2>4. StateIs("Trial") => RunningIsTrial
    BY <2>1, <2>2 DEF RunningIsTrial, Holds, StateIs
  <2>5. ~StateIs("BackupReady")
    BY <2>1 DEF StateIs
  <2>6. RunningOK'
    BY <1>2, <1>4, <2>3, <2>4, <2>5 DEF StartActive, RunningOK, States
  <2>7. QED
    BY <1>2, <1>4, <2>6
       DEF StartActive, SafeOK, CopyOK, CommitOK, Copying, Committing
<1>5. CASE Restart \/ WatchdogReset
  BY <1>2, <1>5
     DEF Restart, WatchdogReset, SafeOK, CopyOK, CommitOK, RunningOK, Copying, Committing
<1>6. CASE PowerSettles
  BY <1>1, <1>2, <1>6
     DEF PowerSettles, SafeOK, CopyOK, CommitOK, RunningOK, Copying, Committing, StateIs,
         Current, CurrentSector, Readable, JournalValid, JournalOK, Holds, ImageValid,
         ValidUnits, PayloadMatches, PoolCompatible, Manifest
<1>7. QED
  BY <1>3, <1>4, <1>5, <1>6

LEMMA ConfirmSafe ==
    ASSUME TypeInv, SafeOK, Confirm
    PROVE  SafeOK'
<1>1. /\ UNCHANGED <<slot, journal, fence, accepted, running>>
      /\ pc = "app" /\ running # NoImage
  BY ContentsType DEF Confirm, ControlOK
<1>2. /\ JournalOK' /\ BackupOK'
      /\ \A s \in States : StateIs(s)' <=> StateIs(s)
  BY <1>1, BackupKept, JournalKept
<1>3. Holds("Active", running)'
  BY <1>1
     DEF SafeOK, RunningOK, Holds, ImageValid, ValidUnits, PayloadMatches,
         PoolCompatible, Manifest
<1>4. CASE RunningIsTrial
  <2>1. /\ pc' = "journalErase" /\ trial' = trial /\ trial = "yes"
        /\ commit' = [state |-> "Confirmed", image |-> Manifest("Active"),
                      result |-> "Installed"]
    BY <1>4 DEF Confirm, BeginCommit
  <2>2. Holds("Active", commit.image)'
    BY <1>1, <1>4, <2>1
       DEF RunningIsTrial, Holds, ImageValid, ValidUnits, PayloadMatches, PoolCompatible,
           Manifest
  <2>3. StateIs("Trial")
    BY <1>4 DEF RunningIsTrial
  <2>4. CommitOK' /\ RunningOK'
    BY <1>1, <1>2, <1>3, <2>1, <2>2, <2>3
       DEF SafeOK, CommitOK, RunningOK, States
  <2>5. QED
    BY <1>2, <2>1, <2>4 DEF SafeOK, CopyOK, Copying
<1>5. CASE ~RunningIsTrial
  <2>1. /\ pc' = "app"
        /\ trial' = IF ConfirmedAlready THEN "no" ELSE "failed"
        /\ ConfirmedAlready => ~StateIs("Trial")
    BY <1>1, <1>5 DEF Confirm, ConfirmedAlready, StateIs
  <2>2. QED
    BY <1>1, <1>2, <1>3, <2>1
       DEF SafeOK, CopyOK, CommitOK, RunningOK, Copying, Committing, States
<1>6. QED
  BY <1>4, <1>5

\* The migration strands no build: it happens only while the accepted build runs
\* and that build contains the pool.
LEMMA MigrateSafe ==
    ASSUME TypeInv, SafeOK, MigrateRecord \/ MigrateRetry \/ MigrateGuard
    PROVE  SafeOK'
<1>1. /\ UNCHANGED <<slot, journal, accepted, running, trial, xfer, commit>>
      /\ pc = "app" /\ pc' = "app" /\ running # NoImage
      /\ running \in PoolImages
  BY ContentsType DEF MigrateRecord, MigrateRetry, MigrateGuard, Serving, ControlOK
<1>2. /\ JournalOK' /\ Current' = Current
      /\ \A s \in States : StateIs(s)' <=> StateIs(s)
  BY <1>1, JournalKept DEF SafeOK
<1>3. Holds("Active", running) /\ ~StateIs("BackupReady")
  BY <1>1 DEF SafeOK, RunningOK
<1>4. CASE MigrateRecord
  <2>1. ~StateIs("Trial")
    BY <1>1, <1>4 DEF MigrateRecord, SafeOK, RunningOK
  <2>2. running = accepted
    BY <1>2, <1>3, <2>1
       DEF SafeOK, BackupOK, Holds, JournalOK, StateIs, Current, CurrentSector,
           JournalValid, Readable, TypeOK, JournalRecord, States, Sectors
  <2>3. Holds("Active", running)'
    BY <1>1, <1>3 DEF Holds, ImageValid, ValidUnits, PayloadMatches, PoolCompatible, Manifest
  <2>4. Holds("Active", accepted)'
    BY <1>1, <2>2, <2>3 DEF Holds
  <2>5. BackupOK'
    BY <1>1, <1>2, <1>3, <2>1, <2>4 DEF SafeOK, BackupOK, States
  <2>6. QED
    BY <1>1, <1>2, <1>3, <2>1, <2>3, <2>5
       DEF SafeOK, CopyOK, CommitOK, RunningOK, Copying, Committing, States
<1>5. CASE MigrateRetry \/ MigrateGuard
  <2>1. \A i : PoolCompatible(i) => PoolCompatible(i)'
    BY <1>5 DEF MigrateRetry, MigrateGuard, PoolCompatible
  <2>2. /\ Holds("Active", running)'
        /\ Holds("Active", accepted) => Holds("Active", accepted)'
        /\ Holds("Rollback", accepted) => Holds("Rollback", accepted)'
    BY <1>1, <1>3, <2>1 DEF Holds, ImageValid, ValidUnits, PayloadMatches, Manifest
  <2>3. BackupOK'
    BY <1>1, <1>2, <1>3, <2>2 DEF SafeOK, BackupOK, States
  <2>4. QED
    BY <1>1, <1>2, <1>3, <2>2, <2>3
       DEF SafeOK, CopyOK, CommitOK, RunningOK, Copying, Committing, States
<1>6. QED
  BY <1>4, <1>5

\* The receiver writes the staging slot only, and marks only from CONFIRMED.
LEMMA ReceiveEffect ==
    ASSUME TypeInv, SafeOK, Receive
    PROVE  /\ UNCHANGED <<journal, fence, running, trial, accepted>>
           /\ slot'["Active"] = slot["Active"] /\ slot'["Rollback"] = slot["Rollback"]
           /\ running # NoImage /\ ~StateIs("BackupReady")
           /\ \/ pc' \in {"app", "stageManifest"}
              \/ /\ pc' = "journalErase" /\ commit'.state = "Pending"
                 /\ StateIs("Confirmed")
<1>1. /\ UNCHANGED <<journal, fence, running, trial, accepted>>
      /\ pc \in {"app", "stageManifest"}
  BY DEF Receive, ReceiveBegin, ReceiveManifest, ReceiveErase, ReceivePayload,
         ReceiveFinish, StageManifest, ReceiveAbort, Serving
<1>2. slot' = slot \/ \E u, c : WriteUnit("Staging", u, c)
  BY DEF Receive, ReceiveBegin, ReceiveManifest, ReceiveErase, ReceivePayload,
         ReceiveFinish, StageManifest, ReceiveAbort
<1>3. slot'["Active"] = slot["Active"] /\ slot'["Rollback"] = slot["Rollback"]
  BY <1>2 DEF WriteUnit, TypeOK, Slots
<1>4. \/ pc' \in {"app", "stageManifest"}
      \/ /\ pc' = "journalErase" /\ commit'.state = "Pending"
         /\ StateIs("Confirmed")
  <2>1. CASE StageManifest
    <3>1. \/ pc' = "app"
          \/ /\ JournalValid => StateIs("Confirmed")
             /\ BeginCommit("Pending", rx.image, "None")
      BY <2>1, Zenon DEF StageManifest, ReceiveFails
    <3>2. QED
      BY <3>1 DEF BeginCommit, SafeOK, JournalOK
  <2>2. CASE ~StageManifest
    BY <2>2 DEF Receive, ReceiveBegin, ReceiveManifest, ReceiveErase, ReceivePayload,
           ReceiveFinish, ReceiveAbort, Serving
  <2>3. QED
    BY <2>1, <2>2
<1>5. QED
  BY <1>1, <1>3, <1>4, ContentsType DEF ControlOK, SafeOK, RunningOK

LEMMA ReceiveSafe ==
    ASSUME TypeInv, SafeOK, Receive
    PROVE  SafeOK'
<1>1. /\ JournalOK' /\ BackupOK'
      /\ \A s \in States : StateIs(s)' <=> StateIs(s)
  BY ReceiveEffect, BackupKept, JournalKept
<1>2. Holds("Active", running)'
  BY ReceiveEffect
     DEF SafeOK, RunningOK, Holds, ImageValid, ValidUnits, PayloadMatches,
         PoolCompatible, Manifest
<1>3. RunningOK'
  BY <1>1, <1>2, ReceiveEffect DEF SafeOK, RunningOK, States
<1>4. CommitOK'
  BY <1>1, ReceiveEffect DEF CommitOK, Committing, States
<1>5. QED
  BY <1>1, <1>3, <1>4, ReceiveEffect DEF SafeOK, CopyOK, Copying

-----------------------------------------------------------------------------
(* Power loss *)

LEMMA PowerLossSafe ==
    ASSUME TypeInv, SafeOK, PowerLoss
    PROVE  SafeOK'
<1>1. /\ pc' = "off" /\ running' = NoImage /\ fence' = fence
      /\ PowerLossEffect
  BY DEF PowerLoss
<1>2. /\ TornErase \in SUBSET Contents /\ 0 \in Units
      /\ \A i \in Images : TornProgram(i) \in SUBSET Contents
  BY ContentsType DEF TornErase, TornProgram
<1>3. ASSUME NEW u \in Units, NEW outcomes \in SUBSET Contents, Copying,
             Torn(xfer.to, u, outcomes)
      PROVE  JournalOK' /\ BackupOK'
  BY <1>1, <1>3, CopyKeepsBackup DEF Torn
<1>4. ASSUME NEW u, NEW outcomes, Torn("Staging", u, outcomes), pc \in {"app", "stageManifest"}
      PROVE  JournalOK' /\ BackupOK'
  <2>1. slot'["Active"] = slot["Active"] /\ slot'["Rollback"] = slot["Rollback"]
    BY <1>4 DEF Torn, WriteUnit, TypeOK, Slots
  <2>2. UNCHANGED <<journal, accepted>>
    BY <1>4 DEF Torn
  <2>3. ~StateIs("BackupReady")
    BY <1>4, ContentsType DEF ControlOK, SafeOK, RunningOK
  <2>4. QED
    BY <1>1, <2>1, <2>2, <2>3, BackupKept
<1>5. JournalOK' /\ BackupOK'
  <2>1. CASE UNCHANGED <<slot, journal, history>>
    BY <1>1, <2>1, BackupKept
  <2>2. CASE pc = "copyErase" /\ Torn(xfer.to, xfer.at, TornErase)
    BY <1>2, <1>3, <2>2, CopyContext DEF Copying
  <2>3. CASE /\ pc \in {"copyProgram", "copyManifest"}
             /\ Torn(xfer.to, xfer.at, TornProgram(xfer.image))
    <3>1. Copying
      BY <2>3 DEF Copying
    <3>2. xfer.at \in Units /\ TornProgram(xfer.image) \in SUBSET Contents
      BY <1>2, <3>1, CopyContext
    <3>3. QED
      BY <1>3, <2>3, <3>1, <3>2
  <2>4. CASE /\ pc \in {"app", "stageManifest"}
             /\ \/ Torn("Staging", rx.at, TornErase)
                \/ Torn("Staging", rx.at, TornProgram(rx.image))
                \/ Torn("Staging", 0, TornProgram(rx.image))
    BY <1>4, <2>4
  <2>5. CASE /\ journal' = [journal EXCEPT ![TargetSector] = Unreadable]
             /\ UNCHANGED <<slot, history>>
    <3>1. /\ JournalOK' /\ Current' = Current
          /\ \A s \in States : StateIs(s)' <=> StateIs(s)
      BY <2>5, EraseKeepsCurrent DEF SafeOK
    <3>2. BackupOK'
      BY <1>1, <2>5, <3>1
         DEF SafeOK, BackupOK, States, Holds, ImageValid, ValidUnits, PayloadMatches,
             PoolCompatible, Manifest
    <3>3. QED
      BY <3>1, <3>2
  <2>6. CASE pc = "journalProgram" /\ ProgramRecord /\ UNCHANGED slot
    BY <1>1, <2>6, ProgramRecordSafe
  <2>7. QED
    BY <1>1, <2>1, <2>2, <2>3, <2>4, <2>5, <2>6 DEF PowerLossEffect, Serving
<1>6. CopyOK' /\ CommitOK' /\ RunningOK'
  BY <1>1 DEF CopyOK, CommitOK, RunningOK, Copying, Committing
<1>7. QED
  BY <1>1, <1>5, <1>6 DEF SafeOK

-----------------------------------------------------------------------------
(* The invariant *)

LEMMA SafeInit == Init => SafeOK
<1> SUFFICES ASSUME Init PROVE SafeOK
  OBVIOUS
<1>1. PICK i \in Images, r \in OtherSlots, s \in OtherSlots :
          /\ PoolCompatible(i)
          /\ slot = [x \in Slots |-> CASE x = "Active" -> Holding(i)
                                       [] x = "Rollback" -> r
                                       [] x = "Staging" -> s]
          /\ journal = [k \in Sectors |-> IF k = "A" THEN FactoryRecord(i) ELSE Unreadable]
          /\ accepted = i
  BY DEF Init
<1>2. FactoryRecord(i) \in JournalRecord /\ FactoryRecord(i) # Unreadable
  BY SeqAssumption, ImagesAssumption
     DEF FactoryRecord, JournalRecord, States, Results
<1>3. /\ Readable("A") /\ ~Readable("B") /\ Current = FactoryRecord(i)
  BY <1>1, <1>2 DEF Readable, Current, CurrentSector, Sectors
<1>4. slot["Active"] = Holding(i)
  BY <1>1 DEF Slots
<1>5. Holding(i)[0] = i /\ \A u \in 1..PayloadLen[i] : Holding(i)[u] = i
  BY ContentsType DEF Holding
<1>6. Holds("Active", i)
  BY <1>1, <1>4, <1>5 DEF Holds, ImageValid, ValidUnits, PayloadMatches, Manifest
<1>7. JournalOK /\ BackupOK
  BY <1>1, <1>3, <1>6 DEF JournalOK, JournalValid, BackupOK, StateIs, FactoryRecord
<1>8. QED
  BY <1>7 DEF Init, SafeOK, CopyOK, CommitOK, RunningOK, Copying, Committing

\* Faults and damage are never undone.
LEMMA SoundBefore ==
    ASSUME TypeOK, [Next]_vars, Sound'
    PROVE  Sound /\ ~Damage /\ ~FlashFault
<1>1. damage \in Nat /\ faults \in Nat
  BY BudgetAssumption DEF TypeOK
<1>2. ~Damage /\ ~FlashFault
  BY <1>1 DEF Sound, Damage, FlashFault
<1>3. UNCHANGED <<damage, faults>>
  <2>1. CASE UNCHANGED vars
    BY <2>1
  <2>2. CASE LoaderStep \/ JournalErase
    BY <2>2 DEF LoaderStep, PowerOn, Boot, Install, CopyErase, CopyProgram, CopyManifest,
       LoaderCommit, StartActive, JournalErase
  <2>3. CASE AppStep
    BY <2>3 DEF AppStep, Confirm, ConfirmCommit, PendingCommit, Restart, MigrateRecord,
       MigrateRetry, MigrateGuard, Receive, ReceiveBegin, ReceiveManifest, ReceiveErase,
       ReceivePayload, ReceiveFinish, StageManifest, ReceiveAbort
  <2>4. CASE Environment
    BY <1>2, <2>4 DEF Environment, WatchdogReset, PowerLoss, PowerSettles
  <2>5. QED
    BY <2>1, <2>2, <2>3, <2>4 DEF Next
<1>4. QED
  BY <1>2, <1>3 DEF Sound

LEMMA SafeStep ==
    ASSUME IInv, [Next]_vars
    PROVE  IInv'
<1>1. TypeInv'
  BY TypeStep DEF IInv
<1>2. ASSUME Sound' PROVE SafeOK'
  <2>1. /\ TypeInv /\ SafeOK /\ ~Damage /\ ~FlashFault
    BY <1>2, SoundBefore DEF IInv
  <2>2. CASE UNCHANGED vars
    BY <2>1, <2>2
       DEF SafeOK, JournalOK, BackupOK, CopyOK, CommitOK, RunningOK, Copying, Committing,
           StateIs, Current, CurrentSector, Readable, JournalValid, Holds, ImageValid,
           ValidUnits, PayloadMatches, PoolCompatible, Manifest
  <2>3. CASE LoaderStep \/ JournalErase
    BY <2>1, <2>3, StartSafe, BootSafe, InstallSafe, CopyEraseSafe, CopyProgramSafe,
       CopyManifestSafe, JournalEraseSafe, CommitSafe DEF LoaderStep
  <2>4. CASE AppStep
    BY <2>1, <2>4, ConfirmSafe, CommitSafe, ReceiveSafe, StartSafe, MigrateSafe DEF AppStep
  <2>5. CASE Environment
    BY <2>1, <2>5, StartSafe, PowerLossSafe DEF Environment
  <2>6. QED
    BY <2>2, <2>3, <2>4, <2>5 DEF Next
<1>3. QED
  BY <1>1, <1>2 DEF IInv

\* Whatever the number and size of the builds, wherever the power is lost: the
\* journal, the slots, the copy, the commit and the running build agree.
THEOREM InvariantHolds == Spec => []IInv
<1>1. Init => IInv
  BY TypeInit, SafeInit DEF IInv
<1>2. IInv /\ [Next]_vars => IInv'
  BY SafeStep
<1>3. QED
  BY <1>1, <1>2, PTL DEF Spec

\* Power loss alone never leads to USB recovery.
THEOREM DeviceNeverStranded == Spec => []NeverStranded
<1>1. IInv => NeverStranded
  BY DEF IInv, SafeOK, NeverStranded
<1>2. QED
  BY <1>1, InvariantHolds, PTL

\* From BACKUP_READY to the confirmation the accepted build survives in rollback.
THEOREM BackupAlwaysKept == Spec => []RollbackKept
<1>1. IInv => RollbackKept
  BY DEF IInv, SafeOK, BackupOK, Holds, RollbackKept
<1>2. QED
  BY <1>1, InvariantHolds, PTL

\* CONFIRMED always describes the accepted build, whole in the active slot.
THEOREM ConfirmedAlwaysAccepted == Spec => []ConfirmedIsAccepted
<1>1. IInv => ConfirmedIsAccepted
  BY DEF IInv, SafeOK, BackupOK, Holds, ConfirmedIsAccepted
<1>2. QED
  BY <1>1, InvariantHolds, PTL

-----------------------------------------------------------------------------
(* Action properties *)

\* A step changes the journal by an erase of the older sector, or by a record.
LEMMA JournalStep ==
    ASSUME IInv, [Next]_vars, Sound'
    PROVE  \/ journal' = journal
           \/ journal' = [journal EXCEPT ![TargetSector] = Unreadable]
           \/ Committing /\ ProgramRecord
<1>1. ~Damage /\ ~FlashFault
  BY SoundBefore DEF IInv
<1>2. CASE UNCHANGED vars
  BY <1>2
<1>3. CASE LoaderStep \/ JournalErase
  BY <1>3 DEF LoaderStep, PowerOn, Boot, Install, CopyErase, CopyProgram, CopyManifest,
     LoaderCommit, StartActive, JournalErase, Committing
<1>4. CASE AppStep
  BY <1>4 DEF AppStep, Confirm, ConfirmCommit, PendingCommit, Restart, MigrateRecord,
     MigrateRetry, MigrateGuard, Receive, ReceiveBegin, ReceiveManifest, ReceiveErase,
     ReceivePayload, ReceiveFinish, StageManifest, ReceiveAbort, Committing
<1>5. CASE Environment
  BY <1>1, <1>5 DEF Environment, WatchdogReset, PowerLoss, PowerLossEffect, PowerSettles,
     Torn, Committing
<1>6. QED
  BY <1>2, <1>3, <1>4, <1>5 DEF Next

\* A commit, completed or interrupted, leaves the previous record or the new one
\* as the one the next boot selects.
THEOREM JournalCommitAtomic == Spec => JournalAtomic
<1>1. ASSUME IInv, [Next]_vars, Sound'
      PROVE  JournalValid' /\ Current' \in {Current, NewRecord}
  <2>1. TypeOK /\ ControlOK /\ JournalOK
    BY <1>1, SoundBefore DEF IInv, SafeOK
  <2>2. CASE journal' = journal
    BY <2>1, <2>2, JournalKept DEF JournalOK
  <2>3. CASE journal' = [journal EXCEPT ![TargetSector] = Unreadable]
    BY <2>1, <2>3, EraseKeepsCurrent
  <2>4. CASE Committing /\ ProgramRecord
    BY <2>1, <2>4, ProgramMakesCurrent DEF ProgramRecord, ControlOK, JournalOK
  <2>5. QED
    BY <1>1, <2>2, <2>3, <2>4, JournalStep
<1>2. IInv /\ [Next]_vars
        => [Sound' => JournalValid' /\ Current' \in {Current, NewRecord}]_vars
  BY <1>1
<1>3. QED
  BY <1>2, InvariantHolds, PTL DEF Spec, JournalAtomic

\* No step skips the backup, the trial or the confirmation.
THEOREM UpdateOrderKept == Spec => UpdateOrder
<1> DEFINE Order == {<<"Confirmed", "Pending">>, <<"Pending", "BackupReady">>,
                     <<"Pending", "Confirmed">>, <<"BackupReady", "Trial">>,
                     <<"Trial", "Confirmed">>}
<1>1. ASSUME IInv, [Next]_vars, Sound', Current'.state # Current.state
      PROVE  <<Current.state, Current'.state>> \in Order
  <2>1. TypeOK /\ ControlOK /\ SafeOK
    BY <1>1, SoundBefore DEF IInv
  <2>2. journal' # journal
    BY <1>1, JournalKept
  <2>3. journal' # [journal EXCEPT ![TargetSector] = Unreadable]
    BY <1>1, <2>1, EraseKeepsCurrent DEF SafeOK
  <2>4. Committing /\ ProgramRecord
    BY <1>1, <2>2, <2>3, JournalStep
  <2>5. Current'.state = commit.state /\ commit.state \in States
    BY <2>1, <2>4, ProgramMakesCurrent
       DEF ProgramRecord, ControlOK, SafeOK, JournalOK, NewRecord, Records
  <2>6. JournalValid /\ Current \in JournalRecord
    BY <2>1 DEF SafeOK, JournalOK, TypeOK, JournalValid, Current, CurrentSector, Readable,
       Sectors
  <2>7. Current.state \in States
    BY <2>6 DEF JournalRecord
  <2>8. QED
    BY <1>1, <2>1, <2>4, <2>5, <2>6, <2>7 DEF SafeOK, CommitOK, StateIs, States
<1>2. IInv /\ [Next]_vars
        => [Sound' /\ Current'.state # Current.state
              => <<Current.state, Current'.state>> \in Order]_vars
  BY <1>1
<1>3. QED
  BY <1>2, InvariantHolds, PTL DEF Spec, UpdateOrder

\* The active slot changes only under a journal record that finishes the job.
THEOREM ActiveSlotGuarded == Spec => ActiveGuarded
<1>1. ASSUME IInv, [Next]_vars, Sound', slot'["Active"] # slot["Active"]
      PROVE  /\ StateIs("BackupReady") \/ StateIs("Trial")
             /\ ImageValid("Rollback")
  <2>1. TypeInv /\ SafeOK /\ ~Damage /\ ~FlashFault
    BY <1>1, SoundBefore DEF IInv
  <2>2. ASSUME NEW u, NEW c, WriteUnit("Staging", u, c) PROVE FALSE
    BY <1>1, <2>1, <2>2 DEF WriteUnit, TypeOK, Slots
  <2>3. ASSUME Copying, NEW u, NEW c, WriteUnit(xfer.to, u, c)
        PROVE  xfer.to = "Active"
    BY <1>1, <2>1, <2>3, CopyContext DEF WriteUnit, TypeOK, Slots
  <2>4. Copying /\ xfer.to = "Active"
    <3>1. CASE LoaderStep \/ JournalErase
      BY <1>1, <2>3, <3>1 DEF LoaderStep, PowerOn, Boot, Install, CopyErase, CopyProgram,
         CopyManifest, LoaderCommit, StartActive, JournalErase, Copying
    <3>2. CASE AppStep
      BY <1>1, <2>2, <3>2 DEF AppStep, Confirm, ConfirmCommit, PendingCommit, Restart,
         MigrateRecord, MigrateRetry, MigrateGuard, Receive, ReceiveBegin, ReceiveManifest,
         ReceiveErase, ReceivePayload, ReceiveFinish, StageManifest, ReceiveAbort
    <3>3. CASE Environment
      BY <1>1, <2>1, <2>2, <2>3, <3>3 DEF Environment, WatchdogReset, PowerLoss,
         PowerLossEffect, PowerSettles, Torn, Copying
    <3>4. QED
      BY <1>1, <3>1, <3>2, <3>3 DEF Next
  <2>5. StateIs("BackupReady") \/ StateIs("Trial")
    BY <2>1, <2>4, CopyContext
  <2>6. QED
    BY <2>1, <2>5 DEF SafeOK, BackupOK, Holds
<1>2. IInv /\ [Next]_vars
        => [Sound' /\ slot'["Active"] # slot["Active"]
              => /\ StateIs("BackupReady") \/ StateIs("Trial")
                 /\ ImageValid("Rollback")]_vars
  BY <1>1
<1>3. QED
  BY <1>2, InvariantHolds, PTL DEF Spec, ActiveGuarded

-----------------------------------------------------------------------------
(* A candidate that is marked *)

\* The loader has no receiver, and marks nothing.
LEMMA LoaderMarksNothing ==
    ASSUME WornInv, running = NoImage
    PROVE  MarkedOK
BY DEF WornInv, ControlOK, WornOK, ReceiverOK, MarkedOK

\* StageManifest has read back what it wrote, and compared all of it.
LEMMA StageManifestMarks ==
    ASSUME WornInv, StageManifest
    PROVE  MarkedOK'
<1> DEFINE marked == PayloadMatches(slot'["Staging"], rx.image) /\ MarkAllowed(slot'["Staging"])
<1>1. /\ rx \in Receivers /\ rx.state = "Payload" /\ running # NoImage
      /\ UNCHANGED <<journal, running>>
  BY ContentsType DEF StageManifest, WornInv, TypeOK, ControlOK
<1>2. CASE slot'["Staging"][0] # rx.image \/ ~marked
  <2>1. pc' = "app" /\ \E b \in BOOLEAN : rx' = [rx EXCEPT !.state = "Failed", !.committed = b]
    BY <1>2 DEF StageManifest, ReceiveFails
  <2>2. rx'.state = "Failed"
    BY <1>1, <2>1 DEF Receivers
  <2>3. QED
    BY <2>1, <2>2 DEF MarkedOK, Committing
<1>3. CASE slot'["Staging"][0] = rx.image /\ marked
  <2>1. CASE AlreadyPending(rx.image)
    <3>1. pc' = "app" /\ rx' = [rx EXCEPT !.state = "Ready", !.committed = TRUE]
      BY <1>3, <2>1 DEF StageManifest
    <3>2. rx'.image = rx.image
      BY <1>1, <3>1 DEF Receivers
    <3>3. StateIs("Pending")' /\ Current'.image = rx.image
      BY <1>1, <2>1, JournalKept DEF AlreadyPending, States
    <3>4. QED
      BY <1>1, <1>3, <3>1, <3>2, <3>3 DEF MarkedOK, StagedWhole, Committing, Manifest
  <2>2. CASE ~AlreadyPending(rx.image) /\ (JournalValid => StateIs("Confirmed"))
    <3>1. /\ commit' = [state |-> "Pending", image |-> rx.image, result |-> "None"]
          /\ rx' = [rx EXCEPT !.committed = TRUE]
      BY <1>3, <2>2 DEF StageManifest, BeginCommit
    <3>2. rx'.image = rx.image /\ rx'.state = "Payload" /\ commit'.image = rx.image
      BY <1>1, <3>1 DEF Receivers
    <3>3. QED
      BY <1>3, <3>2 DEF MarkedOK, StagedWhole, Manifest
  <2>3. CASE ~AlreadyPending(rx.image) /\ ~(JournalValid => StateIs("Confirmed"))
    <3>1. pc' = "app" /\ rx' = [rx EXCEPT !.state = "Failed", !.committed = TRUE]
      BY <1>3, <2>3 DEF StageManifest, ReceiveFails
    <3>2. rx'.state = "Failed"
      BY <1>1, <3>1 DEF Receivers
    <3>3. QED
      BY <3>1, <3>2 DEF MarkedOK, Committing
  <2>4. QED
    BY <2>1, <2>2, <2>3
<1>4. QED
  BY <1>2, <1>3

\* No other step of the receiver answers READY, and none is taken once it has.
LEMMA ReceiveMarks ==
    ASSUME WornInv, Receive
    PROVE  MarkedOK'
<1>1. rx \in Receivers
  BY DEF WornInv, TypeOK
<1>2. CASE StageManifest
  BY <1>2, StageManifestMarks
<1>3. CASE ReceiveBegin \/ ReceiveAbort
  BY <1>3 DEF ReceiveBegin, ReceiveAbort, Serving, RxInit, MarkedOK, Committing
<1>4. ASSUME NEW i \in Images, ReceiveManifest(i) PROVE MarkedOK'
  <2>1. pc' = "app" /\ rx'.state \in {"Failed", "Erasing"}
    BY <1>1, <1>4 DEF ReceiveManifest, Serving, Receivers
  <2>2. QED
    BY <2>1 DEF MarkedOK, Committing
<1>5. CASE ReceiveErase
  <2>1. pc' = "app" /\ rx'.state \in {"Erasing", "Payload"}
    BY <1>1, <1>5 DEF ReceiveErase, Serving, Receivers
  <2>2. QED
    BY <2>1 DEF MarkedOK, Committing
<1>6. ASSUME NEW data \in {rx.image, Junk}, ReceivePayload(data) PROVE MarkedOK'
  <2>1. /\ pc' = "app" /\ rx.state = "Payload"
        /\ \/ rx' = [rx EXCEPT !.state = "Failed"]
           \/ rx' = [rx EXCEPT !.at = @ + 1, !.intact = IF data = rx.image THEN @ ELSE FALSE]
    BY <1>6 DEF ReceivePayload, Serving
  <2>2. rx'.state \in {"Failed", "Payload"}
    BY <1>1, <2>1 DEF Receivers
  <2>3. QED
    BY <2>1, <2>2 DEF MarkedOK, Committing
<1>7. CASE ReceiveFinish
  <2>1. pc' \in {"app", "stageManifest"} /\ rx'.state \in {"Failed", "Payload"}
    BY <1>1, <1>7 DEF ReceiveFinish, Serving, Receivers
  <2>2. QED
    BY <2>1 DEF MarkedOK, Committing
<1>8. QED
  BY <1>2, <1>3, <1>4, <1>5, <1>6, <1>7 DEF Receive

\* The steps of the application that may find a candidate marked.
LEMMA MarkKept ==
    ASSUME WornInv, MarkedOK, running # NoImage,
           \/ JournalErase \/ Confirm \/ ConfirmCommit \/ PendingCommit
           \/ MigrateRecord \/ MigrateRetry \/ MigrateGuard \/ PowerSettles
    PROVE  MarkedOK'
<1>1. slot' = slot /\ running' = running
  BY DEF JournalErase, Confirm, ConfirmCommit, PendingCommit, MigrateRecord, MigrateRetry,
     MigrateGuard, PowerSettles
<1>2. (rx'.image = rx.image) => (StagedWhole' <=> StagedWhole)
  BY <1>1 DEF StagedWhole, Manifest, PayloadMatches
<1>3. CASE JournalErase
  <2>1. /\ pc = "journalErase" /\ pc' = "journalProgram" /\ UNCHANGED <<commit, rx>>
    BY <1>3 DEF JournalErase
  <2>2. QED
    BY <1>2, <2>1 DEF MarkedOK, Committing
<1>4. CASE ConfirmCommit
  <2>1. pc = "journalProgram" /\ pc' = "app" /\ UNCHANGED rx
    BY <1>4 DEF ConfirmCommit
  <2>2. QED
    BY <2>1 DEF MarkedOK, Committing
<1>5. CASE PendingCommit
  <2>1. /\ pc = "journalProgram" /\ pc' = "app" /\ commit.state = "Pending" /\ ProgramRecord
        /\ rx' = [rx EXCEPT !.state = "Ready"]
    BY <1>5 DEF PendingCommit
  <2>2. commit \in Records /\ Committing /\ commit.image = rx.image /\ StagedWhole
    BY <2>1 DEF WornInv, ControlOK, MarkedOK, Committing
  <2>3. rx'.image = rx.image
    BY <2>1 DEF WornInv, TypeOK, Receivers
  <2>4. Current' = NewRecord /\ StateIs("Pending")'
    BY <2>1, <2>2, ProgramMakesCurrent DEF WornInv, WornOK, ProgramRecord, States
  <2>5. Current'.image = rx.image
    BY <2>2, <2>4 DEF NewRecord
  <2>6. QED
    BY <1>1, <1>2, <2>1, <2>2, <2>3, <2>4, <2>5 DEF MarkedOK, Committing
<1>6. CASE Confirm
  <2>1. /\ pc = "app" /\ UNCHANGED <<journal, rx>>
        /\ \/ RunningIsTrial /\ commit'.state = "Confirmed"
           \/ pc' = "app"
    BY <1>6 DEF Confirm, BeginCommit
  <2>2. StateIs("Pending")' <=> StateIs("Pending")
    BY <2>1, JournalKept DEF States
  <2>3. RunningIsTrial => rx.state # "Ready"
    BY DEF RunningIsTrial, StateIs, MarkedOK
  <2>4. Current' = Current
    BY <2>1, JournalKept
  <2>5. QED
    BY <1>1, <1>2, <2>1, <2>2, <2>3, <2>4 DEF MarkedOK, Committing
<1>7. CASE MigrateRecord \/ MigrateRetry \/ MigrateGuard \/ PowerSettles
  <2>1. UNCHANGED <<journal, pc, commit, rx>>
    BY <1>7 DEF MigrateRecord, MigrateRetry, MigrateGuard, PowerSettles
  <2>2. Current' = Current /\ (StateIs("Pending")' <=> StateIs("Pending"))
    BY <2>1, JournalKept DEF States
  <2>3. QED
    BY <1>1, <1>2, <2>1, <2>2 DEF MarkedOK, Committing
<1>8. QED
  BY <1>3, <1>4, <1>5, <1>6, <1>7

LEMMA UpdateStep ==
    ASSUME UpdateInv, [Next]_vars
    PROVE  UpdateInv'
<1>1. IInv' /\ WornInv'
  BY SafeStep, WornStep DEF UpdateInv
<1>2. ASSUME Sound' PROVE MarkedOK'
  <2>1. WornInv /\ MarkedOK /\ ~Damage /\ ~FlashFault
    BY <1>2, SoundBefore DEF UpdateInv, IInv
  <2>2. CASE running' = NoImage
    BY <1>1, <2>2 DEF WornInv, ControlOK, WornOK, ReceiverOK, MarkedOK, Committing
  <2>3. CASE UNCHANGED vars
    <3>1. UNCHANGED <<slot, journal, pc, commit, running, rx>>
      BY <2>3
    <3>2. Current' = Current /\ (StateIs("Pending")' <=> StateIs("Pending"))
      BY <3>1, JournalKept DEF States
    <3>3. QED
      BY <2>1, <3>1, <3>2 DEF MarkedOK, Committing, StagedWhole, Manifest, PayloadMatches
  <2>4. CASE StartActive
    <3>1. pc' = "app" /\ UNCHANGED rx /\ running = NoImage
      BY <2>1, <2>4 DEF StartActive, WornInv, WornOK, StartedOK
    <3>2. rx'.state = "Idle"
      BY <2>1, <3>1 DEF WornInv, WornOK, ReceiverOK
    <3>3. QED
      BY <3>1, <3>2 DEF MarkedOK, Committing
  <2>5. CASE Receive
    BY <2>1, <2>5, ReceiveMarks
  <2>6. CASE running' # NoImage /\ ~StartActive /\ ~Receive /\ ~UNCHANGED vars
    <3>1. /\ running # NoImage
          /\ \/ JournalErase \/ Confirm \/ ConfirmCommit \/ PendingCommit
             \/ MigrateRecord \/ MigrateRetry \/ MigrateGuard \/ PowerSettles
      <4>1. ~LoaderStep
        BY <2>1, <2>6
           DEF LoaderStep, PowerOn, Boot, Install, CopyErase, CopyProgram, CopyManifest,
               LoaderCommit, WornInv, WornOK, StartedOK
      <4>2. ~Restart /\ ~WatchdogReset /\ ~PowerLoss
        BY <2>6 DEF Restart, WatchdogReset, PowerLoss
      <4>3. /\ \/ JournalErase \/ Confirm \/ ConfirmCommit \/ PendingCommit
               \/ MigrateRecord \/ MigrateRetry \/ MigrateGuard \/ PowerSettles
        BY <2>1, <2>6, <4>1, <4>2 DEF Next, AppStep, Environment
      <4>4. running' = running
        BY <4>3 DEF JournalErase, Confirm, ConfirmCommit, PendingCommit, MigrateRecord,
           MigrateRetry, MigrateGuard, PowerSettles
      <4>5. QED
        BY <2>6, <4>3, <4>4
    <3>2. QED
      BY <2>1, <3>1, MarkKept
  <2>7. QED
    BY <2>2, <2>3, <2>4, <2>5, <2>6
<1>3. QED
  BY <1>1, <1>2 DEF UpdateInv

\* Everything the update relies on, together.
THEOREM UpdateInvariant == Spec => []UpdateInv
<1>1. Init => UpdateInv
  <2>1. Init => IInv /\ WornInv
    BY TypeInit, SafeInit, WornInit DEF IInv
  <2>2. Init /\ WornInv => MarkedOK
    BY LoaderMarksNothing DEF Init
  <2>3. QED
    BY <2>1, <2>2 DEF UpdateInv
<1>2. UpdateInv /\ [Next]_vars => UpdateInv'
  BY UpdateStep
<1>3. QED
  BY <1>1, <1>2, PTL DEF Spec

\* READY is answered only for a candidate that is whole and durably PENDING, and
\* it stays so until the restart that installs it.
THEOREM ReadyIsPending == Spec => []ReadyMeansPending
<1>1. UpdateInv => ReadyMeansPending
  BY DEF UpdateInv, MarkedOK, StagedWhole, ReadyMeansPending
<1>2. QED
  BY <1>1, UpdateInvariant, PTL
=============================================================================
