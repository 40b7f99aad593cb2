----------------------- MODULE UpdateEngineInvariant ------------------------
(***************************************************************************)
(* The inductive invariants of UpdateEngine: what every control point       *)
(* relies on.  ControlOK and WornOK hold whatever happens to the flash;     *)
(* SafeOK and MarkedOK hold as long as no cell rots and no flash operation  *)
(* fails.                                                                   *)
(***************************************************************************)
EXTENDS UpdateEngine

Copying == pc \in {"copyErase", "copyProgram", "copyManifest"}
Committing == pc \in {"journalErase", "journalProgram"}

\* The slot holds the whole of image i, and i may run.
Holds(s, i) == ImageValid(s) /\ Manifest(s) = i

\* Types that depend on the control point.
ControlOK ==
    /\ Copying =>
          /\ xfer \in Transfers
          /\ commit \in Records
          /\ commit.state # "Pending"
          /\ xfer.to # "Active" => commit.state = "BackupReady"
          /\ xfer.at <= PayloadLen[xfer.image]
          /\ pc = "copyProgram" => xfer.at > 0
          /\ pc = "copyManifest" => xfer.at = 0
    /\ Committing =>
          /\ commit \in Records
          /\ running = NoImage => commit.state # "Pending"
          /\ running = NoImage /\ commit.state # "BackupReady" => ManifestValid("Active")
    /\ pc = "start" => ManifestValid("Active")
    /\ pc \in {"app", "stageManifest"} => running \in Images
    /\ rx.state = "Manifest" => rx.at = 0
    /\ rx.state \in {"Erasing", "Payload"} =>
          /\ rx.image \in Images
          /\ rx.state = "Erasing" => rx.at <= PayloadLen[rx.image]
          /\ rx.state = "Payload" => rx.at \in 1..(PayloadLen[rx.image] + 1)
    /\ pc = "stageManifest" => rx.state = "Payload"

\* Two readable sectors hold consecutive records, so the newer one is well defined.
Consecutive ==
    Readable("A") /\ Readable("B") =>
        \/ journal["A"].seq = NextSeq(journal["B"].seq)
        \/ journal["B"].seq = NextSeq(journal["A"].seq)

JournalOK == JournalValid /\ Consecutive

\* What each journal state promises the next boot.
BackupOK ==
    /\ StateIs("Confirmed") => Holds("Active", accepted) /\ Current.image = accepted
    /\ StateIs("Pending") => Holds("Active", accepted)
    /\ StateIs("BackupReady") \/ StateIs("Trial") => Holds("Rollback", accepted)
    /\ StateIs("BackupReady") => Holds("Staging", Current.image)

\* A copy has done what its position says.
Copied ==
    /\ pc = "copyErase" =>
          \A u \in 0..(xfer.at - 1) : slot[xfer.to][u] = Erased
    /\ pc = "copyProgram" =>
          /\ slot[xfer.to][0] = Erased
          /\ \A u \in 1..(xfer.at - 1) : slot[xfer.to][u] = xfer.image
          /\ \A u \in xfer.at..PayloadLen[xfer.image] : slot[xfer.to][u] = Erased
    /\ pc = "copyManifest" =>
          /\ slot[xfer.to][0] = Erased
          /\ PayloadMatches(slot[xfer.to], xfer.image)

\* A copy reads a whole image, towards a record that the journal is ready for.
CopyOK ==
    Copying =>
        /\ Holds(xfer.from, xfer.image)
        /\ \/ /\ xfer.from = "Active" /\ xfer.to = "Rollback"
              /\ commit.state = "BackupReady"
              /\ StateIs("Pending") /\ Holds("Staging", commit.image)
           \/ /\ xfer.from = "Staging" /\ xfer.to = "Active"
              /\ commit.state = "Trial" /\ commit.image = xfer.image
              /\ StateIs("BackupReady")
           \/ /\ xfer.from = "Rollback" /\ xfer.to = "Active"
              /\ commit.state = "Confirmed" /\ commit.result = "RolledBack"
              /\ commit.image = xfer.image
              /\ StateIs("Trial")
        /\ Copied

\* A record is committed only when its promise to the next boot already holds.
CommitOK ==
    Committing =>
        /\ commit.state = "Confirmed" =>
              /\ Holds("Active", commit.image)
              /\ StateIs("Pending") \/ StateIs("Trial")
              /\ commit.result = "RolledBack" => commit.image = accepted
        /\ commit.state = "Pending" => StateIs("Confirmed")
        /\ commit.state = "BackupReady" =>
              StateIs("Pending") /\ Holds("Rollback", accepted) /\ Holds("Staging", commit.image)
        /\ commit.state = "Trial" =>
              StateIs("BackupReady") /\ Holds("Active", commit.image)

\* What runs is what the active slot holds, and the journal knows about a trial.
RunningOK ==
    /\ pc = "install" => StateIs("BackupReady")
    /\ pc = "start" =>
          \/ StateIs("Confirmed")
          \/ StateIs("Trial") /\ Holds("Active", Current.image)
    /\ running # NoImage =>
          /\ pc \in {"app", "stageManifest", "journalErase", "journalProgram"}
          /\ Holds("Active", running)
          /\ StateIs("Trial") => trial # "no"
          /\ ~StateIs("BackupReady")

SafeOK ==
    /\ JournalOK
    /\ BackupOK
    /\ CopyOK
    /\ CommitOK
    /\ RunningOK
    /\ pc # "usb"

IInv == TypeOK /\ ControlOK /\ (Sound => SafeOK)

-----------------------------------------------------------------------------
(* Once cells rot and flash operations fail *)

\* A manifest is in place only over a payload that was completely written.
Intact(s) ==
    ManifestValid(s) =>
        \A u \in 1..PayloadLen[Manifest(s)] : slot[s][u] \in {Manifest(s), Rotten}

\* The loader lets nothing rot while it copies.
CopyHolds ==
    Copying =>
        /\ running = NoImage
        /\ xfer.from # xfer.to /\ xfer.to # "Staging"
        /\ Holds(xfer.from, xfer.image)
        /\ commit.state = "BackupReady" => ImageValid("Staging")
        /\ commit.result # "Installed"
        /\ Copied

\* What the loader relies on where it does not look again.
LoaderOK ==
    /\ Committing /\ running = NoImage =>
          /\ commit.state = "BackupReady" => ImageValid("Staging")
          /\ commit.state # "BackupReady" => PoolCompatible(Manifest("Active"))
          /\ commit.result # "Installed"
    /\ pc = "install" => ImageValid("Staging")
    /\ pc = "start" => PoolCompatible(Manifest("Active"))

\* The receiver takes the manifest of the old candidate away first, and has seen
\* what it wrote.
ReceiverOK ==
    /\ running = NoImage => rx.state = "Idle"
    /\ rx.state = "Erasing" /\ rx.at > 0 => ~ManifestValid("Staging")
    /\ rx.state = "Payload" /\ ~(Committing /\ commit.state = "Pending") =>
          /\ ~ManifestValid("Staging")
          /\ rx.intact =>
                \A u \in 1..(rx.at - 1) : slot["Staging"][u] \in {rx.image, Rotten}
    /\ pc = "stageManifest" => rx.at = PayloadLen[rx.image] + 1 /\ rx.intact

\* What runs may run, nothing else took its slot, and what is confirmed is running.
StartedOK ==
    running # NoImage =>
        /\ pc \in {"app", "stageManifest", "journalErase", "journalProgram"}
        /\ PoolCompatible(running)
        /\ Manifest("Active") \in {running, Rotten}
        /\ trial = "yes" => tried
        /\ Committing /\ commit.state = "Confirmed" =>
              tried /\ commit.image = running /\ ImageValid("Active")

WornOK ==
    /\ Consecutive
    /\ \A s \in Slots : Intact(s)
    /\ CopyHolds
    /\ LoaderOK
    /\ ReceiverOK
    /\ StartedOK
    /\ UsbMeansBackupLost

WornInv == TypeOK /\ ControlOK /\ WornOK

-----------------------------------------------------------------------------
(* A candidate that is marked *)

StagedWhole ==
    Manifest("Staging") = rx.image /\ PayloadMatches(slot["Staging"], rx.image)

\* The candidate stays whole from the mark to the restart.
MarkedOK ==
    /\ Committing /\ commit.state = "Pending" => commit.image = rx.image /\ StagedWhole
    /\ rx.state = "Ready" =>
          /\ pc = "app" /\ running # NoImage
          /\ StateIs("Pending") /\ Current.image = rx.image /\ StagedWhole

\* Everything an update relies on, as the proofs need it: in sound flash, a journal,
\* slots, copies and commits that agree, and a marked candidate that stays whole;
\* whatever rots or fails, no manifest over a payload that is not its own.
UpdateInv == IInv /\ WornInv /\ (Sound => MarkedOK)
=============================================================================
