------------------------- MODULE TransferInvariant --------------------------
(***************************************************************************)
(* The inductive invariants of the transfers from the K2: what the        *)
(* uploader and the session, the program and the receiver rely on.         *)
(***************************************************************************)
EXTENDS FirmwareTransfer

\* The first command is not answered by an older reply: the FIFOs have just been
\* reset.  A failing page whose frame is answered by an older reply is what
\* transfer_doc_resend is about.
FaultsApart ==
    \A f \in Faults : "abort" \notin f.stale /\ ~(f.flash /\ "data" \in f.stale)

-----------------------------------------------------------------------------
(* The core transfer *)

\* The session of an interrupted transfer has been ended.
Opened == {"begin", "confirmBegin", "data", "end", "confirmEnd"}

WantStored == stored[want.slot] = Content(want.file)

\* The counters, where the program is.
UploaderOK ==
    /\ pc \in Running => want.file \in Files /\ want.slot \in Slots
    /\ pc \in Running \ {"failing"} => retry < MaxRetries
    /\ pc \in {"abort", "begin", "confirmBegin"} => sent = 0
    /\ pc = "data" => sent < Length[want.file]

\* The session is that of this transfer, and what has been counted is in flash or in
\* the page buffer.  (A failing page leaves the buffer full: the transfer fails.)
SessionOK ==
    pc \in Opened /\ session.active =>
        /\ session.file = want.file /\ session.slot = want.slot
        /\ session.open => session.flash \o session.page = session.got

\* The status register is not ahead of the session while it opens, nor behind it
\* while it closes, and the session closes only with the core stored.
StatusOK ==
    /\ pc \in {"begin", "confirmBegin"} => (busy => session.active)
    /\ pc = "data" => session.active /\ busy
    /\ pc \in {"end", "confirmEnd"} => IF session.active THEN busy ELSE WantStored

CoreInv ==
    /\ TypeOK
    /\ stored \in [Slots -> Contents]
    /\ UploaderOK
    /\ SessionOK
    /\ StatusOK
    /\ SuccessMeansStored

-----------------------------------------------------------------------------
(* The firmware transfer *)

PackageUnits == Packages \X Nat

\* The counters, where the program is.
ProgramOK ==
    /\ step \in Staging => package \in Packages /\ accepted \in 0..Total(package)
    /\ step \in {"info", "begin"} => accepted = 0
    /\ step \in {"data", "recover"} => accepted < Total(package)
    /\ step \in Staging \ {"abort"} => tries < MaxRetries

Receivers ==
    [state: {"idle", "manifest", "erasing", "payload", "ready", "failed"}, size: Nat,
     got: Seq(PackageUnits), page: Seq(PackageUnits), erased: 0..StagingSectors,
     committed: BOOLEAN]

StagingSlots ==
    [manifest: Packages \cup {NoPackage}, payload: Seq(PackageUnits \cup {Blank})]

\* Before the first sector is erased the slot holds what it held.
ErasingOK(r, st) ==
    /\ r.page = <<>>
    /\ Len(r.got) = ManifestSize
    /\ r.erased > 0 => st.payload = <<>>

\* What has been counted is in flash or in the page buffer.
PayloadOK(r, st) ==
    /\ Len(r.got) >= ManifestSize
    /\ st.payload \o r.page = Payload(r.got)

\* Ready is a whole package, and pending.
ReadyOK(r, st, p) ==
    r.committed /\ p = st.manifest /\ p # NoPackage /\ StagedWhole(st, p)

\* A receiver, a staging slot and a journal that fit together.
ManagerOK(r, st, p) ==
    /\ r \in Receivers /\ st \in StagingSlots /\ p \in Packages \cup {NoPackage}
    /\ Len(r.got) <= r.size
    /\ Len(r.page) <= PageSize /\ (r.state # "failed" => Len(r.page) < PageSize)
    /\ r.state = "manifest" => r.page = <<>> /\ r.erased = 0
    /\ r.state = "erasing" => ErasingOK(r, st)
    /\ r.state = "payload" => PayloadOK(r, st)
    /\ r.state = "ready" => ReadyOK(r, st, p)

First(p, n) == SubSeq(Data(p), 1, n)

\* The receiver has the beginning of the package that is sent: all that has been
\* acknowledged, and perhaps the frame in doubt.
PrefixOK ==
    step \in {"data", "recover", "erasing", "resync", "end"} /\ Receiving =>
        \/ receiver.got = First(package, accepted)
        \/ step = "recover" /\ receiver.got = First(package, accepted + Len(Frame))

OfferOK ==
    /\ step \in {"offer", "staged"} => receiver.state = "ready"
    /\ step = "staged" => pending = package

FirmwareInv ==
    ProgramOK /\ ManagerOK(receiver, staging, pending) /\ PrefixOK /\ OfferOK

TransferInv == CoreInv /\ TransferTypes /\ FirmwareInv
=============================================================================
