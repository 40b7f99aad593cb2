-------------------------- MODULE FirmwareTransfer --------------------------
(***************************************************************************)
(* A firmware package sent from the K2 to the staging slot: the "U"        *)
(* command of the core manager (k2coremgr.asm), the FIRMWARE commands of   *)
(* the supervisor (supervisor_service.cpp), and the receiver               *)
(* (firmware_staging.cpp), beside the core transfers of ImageTransfer: the *)
(* K2 runs one program at a time, and the supervisor keeps the sessions of *)
(* both.                                                                   *)
(*                                                                         *)
(* Every request carries a nonce that its reply repeats, so that no reply  *)
(* is taken for another's; every reply carries the receiver's state and    *)
(* offset, from which a program that lost one goes on.                     *)
(***************************************************************************)
EXTENDS ImageTransfer

CONSTANTS
    Packages,       \* firmware packages on the K2's card
    PayloadSize,    \* units of payload in each
    ManifestSize,   \* units of the manifest sector (4096 bytes)
    StagingSectors, \* sectors the receiver erases
    NoPackage

ASSUME PackageAssumption ==
    /\ PayloadSize \in [Packages -> Nat \ {0}]
    /\ ManifestSize \in Nat \ {0} /\ StagingSectors \in Nat \ {0}
    /\ NoPackage \notin Packages

VARIABLES
    \* The manager.
    receiver,   \* FirmwareStagingReceiver: state_, package_size_, the data received,
                \* page_, erase_offset_ and manifest_committed_
    staging,    \* the staging slot: the package its manifest names, and the payload
    pending,    \* the package the update journal names as PENDING
    \* The K2.
    step,       \* where the program is
    package,    \* the package it was started for
    accepted,   \* uploaded_size, in units
    tries       \* transfer_retry

manager == <<receiver, staging, pending>>
program == <<step, package, accepted, tries>>
firmware == <<manager, program>>
allVars == <<vars, firmware>>

Total(p) == ManifestSize + PayloadSize[p]

Data(p) == [n \in 1..Total(p) |-> <<p, n>>]

Payload(data) == SubSeq(data, ManifestSize + 1, Len(data))

Receiving == receiver.state \in {"manifest", "erasing", "payload"}

\* The steps in which the program runs.
Staging == {"info", "begin", "data", "recover", "erasing", "resync", "end", "abort"}

Erased == [manifest |-> NoPackage, payload |-> <<>>]

NoReceiver == [state |-> "idle", size |-> 0, got |-> <<>>, page |-> <<>>,
               erased |-> 0, committed |-> FALSE]

FirmwareInit ==
    /\ receiver = NoReceiver
    /\ staging = Erased
    /\ pending = NoPackage
    /\ step = "off" /\ package = NoPackage /\ accepted = 0 /\ tries = 0

K2Init == Init /\ FirmwareInit

-----------------------------------------------------------------------------
(* The receiver: each command gives a set of possible results *)

Outcome(r, st, pend, ok) == [receiver |-> r, staging |-> st, pending |-> pend, ok |-> ok]

Became(r) == Outcome(r, staging, pending, TRUE)

Same(ok) == Outcome(receiver, staging, pending, ok)

Refusal == Same(FALSE)

Failure(r, st, pend) == Outcome([r EXCEPT !.state = "failed"], st, pend, FALSE)

\* Of a slot without a manifest nobody reads the rest.
Remains == IF staging.manifest = NoPackage THEN Erased ELSE staging

Settled == receiver.state = "ready" \/ receiver.committed

\* FirmwareStagingReceiver::begin, unless an upload holds the supervisor.
BeginReceive(p) ==
    IF session.active \/ Settled \/ pending # NoPackage THEN {Refusal}
    ELSE {Became([NoReceiver EXCEPT !.state = "manifest", !.size = Total(p)])}

\* The manifest sector is complete: it must be that of a package of the size announced.
ManifestReceived(r) ==
    IF \E p \in Packages : Total(p) = r.size /\ r.got = SubSeq(Data(p), 1, ManifestSize)
    THEN {Became([r EXCEPT !.state = "erasing"])}
    ELSE {Failure(r, staging, pending)}

\* program_payload_page with the frame's part that fills the page, and what follows
\* when it succeeds.
PageWritten(r, part, rest) ==
    LET page == receiver.page \o part
    IN  {Outcome([r EXCEPT !.page = rest], [staging EXCEPT !.payload = @ \o page], pending, TRUE)}
        \cup If(faults.flash, Failure([receiver EXCEPT !.got = @ \o part, !.page = page],
                                      staging, pending))

\* Mutant of WriteReceive: what is left of a frame behind a full page is forgotten.
WriteReceiveTruncated(offset, frame) ==
    LET r == [receiver EXCEPT !.got = @ \o frame]
        room == PageSize - Len(receiver.page)
    IN  IF \/ receiver.state \notin {"manifest", "payload"}
           \/ offset # Len(receiver.got)
           \/ Len(r.got) > receiver.size
           \/ receiver.state = "manifest" /\ Len(r.got) > ManifestSize
        THEN {Refusal}
        ELSE IF receiver.state = "manifest"
        THEN IF Len(r.got) = ManifestSize THEN ManifestReceived(r) ELSE {Became(r)}
        ELSE IF Len(frame) < room THEN {Became([r EXCEPT !.page = @ \o frame])}
        ELSE PageWritten(r, SubSeq(frame, 1, room), <<>>)

\* FirmwareStagingReceiver::write.
WriteReceive(offset, frame) ==
    LET r == [receiver EXCEPT !.got = @ \o frame]
        room == PageSize - Len(receiver.page)
    IN  IF \/ receiver.state \notin {"manifest", "payload"}
           \/ offset # Len(receiver.got)
           \/ Len(r.got) > receiver.size
           \/ receiver.state = "manifest" /\ Len(r.got) > ManifestSize
        THEN {Refusal}
        ELSE IF receiver.state = "manifest"
        THEN IF Len(r.got) = ManifestSize THEN ManifestReceived(r) ELSE {Became(r)}
        ELSE IF Len(frame) < room THEN {Became([r EXCEPT !.page = @ \o frame])}
        ELSE PageWritten(r, SubSeq(frame, 1, room), SubSeq(frame, room + 1, Len(frame)))

\* The package the received manifest belongs to.
Received == receiver.got[1][1]

HashMatches == Payload(receiver.got) = Payload(Data(Received))

\* validate_firmware_image: the slot holds the payload of its manifest.
StagedWhole(st, p) ==
    /\ Len(st.payload) >= PayloadSize[p]
    /\ SubSeq(st.payload, 1, PayloadSize[p]) = Payload(Data(p))

\* What the flash may hold behind a failed operation: the old or the new.
Doubt(old, new) == If(faults.flash, old) \cup If(faults.flash, new)

\* The rest of finish, once the last page is in flash: manifest, check, journal.
SealResults(st) ==
    LET sealed == [st EXCEPT !.manifest = Received]
        full == [receiver EXCEPT !.page = <<>>]
        done == [full EXCEPT !.committed = TRUE]
    IN  IF ~HashMatches THEN {Failure(full, st, pending)}
        ELSE {Failure(full, torn, pending) : torn \in Doubt(st, sealed)}
             \cup (IF StagedWhole(sealed, Received)
                   THEN {Outcome([done EXCEPT !.state = "ready"], sealed, Received, TRUE)}
                        \cup {Failure(done, sealed, p) : p \in Doubt(pending, Received)}
                   ELSE {Failure(done, sealed, pending)})

\* FirmwareStagingReceiver::finish.
FinishReceive ==
    IF receiver.state # "payload" \/ Len(receiver.got) # receiver.size THEN {Refusal}
    ELSE IF receiver.page = <<>> THEN SealResults(staging)
    ELSE SealResults([staging EXCEPT !.payload = @ \o Padded(receiver.page)])
         \cup If(faults.flash, Failure(receiver, staging, pending))

\* FirmwareStagingReceiver::abort.
AbortReceive ==
    IF Settled THEN {Refusal} ELSE {Outcome(NoReceiver, Remains, pending, TRUE)}

Inform == {Same(TRUE)}

\* Mutant of ServiceStep: the last sector is not followed by the payload.
ServiceStepStalls ==
    /\ receiver.state = "erasing" /\ receiver.erased < StagingSectors
    /\ staging' = Erased
    /\ \/ receiver' = [receiver EXCEPT !.erased = @ + 1]
       \/ faults.flash /\ receiver' = [receiver EXCEPT !.state = "failed"]
    /\ UNCHANGED <<vars, pending, program>>

\* FirmwareStagingReceiver::service_step, before each transaction.  The first sector
\* takes the manifest with it, and nobody reads the rest.
ServiceStep ==
    /\ receiver.state = "erasing"
    /\ \/ /\ receiver.erased = StagingSectors
          /\ receiver' = [receiver EXCEPT !.state = "payload"]
          /\ UNCHANGED staging
       \/ /\ receiver.erased < StagingSectors
          /\ staging' = Erased
          /\ \/ receiver' = [receiver EXCEPT !.erased = @ + 1]
             \/ faults.flash /\ receiver' = [receiver EXCEPT !.state = "failed"]
    /\ UNCHANGED <<vars, pending, program>>

-----------------------------------------------------------------------------
(* mailbox_command_response *)

NoReply == [ok |-> FALSE, state |-> "none", offset |-> 0]

StatusOf(o) == [ok |-> o.ok, state |-> o.receiver.state, offset |-> Len(o.receiver.got)]

\* The command is carried out and answered.
Answered(results) == {[outcome |-> o, reply |-> StatusOf(o)] : o \in results}

\* Its reply is lost or does not repeat the nonce, or the command itself is lost.
Unanswered(results) ==
    {[outcome |-> o, reply |-> NoReply] : o \in results \cup {Refusal}}

Request(results) == Answered(results) \cup Unanswered(results)

Happens(o) == receiver' = o.receiver /\ staging' = o.staging /\ pending' = o.pending

-----------------------------------------------------------------------------
(* The program *)

GoOn(to) == step' = to /\ UNCHANGED <<package, accepted, tries>>

\* The program ends; its counters are set anew when it is started again.
Stop(at) == step' = at /\ accepted' = 0 /\ tries' = 0 /\ UNCHANGED package

\* "U" on a package: READY means an earlier one waits to be applied.
PressU(p) ==
    /\ step \notin Staging /\ pc \notin Running
    /\ step' = "info" /\ package' = p /\ accepted' = 0 /\ tries' = 0
    /\ UNCHANGED <<vars, manager>>

AfterInfo(reply) ==
    IF ~reply.ok THEN Stop("failed") ELSE IF reply.state = "ready" THEN Stop("offer")
    ELSE GoOn("begin")

AfterBegun(reply) ==
    GoOn(IF reply.ok /\ reply.state = "manifest" THEN "data" ELSE "abort")

\* firmware_next_read_length: no frame crosses the end of the manifest sector.
Frame ==
    LET limit == IF accepted < ManifestSize THEN ManifestSize ELSE Total(package)
        last == IF accepted + FrameSize < limit THEN accepted + FrameSize ELSE limit
    IN  SubSeq(Data(package), accepted + 1, last)

Following(n) == IF n = Total(package) THEN "end" ELSE "data"

\* The frame is in; the mailbox is reset after some frames.
Accept(state) ==
    /\ accepted' = accepted + Len(Frame)
    /\ step' \in IF state = "erasing" THEN {"erasing"} ELSE {"resync", Following(accepted')}
    /\ tries' = 0
    /\ UNCHANGED package

\* transfer_firmware_data_recover.
Recover ==
    /\ tries' = tries + 1
    /\ step' = IF tries + 1 < MaxRetries THEN "recover" ELSE "abort"
    /\ UNCHANGED <<package, accepted>>

\* Mutant of AfterWrite: an answer of any kind is taken for the frame's arrival.
AfterWriteTrusting(reply) == Accept(reply.state)

AfterWrite(reply) ==
    IF reply.ok /\ reply.offset = accepted + Len(Frame) THEN Accept(reply.state) ELSE Recover

\* firmware_recover_data_position: the receiver's offset tells whether the frame
\* arrived.
AfterPosition(reply) ==
    IF reply.ok /\ reply.state = "payload" /\ reply.offset = accepted + Len(Frame)
    THEN Accept("payload")
    ELSE IF reply.ok /\ reply.state = "payload" /\ reply.offset = accepted
    THEN GoOn("data")
    ELSE Recover

InPlace(reply) == reply.ok /\ reply.offset = accepted

\* transfer_resync_firmware.
AfterResync(reply) ==
    /\ step' = IF InPlace(reply) THEN Following(accepted) ELSE "abort"
    /\ UNCHANGED <<package, accepted, tries>>

\* firmware_wait_for_payload.
AfterWait(reply) ==
    /\ step' \in IF reply.ok /\ reply.state = "erasing" THEN {"erasing"}
                 ELSE IF reply.state = "payload" /\ InPlace(reply)
                 THEN {"resync", Following(accepted)}
                 ELSE {"abort"}
    /\ UNCHANGED <<package, accepted, tries>>

AfterSeal(reply) ==
    IF reply.ok /\ reply.state = "ready" THEN Stop("staged") ELSE GoOn("abort")

Send(at, results, After(_)) ==
    /\ step = at
    /\ \E x \in Request(results) : Happens(x.outcome) /\ After(x.reply)

\* What the program does next; while it waits for the erasure, only what an answer
\* makes it do, since nothing makes a query fail.
StageFirmware ==
    /\ UNCHANGED vars
    /\ \/ Send("info", Inform, AfterInfo)
       \/ Send("begin", BeginReceive(package), AfterBegun)
       \/ step = "data" /\ Send("data", WriteReceive(accepted, Frame), AfterWrite)
       \/ Send("recover", Inform, AfterPosition)
       \/ Send("resync", Inform, AfterResync)
       \/ /\ step = "erasing"
          /\ \E x \in Answered(Inform) : Happens(x.outcome) /\ AfterWait(x.reply)
       \/ step = "end" /\ Send("end", FinishReceive, AfterSeal)
       \/ Send("abort", AbortReceive, LAMBDA reply : Stop("failed"))

WaitUnanswered ==
    /\ step = "erasing"
    /\ \E x \in Unanswered(Inform) : Happens(x.outcome) /\ AfterWait(x.reply)
    /\ UNCHANGED vars

\* The file cannot be read, or the user gives up while it is scanned.
PackageFails ==
    /\ \/ step = "begin" /\ Stop("failed")
       \/ step \in {"data", "end"} /\ GoOn("abort")
    /\ UNCHANGED <<vars, manager>>

ProgramGone == step' = "off" /\ package' = NoPackage /\ accepted' = 0 /\ tries' = 0

\* The manager starts anew, and with it the FPGA and the K2.  What is pending is
\* processed by the boots that follow (UpdateEngine).
Restarted ==
    /\ PowerCycle
    /\ receiver' = NoReceiver
    /\ staging' = Remains
    /\ pending' = NoPackage
    /\ ProgramGone
    /\ UNCHANGED faults

\* FIRMWARE_APPLY; it is refused while an upload is active.
Apply ==
    /\ step \in {"offer", "staged"}
    /\ \/ receiver.state = "ready" /\ ~session.active /\ Restarted
       \/ Stop("failed") /\ UNCHANGED <<vars, manager>>

\* RESET during either program.
Reset ==
    \/ ResetK2 /\ UNCHANGED <<faults, firmware>>
    \/ step \in Staging /\ ProgramGone /\ UNCHANGED <<vars, manager>>

\* A core transfer, while no package is being sent.
SendCore ==
    /\ step \notin Staging
    /\ Transfer(Receiving)
    /\ UNCHANGED firmware

K2Next ==
    \/ SendCore
    \/ /\ step \notin Staging
       /\ (\E f \in Files, k \in Slots : Start(f, k)) \/ FileFails
       /\ UNCHANGED <<faults, firmware>>
    \/ Poll /\ UNCHANGED <<faults, firmware>>
    \/ \E p \in Packages : PressU(p)
    \/ StageFirmware \/ WaitUnanswered \/ PackageFails \/ Apply
    \/ ServiceStep
    \/ Reset
    \/ Restarted

K2Spec == K2Init /\ [][K2Next]_allVars

\* The K2 runs whichever program it has, and the manager its loop.
K2FairSpec == K2Spec /\ WF_allVars(SendCore \/ StageFirmware) /\ WF_allVars(ServiceStep)

-----------------------------------------------------------------------------
(* Properties *)

\* The types of the state, and what goes together: the receiver has never taken more
\* than was announced, and READY means that its package is pending.
TransferTypes ==
    /\ TypeOK
    /\ receiver.state \in {"idle", "manifest", "erasing", "payload", "ready", "failed"}
    /\ receiver.got \in Seq(Packages \X Nat) /\ Len(receiver.got) <= receiver.size
    /\ Len(receiver.page) < PageSize + (IF receiver.state = "failed" THEN 1 ELSE 0)
    /\ receiver.erased \in 0..StagingSectors /\ receiver.committed \in BOOLEAN
    /\ staging.manifest \in Packages \cup {NoPackage}
    /\ pending \in Packages \cup {NoPackage}
    /\ receiver.state = "ready" => receiver.committed /\ pending = staging.manifest
    /\ step \in Staging \cup {"off", "offer", "staged", "failed"}
    /\ package \in Packages \cup {NoPackage}
    /\ tries \in 0..MaxRetries
    /\ ~(pc \in Running /\ step \in Staging)

\* What a program tells its user is so: a core reported as stored is in its slot, a
\* package offered for installation is pending and whole in the staging slot, and it
\* is the one just sent, if one was.
ReportsAreTrue ==
    /\ SuccessMeansStored
    /\ step \in {"offer", "staged"} =>
          pending # NoPackage /\ staging.manifest = pending /\ StagedWhole(staging, pending)
    /\ step = "staged" => pending = package

\* "The RP2040 receiver is offset-addressed, so its reported position proves whether
\* the chunk was committed without ever writing it twice" (k2coremgr.asm:2465): while
\* a package is sent, the receiver has its beginning, up to the frame acknowledged or
\* the one in doubt, and all of that is in flash or in the page buffer.
InStep ==
    step \in {"data", "recover", "erasing", "resync", "end"} /\ Receiving =>
        /\ receiver.got = SubSeq(Data(package), 1, Len(receiver.got))
        /\ Len(receiver.got) \in {accepted, accepted + Len(Frame)}
        /\ receiver.state = "payload" =>
              staging.payload \o receiver.page = Payload(receiver.got)

\* Neither program waits or retries for ever, whatever the mailbox does; the one that
\* waits for the staging slot to be erased depends on the manager to go on erasing.
TransfersEnd ==
    (pc \in Running \/ step \in Staging) ~> ~(pc \in Running \/ step \in Staging)
=============================================================================
