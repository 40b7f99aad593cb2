--------------------------- MODULE ImageTransfer ---------------------------
(***************************************************************************)
(* A core sent from the K2 to a flash slot: the uploader on the 65816      *)
(* (k2uploader.asm; k2coremgr.asm transfers the same way), the mailbox     *)
(* between them, and the upload session of the supervisor                  *)
(* (supervisor_service.cpp).                                               *)
(*                                                                         *)
(* A step is one mailbox command: what the supervisor makes of it, if it   *)
(* arrives, and what the uploader makes of the reply, if one arrives.  The *)
(* uploader does not trust a reply, which may belong to an earlier command:*)
(* it asks for the byte count and repeats what did not arrive.             *)
(***************************************************************************)
EXTENDS Integers, Sequences

CONSTANTS
    Files,          \* compressed cores on the K2's card
    Length,         \* units of data in each file
    Slots,          \* flash slots
    FrameSize,      \* units of a mailbox payload (247 bytes)
    PageSize,       \* units of a flash page (256 bytes)
    MaxRetries,     \* tries of a command in doubt (8)
    Faults,         \* what may go wrong together: which commands may be answered by
                    \* an older reply (stale), whether flash operations may fail (flash)
    NoFile, NoSlot, \* no file, no slot
    Nothing         \* the receive FIFO holds no byte count

ASSUME SizeAssumption ==
    /\ Length \in [Files -> Nat \ {0}]
    /\ FrameSize \in Nat \ {0} /\ PageSize \in Nat /\ FrameSize < PageSize
    /\ MaxRetries \in Nat \ {0}
    /\ Faults \subseteq [stale: SUBSET {"abort", "begin", "data", "end", "status"},
                          flash: BOOLEAN]
    /\ NoFile \notin Files /\ NoSlot \notin Slots /\ Nothing \notin Nat

VARIABLES
    session,    \* the supervisor's upload: upload_active, upload_slot, ...
    stored,     \* what the committed image of each slot holds
    pc,         \* where the uploader is
    want,       \* the file and the slot it was started for
    sent,       \* uploaded_size, in units
    retry,      \* retry_count
    count,      \* the newest byte count in the receive FIFO
    busy,       \* MAILBOX_REMOTE_STATUS: an upload is active
    faults      \* the faults of this behavior, one of Faults

device == <<session, stored>>
uploader == <<pc, want, sent, retry>>
mailbox == <<count, busy>>
vars == <<device, uploader, mailbox, faults>>

Content(f) == [n \in 1..Length[f] |-> <<f, n>>]

Blank == <<NoFile, 0>>

Contents == {<<>>} \cup {Content(f) : f \in Files}

\* file stands for upload_expected_size and upload_expected_crc; got for
\* upload_size and upload_crc; page is the used part of flash_page, and flash the
\* pages programmed of the blocks that the store holds for an open session.
NoSession == [active |-> FALSE, slot |-> NoSlot, file |-> NoFile, got |-> <<>>,
              page |-> <<>>, flash |-> <<>>, open |-> FALSE]

Running == {"abort", "begin", "confirmBegin", "data", "end", "confirmEnd", "failing"}

NoWant == [file |-> NoFile, slot |-> NoSlot]

Init ==
    /\ session = NoSession
    /\ stored = [s \in Slots |-> <<>>]
    /\ pc = "idle"
    /\ want = NoWant
    /\ sent = 0
    /\ retry = 0
    /\ count = Nothing
    /\ busy = FALSE
    /\ faults \in Faults

-----------------------------------------------------------------------------
(* The supervisor: each command gives a set of possible results *)

Result(s, st, error) == [session |-> s, stored |-> st, error |-> error]

Unchanged(error) == Result(session, stored, error)

If(possible, result) == IF possible THEN {result} ELSE {}

\* Mutant of AbortResults: the session stays.
AbortResultsIdle == {Unchanged("none")}

\* Of a session that has ended the byte count stays.
Ended(s) == [NoSession EXCEPT !.got = s.got]

AbortResults == {Result(Ended(session), stored, "none")}

StatusResults == {Unchanged("none")}

\* The fields are reset, the blocks allocated and erased, unless an upload or
\* another session (blocked) holds the supervisor.  There may be no blocks left,
\* whatever flash does.
BeginResults(f, k, blocked) ==
    IF session.active \/ blocked THEN {Unchanged("active")}
    ELSE {Result([NoSession EXCEPT !.active = TRUE, !.slot = k, !.file = f, !.open = TRUE],
                 stored, "none"),
          Result(NoSession, stored, "flash")}

\* write_page takes the next page of an open session, up to the size announced.
PageFits == session.open /\ Len(session.flash) < Length[session.file]

\* Mutant of DataResults: after a page the frame is read from its start again.
DataResultsReread(frame) ==
    LET room == PageSize - Len(session.page)
        full == Len(frame) >= room
        page == IF full THEN SubSeq(frame, 1, Len(frame) - room) ELSE session.page \o frame
        flash == IF full THEN session.flash \o session.page \o SubSeq(frame, 1, room)
                 ELSE session.flash
    IN  IF ~session.active THEN {Unchanged("noUpload")}
        ELSE IF Len(session.got) + Len(frame) > Length[session.file] THEN {Unchanged("size")}
        ELSE {Result([session EXCEPT !.page = page, !.flash = flash, !.got = @ \o frame],
                     stored, "none")}

\* The frame goes through the page buffer; it is counted when all of it has.
DataResults(frame) ==
    LET room == PageSize - Len(session.page)
        full == session.page \o SubSeq(frame, 1, room)
        rest == SubSeq(frame, room + 1, Len(frame))
        accepted(page, flash) ==
            Result([session EXCEPT !.page = page, !.flash = flash, !.got = @ \o frame],
                   stored, "none")
    IN  IF ~session.active THEN {Unchanged("noUpload")}
        ELSE IF Len(session.got) + Len(frame) > Length[session.file] THEN {Unchanged("size")}
        ELSE IF Len(frame) < room THEN {accepted(session.page \o frame, session.flash)}
        ELSE If(PageFits, accepted(rest, session.flash \o full))
             \cup If(faults.flash \/ ~PageFits,
                     Result([session EXCEPT !.page = full], stored, "flash"))

\* A record that cannot be written closes the store's session; it may be valid
\* for all that.
CommitResults(s) ==
    IF s.open /\ Len(s.flash) >= Length[s.file]
    THEN LET after == [stored EXCEPT ![s.slot] = SubSeq(s.flash, 1, Length[s.file])]
         IN  {Result(Ended(s), after, "none")}
             \cup {Result([s EXCEPT !.open = FALSE], st, "metadata") :
                     st \in If(faults.flash, stored) \cup If(faults.flash, after)}
    ELSE {Result(s, stored, "metadata")}

\* The last page is filled up with $FF.
Padded(page) == page \o [n \in 1..(PageSize - Len(page)) |-> Blank]

\* Writes the last page and commits.
FinishResults ==
    IF session.page = <<>> THEN CommitResults(session)
    ELSE (IF PageFits
          THEN CommitResults([session EXCEPT !.page = <<>>, !.flash = @ \o Padded(session.page)])
          ELSE {})
         \cup If(faults.flash \/ ~PageFits, Unchanged("flash"))

EndResults ==
    IF ~session.active THEN {Unchanged("noUpload")}
    ELSE IF Len(session.got) # Length[session.file] THEN {Unchanged("size")}
    ELSE IF session.got # Content(session.file) THEN {Unchanged("crc")}
    ELSE FinishResults

-----------------------------------------------------------------------------
(* The mailbox *)

\* What the K2 reads after a command: an error, the FIFO, the status register.
Reply(error, n, active) == [error |-> error, count |-> n, busy |-> active]

Silence(error) == Reply(error, count, busy)

\* A counted reply puts the byte count into the FIFO.
Answer(r, counted, error) ==
    Reply(error, IF counted THEN Len(r.session.got) ELSE count, r.session.active)

\* What the uploader can read instead of the result.
Doubtful(command) == {"timeout"} \cup If(command \in faults.stale, "none")

\* A command is carried out, or not, and its result is read in time, late, or never.
Exchange(command, results, counted) ==
    {[result |-> r, reply |-> Answer(r, counted, e)] :
        r \in results, e \in Doubtful(command)}
    \cup {[result |-> r, reply |-> Answer(r, counted, r.error)] : r \in results}
    \cup {[result |-> r, reply |-> Silence(e)] :
            r \in results \cup {Unchanged("none")}, e \in Doubtful(command)}

Effect(outcome) == session' = outcome.result.session /\ stored' = outcome.result.stored

Leave(reply) == count' = reply.count /\ busy' = reply.busy

\* mailbox_read_upload_size takes all of the FIFO and keeps the newest count.
Take(reply) ==
    /\ count' = IF reply.error = "none" THEN Nothing ELSE reply.count
    /\ busy' = reply.busy

-----------------------------------------------------------------------------
(* The uploader *)

Goto(p) == pc' = p /\ UNCHANGED <<want, sent, retry>>

\* The program ends; its counters are set anew when it is started again.
Quit(p) == pc' = p /\ sent' = 0 /\ retry' = 0 /\ UNCHANGED want

\* Mutant of Again: it tries once too often.
AgainOnceMore(p) ==
    /\ retry' = retry + 1
    /\ pc' = IF retry < MaxRetries THEN p ELSE "failing"
    /\ UNCHANGED <<want, sent>>

\* It tries again from p, up to MaxRetries times.
Again(p) ==
    /\ retry' = retry + 1
    /\ pc' = IF retry + 1 < MaxRetries THEN p ELSE "failing"
    /\ UNCHANGED <<want, sent>>

\* The FIFOs are reset, and the scan is done: size and CRC of the file are known.
Start(f, k) ==
    /\ pc \notin Running
    /\ pc' = "abort"
    /\ want' = [file |-> f, slot |-> k]
    /\ sent' = 0
    /\ retry' = 0
    /\ count' = Nothing
    /\ UNCHANGED <<device, busy>>

\* Done with a step, it counts its tries anew.
Proceed(p) == pc' = p /\ retry' = 0 /\ UNCHANGED <<want, sent>>

\* A session that an interrupted run left behind is ended.
AfterAbort(reply) ==
    /\ Leave(reply)
    /\ IF reply.error = "none" THEN Goto("begin") ELSE Quit("failed")

SendAbort ==
    /\ pc = "abort"
    /\ \E o \in Exchange("abort", AbortResults, FALSE) :
          Effect(o) /\ AfterAbort(o.reply)

AfterBegin(reply) ==
    /\ Leave(reply)
    /\ Goto(IF reply.error \in {"none", "active"} THEN "confirmBegin" ELSE "failing")

SendBegin(blocked) ==
    /\ pc = "begin"
    /\ \E o \in Exchange("begin", BeginResults(want.file, want.slot, blocked), FALSE) :
          Effect(o) /\ AfterBegin(o.reply)

Confirms(reply, active) ==
    reply.error = "none" /\ reply.count = sent /\ reply.busy = active

AfterBeginStatus(reply) ==
    /\ Take(reply)
    /\ IF Confirms(reply, TRUE) THEN Proceed("data") ELSE Again("begin")

ConfirmBegin ==
    /\ pc = "confirmBegin"
    /\ \E o \in Exchange("status", StatusResults, TRUE) :
          Effect(o) /\ AfterBeginStatus(o.reply)

Chunk ==
    LET last == IF sent + FrameSize < Length[want.file] THEN sent + FrameSize
                ELSE Length[want.file]
    IN  SubSeq(Content(want.file), sent + 1, last)

Accepted ==
    /\ sent' = sent + Len(Chunk)
    /\ pc' = IF sent' = Length[want.file] THEN "end" ELSE "data"
    /\ retry' = 0
    /\ UNCHANGED want

\* The count decides whether the chunk arrived.
AfterData(reply) ==
    /\ Take(reply)
    /\ IF reply.error = "none" /\ reply.count = sent + Len(Chunk) THEN Accepted
       ELSE IF reply.error = "none" /\ reply.count = sent THEN Again("data")
       ELSE Goto("failing")

SendData ==
    /\ pc = "data"
    /\ \E o \in Exchange("data", DataResults(Chunk), TRUE) :
          Effect(o) /\ AfterData(o.reply)

AfterEnd(reply) ==
    /\ Leave(reply)
    /\ Goto(IF reply.error \in {"none", "noUpload"} THEN "confirmEnd" ELSE "failing")

SendEnd ==
    /\ pc = "end"
    /\ \E o \in Exchange("end", EndResults, TRUE) :
          Effect(o) /\ AfterEnd(o.reply)

AfterEndStatus(reply) ==
    /\ Take(reply)
    /\ IF Confirms(reply, FALSE) THEN Quit("success") ELSE Again("end")

ConfirmEnd ==
    /\ pc = "confirmEnd"
    /\ \E o \in Exchange("status", StatusResults, TRUE) :
          Effect(o) /\ AfterEndStatus(o.reply)

\* abort_if_needed, whatever comes of it.
AfterFailAbort(reply) == Leave(reply) /\ Quit("failed")

SendFailAbort ==
    /\ pc = "failing"
    /\ \E o \in Exchange("abort", AbortResults, FALSE) :
          Effect(o) /\ AfterFailAbort(o.reply)

FileFails == pc \in {"data", "end"} /\ Goto("failing") /\ UNCHANGED <<device, mailbox>>

-----------------------------------------------------------------------------
(* The FPGA and the user *)

\* The FPGA polls the supervisor, which refreshes its status register.
Poll ==
    /\ busy # session.active
    /\ busy' = session.active
    /\ UNCHANGED <<device, uploader, count>>

\* The K2 starts anew, without a program.
StartAnew == pc' = "idle" /\ want' = NoWant /\ sent' = 0 /\ retry' = 0

\* RESET starts the K2 anew.  The supervisor runs on, with the session it had.
ResetK2 ==
    /\ pc \in Running
    /\ StartAnew
    /\ UNCHANGED <<device, mailbox>>

PowerCycle ==
    /\ session' = NoSession
    /\ StartAnew
    /\ count' = Nothing
    /\ busy' = FALSE
    /\ UNCHANGED stored

Transfer(blocked) ==
    /\ UNCHANGED faults
    /\ \/ SendAbort
       \/ SendBegin(blocked)
       \/ ConfirmBegin
       \/ SendData
       \/ SendEnd
       \/ ConfirmEnd
       \/ SendFailAbort

Next ==
    \/ Transfer(FALSE)
    \/ /\ UNCHANGED faults
       /\ \/ \E f \in Files, k \in Slots : Start(f, k)
          \/ FileFails
          \/ Poll
          \/ ResetK2
          \/ PowerCycle

Spec == Init /\ [][Next]_vars

-----------------------------------------------------------------------------
(* Properties *)

Units == Files \X Nat

Sessions ==
    [active: BOOLEAN, slot: Slots \cup {NoSlot}, file: Files \cup {NoFile},
     got: Seq(Units), page: Seq(Units), flash: Seq(Units \cup {Blank}), open: BOOLEAN]

\* The types of the state; a page is never more than full, the count never above
\* the size announced, the tries are bounded.
TypeOK ==
    /\ session \in Sessions
    /\ session.active => session.file \in Files /\ session.slot \in Slots
    /\ session.active => Len(session.got) <= Length[session.file]
    /\ Len(session.page) <= PageSize
    /\ \A k \in Slots : stored[k] \in Seq(Units \cup {Blank})
    /\ pc \in Running \cup {"idle", "success", "failed"}
    /\ want \in [file: Files \cup {NoFile}, slot: Slots \cup {NoSlot}]
    /\ pc \in Running => sent \in 0..Length[want.file] /\ retry \in 0..MaxRetries
    /\ count \in Nat \cup {Nothing}
    /\ busy \in BOOLEAN
    /\ faults \in Faults

\* "Upload verified by size/CRC. Flash slot n" (k2uploader.asm:519 and 1454): that
\* slot holds the file.
SuccessMeansStored == pc = "success" => stored[want.slot] = Content(want.file)

\* release/README.md:238, "verifies every flash page and commits the image header
\* last": what a slot lists is a whole file, or nothing.
StoredWhole == \A k \in Slots : stored[k] \in Contents

\* A slot changes only to the file, and only in the slot, that the running transfer
\* is for: sessions left behind by interrupted transfers come to nothing.
OnlyWanted ==
    [][\A k \in Slots : stored'[k] # stored[k] =>
          pc = "end" /\ k = want.slot /\ stored'[k] = Content(want.file)]_vars
=============================================================================
