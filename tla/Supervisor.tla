----------------------------- MODULE Supervisor -----------------------------
(***************************************************************************)
(* The manager in service (main of fpga_mgr.cpp, supervisor_service.cpp):  *)
(* one mailbox transaction per turn of the loop, the requests that save a  *)
(* boot choice, remove an image, reconfigure the FPGA or restart the       *)
(* manager, and what a turn does about them, over FabricBoot and           *)
(* BootJournal.                                                            *)
(*                                                                         *)
(* A transaction exchanges two frames at once: the FPGA hears the response *)
(* prepared for an earlier frame while it sends its own.  The FPGA, and    *)
(* the program on the K2 behind it, are modelled from how the manager uses *)
(* them: a command has a sequence number and is sent again until its       *)
(* response is heard or the program gives it up; POLLs fill the rest; a    *)
(* program issues commands only once a POLL has got through.               *)
(***************************************************************************)
EXTENDS FabricBoot

CONSTANTS
    Ops,            \* the commands a program may send
    MaxRequests,    \* how many it sends
    None

\* "delete" removes a file of the card, "clear" a flash core.
Removals == {"delete", "clear"}

\* What a command does, the context and the choice it names.
Commands ==
    [kind: {"ping", "save", "load", "once", "restart"}, k: Contexts, choice: Choices]
    \cup [kind: {"delete"}, k: Contexts, choice: Paths]
    \cup [kind: {"clear"}, k: Contexts, choice: {Flash}]

\* The choice that a command saves, if it saves one.
ChoiceOf(op) == IF op.kind = "save" THEN op.choice ELSE Automatic

\* What the context may have saved once the command has succeeded: what was saved,
\* or anything but what was removed.
Leaves(op) ==
    IF op.kind = "save" THEN {op.choice}
    ELSE IF op.kind \in Removals THEN Choices \ {op.choice}
    ELSE Choices

ASSUME SupervisorAssumption ==
    /\ Ops \subseteq Commands
    /\ MaxRequests \in Nat
    /\ None \notin Choices

Ids == 1..MaxRequests
Frames == [id: Ids, seq: Ids, op: Ops]
Answers == {"ok", "refused", "failed"}

ASSUME NoneAssumption == None \notin Frames /\ None \notin [seq: Ids, op: Ops]

VARIABLES
    \* The K2 side.
    request,    \* the command in flight
    seq,        \* the sequence number of the FPGA
    link,       \* a POLL has got through since the FPGA was configured
    \* The manager.
    turn,       \* where the main loop is
    frame,      \* the command being processed
    response,   \* the prepared response
    last,       \* last_command, while last_command_valid
    requested,  \* what this transaction asks of the loop
    armed,      \* reconfigure_request, while reconfigure_armed
    \* History.
    issued,     \* the commands sent so far
    runs,       \* how often each was executed
    saved       \* the choices a context may have saved, from what it was told

fpga == <<request, seq, link>>
manager == <<turn, frame, response, last, requested, armed>>
history == <<issued, runs, saved>>
mailbox == <<fpga, manager, history>>
vars == <<journal, bootState, mailbox>>

NoResponse == [seq |-> 0, id |-> 0, result |-> "ok"]

ManagerInit ==
    /\ turn = "loop"
    /\ frame = None
    /\ response = NoResponse
    /\ last = None
    /\ requested = None
    /\ armed = None

Init ==
    /\ JournalInit /\ BootInit /\ ManagerInit
    /\ request = None /\ seq = 0 /\ link = FALSE
    /\ issued = 0
    /\ runs = [id \in Ids |-> 0]
    /\ saved = [k \in Contexts |-> Choices]

-----------------------------------------------------------------------------
(* The K2 *)

NewRequest(op) ==
    /\ fabric # NoImage /\ link
    /\ request = None /\ issued < MaxRequests
    /\ request' = [id |-> issued + 1, seq |-> seq + 1, op |-> op]
    /\ seq' = seq + 1
    /\ issued' = issued + 1
    /\ UNCHANGED <<journal, bootState, link, manager, runs, saved>>

GiveUp ==
    /\ request # None
    /\ request' = None
    /\ UNCHANGED <<journal, bootState, seq, link, manager, history>>

\* What the FPGA makes of a response it hears.
Hear(got) ==
    LET accepted == got /\ request # None /\ response.seq = request.seq
    IN  /\ saved' = IF accepted /\ response.result = "ok"
                    THEN [saved EXCEPT ![request.op.k] = @ \cap Leaves(request.op)]
                    ELSE saved
        /\ request' = IF accepted THEN None ELSE request

-----------------------------------------------------------------------------
(* process_request *)

\* Mutant of Repeated: every frame is executed.
RepeatedNever == FALSE

\* A command that is sent again is recognised by its sequence number and contents.
Repeated ==
    last # None /\ last.seq = request.seq /\ last.op = request.op

\* valid_sd_selection_path, flash_slot_has_gzip, golden_image_for_context.
Selectable(k, choice) ==
    /\ choice \in Paths => Home[choice] = k
    /\ choice = Flash => image[<<k, Flash>>] # "absent"
    /\ Savable(k, choice)

\* delete_catalog_sd_image: a visible file of that context.
Catalogued(k, path) ==
    MountResult = "ok" /\ Home[path] = k /\ image[path] # "absent"

\* While an upload, a copy or a read is open only choices are saved.
Refused(op, open) ==
    \/ open /\ op.kind \in {"load", "once", "restart"} \cup Removals
    \/ op.kind \in {"save", "once"} /\ ~Selectable(op.k, op.choice)
    \/ op.kind \in {"load", "once"} /\ op.k # context
    \/ op.kind = "delete" /\ ~Catalogued(op.k, op.choice)

Reply(f, result) ==
    /\ response' = [seq |-> f.seq, id |-> f.id, result |-> result]
    /\ last' = [seq |-> f.seq, op |-> f.op]

\* The frame was not heard: the prepared response stays.
Missed ==
    /\ turn' = "act"
    /\ UNCHANGED <<journal, bootState, frame, response, last, requested, armed, runs>>

\* Mutant of Poll: the response prepared earlier stays.
PollSilent ==
    /\ request = None
    /\ turn' = "act"
    /\ last' = None
    /\ UNCHANGED <<journal, bootState, frame, response, requested, armed, runs>>

\* Mutant of Poll: the window for retries stays open.
PollKeeps ==
    /\ request = None
    /\ turn' = "act"
    /\ response' = [NoResponse EXCEPT !.seq = seq]
    /\ UNCHANGED <<journal, bootState, frame, last, requested, armed, runs>>

\* A POLL ends the window for retries.
Poll ==
    /\ request = None
    /\ turn' = "act"
    /\ last' = None
    /\ response' = [NoResponse EXCEPT !.seq = seq]
    /\ UNCHANGED <<journal, bootState, frame, requested, armed, runs>>

Repeat ==
    /\ request # None /\ Repeated
    /\ turn' = "act"
    /\ UNCHANGED <<journal, bootState, frame, response, last, requested, armed, runs>>

\* A command that is not a repeated one.
Fresh ==
    /\ request # None /\ ~Repeated
    /\ runs' = [runs EXCEPT ![request.id] = @ + 1]

\* A command is refused; a deletion has looked at the card for that.
Refuse(open) ==
    /\ Fresh /\ Refused(request.op, open)
    /\ Reply(request, "refused")
    /\ turn' = "act"
    /\ IF request.op.kind = "delete" /\ ~open THEN MountCard ELSE UNCHANGED bootState
    /\ UNCHANGED <<journal, frame, requested, armed>>

\* What needs no more than an answer, and the loop's attention.
Execute(open) ==
    /\ Fresh /\ ~Refused(request.op, open)
    /\ request.op.kind \in {"ping", "load", "once", "restart"}
    /\ Reply(request, "ok")
    /\ requested' = IF request.op.kind = "ping" THEN None ELSE request
    /\ turn' = "act"
    /\ UNCHANGED <<journal, bootState, frame, armed>>

\* boot_config_set_selection, for the frame that is kept meanwhile.
StartSave ==
    /\ BeginSave(request.op.k, ChoiceOf(request.op))
    /\ frame' = request
    /\ turn' = "saving"
    /\ UNCHANGED <<response, last, requested, armed>>

Save(open) ==
    /\ Fresh /\ ~Refused(request.op, open)
    /\ request.op.kind = "save"
    /\ StartSave
    /\ UNCHANGED bootState

\* A removal that fails may have taken effect: the call that comes after the write
\* can fail, too.
RemoveFails(gone) ==
    /\ RemoveImage(Place(request.op.k, request.op.choice), gone)
    /\ Reply(request, "failed")
    /\ turn' = "act"
    /\ UNCHANGED <<journal, frame, requested, armed>>

\* Mutant of RemoveUnselected: the choice that named the image is kept.
RemoveAlways ==
    /\ RemoveImage(Place(request.op.k, request.op.choice), TRUE)
    /\ Reply(request, "ok")
    /\ turn' = "act"
    /\ UNCHANGED <<journal, frame, requested, armed>>

\* No choice names the image.
RemoveUnselected ==
    /\ Selection(request.op.k) # request.op.choice
    /\ RemoveImage(Place(request.op.k, request.op.choice), TRUE)
    /\ Reply(request, "ok")
    /\ turn' = "act"
    /\ UNCHANGED <<journal, frame, requested, armed>>

\* The choice that names it is replaced by automatic discovery.
RemoveSelected ==
    /\ Selection(request.op.k) = request.op.choice
    /\ RemoveImage(Place(request.op.k, request.op.choice), TRUE)
    /\ StartSave

\* DELETE_SD_IMAGE, CLEAR_FLASH.
Remove(open) ==
    /\ Fresh /\ ~Refused(request.op, open)
    /\ request.op.kind \in Removals
    /\ (\E gone \in BOOLEAN : RemoveFails(gone)) \/ RemoveUnselected \/ RemoveSelected

\* A command, while a session is open or not.
Obey == \E open \in BOOLEAN : Refuse(open) \/ Execute(open) \/ Save(open) \/ Remove(open)

\* One transaction: whether the manager gets the whole frame in time (heard), and
\* whether the FPGA gets its response (got).
Exchange(heard, got) ==
    /\ boot = "serving" /\ turn = "loop"
    /\ heard => got
    /\ got => fabric # NoImage
    /\ Hear(got)
    /\ link' = (link \/ (heard /\ request = None))
    /\ IF heard THEN Poll \/ Repeat \/ Obey ELSE Missed
    /\ UNCHANGED <<seq, issued>>

-----------------------------------------------------------------------------
(* A save, and the end of a turn *)

WriteSave ==
    /\ turn = "saving"
    /\ EraseSector \/ ProgramSector
    /\ saved' = [saved EXCEPT ![frame.op.k] = Choices]
    /\ UNCHANGED <<bootState, fpga, manager, issued, runs>>

EndSave ==
    /\ turn = "saving"
    /\ \/ FinishSave /\ Reply(frame, "ok")
       \/ FailSave /\ Reply(frame, "failed")
    /\ frame' = None
    /\ turn' = "act"
    /\ UNCHANGED <<bootState, fpga, requested, armed, history>>

\* The loop arms what this transaction asked for, to act one transaction later.
Idle ==
    /\ turn = "act" /\ armed = None
    /\ turn' = "loop"
    /\ armed' = requested
    /\ requested' = None
    /\ UNCHANGED <<journal, bootState, fpga, frame, response, last, history>>

\* program_selected_context, program_transient_context.
Reconfigure ==
    /\ turn = "act" /\ armed # None /\ armed.op.kind # "restart"
    /\ Reprogram(IF armed.op.kind = "load" THEN Selection(armed.op.k) ELSE armed.op.choice)
    /\ turn' = "loop"
    /\ armed' = requested
    /\ requested' = None
    /\ UNCHANGED <<journal, fpga, frame, response, last, history>>

\* The state of the manager ends with the reset, not that of the FPGA.
Stop(power) ==
    /\ BootOff(power)
    /\ turn' = "loop" /\ frame' = None /\ response' = NoResponse
    /\ last' = None /\ requested' = None /\ armed' = None
    /\ IF power THEN request' = None /\ seq' = 0 /\ link' = FALSE ELSE UNCHANGED fpga
    /\ UNCHANGED history

Restart ==
    /\ turn = "act" /\ armed # None /\ armed.op.kind = "restart"
    /\ boot = "serving"
    /\ Stop(FALSE)

\* RESET held down, once the manager has started (reset_hold_timer_callback).
HoldReset ==
    /\ boot \in {"serving", "programming"}
    /\ Stop(FALSE)

PowerLoss == Stop(TRUE)

-----------------------------------------------------------------------------
(* Starting, and programming the FPGA *)

Start == \E force \in BOOLEAN : StartBoot(force) /\ UNCHANGED mailbox

Search == (Discover \/ Exhausted) /\ UNCHANGED <<journal, mailbox>>

\* PROGRAM_B clears the FPGA, and the mailbox in it.
Try ==
    /\ TryNext
    /\ IF Attempt(Head(plan)) \in {"broken", "good"}
       THEN request' = None /\ seq' = 0 /\ link' = FALSE
       ELSE UNCHANGED fpga
    /\ UNCHANGED <<journal, manager, history>>

\* The commands that transfer images.
Upload == turn = "loop" /\ ChangeImages /\ UNCHANGED <<journal, mailbox>>

\* Flash is read when the manager starts: that is when a record is found rotten.
Decay == boot = "off" /\ (\E k \in Sectors : Rot(k)) /\ UNCHANGED <<bootState, mailbox>>

Next ==
    \/ \E op \in Ops : NewRequest(op)
    \/ GiveUp
    \/ \E heard, got \in BOOLEAN : Exchange(heard, got)
    \/ WriteSave \/ EndSave
    \/ Idle \/ Reconfigure \/ Restart
    \/ HoldReset \/ PowerLoss
    \/ Start \/ Search \/ Try
    \/ Upload \/ Decay

Spec == Init /\ [][Next]_vars

\* The manager runs, and of the transactions not all miss each other.
Fairness ==
    /\ WF_vars(Start) /\ WF_vars(Search) /\ WF_vars(Try)
    /\ WF_vars(WriteSave) /\ WF_vars(EndSave)
    /\ WF_vars(Idle) /\ WF_vars(Reconfigure) /\ WF_vars(Restart)
    /\ SF_vars(Exchange(TRUE, TRUE))

FairSpec == Spec /\ Fairness

-----------------------------------------------------------------------------
(* Properties *)

\* The types of the state, and what goes together.
SupervisorTypes ==
    /\ JournalTypes /\ BootTypes
    /\ request \in Frames \cup {None} /\ seq \in 0..MaxRequests /\ link \in BOOLEAN
    /\ turn \in {"loop", "act", "saving"}
    /\ frame \in Frames \cup {None} /\ requested \in Frames \cup {None}
    /\ armed \in Frames \cup {None}
    /\ response \in [seq: 0..MaxRequests, id: 0..MaxRequests, result: Answers]
    /\ last \in [seq: Ids, op: Ops] \cup {None}
    /\ issued \in 0..MaxRequests /\ runs \in [Ids -> Nat]
    /\ saved \in [Contexts -> SUBSET Choices]
    /\ turn = "saving" <=> saving # "none"
    /\ turn = "saving" <=> frame # None

\* However often a command is sent again, across lost responses, reconfigurations
\* and restarts, it is executed at most once.
AtMostOnce == \A id \in Ids : runs[id] <= 1

\* The answer a command gets is the result of that command: not a POLL's, and not
\* that of an earlier command with the same number, from before the FPGA was
\* configured again.
AnswerIsOwn ==
    request # None /\ response.seq = request.seq => response.id = request.id

\* What the K2 was told is saved is what the next start will find, and what it was
\* told is removed is no longer a choice, whatever power does.
AckMeansSaved == damage = 0 => \A k \in Contexts : Durable[k] \in saved[k]

\* "Waiting one transaction guarantees that RECONFIGURE is acknowledged before the
\* FPGA disappears" (fpga_mgr.cpp:586): when the loop acts on a command, the
\* program still waiting for it has been answered.
AcknowledgedFirst ==
    turn = "act" /\ armed # None => request = None \/ request.id # armed.id

\* A choice the K2 was told is saved, and that can be loaded, is what its context
\* runs after a start in which RESET was not held down.
SavedChoiceBoots ==
    [][\A source \in Sources :
          boot = "starting" /\ boot' = "serving" /\ ~forced /\ damage = 0
              /\ saved[context] = {source} /\ Attempt(source) = "good"
          => fabric' = source]_vars

\* A program is never left waiting for ever: its command is answered, or dies with
\* the configuration it was sent from, unless the manager has found no image.
RequestsEnd == request # None ~> request = None \/ boot = "panic"
=============================================================================
