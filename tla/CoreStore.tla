----------------------------- MODULE CoreStore ------------------------------
(***************************************************************************)
(* The replaceable core pool: erase blocks shared by the cores of all      *)
(* contexts, two alternating allocation records, and the guard page that   *)
(* fences off firmware without pool support (core_store.cpp, core_flash.cpp *)
(* and the flash branch of the upload in supervisor_service.cpp).          *)
(*                                                                         *)
(* A step is one erase or one program operation with the decisions that    *)
(* follow it.  Power may be lost in any step, an operation may fail, and a *)
(* record may rot.                                                         *)
(***************************************************************************)
EXTENDS Integers

CONSTANTS
    Contexts,       \* hardware contexts, one image each
    Cores,          \* compressed FPGA cores
    Size,           \* blocks each core takes
    NumBlocks,      \* blocks of the pool
    Window,         \* blocks of a fixed slot before migration
    LegacyBlocks,   \* the blocks of each fixed slot
    SeqMod,         \* record sequence numbers are taken modulo this (2^32)
    MaxFaults,      \* bound on erase and program operations that fail
    MaxDamage,      \* bound on records that rot
    NoCore,         \* the kind of an empty image
    Foreign,        \* the kind of an image reserved for unrecognized data
    Blank, Junk,    \* contents of a block that belong to no core
    Clear, Torn     \* an erased record sector, one that holds no valid record

Blocks == 0..(NumBlocks - 1)
Sectors == {"A", "B"}

ASSUME CoresAssumption ==
    /\ NoCore \notin Cores /\ Foreign \notin Cores /\ NoCore # Foreign
    /\ Blank # Junk /\ {Blank, Junk} \cap (Cores \X (1..NumBlocks)) = {}
ASSUME PoolAssumption ==
    /\ NumBlocks \in Nat
    /\ Size \in [Cores -> 1..NumBlocks]
    /\ SeqMod \in Nat /\ SeqMod >= 4
    /\ MaxFaults \in Nat /\ MaxDamage \in Nat
ASSUME LegacyAssumption ==
    /\ Window \in 1..NumBlocks
    /\ LegacyBlocks \in [Contexts -> [1..Window -> Blocks]]
    /\ \A j, k \in Contexts, m, n \in 1..Window :
          LegacyBlocks[j][m] = LegacyBlocks[k][n] => j = k /\ m = n

Count(c) == IF c \in Cores THEN Size[c] ELSE IF c = Foreign THEN Window ELSE 0

\* An image names the core and its blocks, in the order of its data.
ImagesOf(c) == [core: {c}, blocks: [1..Count(c) -> Blocks]]
Images == UNION {ImagesOf(c) : c \in Cores \cup {NoCore, Foreign}}
EmptyImage == [core |-> NoCore, blocks |-> [n \in 1..0 |-> 0]]
Record == [seq: 0..(SeqMod - 1), images: [Contexts -> Images]]
EmptyRecord == [seq |-> 0, images |-> [k \in Contexts |-> EmptyImage]]
Part(c, n) == <<c, n>>
Contents == (Cores \X (1..NumBlocks)) \cup {Blank, Junk}

ASSUME SectorAssumption == Clear # Torn /\ Clear \notin Record /\ Torn \notin Record

VARIABLES
    \* flash
    pool,       \* what each block holds
    sector,     \* the two allocation record sectors
    guard,      \* the guard page is not blank
    \* volatile state
    state,      \* Store::state_
    current,    \* current_offset_
    record,     \* record_
    upload,     \* the session: pending_, pending_slot_, erased_blocks_, written_
    call,       \* the begin or clear in progress, with its arguments
    stage,      \* what the record being persisted is for
    step,       \* the flash operation to do next
    \* environment
    faults,     \* operations that have failed so far
    damage      \* records that have rotted so far

flash == <<pool, sector, guard>>
store == <<state, current, record>>
control == <<call, stage, step>>
environment == <<faults, damage>>
vars == <<flash, store, upload, control, environment>>

Uploads == [slot: Contexts, image: Images, erased: 0..NumBlocks,
            written: 0..NumBlocks, intact: BOOLEAN, failed: BOOLEAN]
NoUpload == [slot |-> NoCore, image |-> EmptyImage, erased |-> 0,
             written |-> 0, intact |-> FALSE, failed |-> FALSE]
Calls == [op: {"upload", "delete"}, slot: Contexts, core: Cores \cup {NoCore}]
NoCall == [op |-> "none", slot |-> NoCore, core |-> NoCore]

TypeOK ==
    /\ pool \in [Blocks -> Contents]
    /\ sector \in [Sectors -> Record \cup {Clear, Torn}]
    /\ guard \in BOOLEAN
    /\ state \in {"Legacy", "Ready", "Corrupt"}
    /\ current \in Sectors
    /\ record \in Record
    /\ upload \in Uploads \cup {NoUpload}
    /\ call \in Calls \cup {NoCall}
    /\ stage \in {"off", "idle", "import", "importCheckpoint", "checkpoint", "update"}
    /\ step \in {"none", "erase", "program", "guard"}
    /\ faults \in 0..MaxFaults
    /\ damage \in 0..MaxDamage

-----------------------------------------------------------------------------
(* Allocation records *)

NextSeq(s) == IF s = SeqMod - 1 THEN 0 ELSE s + 1

\* Mutant of Newer: an unsigned comparison, wrong where the number wraps.
NewerUnsigned(a, b) == a > b

\* The signed comparison of sequence numbers, for a width of SeqMod.
Newer(a, b) ==
    LET distance == IF a >= b THEN a - b ELSE SeqMod + a - b
    IN  distance > 0 /\ 2 * distance < SeqMod

\* record_valid: every block is listed once.
WellFormed(images) ==
    \A j, k \in Contexts :
        \A m \in DOMAIN images[j].blocks, n \in DOMAIN images[k].blocks :
            images[j].blocks[m] = images[k].blocks[n] => j = k /\ m = n

Readable(s, k) == s[k] \notin {Clear, Torn} /\ WellFormed(s[k].images)

AnyReadable(s) == Readable(s, "A") \/ Readable(s, "B")

\* load(): the newer of the readable records, the second sector if in doubt.
Selected(s) ==
    LET other == Readable(s, "B")
    IN  IF Readable(s, "A") /\ (other => Newer(s["A"].seq, s["B"].seq)) THEN "A" ELSE "B"

\* Mutant of Target: the record is written over the current one.
TargetCurrent == current

Target == IF current = "A" THEN "B" ELSE "A"

NewRecord == [record EXCEPT !.seq = NextSeq(record.seq)]

Uses(images, b) == \E k \in Contexts : \E n \in DOMAIN images[k].blocks : images[k].blocks[n] = b

\* The lowest free blocks, in ascending order: none if they do not suffice.
Allocations(images, c) ==
    {chosen \in [1..Count(c) -> {b \in Blocks : ~Uses(images, b)}] :
        /\ \A m, n \in 1..Count(c) : m < n => chosen[m] < chosen[n]
        /\ \A n \in 1..Count(c), b \in Blocks :
              b < chosen[n] /\ ~Uses(images, b) => \E m \in 1..Count(c) : chosen[m] = b}

Fits(images, c) == Allocations(images, c) # {}

-----------------------------------------------------------------------------
(* Migration from fixed slots *)

\* inspect_legacy_gzip accepts what the slot holds as core c.
Recognized(k, c) ==
    /\ Count(c) <= Window
    /\ \A n \in 1..Count(c) : pool[LegacyBlocks[k][n]] = Part(c, n)

LegacyCore(k) ==
    IF \A n \in 1..Window : pool[LegacyBlocks[k][n]] = Blank THEN NoCore
    ELSE IF \E c \in Cores : Recognized(k, c)
    THEN CHOOSE c \in Cores : Recognized(k, c)
    ELSE Foreign

LegacyImage(k) ==
    [core |-> LegacyCore(k),
     blocks |-> [n \in 1..Count(LegacyCore(k)) |-> LegacyBlocks[k][n]]]

ImportedRecord == [seq |-> 0, images |-> [k \in Contexts |-> LegacyImage(k)]]

-----------------------------------------------------------------------------
(* Initial states: a board that has never migrated. *)

LegacyContent(c, n) ==
    IF c = Foreign THEN Junk ELSE IF n <= Count(c) THEN Part(c, n) ELSE Blank

InitialPool(held) ==
    /\ \A k \in Contexts, n \in 1..Window :
          pool[LegacyBlocks[k][n]] = LegacyContent(held[k], n)
    /\ \A b \in Blocks :
          (\A k \in Contexts, n \in 1..Window : LegacyBlocks[k][n] # b) => pool[b] = Blank

Init ==
    /\ pool \in [Blocks -> Contents]
    /\ \E held \in [Contexts -> {c \in Cores \cup {NoCore, Foreign} : Count(c) <= Window}] :
          InitialPool(held)
    /\ sector = [k \in Sectors |-> Clear]
    /\ guard = FALSE
    /\ state = "Legacy"
    /\ current = "B"
    /\ record = EmptyRecord
    /\ upload = NoUpload
    /\ call = NoCall
    /\ stage = "off"
    /\ step = "none"
    /\ faults = 0
    /\ damage = 0

-----------------------------------------------------------------------------
(* Store::load, from flash as it is now (s, g) *)

Load(s, g) ==
    /\ upload' = NoUpload
    /\ state' = IF AnyReadable(s) THEN "Ready" ELSE IF g THEN "Corrupt" ELSE "Legacy"
    /\ IF AnyReadable(s)
       THEN current' = Selected(s) /\ record' = s[Selected(s)]
       ELSE UNCHANGED <<current, record>>

Return ==
    /\ stage' = "idle"
    /\ step' = "none"
    /\ call' = NoCall

PowerOn ==
    /\ stage = "off"
    /\ Load(sector, guard)
    /\ Return
    /\ UNCHANGED <<flash, environment>>

-----------------------------------------------------------------------------
(* begin and clear: migrate if need be, checkpoint, set the guard; clear then *)
(* persists the map without the image.                                       *)

Persist(purpose) ==
    /\ stage' = purpose
    /\ step' = "erase"

\* Mutant of Start: the older record is not rewritten before blocks are reused.
StartUnchecked(arguments) ==
    /\ stage = "idle"
    /\ upload = NoUpload
    /\ call' = arguments
    /\ \/ /\ state = "Ready"
          /\ stage' = "checkpoint"
          /\ step' = "guard"
          /\ UNCHANGED <<current, record>>
       \/ /\ state = "Legacy"
          /\ Persist("import")
          /\ record' = ImportedRecord
          /\ current' = "B"
    /\ UNCHANGED <<flash, state, upload, environment>>

\* Mutant of Start: old firmware is fenced off before the first record exists.
StartGuardFirst(arguments) ==
    /\ stage = "idle"
    /\ upload = NoUpload
    /\ call' = arguments
    /\ \/ /\ state = "Ready"
          /\ Persist("checkpoint")
          /\ UNCHANGED <<current, record>>
       \/ /\ state = "Legacy"
          /\ stage' = "importCheckpoint"
          /\ step' = "guard"
          /\ record' = ImportedRecord
          /\ current' = "B"
    /\ UNCHANGED <<flash, state, upload, environment>>

Start(arguments) ==
    /\ stage = "idle"
    /\ upload = NoUpload
    /\ call' = arguments
    /\ \/ /\ state = "Ready"
          /\ Persist("checkpoint")
          /\ UNCHANGED <<current, record>>
       \/ /\ state = "Legacy"
          /\ Persist("import")
          /\ record' = ImportedRecord
          /\ current' = "B"
    /\ UNCHANGED <<flash, state, upload, environment>>

Begin(k, c) ==
    /\ state = "Ready" => Fits(record.images, c)
    /\ Start([op |-> "upload", slot |-> k, core |-> c])

ClearImage(k) == Start([op |-> "delete", slot |-> k, core |-> NoCore])

WithoutImage(k) == [record EXCEPT !.images[k] = EmptyImage]

PersistErase ==
    /\ step = "erase"
    /\ sector' = [sector EXCEPT ![Target] = Clear]
    /\ step' = "program"
    /\ UNCHANGED <<pool, guard, store, upload, call, stage, environment>>

\* persist() returns true, in migrate, in prepare_mutation, or in commit and clear.
Persisted ==
    /\ current' = Target
    /\ record' = NewRecord
    /\ \/ /\ stage = "import"
          /\ state' = "Ready"
          /\ Persist("importCheckpoint")
          /\ UNCHANGED <<call, upload>>
       \/ /\ stage \in {"importCheckpoint", "checkpoint"}
          /\ step' = "guard"
          /\ UNCHANGED <<state, call, stage, upload>>
       \/ /\ stage = "update"
          /\ Return
          /\ upload' = NoUpload
          /\ UNCHANGED state

PersistProgram ==
    /\ step = "program"
    /\ sector' = [sector EXCEPT ![Target] = NewRecord]
    /\ IF WellFormed(record.images)
       THEN Persisted
       ELSE Load(sector', guard) /\ Return
    /\ UNCHANGED <<pool, guard, environment>>

\* guard() returns true.
Guarded ==
    \/ /\ stage = "importCheckpoint"
       /\ IF call.op = "upload" /\ ~Fits(record.images, call.core)
          THEN Return
          ELSE Persist("checkpoint") /\ UNCHANGED call
       /\ UNCHANGED <<record, upload>>
    \/ /\ stage = "checkpoint"
       /\ call.op = "upload"
       /\ \E blocks \in Allocations(record.images, call.core) :
             upload' = [slot |-> call.slot,
                        image |-> [core |-> call.core, blocks |-> blocks],
                        erased |-> 0, written |-> 0, intact |-> TRUE,
                        failed |-> FALSE]
       /\ Return
       /\ UNCHANGED record
    \/ /\ stage = "checkpoint"
       /\ call.op = "delete"
       /\ record' = WithoutImage(call.slot)
       /\ Persist("update")
       /\ UNCHANGED <<call, upload>>

Guard ==
    /\ step = "guard"
    /\ guard' = TRUE
    /\ Guarded
    /\ UNCHANGED <<pool, sector, state, current, environment>>

-----------------------------------------------------------------------------
(* An upload: erase its blocks, write its data, commit *)

Uploading == stage = "idle" /\ upload # NoUpload

Erasing == Uploading /\ upload.erased < Count(upload.image.core)

Writing ==
    /\ Uploading
    /\ upload.erased = Count(upload.image.core)
    /\ upload.written < Count(upload.image.core)

NextBlock ==
    IF Erasing THEN upload.image.blocks[upload.erased + 1]
               ELSE upload.image.blocks[upload.written + 1]

Fill(b, content) == pool' = [pool EXCEPT ![b] = content]

\* NOR flash takes data where it is blank, and the same data again.
Programmed(old, new) == IF old \in {Blank, new} THEN new ELSE Junk

EraseNext ==
    /\ Erasing
    /\ Fill(NextBlock, Blank)
    /\ upload' = [upload EXCEPT !.erased = @ + 1]
    /\ UNCHANGED <<sector, guard, store, control, environment>>

\* A block's worth of pages; the data may differ from what the host meant.  Told
\* of a failure, the hosts in k2/ abort (k2uploader.asm:390, k2coremgr.asm:2124).
Expected == Part(upload.image.core, upload.written + 1)

WritePages(data) ==
    /\ Writing
    /\ ~upload.failed
    /\ Fill(NextBlock, Programmed(pool[NextBlock], data))
    /\ upload' = IF pool'[NextBlock] = data
                 THEN [upload EXCEPT !.written = @ + 1,
                                     !.intact = @ /\ data = Expected]
                 ELSE upload
    /\ UNCHANGED <<sector, guard, store, control, environment>>

\* Mutant of Commit: the data need not be complete.
CommitEarly ==
    /\ Uploading
    /\ upload.intact
    /\ record' = [record EXCEPT !.images[upload.slot] = upload.image]
    /\ Persist("update")
    /\ UNCHANGED <<flash, state, current, upload, call, environment>>

\* finish_upload compares size and CRC before core_flash_commit.
Commit ==
    /\ Uploading
    /\ upload.written = Count(upload.image.core)
    /\ upload.intact
    /\ record' = [record EXCEPT !.images[upload.slot] = upload.image]
    /\ Persist("update")
    /\ UNCHANGED <<flash, state, current, upload, call, environment>>

Abort ==
    /\ Uploading
    /\ upload' = NoUpload
    /\ UNCHANGED <<flash, store, control, environment>>

-----------------------------------------------------------------------------
(* The environment *)

InterruptedFlash ==
    \/ UNCHANGED flash
    \/ /\ step = "erase"
       /\ \E r \in {Clear, Torn} : sector' = [sector EXCEPT ![Target] = r]
       /\ UNCHANGED <<pool, guard>>
    \/ /\ step = "program"
       /\ \E r \in {Torn, NewRecord} : sector' = [sector EXCEPT ![Target] = r]
       /\ UNCHANGED <<pool, guard>>
    \/ /\ step = "guard"
       /\ guard' = TRUE
       /\ UNCHANGED <<pool, sector>>
    \/ /\ Erasing
       /\ \E content \in {Blank, Junk} : Fill(NextBlock, content)
       /\ UNCHANGED <<sector, guard>>
    \/ /\ Writing
       /\ \E content \in {Expected, Junk} : Fill(NextBlock, content)
       /\ UNCHANGED <<sector, guard>>

PowerLoss ==
    /\ stage # "off"
    /\ InterruptedFlash
    /\ stage' = "off"
    /\ step' = "none"
    /\ call' = NoCall
    /\ upload' = NoUpload
    /\ state' = "Legacy"
    /\ current' = "B"
    /\ record' = EmptyRecord
    /\ UNCHANGED environment

\* Mutant of CallFails: the map in memory stays as it was to become.
CallFailsUnloaded ==
    /\ step \in {"erase", "program"} \/ (step = "guard" /\ ~guard)
    /\ upload' = NoUpload
    /\ UNCHANGED store

\* persist() returns false: its callers reload the map.  guard() returns false:
\* they do not.
CallFails ==
    \/ /\ step \in {"erase", "program"}
       /\ Load(sector', guard)
    \/ /\ step = "guard"
       /\ ~guard
       /\ UNCHANGED <<store, upload>>

\* An erase or program operation of an upload fails.  A failed erase ends the
\* session (erase_flash_upload, fail_incremental_copy); after a failed page it is
\* still active, at the byte count before the frame that filled the page.
UploadFails ==
    \/ Erasing /\ upload' = NoUpload
    \/ Writing /\ upload' = [upload EXCEPT !.failed = TRUE]

FlashFault ==
    /\ faults < MaxFaults
    /\ faults' = faults + 1
    /\ InterruptedFlash
    /\ \/ CallFails /\ Return
       \/ UploadFails /\ UNCHANGED <<store, control>>
    /\ UNCHANGED damage

Rot ==
    /\ damage < MaxDamage
    /\ damage' = damage + 1
    /\ stage \in {"off", "idle"}
    /\ \E k \in Sectors : sector' = [sector EXCEPT ![k] = Torn]
    /\ UNCHANGED <<pool, guard, store, upload, control, faults>>

-----------------------------------------------------------------------------

Next ==
    \/ PowerOn
    \/ \E k \in Contexts, c \in Cores : Begin(k, c)
    \/ \E k \in Contexts : ClearImage(k)
    \/ PersistErase
    \/ PersistProgram
    \/ Guard
    \/ EraseNext
    \/ \E data \in {Expected, Junk} : WritePages(data)
    \/ Commit
    \/ Abort
    \/ PowerLoss
    \/ FlashFault
    \/ Rot

Spec == Init /\ [][Next]_vars

=============================================================================
