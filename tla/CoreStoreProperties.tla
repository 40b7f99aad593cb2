-------------------------- MODULE CoreStoreProperties -----------------------
(***************************************************************************)
(* The inductive invariant of CoreStore, its properties, and the contract  *)
(* of the pool it implements.                                              *)
(***************************************************************************)
EXTENDS CoreStore

\* The blocks of an image hold its core, when what each block holds is p.
Whole(p, image) ==
    image.core \in Cores =>
        \A n \in 1..Count(image.core) : p[image.blocks[n]] = Part(image.core, n)

Sane(p, images) == WellFormed(images) /\ \A k \in Contexts : Whole(p, images[k])

\* The entry that the update being persisted changes.
ChangedSlot == IF call.op = "delete" THEN call.slot ELSE upload.slot
ChangedImage == IF call.op = "delete" THEN EmptyImage ELSE upload.image

\* What goes together at each point of a call.
StageOK ==
    /\ step = "none" <=> stage \in {"off", "idle"}
    /\ stage = "off" => upload = NoUpload /\ state = "Legacy"
    /\ stage \in {"off", "idle"} => call = NoCall
    /\ stage \in {"import", "importCheckpoint", "checkpoint"} =>
          call \in Calls /\ upload = NoUpload
    /\ call.op = "upload" => call.core \in Cores
    /\ stage = "update" =>
          \/ call = NoCall /\ upload # NoUpload
          \/ call \in Calls /\ call.op = "delete" /\ upload = NoUpload
    /\ stage \in {"import", "update"} => step # "guard"
    /\ stage = "import" => state = "Legacy" /\ current = "B"
    /\ stage \in {"importCheckpoint", "checkpoint", "update"} => state = "Ready"
    /\ stage = "checkpoint" /\ call.op = "upload" => Fits(record.images, call.core)
    /\ upload # NoUpload =>
          /\ stage \in {"idle", "update"}
          /\ state = "Ready"
          /\ upload.image.core \in Cores

\* Readable records list whole images, their numbers tell which is newer, and
\* unless one has rotted there is one whenever the guard is set.
FlashOK ==
    /\ \A k \in Sectors : Readable(sector, k) => Sane(pool, sector[k].images)
    /\ Readable(sector, "A") /\ Readable(sector, "B") =>
          \/ sector["A"].seq = NextSeq(sector["B"].seq)
          \/ sector["B"].seq = NextSeq(sector["A"].seq)
    /\ damage = 0 /\ guard => AnyReadable(sector)

\* The record in memory is the durable one, or what will replace it; when the
\* guard is due, the checkpoint has made both durable records equal to it.
MemoryOK ==
    stage # "off" =>
        /\ state = "Ready" \/ stage = "import" => Sane(pool, record.images)
        /\ stage = "import" => record.images = ImportedRecord.images
        /\ state = "Ready" =>
              /\ sector[current] # Clear
              /\ Readable(sector, current) => sector[current].seq = record.seq
              /\ Readable(sector, Target) => record.seq = NextSeq(sector[Target].seq)
              /\ damage = 0 => Readable(sector, current)
              /\ Readable(sector, current) =>
                    record.images = IF stage = "update"
                        THEN [sector[current].images EXCEPT ![ChangedSlot] = ChangedImage]
                        ELSE sector[current].images
              /\ step = "guard" => \A k \in Sectors :
                    Readable(sector, k) => sector[k].images = record.images
        /\ state # "Ready" => ~AnyReadable(sector)
        /\ state = "Legacy" => ~guard
        /\ state = "Corrupt" => damage # 0

\* The blocks of a session are its own: neither memory nor a readable record
\* lists them, and what has been written of them is the core's data.
UploadOK ==
    upload # NoUpload =>
        /\ upload.erased <= Count(upload.image.core)
        /\ upload.written <= Count(upload.image.core)
        /\ upload.written > 0 => upload.erased = Count(upload.image.core)
        /\ guard
        /\ \A n \in 1..Count(upload.image.core) :
              /\ \A k \in Sectors : Readable(sector, k) =>
                    ~Uses(sector[k].images, upload.image.blocks[n])
              /\ stage = "idle" => ~Uses(record.images, upload.image.blocks[n])
              /\ \A m \in 1..Count(upload.image.core) :
                    upload.image.blocks[m] = upload.image.blocks[n] => m = n
        /\ upload.intact => \A n \in 1..upload.written :
              pool[upload.image.blocks[n]] = Part(upload.image.core, n)
        /\ stage = "update" =>
              upload.intact /\ upload.written = Count(upload.image.core)

CoreInv == TypeOK /\ StageOK /\ FlashOK /\ MemoryOK /\ UploadOK

-----------------------------------------------------------------------------
(* Properties *)

\* README.md:224, "Each metadata commit retains the prior valid record": whichever
\* record a later boot selects, the newest or the one before it, the images it
\* lists are whole.
GenerationsIntact ==
    \A k \in Sectors : Readable(sector, k) => \A c \in Contexts : Whole(pool, sector[k].images[c])

\* Power loss and failed operations never leave the pool without a record once the
\* guard is set: writes are disabled only after a record has rotted.
CorruptMeansRot == state = "Corrupt" => damage > 0

\* A block that any readable record lists (reserved data included) is never erased
\* or programmed, and nothing is before old firmware has been fenced off.
LiveBlocksUntouched ==
    [][\A b \in Blocks : pool'[b] # pool[b] =>
          /\ guard
          /\ \A k \in Sectors : Readable(sector, k) => ~Uses(sector[k].images, b)]_vars

\* Between calls memory shows what the next boot will load, also after a call that
\* failed half way.
MemoryMatchesFlash ==
    stage = "idle" /\ damage = 0 =>
        /\ state = "Ready" <=> AnyReadable(sector)
        /\ state = "Ready" =>
              current = Selected(sector) /\ record = sector[Selected(sector)]

\* What requires_pool_firmware reads, as UpdateEngine's fence.
Fence == IF guard THEN "guard"
         ELSE IF \E k \in Sectors : sector[k] # Clear THEN "record" ELSE "none"

\* The fence of UpdateEngine moves only as its Migrate actions say.
FenceMoves ==
    [][Fence' = Fence
       \/ <<Fence, Fence'>> \in
             {<<"none", "record">>, <<"record", "none">>, <<"record", "guard">>}]_vars

\* What a boot would load now.
DurableImages ==
    IF AnyReadable(sector) THEN sector[Selected(sector)].images
    ELSE IF guard THEN [k \in Contexts |-> EmptyImage]
    ELSE ImportedRecord.images

\* A context's entry: its core, if the core can be read back.
Entry(image) == IF Whole(pool, image) THEN image.core ELSE Junk

Table == LET images == DurableImages IN [k \in Contexts |-> Entry(images[k])]

Pool == INSTANCE CorePool WITH
            table <- Table,
            upload <- [slot |-> upload.slot, core |-> upload.image.core]

\* The pool keeps its contract: an entry changes only by a completed upload or a
\* deletion, in one step, whatever power and flash do.
Contract == Pool!PoolSpec
=============================================================================
