--------------------------- MODULE CoreStoreSafety --------------------------
(***************************************************************************)
(* CoreInv is inductive, and what follows from it: every generation is     *)
(* whole, live blocks are never touched, and memory matches flash.  The    *)
(* core pool implements CorePool, the table of cores it promises: each     *)
(* step of CoreStore is one of the table, or changes nothing of it, as     *)
(* long as no record rots.                                                 *)
(***************************************************************************)
EXTENDS CoreStoreProofs

-----------------------------------------------------------------------------
(* Flash *)

\* Images stay whole if what they list stays as it is.
LEMMA SaneKept ==
    ASSUME NEW images \in [Contexts -> Images], NEW p, NEW q, Sane(p, images),
           \A b \in Blocks : Uses(images, b) => q[b] = p[b]
    PROVE  Sane(q, images)
<1> SUFFICES ASSUME NEW k \in Contexts, images[k].core \in Cores,
                    NEW n \in 1..Count(images[k].core)
             PROVE  q[images[k].blocks[n]] = Part(images[k].core, n)
  BY DEF Sane, Whole
<1>1. images[k] \in Images
  OBVIOUS
<1>2. images[k].blocks \in [1..Count(images[k].core) -> Blocks]
  BY <1>1, ImageParts
<1>3. images[k].blocks[n] \in Blocks /\ Uses(images, images[k].blocks[n])
  BY <1>2 DEF Uses
<1>4. p[images[k].blocks[n]] = Part(images[k].core, n)
  BY DEF Sane, Whole
<1>5. QED
  BY <1>3, <1>4

\* Losing the record that is being replaced loses no other.
LEMMA TargetLost ==
    ASSUME CoreInv, step \in {"erase", "program"}, NEW r \in {Clear, Torn},
           sector' = [sector EXCEPT ![Target] = r], UNCHANGED <<pool, guard, damage>>
    PROVE  /\ FlashOK'
           /\ ~Readable(sector', Target)
           /\ \A k \in Sectors : Readable(sector', k) =>
                 k = current /\ Readable(sector, k) /\ sector'[k] = sector[k]
           /\ Readable(sector', current) <=> Readable(sector, current)
           /\ sector'[current] = sector[current]
<1>1. CoreTypes /\ sector \in [Sectors -> Record \cup {Clear, Torn}]
  BY DEF CoreInv, CoreTypes, TypeOK
<1>2. /\ Target \in Sectors /\ current \in Sectors /\ Target # current
      /\ \A k \in Sectors : k = Target \/ k = current
  BY <1>1, NewRecordType
<1>3. sector'[Target] = r /\ sector'[current] = sector[current]
  BY <1>1, <1>2
<1>4. ~Readable(sector', Target) /\ (Readable(sector', current) <=> Readable(sector, current))
  BY <1>3 DEF Readable
<1>5. \A k \in Sectors : Readable(sector', k) =>
         k = current /\ Readable(sector, k) /\ sector'[k] = sector[k]
  BY <1>2, <1>3, <1>4
<1>6. \A k \in Sectors : Readable(sector', k) => Sane(pool', sector'[k].images)
  BY <1>5 DEF CoreInv, FlashOK
<1>7. ~(Readable(sector', "A") /\ Readable(sector', "B"))
  BY <1>5 DEF Sectors
<1>8. damage' = 0 /\ guard' => AnyReadable(sector')
  <2> SUFFICES ASSUME damage = 0, guard PROVE AnyReadable(sector')
    OBVIOUS
  <2>1. stage \notin {"off", "idle"} /\ stage # "import"
    BY DEF CoreInv, StageOK, MemoryOK
  <2>2. state = "Ready"
    BY <2>1 DEF CoreInv, TypeOK, StageOK
  <2>3. Readable(sector, current)
    BY <2>1, <2>2 DEF CoreInv, MemoryOK
  <2>4. QED
    BY <1>2, <1>4, <2>3 DEF AnyReadable, Sectors
<1>9. FlashOK'
  BY <1>6, <1>7, <1>8 DEF FlashOK
<1>10. QED
  BY <1>3, <1>4, <1>5, <1>9

\* The record being persisted, once programmed, is readable and the newer one.
LEMMA TargetWritten ==
    ASSUME CoreInv, step = "program", sector' = [sector EXCEPT ![Target] = NewRecord],
           UNCHANGED <<pool, guard, damage>>
    PROVE  /\ FlashOK'
           /\ WellFormed(record.images)
           /\ sector'[Target] = NewRecord /\ Readable(sector', Target)
           /\ sector'[current] = sector[current]
           /\ Readable(sector', current) => state = "Ready" /\ Readable(sector, current)
           /\ Sane(pool, NewRecord.images)
<1>1. CoreTypes /\ sector \in [Sectors -> Record \cup {Clear, Torn}]
  BY DEF CoreInv, CoreTypes, TypeOK
<1>2. /\ Target \in Sectors /\ current \in Sectors /\ Target # current
      /\ \A k \in Sectors : k = Target \/ k = current
      /\ NewRecord \in Record /\ NewRecord.images = record.images
      /\ NewRecord.seq = NextSeq(record.seq)
  BY <1>1, NewRecordType
<1>3. stage \notin {"off", "idle"} /\ (state = "Ready" \/ stage = "import")
  BY DEF CoreInv, TypeOK, StageOK
<1>4. Sane(pool, record.images) /\ WellFormed(record.images)
  BY <1>3 DEF CoreInv, MemoryOK, Sane
<1>5. sector'[Target] = NewRecord /\ sector'[current] = sector[current]
  BY <1>1, <1>2
<1>6. Readable(sector', Target) /\ (Readable(sector', current) <=> Readable(sector, current))
  BY <1>2, <1>4, <1>5, SectorAssumption DEF Readable
<1>7. Readable(sector, current) => state = "Ready" /\ sector[current].seq = record.seq
  <2> SUFFICES ASSUME Readable(sector, current)
               PROVE  state = "Ready" /\ sector[current].seq = record.seq
    OBVIOUS
  <2>1. AnyReadable(sector)
    BY <1>2 DEF AnyReadable, Sectors
  <2>2. QED
    BY <1>3, <2>1 DEF CoreInv, MemoryOK
<1>8. \A k \in Sectors : Readable(sector', k) => Sane(pool', sector'[k].images)
  <2> SUFFICES ASSUME NEW k \in Sectors, Readable(sector', k)
               PROVE  Sane(pool, sector'[k].images)
    OBVIOUS
  <2>1. CASE k = Target
    BY <1>2, <1>4, <1>5, <2>1
  <2>2. CASE k = current
    BY <1>5, <1>6, <2>2 DEF CoreInv, FlashOK
  <2>3. QED
    BY <1>2, <2>1, <2>2
<1>9. Readable(sector', "A") /\ Readable(sector', "B") =>
         \/ sector'["A"].seq = NextSeq(sector'["B"].seq)
         \/ sector'["B"].seq = NextSeq(sector'["A"].seq)
  <2> SUFFICES ASSUME Readable(sector', "A"), Readable(sector', "B")
               PROVE  \/ sector'["A"].seq = NextSeq(sector'["B"].seq)
                      \/ sector'["B"].seq = NextSeq(sector'["A"].seq)
    OBVIOUS
  <2>1. current \in {"A", "B"} /\ Target \in {"A", "B"}
    BY <1>2 DEF Sectors
  <2>2. Readable(sector', current)
    BY <2>1
  <2>3. sector'[Target].seq = NextSeq(sector'[current].seq)
    BY <1>2, <1>5, <1>6, <1>7, <2>2
  <2>4. QED
    BY <1>2, <2>1, <2>3
<1>10. AnyReadable(sector')
  BY <1>2, <1>6 DEF AnyReadable, Sectors
<1>11. FlashOK'
  BY <1>8, <1>9, <1>10 DEF FlashOK
<1>12. QED
  BY <1>2, <1>4, <1>5, <1>6, <1>7, <1>11

\* The guard is set only when a record is there, unless one has rotted.
LEMMA GuardSet ==
    ASSUME CoreInv, step = "guard", UNCHANGED <<pool, sector, damage>>
    PROVE  FlashOK'
<1>1. state = "Ready" /\ stage # "off" /\ current \in Sectors
  BY DEF CoreInv, TypeOK, StageOK
<1>2. damage = 0 => AnyReadable(sector)
  BY <1>1 DEF CoreInv, MemoryOK, AnyReadable, Sectors
<1>3. QED
  BY <1>2 DEF CoreInv, FlashOK

\* An upload touches only blocks that nothing lists.
LEMMA BlockChanged ==
    ASSUME CoreInv, Erasing \/ Writing, NEW content, pool' = [pool EXCEPT ![NextBlock] = content],
           UNCHANGED <<sector, guard, damage>>
    PROVE  /\ FlashOK'
           /\ guard
           /\ Sane(pool', record.images)
           /\ \A k \in Sectors : Readable(sector, k) => ~Uses(sector[k].images, NextBlock)
           /\ \A b \in Blocks : b # NextBlock => pool'[b] = pool[b]
<1>1. CoreTypes /\ upload # NoUpload /\ stage = "idle" /\ state = "Ready"
  BY DEF CoreInv, CoreTypes, StageOK, Erasing, Writing, Uploading
<1>2. PICK n \in 1..Count(upload.image.core) : NextBlock = upload.image.blocks[n]
  BY <1>1, NextBlockType
<1>3. guard /\ ~Uses(record.images, NextBlock)
      /\ \A k \in Sectors : Readable(sector, k) => ~Uses(sector[k].images, NextBlock)
  BY <1>1, <1>2 DEF CoreInv, UploadOK
<1>4. \A b \in Blocks : b # NextBlock => pool'[b] = pool[b]
  BY DEF CoreInv, TypeOK
<1>5. Sane(pool', record.images)
  <2>1. record.images \in [Contexts -> Images] /\ Sane(pool, record.images)
    BY <1>1 DEF CoreInv, TypeOK, MemoryOK, Record
  <2>2. \A b \in Blocks : Uses(record.images, b) => pool'[b] = pool[b]
    BY <1>3, <1>4
  <2>3. QED
    BY <2>1, <2>2, SaneKept
<1>6. \A k \in Sectors : Readable(sector, k) => Sane(pool', sector[k].images)
  <2> SUFFICES ASSUME NEW k \in Sectors, Readable(sector, k)
               PROVE  Sane(pool', sector[k].images)
    OBVIOUS
  <2>1. sector[k].images \in [Contexts -> Images] /\ Sane(pool, sector[k].images)
    BY ReadableType DEF CoreInv, TypeOK, FlashOK
  <2>2. \A b \in Blocks : Uses(sector[k].images, b) => pool'[b] = pool[b]
    BY <1>3, <1>4
  <2>3. QED
    BY <2>1, <2>2, SaneKept
<1>7. FlashOK'
  BY <1>6 DEF CoreInv, FlashOK
<1>8. QED
  BY <1>3, <1>4, <1>5, <1>7

\* What an operation that does not complete leaves, in each kind of operation.
LEMMA InterruptedFlashOK ==
    ASSUME CoreInv, InterruptedFlash, UNCHANGED damage
    PROVE  /\ FlashOK'
           /\ step \in {"erase", "program"} => UNCHANGED <<pool, guard>>
           /\ step = "guard" => UNCHANGED <<pool, sector>>
           /\ step = "none" => UNCHANGED <<sector, guard>>
           /\ Erasing \/ Writing =>
                 \/ UNCHANGED pool
                 \/ \E content : pool' = [pool EXCEPT ![NextBlock] = content]
<1>1. (Erasing \/ Writing => step = "none") /\ step \in {"none", "erase", "program", "guard"}
  BY DEF CoreInv, TypeOK, StageOK, Erasing, Writing, Uploading
<1>2. CASE UNCHANGED flash
  BY <1>1, <1>2 DEF flash, CoreInv, FlashOK
<1>3. CASE /\ step = "erase"
           /\ \E r \in {Clear, Torn} : sector' = [sector EXCEPT ![Target] = r]
           /\ UNCHANGED <<pool, guard>>
  BY <1>1, <1>3, TargetLost
<1>4. CASE /\ step = "program"
           /\ \E r \in {Torn, NewRecord} : sector' = [sector EXCEPT ![Target] = r]
           /\ UNCHANGED <<pool, guard>>
  BY <1>1, <1>4, TargetLost, TargetWritten
<1>5. CASE step = "guard" /\ guard' = TRUE /\ UNCHANGED <<pool, sector>>
  BY <1>1, <1>5, GuardSet
<1>6. CASE /\ Erasing \/ Writing
           /\ \E content : Fill(NextBlock, content)
           /\ UNCHANGED <<sector, guard>>
  <2>1. PICK content : pool' = [pool EXCEPT ![NextBlock] = content]
    BY <1>6 DEF Fill
  <2>2. FlashOK'
    BY <1>6, <2>1, BlockChanged
  <2>3. QED
    BY <1>1, <1>6, <2>1, <2>2
<1>7. QED
  BY <1>2, <1>3, <1>4, <1>5, <1>6 DEF InterruptedFlash

-----------------------------------------------------------------------------
(* Memory *)

\* What migration would import depends on the blocks alone.
LEMMA ImportedStays ==
    ASSUME UNCHANGED pool
    PROVE  ImportedRecord' = ImportedRecord
<1>1. \A k \in Contexts : LegacyCore(k)' = LegacyCore(k)
  BY DEF LegacyCore, Recognized
<1>2. \A k \in Contexts : LegacyImage(k)' = LegacyImage(k)
  BY <1>1 DEF LegacyImage
<1>3. QED
  BY <1>2 DEF ImportedRecord

\* After a load memory is what flash says.
LEMMA LoadMemory ==
    ASSUME CoreInv, FlashOK', TypeOK', Load(sector', guard'), Return
    PROVE  CoreInv'
<1>1. sector' \in [Sectors -> Record \cup {Clear, Torn}]
  BY DEF TypeOK
<1>2. upload' = NoUpload /\ stage' = "idle" /\ step' = "none" /\ call' = NoCall
  BY DEF Load, Return
<1>3. StageOK' /\ UploadOK'
  BY <1>2 DEF StageOK, UploadOK, NoCall
<1>4. CASE AnyReadable(sector')
  <2>1. /\ state' = "Ready" /\ current' = Selected(sector')
        /\ record' = sector'[Selected(sector')]
    BY <1>4 DEF Load
  <2>2. /\ current' \in Sectors /\ Readable(sector', current')
        /\ \A k \in Sectors : k # current' /\ Readable(sector', k) =>
              record'.seq = NextSeq(sector'[k].seq)
    BY <1>1, <1>4, <2>1, SelectedIsNewest DEF FlashOK
  <2>3. Sane(pool', record'.images)
    BY <2>1, <2>2 DEF FlashOK
  <2>4. Target' \in Sectors /\ Target' # current'
    BY <2>2 DEF Target, Sectors
  <2>5. sector'[current'] # Clear
    BY <2>2 DEF Readable
  <2>6. MemoryOK'
    BY <1>2, <2>1, <2>2, <2>3, <2>4, <2>5 DEF MemoryOK
  <2>7. QED
    BY <1>3, <2>6 DEF CoreInv
<1>5. CASE ~AnyReadable(sector')
  <2>1. /\ state' = IF guard' THEN "Corrupt" ELSE "Legacy"
    BY <1>5 DEF Load
  <2>2. damage' = 0 => ~guard'
    BY <1>5 DEF FlashOK
  <2>3. MemoryOK'
    BY <1>2, <1>5, <2>1, <2>2 DEF MemoryOK
  <2>4. QED
    BY <1>3, <2>3 DEF CoreInv
<1>6. QED
  BY <1>4, <1>5

-----------------------------------------------------------------------------
(* Each step keeps the invariant. *)

\* Starting a call.
LEMMA StartKeeps ==
    ASSUME CoreInv, NEW a, Start(a), TypeOK', StageOK'
    PROVE  CoreInv'
<1>1. /\ stage = "idle" /\ upload = NoUpload /\ upload' = NoUpload
      /\ UNCHANGED <<pool, sector, guard, state, damage>>
  BY DEF Start, flash, environment
<1>2. FlashOK' /\ UploadOK'
  BY <1>1 DEF CoreInv, FlashOK, UploadOK
<1>3. CASE /\ state = "Ready"
           /\ stage' = "checkpoint" /\ step' = "erase"
           /\ UNCHANGED <<current, record>>
  <2>1. MemoryOK'
    BY <1>1, <1>3 DEF CoreInv, MemoryOK, Target
  <2>2. QED
    BY <1>2, <2>1 DEF CoreInv
<1>4. CASE /\ state = "Legacy"
           /\ stage' = "import" /\ step' = "erase"
           /\ record' = ImportedRecord
  <2>1. Sane(pool, ImportedRecord.images)
    BY ImportedIsSane DEF CoreInv, TypeOK
  <2>2. MemoryOK'
    BY <1>1, <1>4, <2>1, ImportedStays DEF CoreInv, MemoryOK
  <2>3. QED
    BY <1>2, <2>2 DEF CoreInv
<1>5. QED
  BY <1>3, <1>4 DEF Start, Persist

\* Erasing the sector of the older record.
LEMMA PersistEraseKeeps ==
    ASSUME CoreInv, PersistErase, TypeOK', StageOK'
    PROVE  CoreInv'
<1>1. /\ step = "erase" /\ step' = "program" /\ stage' = stage /\ call' = call
      /\ sector' = [sector EXCEPT ![Target] = Clear]
      /\ UNCHANGED <<pool, guard, damage, state, current, record, upload>>
  BY DEF PersistErase, store, environment
<1>2. /\ FlashOK' /\ ~Readable(sector', Target) /\ Target' = Target
      /\ \A k \in Sectors : Readable(sector', k) =>
            k = current /\ Readable(sector, k) /\ sector'[k] = sector[k]
      /\ Readable(sector', current) <=> Readable(sector, current)
      /\ sector'[current] = sector[current]
  BY <1>1, TargetLost DEF Target
<1>3. current \in Sectors
  BY DEF CoreInv, TypeOK
<1>4. AnyReadable(sector') => AnyReadable(sector)
  BY <1>2 DEF AnyReadable, Sectors
<1>5. ChangedSlot' = ChangedSlot /\ ChangedImage' = ChangedImage
  BY <1>1 DEF ChangedSlot, ChangedImage
<1>6. MemoryOK'
  BY <1>1, <1>2, <1>3, <1>4, <1>5, ImportedStays DEF CoreInv, MemoryOK
<1>7. UploadOK'
  BY <1>1, <1>2 DEF CoreInv, UploadOK
<1>8. QED
  BY <1>2, <1>6, <1>7 DEF CoreInv

\* Programming the record.
LEMMA PersistProgramKeeps ==
    ASSUME CoreInv, PersistProgram, TypeOK', StageOK'
    PROVE  CoreInv'
<1>1. /\ step = "program" /\ sector' = [sector EXCEPT ![Target] = NewRecord]
      /\ UNCHANGED <<pool, guard, damage>>
  BY DEF PersistProgram, environment
<1>2. /\ FlashOK' /\ WellFormed(record.images) /\ Sane(pool, NewRecord.images)
      /\ sector'[Target] = NewRecord /\ Readable(sector', Target)
      /\ sector'[current] = sector[current]
      /\ Readable(sector', current) => state = "Ready" /\ Readable(sector, current)
  BY <1>1, TargetWritten
<1>3. Persisted /\ current' = Target /\ record' = NewRecord
  BY <1>2 DEF PersistProgram, Persisted
<1>4. CoreTypes
  BY DEF CoreInv, CoreTypes
<1>5. /\ Target \in Sectors /\ current \in Sectors /\ Target # current
      /\ \A k \in Sectors : k = Target \/ k = current
      /\ NewRecord.images = record.images /\ NewRecord.seq = NextSeq(record.seq)
  BY <1>4, NewRecordType
<1>6. Target' = current
  BY <1>3, <1>5 DEF Target, Sectors
<1>7. state' = "Ready" /\ stage' \in {"idle", "importCheckpoint", "checkpoint"}
  BY <1>3 DEF CoreInv, StageOK, Persisted, Persist, Return
<1>8. Readable(sector', current) => sector'[current].seq = record.seq
  BY <1>1, <1>2 DEF CoreInv, StageOK, MemoryOK
<1>9. step' = "guard" => \A k \in Sectors :
         Readable(sector', k) => sector'[k].images = record'.images
  <2> SUFFICES ASSUME step' = "guard", NEW k \in Sectors, Readable(sector', k)
               PROVE  sector'[k].images = record.images
    BY <1>3, <1>5
  <2>1. CASE k = Target
    BY <1>2, <1>5, <2>1
  <2>2. CASE k = current
    <3>1. stage \in {"importCheckpoint", "checkpoint"}
      BY <1>3 DEF Persisted, Persist, Return
    <3>2. QED
      BY <1>2, <2>2, <3>1 DEF CoreInv, StageOK, MemoryOK
  <2>3. QED
    BY <1>5, <2>1, <2>2
<1>10. MemoryOK'
  <2>1. sector'[Target] # Clear
    BY <1>2 DEF Readable
  <2>2. QED
    BY <1>1, <1>2, <1>3, <1>5, <1>6, <1>7, <1>8, <1>9, <2>1 DEF MemoryOK
<1>11. UploadOK'
  <2>1. upload' = NoUpload
    BY <1>3 DEF CoreInv, StageOK, Persisted
  <2>2. QED
    BY <2>1 DEF UploadOK
<1>12. QED
  BY <1>2, <1>10, <1>11 DEF CoreInv

\* Removing an image from a sane map leaves it sane.
LEMMA RemovalIsSane ==
    ASSUME NEW images \in [Contexts -> Images], NEW slot \in Contexts, Sane(pool, images)
    PROVE  Sane(pool, [images EXCEPT ![slot] = EmptyImage])
<1> DEFINE new == [images EXCEPT ![slot] = EmptyImage]
<1>1. \A k \in Contexts : new[k] = IF k = slot THEN EmptyImage ELSE images[k]
  OBVIOUS
<1>2. WellFormed(new)
  <2> SUFFICES ASSUME NEW j \in Contexts, NEW k \in Contexts,
                      NEW m \in DOMAIN new[j].blocks, NEW n \in DOMAIN new[k].blocks,
                      new[j].blocks[m] = new[k].blocks[n]
               PROVE  j = k /\ m = n
    BY DEF WellFormed
  <2>1. new[j] = images[j] /\ new[k] = images[k]
    BY <1>1, EmptyImageWhole
  <2>2. QED
    BY <2>1 DEF Sane, WellFormed
<1>3. \A k \in Contexts : Whole(pool, new[k])
  BY <1>1, EmptyImageWhole DEF Sane
<1>4. QED
  BY <1>2, <1>3 DEF Sane

\* Setting the guard, and what the call does after it.
LEMMA GuardKeeps ==
    ASSUME CoreInv, Guard, TypeOK', StageOK'
    PROVE  CoreInv'
<1>1. /\ step = "guard" /\ guard' = TRUE
      /\ UNCHANGED <<pool, sector, damage, state, current>>
      /\ stage \in {"importCheckpoint", "checkpoint"} /\ state = "Ready"
      /\ upload = NoUpload /\ call \in Calls
  BY DEF Guard, Guarded, environment, CoreInv, StageOK
<1>2. FlashOK'
  BY <1>1, GuardSet
<1>3. record.images \in [Contexts -> Images] /\ current \in Sectors /\ record \in Record
  BY DEF CoreInv, TypeOK, Record
<1>4. /\ Sane(pool, record.images)
      /\ sector[current] # Clear
      /\ Readable(sector, current) => sector[current].seq = record.seq
      /\ Readable(sector, Target) => record.seq = NextSeq(sector[Target].seq)
      /\ damage = 0 => Readable(sector, current)
      /\ \A k \in Sectors : Readable(sector, k) => sector[k].images = record.images
  BY <1>1 DEF CoreInv, MemoryOK
<1>5. ASSUME stage' \in {"idle", "checkpoint"}, step' # "guard", UNCHANGED record
      PROVE  MemoryOK'
  BY <1>1, <1>3, <1>4, <1>5 DEF MemoryOK, Target
<1>6. CASE /\ stage = "importCheckpoint"
           /\ IF call.op = "upload" /\ ~Fits(record.images, call.core)
              THEN Return
              ELSE Persist("checkpoint") /\ UNCHANGED call
           /\ UNCHANGED <<record, upload>>
  <2>1. MemoryOK'
    BY <1>5, <1>6 DEF Return, Persist
  <2>2. UploadOK'
    BY <1>1, <1>6 DEF UploadOK
  <2>3. QED
    BY <1>2, <2>1, <2>2 DEF CoreInv
<1>7. CASE /\ stage = "checkpoint"
           /\ call.op = "upload"
           /\ \E blocks \in Allocations(record.images, call.core) :
                 upload' = [slot |-> call.slot,
                            image |-> [core |-> call.core, blocks |-> blocks],
                            erased |-> 0, written |-> 0, intact |-> TRUE,
                            failed |-> FALSE]
           /\ Return
           /\ UNCHANGED record
  <2>1. MemoryOK'
    BY <1>5, <1>7 DEF Return
  <2>2. PICK blocks \in Allocations(record.images, call.core) :
           upload' = [slot |-> call.slot,
                      image |-> [core |-> call.core, blocks |-> blocks],
                      erased |-> 0, written |-> 0, intact |-> TRUE,
                      failed |-> FALSE]
    BY <1>7
  <2>3. call.core \in Cores /\ stage' = "idle"
    BY <1>7 DEF CoreInv, StageOK, Return
  <2>4. /\ \A n \in 1..Count(call.core) : ~Uses(record.images, blocks[n])
        /\ \A m, n \in 1..Count(call.core) : blocks[m] = blocks[n] => m = n
    BY <1>3, <2>2, <2>3, AllocatedType
  <2>5. Count(call.core) \in Nat
    BY <2>3, CountCore
  <2>6. \A n \in 1..Count(call.core) : \A k \in Sectors :
           Readable(sector, k) => ~Uses(sector[k].images, blocks[n])
    BY <1>4, <2>4
  <2>7. UploadOK'
    <3>1. /\ upload'.image.core = call.core /\ upload'.image.blocks = blocks
          /\ upload'.erased = 0 /\ upload'.written = 0
      BY <2>2
    <3>2. QED
      BY <1>1, <1>7, <2>3, <2>4, <2>5, <2>6, <3>1 DEF UploadOK
  <2>8. QED
    BY <1>2, <2>1, <2>7 DEF CoreInv
<1>8. CASE /\ stage = "checkpoint"
           /\ call.op = "delete"
           /\ record' = WithoutImage(call.slot)
           /\ Persist("update")
           /\ UNCHANGED <<call, upload>>
  <2>1. record'.seq = record.seq /\ call.slot \in Contexts
        /\ record'.images = [record.images EXCEPT ![call.slot] = EmptyImage]
    BY <1>1, <1>3, <1>8 DEF WithoutImage, Record, Calls
  <2>2. Sane(pool, record'.images)
    BY <1>3, <1>4, <2>1, RemovalIsSane
  <2>3. ChangedSlot' = call.slot /\ ChangedImage' = EmptyImage
    BY <1>8 DEF ChangedSlot, ChangedImage
  <2>4. stage' = "update" /\ step' = "erase"
    BY <1>8 DEF Persist
  <2>5. MemoryOK'
    BY <1>1, <1>3, <1>4, <2>1, <2>2, <2>3, <2>4 DEF MemoryOK, Target
  <2>6. UploadOK'
    BY <1>1, <1>8 DEF UploadOK
  <2>7. QED
    BY <1>2, <2>5, <2>6 DEF CoreInv
<1>9. QED
  BY <1>6, <1>7, <1>8 DEF Guard, Guarded

\* Erasing a block of an upload.
LEMMA EraseNextKeeps ==
    ASSUME CoreInv, EraseNext, TypeOK', StageOK'
    PROVE  CoreInv'
<1>1. /\ Erasing /\ upload # NoUpload /\ stage = "idle" /\ state = "Ready"
      /\ pool' = [pool EXCEPT ![NextBlock] = Blank]
      /\ UNCHANGED <<sector, guard, damage, state, current, record, call, stage, step>>
      /\ upload' = [upload EXCEPT !.erased = @ + 1]
  BY DEF EraseNext, Erasing, Uploading, Fill, store, control, environment, CoreInv, StageOK
<1>2. FlashOK' /\ Sane(pool', record.images)
  BY <1>1, BlockChanged
<1>3. MemoryOK'
  BY <1>1, <1>2 DEF CoreInv, MemoryOK, Target
<1>4. /\ upload \in Uploads /\ Count(upload.image.core) \in Nat
      /\ upload.erased \in Nat /\ upload.written \in Nat
  BY <1>1, UploadParts DEF CoreInv, CoreTypes
<1>5. /\ upload.erased < Count(upload.image.core) /\ upload.written = 0
      /\ upload'.image = upload.image /\ upload'.erased = upload.erased + 1
      /\ upload'.written = upload.written /\ upload'.intact = upload.intact
  BY <1>1, <1>4 DEF CoreInv, UploadOK, Erasing, Uploads
<1>6. UploadOK'
  BY <1>1, <1>4, <1>5 DEF CoreInv, UploadOK
<1>7. QED
  BY <1>2, <1>3, <1>6 DEF CoreInv

\* What an upload has written before stays when it writes its next block.
LEMMA WrittenStays ==
    ASSUME CoreInv, Writing, \A b \in Blocks : b # NextBlock => pool'[b] = pool[b]
    PROVE  /\ NextBlock = upload.image.blocks[upload.written + 1]
           /\ upload.written + 1 \in 1..Count(upload.image.core)
           /\ \A n \in 1..upload.written :
                 pool'[upload.image.blocks[n]] = pool[upload.image.blocks[n]]
<1>1. CoreTypes /\ upload # NoUpload
  BY DEF CoreInv, CoreTypes, Writing, Uploading
<1>2. /\ Count(upload.image.core) \in Nat /\ upload.written \in Nat
      /\ upload.image.blocks \in [1..Count(upload.image.core) -> Blocks]
  BY <1>1, UploadParts
<1>3. upload.written + 1 \in 1..Count(upload.image.core)
  BY <1>2 DEF Writing
<1>4. NextBlock = upload.image.blocks[upload.written + 1]
  BY <1>2 DEF NextBlock, Erasing, Writing
<1>5. ASSUME NEW n \in 1..upload.written
      PROVE  pool'[upload.image.blocks[n]] = pool[upload.image.blocks[n]]
  <2>1. n \in 1..Count(upload.image.core) /\ n # upload.written + 1
    BY <1>2, <1>3
  <2>2. upload.image.blocks[n] # NextBlock
    BY <1>1, <1>3, <1>4, <2>1 DEF CoreInv, UploadOK
  <2>3. QED
    BY <1>2, <2>1, <2>2
<1>6. QED
  BY <1>3, <1>4, <1>5

\* Writing a block of an upload.
LEMMA WritePagesKeeps ==
    ASSUME CoreInv, NEW data, WritePages(data), TypeOK', StageOK'
    PROVE  CoreInv'
<1>1. /\ Writing /\ upload # NoUpload /\ stage = "idle" /\ state = "Ready"
      /\ pool' = [pool EXCEPT ![NextBlock] = Programmed(pool[NextBlock], data)]
      /\ UNCHANGED <<sector, guard, damage, state, current, record, call, stage, step>>
  BY DEF WritePages, Writing, Uploading, Fill, store, control, environment, CoreInv, StageOK
<1>2. /\ FlashOK' /\ Sane(pool', record.images)
      /\ \A b \in Blocks : b # NextBlock => pool'[b] = pool[b]
  BY <1>1, BlockChanged
<1>3. MemoryOK'
  BY <1>1, <1>2 DEF CoreInv, MemoryOK, Target
<1>4. /\ upload \in Uploads /\ Count(upload.image.core) \in Nat
      /\ upload.erased \in Nat /\ upload.written \in Nat
  BY <1>1, UploadParts DEF CoreInv, CoreTypes
<1>5. /\ NextBlock = upload.image.blocks[upload.written + 1]
      /\ upload.written + 1 \in 1..Count(upload.image.core)
      /\ \A n \in 1..upload.written :
            pool'[upload.image.blocks[n]] = pool[upload.image.blocks[n]]
  BY <1>1, <1>2, WrittenStays
<1>6. CASE upload' = upload
  BY <1>1, <1>2, <1>3, <1>5, <1>6 DEF CoreInv, UploadOK
<1>7. CASE /\ pool'[NextBlock] = data
           /\ upload' = [upload EXCEPT !.written = @ + 1, !.intact = @ /\ data = Expected]
  <2>1. /\ upload'.image = upload.image /\ upload'.erased = upload.erased
        /\ upload'.written = upload.written + 1
        /\ upload'.intact = (upload.intact /\ data = Expected)
    BY <1>4, <1>7 DEF Uploads
  <2>2. upload'.intact => \A n \in 1..upload'.written :
           pool'[upload'.image.blocks[n]] = Part(upload'.image.core, n)
    <3> SUFFICES ASSUME upload'.intact, NEW n \in 1..(upload.written + 1)
                 PROVE  pool'[upload.image.blocks[n]] = Part(upload.image.core, n)
      BY <2>1
    <3>1. upload.intact /\ data = Expected
      BY <2>1
    <3>2. CASE n = upload.written + 1
      BY <1>5, <1>7, <3>1, <3>2 DEF Expected
    <3>3. CASE n \in 1..upload.written
      BY <1>1, <1>5, <3>1, <3>3 DEF CoreInv, UploadOK
    <3>4. QED
      BY <1>4, <3>2, <3>3
  <2>3. upload.erased = Count(upload.image.core)
    BY <1>1 DEF Writing
  <2>4. UploadOK'
    BY <1>1, <1>4, <1>5, <2>1, <2>2, <2>3 DEF CoreInv, UploadOK
  <2>5. QED
    BY <1>2, <1>3, <2>4 DEF CoreInv
<1>8. QED
  BY <1>6, <1>7 DEF WritePages

\* The map with a finished upload in it is sane.
LEMMA UploadedIsSane ==
    ASSUME CoreInv, Commit
    PROVE  Sane(pool, [record.images EXCEPT ![upload.slot] = upload.image])
<1> DEFINE new == [record.images EXCEPT ![upload.slot] = upload.image]
<1>1. /\ CoreTypes /\ upload # NoUpload /\ stage = "idle" /\ state = "Ready" /\ upload.intact
      /\ upload.written = Count(upload.image.core)
  BY DEF CoreInv, CoreTypes, StageOK, Commit, Uploading
<1>2. /\ record.images \in [Contexts -> Images] /\ Sane(pool, record.images)
  BY <1>1 DEF CoreInv, TypeOK, MemoryOK, Record
<1>3. /\ upload.slot \in Contexts /\ upload.image \in Images
      /\ upload.image.blocks \in [1..Count(upload.image.core) -> Blocks]
  BY <1>1, UploadParts DEF Uploads
<1>4. \A k \in Contexts : new[k] = IF k = upload.slot THEN upload.image ELSE record.images[k]
  BY <1>2
<1>5. /\ DOMAIN upload.image.blocks = 1..Count(upload.image.core)
      /\ \A n \in DOMAIN upload.image.blocks :
            /\ ~Uses(record.images, upload.image.blocks[n])
            /\ \A m \in DOMAIN upload.image.blocks :
                  upload.image.blocks[m] = upload.image.blocks[n] => m = n
  BY <1>1, <1>3 DEF CoreInv, UploadOK
<1>6. WellFormed(new)
  <2> SUFFICES ASSUME NEW j \in Contexts, NEW k \in Contexts,
                      NEW m \in DOMAIN new[j].blocks, NEW n \in DOMAIN new[k].blocks,
                      new[j].blocks[m] = new[k].blocks[n]
               PROVE  j = k /\ m = n
    BY DEF WellFormed
  <2>1. CASE j = upload.slot /\ k = upload.slot
    BY <1>4, <1>5, <2>1
  <2>2. CASE j = upload.slot /\ k # upload.slot
    <3>1. new[k] = record.images[k] /\ new[j] = upload.image
      BY <1>4, <2>2
    <3>2. Uses(record.images, new[k].blocks[n])
      BY <3>1 DEF Uses
    <3>3. QED
      BY <1>5, <3>1, <3>2
  <2>3. CASE j # upload.slot /\ k = upload.slot
    <3>1. new[j] = record.images[j] /\ new[k] = upload.image
      BY <1>4, <2>3
    <3>2. Uses(record.images, new[j].blocks[m])
      BY <3>1 DEF Uses
    <3>3. QED
      BY <1>5, <3>1, <3>2
  <2>4. CASE j # upload.slot /\ k # upload.slot
    BY <1>2, <1>4, <2>4 DEF Sane, WellFormed
  <2>5. QED
    BY <2>1, <2>2, <2>3, <2>4
<1>7. Whole(pool, upload.image)
  BY <1>1 DEF CoreInv, UploadOK, Whole
<1>8. \A k \in Contexts : Whole(pool, new[k])
  BY <1>2, <1>4, <1>7 DEF Sane
<1>9. QED
  BY <1>6, <1>8 DEF Sane

\* Completing an upload.
LEMMA CommitKeeps ==
    ASSUME CoreInv, Commit, TypeOK', StageOK'
    PROVE  CoreInv'
<1>1. /\ upload # NoUpload /\ stage = "idle" /\ state = "Ready" /\ call = NoCall
      /\ stage' = "update" /\ step' = "erase"
      /\ UNCHANGED <<pool, sector, guard, damage, state, current, upload, call>>
      /\ record' = [record EXCEPT !.images[upload.slot] = upload.image]
  BY DEF Commit, Uploading, Persist, flash, environment, CoreInv, StageOK
<1>2. /\ record.images \in [Contexts -> Images] /\ record \in Record /\ current \in Sectors
  BY DEF CoreInv, TypeOK, Record
<1>3. /\ record'.images = [record.images EXCEPT ![upload.slot] = upload.image]
      /\ record'.seq = record.seq
  BY <1>1, <1>2 DEF Record
<1>4. Sane(pool, record'.images)
  BY <1>3, UploadedIsSane
<1>5. FlashOK'
  BY <1>1 DEF CoreInv, FlashOK
<1>6. ChangedSlot' = upload.slot /\ ChangedImage' = upload.image
  BY <1>1 DEF ChangedSlot, ChangedImage, NoCall
<1>7. MemoryOK'
  BY <1>1, <1>2, <1>3, <1>4, <1>6 DEF CoreInv, MemoryOK, Target
<1>8. UploadOK'
  BY <1>1 DEF CoreInv, UploadOK, Commit
<1>9. QED
  BY <1>5, <1>7, <1>8 DEF CoreInv

\* Abandoning an upload.
LEMMA AbortKeeps ==
    ASSUME CoreInv, Abort, TypeOK', StageOK'
    PROVE  CoreInv'
<1>1. /\ stage = "idle" /\ upload' = NoUpload
      /\ UNCHANGED <<pool, sector, guard, damage, state, current, record, call, stage, step>>
  BY DEF Abort, Uploading, flash, store, control, environment
<1>2. FlashOK' /\ UploadOK'
  BY <1>1 DEF CoreInv, FlashOK, UploadOK
<1>3. MemoryOK'
  BY <1>1 DEF CoreInv, MemoryOK, Target
<1>4. QED
  BY <1>2, <1>3 DEF CoreInv

\* A boot.
LEMMA PowerOnKeeps ==
    ASSUME CoreInv, PowerOn, TypeOK'
    PROVE  CoreInv'
<1>1. UNCHANGED <<pool, sector, guard, damage>>
  BY DEF PowerOn, flash, environment
<1>2. FlashOK'
  BY <1>1 DEF CoreInv, FlashOK
<1>3. QED
  BY <1>1, <1>2, LoadMemory DEF PowerOn

\* Losing power.
LEMMA PowerLossKeeps ==
    ASSUME CoreInv, PowerLoss, TypeOK', StageOK'
    PROVE  CoreInv'
<1>1. FlashOK'
  BY InterruptedFlashOK DEF PowerLoss, environment
<1>2. MemoryOK' /\ UploadOK'
  BY DEF PowerLoss, MemoryOK, UploadOK
<1>3. QED
  BY <1>1, <1>2 DEF CoreInv

\* A failed operation.
LEMMA FlashFaultKeeps ==
    ASSUME CoreInv, FlashFault, TypeOK', StageOK'
    PROVE  CoreInv'
<1>1. /\ FlashOK'
      /\ step \in {"erase", "program"} => UNCHANGED <<pool, guard>>
      /\ step = "guard" => UNCHANGED <<pool, sector>>
      /\ step = "none" => UNCHANGED <<sector, guard>>
      /\ Erasing \/ Writing =>
            \/ UNCHANGED pool
            \/ \E content : pool' = [pool EXCEPT ![NextBlock] = content]
  BY InterruptedFlashOK DEF FlashFault
<1>2. damage' = damage
  BY DEF FlashFault
<1>3. CASE step \in {"erase", "program"} /\ Load(sector', guard) /\ Return
  BY <1>1, <1>3, LoadMemory
<1>4. CASE step = "guard" /\ ~guard /\ UNCHANGED <<store, upload>> /\ Return
  <2>1. state = "Ready" /\ stage \notin {"off", "import", "update"} /\ upload = NoUpload
    BY <1>4 DEF CoreInv, StageOK, TypeOK
  <2>2. MemoryOK'
    BY <1>1, <1>2, <1>4, <2>1 DEF CoreInv, MemoryOK, Return, store, Target
  <2>3. UploadOK'
    BY <1>4, <2>1 DEF UploadOK
  <2>4. QED
    BY <1>1, <2>2, <2>3 DEF CoreInv
<1>5. CASE UploadFails /\ UNCHANGED <<store, control>>
  <2>1. /\ Erasing \/ Writing
        /\ upload # NoUpload /\ stage = "idle" /\ state = "Ready" /\ step = "none"
    BY <1>5 DEF UploadFails, Erasing, Writing, Uploading, CoreInv, StageOK
  <2>2. /\ UNCHANGED <<sector, guard, state, current, record, call, stage, step>>
    BY <1>1, <1>5, <2>1 DEF store, control
  <2>3. Sane(pool', record.images) /\ \A b \in Blocks : b # NextBlock => pool'[b] = pool[b]
    <3>1. CASE UNCHANGED pool
      BY <2>1, <3>1 DEF CoreInv, MemoryOK
    <3>2. CASE \E content : pool' = [pool EXCEPT ![NextBlock] = content]
      BY <1>2, <2>1, <2>2, <3>2, BlockChanged
    <3>3. QED
      BY <1>1, <2>1, <3>1, <3>2
  <2>4. MemoryOK'
    BY <1>2, <2>1, <2>2, <2>3 DEF CoreInv, MemoryOK, Target
  <2>5. UploadOK'
    <3>1. CASE upload' = NoUpload
      BY <3>1 DEF UploadOK
    <3>2. CASE Writing /\ upload' = [upload EXCEPT !.failed = TRUE]
      <4>1. \A n \in 1..upload.written :
               pool'[upload.image.blocks[n]] = pool[upload.image.blocks[n]]
        BY <2>3, <3>2, WrittenStays
      <4>2. QED
        BY <2>1, <2>2, <3>2, <4>1 DEF CoreInv, UploadOK
    <3>3. QED
      BY <1>5, <3>1, <3>2 DEF UploadFails
  <2>6. QED
    BY <1>1, <2>4, <2>5 DEF CoreInv
<1>6. QED
  BY <1>3, <1>4, <1>5 DEF FlashFault, CallFails

\* Losing a record to rot.
LEMMA RotKeeps ==
    ASSUME CoreInv, Rot, TypeOK', StageOK'
    PROVE  CoreInv'
<1>1. /\ stage \in {"off", "idle"} /\ damage' = damage + 1
      /\ UNCHANGED <<pool, guard, state, current, record, upload, call, stage, step>>
  BY DEF Rot, store, control
<1>2. PICK j \in Sectors : sector' = [sector EXCEPT ![j] = Torn]
  BY DEF Rot
<1>3. \A k \in Sectors : Readable(sector', k) => Readable(sector, k) /\ sector'[k] = sector[k]
  BY <1>2 DEF Readable, CoreInv, TypeOK
<1>4. damage' # 0
  BY <1>1, PoolAssumption DEF CoreInv, TypeOK
<1>5. "A" \in Sectors /\ "B" \in Sectors /\ current \in Sectors /\ Target \in Sectors
  BY DEF CoreInv, TypeOK, Target, Sectors
<1>6. FlashOK'
  BY <1>1, <1>3, <1>4, <1>5 DEF CoreInv, FlashOK
<1>7. ~AnyReadable(sector) => ~AnyReadable(sector')
  BY <1>3, <1>5 DEF AnyReadable
<1>8. step = "none"
  BY <1>1 DEF CoreInv, StageOK
<1>9. MemoryOK'
  <2>1. sector[current] # Clear => sector'[current] # Clear
    BY <1>2, <1>5, SectorAssumption DEF CoreInv, TypeOK
  <2>2. QED
    BY <1>1, <1>3, <1>4, <1>5, <1>7, <1>8, <2>1 DEF CoreInv, MemoryOK, Target
<1>10. UploadOK'
  BY <1>1, <1>3 DEF CoreInv, UploadOK
<1>11. QED
  BY <1>6, <1>9, <1>10 DEF CoreInv

-----------------------------------------------------------------------------
(* The invariant, and what follows from it *)

\* The invariant holds at the start: nothing is readable, and memory is off.
LEMMA InitialInvariant == Init => CoreInv
<1> SUFFICES ASSUME Init PROVE CoreInv
  OBVIOUS
<1>1. TypeOK /\ StageOK
  BY InitialTypes DEF CoreTypes
<1>2. \A k \in Sectors : ~Readable(sector, k)
  BY DEF Init, Readable
<1>3. FlashOK
  BY <1>2 DEF Init, FlashOK, Sectors
<1>4. MemoryOK /\ UploadOK
  BY DEF Init, MemoryOK, UploadOK
<1>5. QED
  BY <1>1, <1>3, <1>4 DEF CoreInv

\* Every step keeps it.
LEMMA StepInvariant == CoreInv /\ [Next]_vars => CoreInv'
<1> SUFFICES ASSUME CoreInv, [Next]_vars PROVE CoreInv'
  OBVIOUS
<1>1. TypeOK' /\ StageOK'
  BY StepTypes DEF CoreInv, CoreTypes
<1>2. CASE \E k \in Contexts, c \in Cores : Begin(k, c)
  BY <1>1, <1>2, StartKeeps DEF Begin
<1>3. CASE \E k \in Contexts : ClearImage(k)
  BY <1>1, <1>3, StartKeeps DEF ClearImage
<1>4. CASE UNCHANGED vars
  <2>1. /\ UNCHANGED <<pool, sector, guard, damage, state, current, record, upload>>
        /\ UNCHANGED <<call, stage, step>>
    BY <1>4 DEF vars, flash, store, control, environment
  <2>2. FlashOK' /\ UploadOK'
    BY <2>1 DEF CoreInv, FlashOK, UploadOK
  <2>3. ChangedSlot' = ChangedSlot /\ ChangedImage' = ChangedImage
    BY <2>1 DEF ChangedSlot, ChangedImage
  <2>4. MemoryOK'
    BY <2>1, <2>3, ImportedStays DEF CoreInv, MemoryOK, Target
  <2>5. QED
    BY <1>1, <2>2, <2>4 DEF CoreInv
<1>5. QED
  BY <1>1, <1>2, <1>3, <1>4, PersistEraseKeeps, PersistProgramKeeps, GuardKeeps,
     EraseNextKeeps, WritePagesKeeps, CommitKeeps, AbortKeeps, PowerOnKeeps,
     PowerLossKeeps, FlashFaultKeeps, RotKeeps DEF Next

\* The inductive invariant of the core pool.
THEOREM CoreInvariant == Spec => []CoreInv
BY InitialInvariant, StepInvariant, PTL DEF Spec

\* README.md:224: both generations of the map list whole images, whichever a
\* later boot selects.
THEOREM GenerationsStayIntact == Spec => []GenerationsIntact
<1>1. CoreInv => GenerationsIntact
  BY DEF CoreInv, FlashOK, Sane, GenerationsIntact
<1>2. QED
  BY <1>1, CoreInvariant, PTL

\* Writes are disabled only after a record has rotted, never by power loss.
THEOREM CorruptOnlyByRot == Spec => []CorruptMeansRot
<1>1. CoreInv => CorruptMeansRot
  <2> SUFFICES ASSUME CoreInv, state = "Corrupt" PROVE damage > 0
    BY DEF CorruptMeansRot
  <2>1. damage \in Nat
    BY PoolAssumption DEF CoreInv, TypeOK
  <2>2. stage # "off"
    BY DEF CoreInv, StageOK
  <2>3. damage # 0
    BY <2>2 DEF CoreInv, MemoryOK
  <2>4. QED
    BY <2>1, <2>2, <2>3
<1>2. QED
  BY <1>1, CoreInvariant, PTL

\* Only a block that no readable record lists is erased or programmed, and only
\* with the guard set.
THEOREM LiveBlocksStay == Spec => LiveBlocksUntouched
<1> DEFINE Kept == \A b \in Blocks : pool'[b] # pool[b] =>
                      /\ guard
                      /\ \A k \in Sectors : Readable(sector, k) => ~Uses(sector[k].images, b)
<1>1. ASSUME CoreInv, Erasing \/ Writing, NEW content,
             pool' = [pool EXCEPT ![NextBlock] = content], UNCHANGED <<sector, guard, damage>>
      PROVE  Kept
  BY <1>1, BlockChanged
<1>2. ASSUME CoreInv, InterruptedFlash, UNCHANGED damage PROVE Kept
  <2>1. CASE UNCHANGED pool
    BY <2>1
  <2>2. CASE (Erasing \/ Writing) /\ UNCHANGED <<sector, guard>> /\ \E c : Fill(NextBlock, c)
    BY <1>1, <1>2, <2>2 DEF Fill
  <2>3. QED
    BY <1>2, <2>1, <2>2 DEF InterruptedFlash, flash
<1>3. ASSUME CoreInv, [Next]_vars PROVE Kept
  <2>1. CASE UNCHANGED pool
    BY <2>1
  <2>2. CASE EraseNext
    BY <1>1, <1>3, <2>2 DEF EraseNext, Fill, environment
  <2>3. CASE \E data \in {Expected, Junk} : WritePages(data)
    BY <1>1, <1>3, <2>3 DEF WritePages, Fill, environment
  <2>4. CASE PowerLoss \/ FlashFault
    BY <1>2, <1>3, <2>4 DEF PowerLoss, FlashFault, environment
  <2>5. QED
    BY <1>3, <2>1, <2>2, <2>3, <2>4
       DEF Next, vars, flash, PowerOn, Begin, ClearImage, Start, PersistErase,
           PersistProgram, Guard, Commit, Abort, Rot
<1>4. QED
  BY <1>3, CoreInvariant, PTL DEF Spec, LiveBlocksUntouched

\* Between calls the map in memory is the one the next boot will load.
THEOREM MemoryIsDurable == Spec => []MemoryMatchesFlash
<1>1. CoreInv => MemoryMatchesFlash
  <2> SUFFICES ASSUME CoreInv, stage = "idle", damage = 0
               PROVE  /\ state = "Ready" <=> AnyReadable(sector)
                      /\ state = "Ready" =>
                            current = Selected(sector) /\ record = sector[Selected(sector)]
    BY DEF MemoryMatchesFlash
  <2>1. /\ sector \in [Sectors -> Record \cup {Clear, Torn}]
        /\ current \in Sectors /\ record \in Record
    BY DEF CoreInv, TypeOK
  <2>2. CASE state # "Ready"
    BY <2>2 DEF CoreInv, MemoryOK
  <2>3. CASE state = "Ready"
    <3>1. /\ Readable(sector, current) /\ sector[current].seq = record.seq
          /\ sector[current].images = record.images
          /\ Readable(sector, Target) => record.seq = NextSeq(sector[Target].seq)
      BY <2>3 DEF CoreInv, MemoryOK
    <3>2. AnyReadable(sector)
      BY <2>1, <3>1 DEF AnyReadable, Sectors
    <3>3. /\ Selected(sector) \in Sectors /\ Readable(sector, Selected(sector))
          /\ \A k \in Sectors : k # Selected(sector) /\ Readable(sector, k) =>
                sector[Selected(sector)].seq = NextSeq(sector[k].seq)
      BY <2>1, <3>2, SelectedIsNewest DEF CoreInv, FlashOK
    <3>4. current = Selected(sector)
      <4> SUFFICES ASSUME current # Selected(sector) PROVE FALSE
        OBVIOUS
      <4>1. Selected(sector) = Target
        BY <2>1, <3>3 DEF Target, Sectors
      <4>2. sector[Target].seq = NextSeq(sector[current].seq)
        BY <2>1, <3>1, <3>3, <4>1
      <4>3. sector[current].seq = NextSeq(sector[Target].seq)
        BY <3>1, <3>3, <4>1
      <4>4. sector[current].seq \in 0..(SeqMod - 1)
        BY <2>1, <3>1, ReadableType
      <4>5. QED
        BY <4>2, <4>3, <4>4, SuccessorIsOneWay
    <3>5. record = sector[current]
      <4>1. sector[current] \in Record
        BY <2>1, <3>1, ReadableType
      <4>2. QED
        BY <2>1, <3>1, <4>1 DEF Record
    <3>6. QED
      BY <2>3, <3>2, <3>4, <3>5
  <2>4. QED
    BY <2>2, <2>3
<1>2. QED
  BY <1>1, CoreInvariant, PTL

\* The migration fence moves as UpdateEngine's Migrate actions say: the guard is
\* set only with a record in flash, and never cleared.
THEOREM FenceIsMonotone == Spec => FenceMoves
<1> DEFINE Moved == \/ Fence' = Fence
                    \/ <<Fence, Fence'>> \in
                          {<<"none", "record">>, <<"record", "none">>, <<"record", "guard">>}
<1>1. ASSUME CoreInv, guard' = guard PROVE Moved
  BY <1>1 DEF Fence
<1>2. ASSUME CoreInv, step = "guard", guard' = TRUE, UNCHANGED sector PROVE Moved
  <2>1. current \in Sectors /\ sector[current] # Clear
    BY <1>2 DEF CoreInv, TypeOK, StageOK, MemoryOK
  <2>2. QED
    BY <1>2, <2>1 DEF Fence
<1>3. ASSUME CoreInv, InterruptedFlash PROVE Moved
  BY <1>1, <1>2, <1>3 DEF InterruptedFlash, flash
<1>4. ASSUME CoreInv, [Next]_vars PROVE Moved
  <2>1. CASE UNCHANGED guard
    BY <1>1, <1>4, <2>1
  <2>2. CASE Guard
    BY <1>2, <1>4, <2>2 DEF Guard
  <2>3. CASE PowerLoss \/ FlashFault
    BY <1>3, <1>4, <2>3 DEF PowerLoss, FlashFault
  <2>4. QED
    BY <1>4, <2>1, <2>2, <2>3
       DEF Next, vars, flash, PowerOn, Begin, ClearImage, Start, PersistErase,
           PersistProgram, EraseNext, WritePages, Commit, Abort, Rot
<1>5. QED
  BY <1>4, CoreInvariant, PTL DEF Spec, FenceMoves

-----------------------------------------------------------------------------
(* What a boot would load *)

\* The durable images are whole, so the table shows their cores.
LEMMA DurableSane ==
    ASSUME CoreInv, damage = 0
    PROVE  /\ DurableImages \in [Contexts -> Images]
           /\ Table = [k \in Contexts |-> DurableImages[k].core]
<1>1. sector \in [Sectors -> Record \cup {Clear, Torn}] /\ pool \in [Blocks -> Contents]
  BY DEF CoreInv, TypeOK
<1>2. DurableImages \in [Contexts -> Images] /\ Sane(pool, DurableImages)
  <2>1. CASE AnyReadable(sector)
    <3>1. Selected(sector) \in Sectors /\ Readable(sector, Selected(sector))
      BY <1>1, <2>1, SelectedIsReadable
    <3>2. sector[Selected(sector)].images \in [Contexts -> Images]
      BY <1>1, <3>1, ReadableType
    <3>3. QED
      BY <2>1, <3>1, <3>2 DEF DurableImages, CoreInv, FlashOK
  <2>2. CASE ~AnyReadable(sector)
    <3>1. ~guard
      BY <2>2 DEF CoreInv, FlashOK
    <3>2. QED
      BY <1>1, <2>2, <3>1, ImportedIsSane DEF DurableImages, Record
  <2>3. QED
    BY <2>1, <2>2
<1>3. \A k \in Contexts : Entry(DurableImages[k]) = DurableImages[k].core
  BY <1>2 DEF Entry, Sane
<1>4. QED
  BY <1>2, <1>3 DEF Table

\* The same after a step.
LEMMA DurableSaneNext ==
    CoreInv' /\ damage' = 0 => Table' = [k \in Contexts |-> DurableImages[k].core]'
<1>1. CoreInv /\ damage = 0 => Table = [k \in Contexts |-> DurableImages[k].core]
  BY DurableSane
<1>2. (CoreInv /\ damage = 0 => Table = [k \in Contexts |-> DurableImages[k].core])'
  BY <1>1, PTL
<1>3. QED
  BY <1>2

\* While a record is loaded, its sector is the one a boot would select.
LEMMA CurrentIsDurable ==
    ASSUME CoreInv, damage = 0, state = "Ready"
    PROVE  /\ Readable(sector, current)
           /\ DurableImages = sector[current].images
<1>1. /\ sector \in [Sectors -> Record \cup {Clear, Torn}] /\ current \in Sectors
      /\ stage # "off"
  BY DEF CoreInv, TypeOK, StageOK
<1>2. /\ Readable(sector, current) /\ sector[current].seq = record.seq
      /\ Readable(sector, Target) => record.seq = NextSeq(sector[Target].seq)
  BY <1>1 DEF CoreInv, MemoryOK
<1>3. AnyReadable(sector)
  BY <1>1, <1>2 DEF AnyReadable, Sectors
<1>4. /\ Selected(sector) \in Sectors /\ Readable(sector, Selected(sector))
      /\ \A k \in Sectors : k # Selected(sector) /\ Readable(sector, k) =>
            sector[Selected(sector)].seq = NextSeq(sector[k].seq)
  BY <1>1, <1>3, SelectedIsNewest DEF CoreInv, FlashOK
<1>5. Selected(sector) = current
  <2> SUFFICES ASSUME Selected(sector) # current PROVE FALSE
    OBVIOUS
  <2>1. Selected(sector) = Target
    BY <1>1, <1>4 DEF Target, Sectors
  <2>2. sector[Target].seq = NextSeq(sector[current].seq)
    BY <1>1, <1>2, <1>4, <2>1
  <2>3. sector[current].seq = NextSeq(sector[Target].seq)
    BY <1>2, <1>4, <2>1
  <2>4. sector[current].seq \in 0..(SeqMod - 1)
    BY <1>1, <1>2, ReadableType
  <2>5. QED
    BY <2>2, <2>3, <2>4, SuccessorIsOneWay
<1>6. QED
  BY <1>2, <1>3, <1>5 DEF DurableImages

\* The map in memory is the durable one, or that with the update being persisted.
LEMMA RecordIsDurable ==
    ASSUME CoreInv, damage = 0, step # "none"
    PROVE  record.images = IF stage = "update"
                           THEN [DurableImages EXCEPT ![ChangedSlot] = ChangedImage]
                           ELSE DurableImages
<1>1. stage # "off" /\ (state = "Ready" \/ (state = "Legacy" /\ stage = "import"))
  BY DEF CoreInv, TypeOK, StageOK
<1>2. CASE state = "Ready"
  BY <1>1, <1>2, CurrentIsDurable DEF CoreInv, MemoryOK
<1>3. CASE state = "Legacy" /\ stage = "import"
  BY <1>1, <1>3 DEF CoreInv, MemoryOK, DurableImages
<1>4. QED
  BY <1>1, <1>2, <1>3

\* What is durable depends on flash alone.
LEMMA DurableStays ==
    ASSUME UNCHANGED <<pool, sector, guard>>
    PROVE  DurableImages' = DurableImages
BY ImportedStays DEF DurableImages

\* Losing the record being replaced changes nothing.
LEMMA DurableAfterLoss ==
    ASSUME CoreInv, CoreInv', damage = 0, step \in {"erase", "program"}, NEW r \in {Clear, Torn},
           sector' = [sector EXCEPT ![Target] = r], UNCHANGED <<pool, guard, damage>>
    PROVE  DurableImages' = DurableImages
<1>1. /\ ~Readable(sector', Target)
      /\ \A k \in Sectors : Readable(sector', k) => k = current
      /\ Readable(sector', current) <=> Readable(sector, current)
      /\ sector'[current] = sector[current]
  BY TargetLost
<1>2. sector' \in [Sectors -> Record \cup {Clear, Torn}] /\ current \in Sectors
  BY DEF CoreInv, TypeOK
<1>3. state = "Ready" \/ (state = "Legacy" /\ stage = "import")
  BY DEF CoreInv, TypeOK, StageOK
<1>4. CASE state = "Ready"
  <2>1. Readable(sector', current) /\ DurableImages = sector[current].images
    BY <1>1, <1>4, CurrentIsDurable
  <2>2. AnyReadable(sector')
    BY <1>2, <2>1 DEF AnyReadable, Sectors
  <2>3. Selected(sector') = current
    BY <1>1, <1>2, <2>2, SelectedIsReadable
  <2>4. QED
    BY <1>1, <2>1, <2>2, <2>3 DEF DurableImages
<1>5. CASE state = "Legacy" /\ stage = "import"
  <2>1. ~AnyReadable(sector) /\ ~guard
    BY <1>5 DEF CoreInv, MemoryOK
  <2>2. ~AnyReadable(sector')
    BY <1>1, <1>2, <2>1 DEF AnyReadable, Sectors
  <2>3. QED
    BY <2>1, <2>2, ImportedStays DEF DurableImages
<1>6. QED
  BY <1>3, <1>4, <1>5

\* Programming a record makes the map in memory the durable one.
LEMMA DurableAfterProgram ==
    ASSUME CoreInv, CoreInv', damage = 0, step = "program",
           sector' = [sector EXCEPT ![Target] = NewRecord], UNCHANGED <<pool, guard, damage>>
    PROVE  DurableImages' = record.images
<1>1. /\ FlashOK'
      /\ sector'[Target] = NewRecord /\ Readable(sector', Target)
      /\ sector'[current] = sector[current]
      /\ Readable(sector', current) => state = "Ready" /\ Readable(sector, current)
  BY TargetWritten
<1>2. /\ Target \in Sectors /\ current \in Sectors /\ Target # current
      /\ \A k \in Sectors : k = Target \/ k = current
      /\ NewRecord.images = record.images /\ NewRecord.seq = NextSeq(record.seq)
  BY NewRecordType DEF CoreInv, CoreTypes
<1>3. sector' \in [Sectors -> Record \cup {Clear, Torn}]
      /\ sector \in [Sectors -> Record \cup {Clear, Torn}] /\ stage # "off"
  BY DEF CoreInv, TypeOK, StageOK
<1>4. AnyReadable(sector')
  BY <1>1, <1>2 DEF AnyReadable, Sectors
<1>5. /\ Selected(sector') \in Sectors /\ Readable(sector', Selected(sector'))
      /\ \A k \in Sectors : k # Selected(sector') /\ Readable(sector', k) =>
            sector'[Selected(sector')].seq = NextSeq(sector'[k].seq)
  BY <1>1, <1>3, <1>4, SelectedIsNewest DEF FlashOK
<1>6. Selected(sector') = Target
  <2> SUFFICES ASSUME Selected(sector') = current PROVE FALSE
    BY <1>2, <1>5
  <2>1. state = "Ready" /\ Readable(sector, current)
    BY <1>1, <1>5
  <2>2. sector[current].seq = record.seq
    BY <1>3, <2>1 DEF CoreInv, MemoryOK
  <2>3. sector[current].seq = NextSeq(NextSeq(sector[current].seq))
    BY <1>1, <1>2, <1>5, <2>2
  <2>4. sector[current].seq \in 0..(SeqMod - 1)
    BY <1>2, <1>3, <2>1, ReadableType
  <2>5. QED
    BY <2>3, <2>4, SuccessorIsOneWay
<1>7. QED
  BY <1>1, <1>2, <1>4, <1>6 DEF DurableImages

\* Work on an upload's blocks, or setting the guard, changes nothing.
LEMMA DurableWhileReady ==
    ASSUME CoreInv, damage = 0, state = "Ready", UNCHANGED sector
    PROVE  DurableImages' = DurableImages
<1>1. AnyReadable(sector)
  BY CurrentIsDurable DEF AnyReadable, Sectors, CoreInv, TypeOK
<1>2. QED
  BY <1>1 DEF DurableImages

\* An operation that does not complete leaves the durable map, or commits.
LEMMA DurableAfterInterruption ==
    ASSUME CoreInv, CoreInv', damage = 0, InterruptedFlash, UNCHANGED damage
    PROVE  \/ DurableImages' = DurableImages
           \/ step = "program" /\ DurableImages' = record.images
<1>1. CASE UNCHANGED flash
  BY <1>1, DurableStays DEF flash
<1>2. CASE /\ step = "erase"
           /\ \E r \in {Clear, Torn} : sector' = [sector EXCEPT ![Target] = r]
           /\ UNCHANGED <<pool, guard>>
  BY <1>2, DurableAfterLoss
<1>3. CASE /\ step = "program"
           /\ \E r \in {Torn, NewRecord} : sector' = [sector EXCEPT ![Target] = r]
           /\ UNCHANGED <<pool, guard>>
  BY <1>3, DurableAfterLoss, DurableAfterProgram
<1>4. CASE (step = "guard" \/ Erasing \/ Writing) /\ UNCHANGED sector
  <2>1. state = "Ready"
    BY <1>4 DEF CoreInv, TypeOK, StageOK, Erasing, Writing, Uploading
  <2>2. QED
    BY <1>4, <2>1, DurableWhileReady
<1>5. QED
  BY <1>1, <1>2, <1>3, <1>4 DEF InterruptedFlash

-----------------------------------------------------------------------------
(* Steps of the table *)

Session == [slot |-> upload.slot, core |-> upload.image.core]
Shown == <<Table, Session>>
Simulated == Pool!PoolNext \/ UNCHANGED Shown

\* A session is open in the table when it is in the store.
LEMMA SessionOpen ==
    ASSUME CoreTypes
    PROVE  Session # Pool!NoUpload <=> upload # NoUpload
<1>1. CASE upload = NoUpload
  BY <1>1 DEF Session, NoUpload, EmptyImage, Pool!NoUpload
<1>2. CASE upload # NoUpload
  BY <1>2, UploadParts, CoresAssumption DEF Session, Pool!NoUpload
<1>3. QED
  BY <1>1, <1>2

\* The table is what it was if the durable map is.
LEMMA TableStays ==
    ASSUME CoreInv, CoreInv', damage = 0, damage' = 0, DurableImages' = DurableImages
    PROVE  Table' = Table
<1>1. Table' = [k \in Contexts |-> (DurableImages')[k].core]
  BY DurableSaneNext
<1>2. QED
  BY <1>1, DurableSane

\* A step that changes neither what is durable nor the session is a stutter.
LEMMA Stutters ==
    ASSUME CoreInv, CoreInv', damage = 0, damage' = 0, DurableImages' = DurableImages,
           upload'.slot = upload.slot, upload'.image = upload.image
    PROVE  Simulated
BY TableStays DEF Simulated, Shown, Session

\* A session may end without effect.
LEMMA Closes ==
    ASSUME CoreInv, CoreInv', damage = 0, damage' = 0, DurableImages' = DurableImages,
           upload' = NoUpload
    PROVE  Simulated
<1>1. CASE upload = NoUpload
  BY <1>1, Stutters
<1>2. CASE upload # NoUpload
  <2>1. Session # Pool!NoUpload /\ Session' = Pool!NoUpload
    BY <1>2, SessionOpen DEF CoreInv, CoreTypes, Session, NoUpload, EmptyImage, Pool!NoUpload
  <2>2. Pool!Close
    BY <2>1, TableStays DEF Pool!Close, Session
  <2>3. QED
    BY <2>2 DEF Simulated, Pool!PoolNext
<1>3. QED
  BY <1>1, <1>2

\* The update being persisted completes an upload or deletes a core.
LEMMA Updates ==
    ASSUME CoreInv, CoreInv', damage = 0, damage' = 0, step = "program", stage = "update",
           DurableImages' = record.images, upload' = NoUpload
    PROVE  Simulated
<1>1. record.images = [DurableImages EXCEPT ![ChangedSlot] = ChangedImage]
  BY RecordIsDurable
<1>2. /\ Table = [k \in Contexts |-> DurableImages[k].core]
      /\ Table' = [k \in Contexts |-> (DurableImages')[k].core]
      /\ DurableImages \in [Contexts -> Images]
  BY DurableSane, DurableSaneNext
<1>3. Table' = [Table EXCEPT ![ChangedSlot] = ChangedImage.core]
  BY <1>1, <1>2
<1>4. Session' = Pool!NoUpload
  BY DEF Session, NoUpload, EmptyImage, Pool!NoUpload
<1>5. CASE call = NoCall /\ upload # NoUpload
  <2>1. ChangedSlot = Session.slot /\ ChangedImage.core = Session.core
    BY <1>5 DEF ChangedSlot, ChangedImage, NoCall, Session
  <2>2. Session # Pool!NoUpload
    BY <1>5, SessionOpen DEF CoreInv, CoreTypes
  <2>3. Pool!Complete
    BY <1>3, <1>4, <2>1, <2>2 DEF Pool!Complete, Session
  <2>4. QED
    BY <2>3 DEF Simulated, Pool!PoolNext
<1>6. CASE call \in Calls /\ call.op = "delete" /\ upload = NoUpload
  <2>1. /\ ChangedSlot = call.slot /\ ChangedImage.core = NoCore /\ call.slot \in Contexts
    BY <1>6, EmptyImageType DEF ChangedSlot, ChangedImage, Calls
  <2>2. Session = Pool!NoUpload
    BY <1>6 DEF Session, NoUpload, EmptyImage, Pool!NoUpload
  <2>3. Pool!Delete(call.slot)
    BY <1>3, <1>4, <2>1, <2>2 DEF Pool!Delete, Session
  <2>4. QED
    BY <2>1, <2>3 DEF Simulated, Pool!PoolNext
<1>7. QED
  BY <1>5, <1>6 DEF CoreInv, StageOK

\* An operation cut short ends the session, with or without its effect.
LEMMA Interruptions ==
    ASSUME CoreInv, CoreInv', damage = 0, damage' = 0, InterruptedFlash, upload' = NoUpload
    PROVE  Simulated
<1>1. CASE DurableImages' = DurableImages
  BY <1>1, Closes
<1>2. CASE step = "program" /\ DurableImages' = record.images
  <2>1. CASE stage = "update"
    BY <1>2, <2>1, Updates
  <2>2. CASE stage # "update"
    BY <1>2, <2>2, RecordIsDurable, Closes
  <2>3. QED
    BY <2>1, <2>2
<1>3. QED
  BY <1>1, <1>2, DurableAfterInterruption

\* Opening a session for a core.
LEMMA GuardSimulated ==
    ASSUME CoreInv, CoreInv', damage = 0, damage' = 0, Guard
    PROVE  Simulated
<1>1. /\ step = "guard" /\ UNCHANGED sector /\ state = "Ready" /\ upload = NoUpload
  BY DEF Guard, Guarded, CoreInv, StageOK
<1>2. DurableImages' = DurableImages
  BY <1>1, DurableWhileReady
<1>3. CASE UNCHANGED upload
  BY <1>2, <1>3, Stutters
<1>4. CASE /\ stage = "checkpoint" /\ call.op = "upload"
           /\ \E blocks \in Allocations(record.images, call.core) :
                 upload' = [slot |-> call.slot,
                            image |-> [core |-> call.core, blocks |-> blocks],
                            erased |-> 0, written |-> 0, intact |-> TRUE,
                            failed |-> FALSE]
  <2>1. call \in Calls /\ call.slot \in Contexts /\ call.core \in Cores
    BY <1>4 DEF CoreInv, StageOK, Calls
  <2>2. Session = Pool!NoUpload
    BY <1>1 DEF Session, NoUpload, EmptyImage, Pool!NoUpload
  <2>3. Session' = [slot |-> call.slot, core |-> call.core]
    BY <1>4 DEF Session
  <2>4. Pool!Open(call.slot, call.core)
    BY <1>2, <2>2, <2>3, TableStays DEF Pool!Open, Session
  <2>5. QED
    BY <2>1, <2>4 DEF Simulated, Pool!PoolNext
<1>5. QED
  BY <1>3, <1>4 DEF Guard, Guarded

\* Persisting a record.
LEMMA PersistSimulated ==
    ASSUME CoreInv, CoreInv', damage = 0, damage' = 0, PersistErase \/ PersistProgram
    PROVE  Simulated
<1>1. CASE PersistErase
  <2>1. DurableImages' = DurableImages
    BY <1>1, DurableAfterLoss DEF PersistErase, environment
  <2>2. QED
    BY <1>1, <2>1, Stutters DEF PersistErase
<1>2. CASE PersistProgram
  <2>1. /\ step = "program" /\ sector' = [sector EXCEPT ![Target] = NewRecord]
        /\ UNCHANGED <<pool, guard, damage>>
    BY <1>2 DEF PersistProgram, environment
  <2>2. DurableImages' = record.images
    BY <2>1, DurableAfterProgram
  <2>3. Persisted
    BY <1>2, <2>1, TargetWritten DEF PersistProgram
  <2>4. CASE stage = "update"
    BY <2>1, <2>2, <2>3, <2>4, Updates DEF Persisted
  <2>5. CASE stage # "update"
    <3>1. DurableImages' = DurableImages
      BY <2>1, <2>2, <2>5, RecordIsDurable
    <3>2. UNCHANGED upload
      BY <2>3, <2>5 DEF Persisted
    <3>3. QED
      BY <3>1, <3>2, Stutters
  <2>6. QED
    BY <2>4, <2>5
<1>3. QED
  BY <1>1, <1>2

\* The steps of an upload.
LEMMA UploadSimulated ==
    ASSUME CoreInv, CoreInv', damage = 0, damage' = 0,
           EraseNext \/ (\E data \in {Expected, Junk} : WritePages(data)) \/ Commit \/ Abort
    PROVE  Simulated
<1>1. upload # NoUpload /\ state = "Ready" /\ UNCHANGED sector
  BY DEF EraseNext, WritePages, Commit, Abort, Erasing, Writing, Uploading, flash, CoreInv,
         StageOK
<1>2. DurableImages' = DurableImages
  BY <1>1, DurableWhileReady
<1>3. upload \in Uploads
  BY <1>1, UploadParts DEF CoreInv, CoreTypes
<1>4. CASE Abort
  BY <1>2, <1>4, Closes DEF Abort
<1>5. CASE EraseNext \/ (\E data \in {Expected, Junk} : WritePages(data)) \/ Commit
  <2>1. upload'.slot = upload.slot /\ upload'.image = upload.image
    BY <1>3, <1>5 DEF EraseNext, WritePages, Commit, Uploads
  <2>2. QED
    BY <1>2, <2>1, Stutters
<1>6. QED
  BY <1>4, <1>5

\* Failures.
LEMMA FaultSimulated ==
    ASSUME CoreInv, CoreInv', damage = 0, damage' = 0, FlashFault
    PROVE  Simulated
<1>1. CASE upload' = NoUpload
  BY <1>1, Interruptions DEF FlashFault
<1>2. CASE UNCHANGED upload /\ step # "program"
  <2>1. DurableImages' = DurableImages
    BY <1>2, DurableAfterInterruption DEF FlashFault
  <2>2. QED
    BY <1>2, <2>1, Stutters
<1>3. CASE UploadFails /\ UNCHANGED <<store, control>> /\ upload' # NoUpload
  <2>1. Writing /\ upload' = [upload EXCEPT !.failed = TRUE]
    BY <1>3 DEF UploadFails
  <2>2. step = "none" /\ upload \in Uploads
    BY <2>1 DEF Writing, Uploading, CoreInv, StageOK, TypeOK
  <2>3. upload'.slot = upload.slot /\ upload'.image = upload.image
    BY <2>1, <2>2 DEF Uploads
  <2>4. DurableImages' = DurableImages
    BY <2>2, DurableAfterInterruption DEF FlashFault
  <2>5. QED
    BY <2>3, <2>4, Stutters
<1>4. QED
  BY <1>1, <1>2, <1>3 DEF FlashFault, CallFails, Load

\* Every step is one of the table.
LEMMA StepSimulated ==
    ASSUME CoreInv, CoreInv', damage = 0, damage' = 0, MaxDamage = 0, [Next]_vars
    PROVE  Simulated
<1>1. CASE UNCHANGED <<flash, upload>>
  <2>1. DurableImages' = DurableImages
    BY <1>1, DurableStays DEF flash
  <2>2. QED
    BY <1>1, <2>1, Stutters
<1>2. CASE PowerOn
  <2>1. DurableImages' = DurableImages /\ upload' = NoUpload
    BY <1>2, DurableStays DEF PowerOn, Load, flash
  <2>2. QED
    BY <2>1, Closes
<1>3. CASE PowerLoss
  BY <1>3, Interruptions DEF PowerLoss
<1>4. CASE Rot
  BY <1>4 DEF Rot
<1>5. CASE (\E k \in Contexts, c \in Cores : Begin(k, c)) \/ (\E k \in Contexts : ClearImage(k))
  BY <1>1, <1>5 DEF Begin, ClearImage, Start
<1>6. CASE UNCHANGED vars
  BY <1>1, <1>6 DEF vars
<1>7. QED
  BY <1>2, <1>3, <1>4, <1>5, <1>6, GuardSimulated, PersistSimulated, UploadSimulated,
     FaultSimulated DEF Next

-----------------------------------------------------------------------------
(* The contract *)

\* The table starts with what the fixed slots hold, and no session.
LEMMA InitialContract == Init => Pool!PoolInit
<1> SUFFICES ASSUME Init PROVE Pool!PoolInit
  OBVIOUS
<1>1. CoreInv /\ damage = 0
  BY InitialInvariant DEF Init
<1>2. /\ Table = [k \in Contexts |-> DurableImages[k].core]
      /\ DurableImages \in [Contexts -> Images]
  BY <1>1, DurableSane
<1>3. \A k \in Contexts : DurableImages[k].core \in Cores \cup {NoCore, Foreign}
  BY <1>2, ImageParts DEF Kinds
<1>4. Table \in [Contexts -> Pool!Entries]
  BY <1>2, <1>3 DEF Pool!Entries
<1>5. Session = Pool!NoUpload
  BY DEF Init, Session, NoUpload, EmptyImage, Pool!NoUpload
<1>6. QED
  BY <1>4, <1>5 DEF Pool!PoolInit, Session

\* While no record rots, the pool is the table of cores that core_store.h promises:
\* an entry changes only by a completed upload or a deletion, in one step, whatever
\* power loss and failed operations do in between.
THEOREM ImplementsCorePool ==
    ASSUME MaxDamage = 0
    PROVE  Spec => Contract
<1>1. CoreInv => damage = 0
  BY DEF CoreInv, TypeOK
<1>2. (CoreInv => damage = 0)'
  <2>1. CoreInv' => damage' \in 0..0
    BY DEF CoreInv, TypeOK
  <2>2. QED
    BY <2>1
<1>3. CoreInv /\ CoreInv' /\ [Next]_vars => [Pool!PoolNext]_Shown
  BY <1>1, <1>2, StepSimulated DEF Simulated
<1>4. QED
  BY <1>3, InitialContract, CoreInvariant, PTL DEF Spec, Contract, Pool!PoolSpec, Shown, Session
=============================================================================
