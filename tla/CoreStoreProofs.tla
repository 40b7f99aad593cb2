-------------------------- MODULE CoreStoreProofs ---------------------------
(***************************************************************************)
(* Theorems about the core pool, for any contexts, cores, block count,     *)
(* sequence width and budgets: its types, its inductive invariant, and     *)
(* what follows from it.                                                   *)
(***************************************************************************)
EXTENDS CoreStoreProperties, TLAPS

-----------------------------------------------------------------------------
(* Images and records *)

Kinds == Cores \cup {NoCore, Foreign}

\* The number of blocks of an image is the one of its kind.
LEMMA CountType == \A c \in Kinds : Count(c) \in 0..NumBlocks
BY CoresAssumption, PoolAssumption, LegacyAssumption DEF Count, Kinds

\* Count of a core is positive.
LEMMA CountCore == \A c \in Cores : Count(c) = Size[c] /\ Count(c) \in 1..NumBlocks
BY CoresAssumption, PoolAssumption DEF Count

\* What an image consists of.
LEMMA ImageParts ==
    ASSUME NEW i \in Images
    PROVE  /\ i.core \in Kinds
           /\ i.blocks \in [1..Count(i.core) -> Blocks]
           /\ i = [core |-> i.core, blocks |-> i.blocks]
BY DEF Images, ImagesOf, Kinds

\* A kind and as many blocks make an image.
LEMMA ImageMade ==
    ASSUME NEW c \in Kinds, NEW f \in [1..Count(c) -> Blocks]
    PROVE  [core |-> c, blocks |-> f] \in Images
<1>1. [core |-> c, blocks |-> f] \in ImagesOf(c)
  BY DEF ImagesOf
<1>2. QED
  BY <1>1 DEF Images, Kinds

\* The empty image is an image.
LEMMA EmptyImageType == EmptyImage \in Images /\ EmptyImage.core = NoCore
<1>1. Count(NoCore) = 0
  BY CoresAssumption DEF Count
<1>2. [n \in 1..0 |-> 0] \in [1..Count(NoCore) -> Blocks]
  BY <1>1
<1>3. NoCore \in Kinds
  BY DEF Kinds
<1>4. QED
  BY <1>2, <1>3, ImageMade DEF EmptyImage

\* The empty image lists no block and is whole.
LEMMA EmptyImageWhole ==
    /\ \A p : Whole(p, EmptyImage)
    /\ DOMAIN EmptyImage.blocks = {}
<1>1. EmptyImage.core \notin Cores
  BY CoresAssumption DEF EmptyImage
<1>2. DOMAIN EmptyImage.blocks = 1..0
  BY DEF EmptyImage
<1>3. QED
  BY <1>1, <1>2 DEF Whole

\* Record sectors hold records when readable.
LEMMA ReadableType ==
    ASSUME NEW s \in [Sectors -> Record \cup {Clear, Torn}], NEW k \in Sectors, Readable(s, k)
    PROVE  /\ s[k] \in Record /\ s[k].seq \in 0..(SeqMod - 1)
           /\ s[k].images \in [Contexts -> Images]
BY DEF Readable, Record

\* Successive sequence numbers compare as they should, across the wrap.
LEMMA SuccessorIsNewer ==
    ASSUME NEW a \in 0..(SeqMod - 1)
    PROVE  /\ NextSeq(a) \in 0..(SeqMod - 1)
           /\ Newer(NextSeq(a), a)
           /\ ~Newer(a, NextSeq(a))
BY PoolAssumption, SMTT(30) DEF NextSeq, Newer

\* Two numbers do not both follow each other.
LEMMA SuccessorIsOneWay ==
    ASSUME NEW a \in 0..(SeqMod - 1)
    PROVE  NextSeq(NextSeq(a)) # a
BY PoolAssumption DEF NextSeq

\* load() selects a readable record if there is one.
LEMMA SelectedIsReadable ==
    ASSUME NEW s \in [Sectors -> Record \cup {Clear, Torn}], AnyReadable(s)
    PROVE  Selected(s) \in Sectors /\ Readable(s, Selected(s)) /\ s[Selected(s)] \in Record
<1>1. Selected(s) \in Sectors /\ Readable(s, Selected(s))
  BY DEF AnyReadable, Selected, Sectors
<1>2. QED
  BY <1>1, ReadableType

\* load() selects a readable record, and the newer one of two.
LEMMA SelectedIsNewest ==
    ASSUME NEW s \in [Sectors -> Record \cup {Clear, Torn}],
           AnyReadable(s),
           Readable(s, "A") /\ Readable(s, "B") =>
              \/ s["A"].seq = NextSeq(s["B"].seq)
              \/ s["B"].seq = NextSeq(s["A"].seq)
    PROVE  /\ Selected(s) \in Sectors
           /\ Readable(s, Selected(s))
           /\ \A k \in Sectors : k # Selected(s) /\ Readable(s, k) =>
                 s[Selected(s)].seq = NextSeq(s[k].seq)
<1>1. CASE Readable(s, "A") /\ Readable(s, "B")
  <2>1. s["A"].seq \in 0..(SeqMod - 1) /\ s["B"].seq \in 0..(SeqMod - 1)
    BY <1>1, ReadableType DEF Sectors
  <2>2. CASE s["A"].seq = NextSeq(s["B"].seq)
    <3>1. Selected(s) = "A"
      BY <1>1, <2>1, <2>2, SuccessorIsNewer DEF Selected
    <3>2. QED
      BY <1>1, <2>2, <3>1 DEF Sectors
  <2>3. CASE s["B"].seq = NextSeq(s["A"].seq)
    <3>1. Selected(s) = "B"
      BY <1>1, <2>1, <2>3, SuccessorIsNewer DEF Selected
    <3>2. QED
      BY <1>1, <2>3, <3>1 DEF Sectors
  <2>4. QED
    BY <1>1, <2>2, <2>3
<1>2. CASE Readable(s, "A") /\ ~Readable(s, "B")
  <2>1. Selected(s) = "A"
    BY <1>2 DEF Selected
  <2>2. QED
    BY <1>2, <2>1 DEF Sectors
<1>3. CASE ~Readable(s, "A") /\ Readable(s, "B")
  <2>1. Selected(s) = "B"
    BY <1>3 DEF Selected
  <2>2. QED
    BY <1>3, <2>1 DEF Sectors
<1>4. QED
  BY <1>1, <1>2, <1>3 DEF AnyReadable

-----------------------------------------------------------------------------
(* Imported images *)

\* What migration makes of a fixed slot is an image, and whole.
LEMMA LegacyImageType ==
    ASSUME NEW k \in Contexts, pool \in [Blocks -> Contents]
    PROVE  /\ LegacyImage(k) \in Images /\ Whole(pool, LegacyImage(k))
           /\ Count(LegacyCore(k)) <= Window
           /\ LegacyImage(k).core = LegacyCore(k)
           /\ DOMAIN LegacyImage(k).blocks = 1..Count(LegacyCore(k))
           /\ \A n \in 1..Count(LegacyCore(k)) :
                 n \in 1..Window /\ LegacyImage(k).blocks[n] = LegacyBlocks[k][n]
<1> DEFINE c == LegacyCore(k)
<1>1. c \in Kinds /\ Count(c) <= Window /\ (c \in Cores => Recognized(k, c))
  <2>1. CASE \A n \in 1..Window : pool[LegacyBlocks[k][n]] = Blank
    <3>1. c = NoCore
      BY <2>1 DEF LegacyCore
    <3>2. QED
      BY <3>1, CoresAssumption, LegacyAssumption, PoolAssumption DEF Kinds, Count
  <2>2. CASE /\ ~\A n \in 1..Window : pool[LegacyBlocks[k][n]] = Blank
             /\ \E d \in Cores : Recognized(k, d)
    <3>1. c = CHOOSE d \in Cores : Recognized(k, d)
      BY <2>2 DEF LegacyCore
    <3>2. c \in Cores /\ Recognized(k, c)
      BY <2>2, <3>1
    <3>3. QED
      BY <3>2 DEF Recognized, Kinds
  <2>3. CASE /\ ~\A n \in 1..Window : pool[LegacyBlocks[k][n]] = Blank
             /\ ~\E d \in Cores : Recognized(k, d)
    <3>1. c = Foreign
      BY <2>3 DEF LegacyCore
    <3>2. QED
      BY <3>1, CoresAssumption, LegacyAssumption, PoolAssumption DEF Kinds, Count
  <2>4. QED
    BY <2>1, <2>2, <2>3
<1>2. Count(c) \in 0..NumBlocks
  BY <1>1, CountType
<1>3. \A n \in 1..Count(c) : n \in 1..Window /\ LegacyBlocks[k][n] \in Blocks
  BY <1>1, <1>2, LegacyAssumption, PoolAssumption
<1>4. LegacyImage(k).blocks \in [1..Count(c) -> Blocks]
  BY <1>3 DEF LegacyImage
<1>5. LegacyImage(k) \in Images
  BY <1>1, <1>3, ImageMade DEF LegacyImage
<1>6. LegacyImage(k).core = c
  BY DEF LegacyImage
<1>7. \A n \in 1..Count(c) : LegacyImage(k).blocks[n] = LegacyBlocks[k][n]
  BY DEF LegacyImage
<1>8. Whole(pool, LegacyImage(k))
  BY <1>1, <1>6, <1>7 DEF Whole, Recognized
<1>9. QED
  BY <1>1, <1>3, <1>4, <1>5, <1>6, <1>7, <1>8

\* Fixed slots are disjoint.
LEMMA LegacyDisjoint ==
    ASSUME NEW j \in Contexts, NEW k \in Contexts, NEW m \in 1..Window, NEW n \in 1..Window,
           LegacyBlocks[j][m] = LegacyBlocks[k][n]
    PROVE  j = k /\ m = n
BY LegacyAssumption

\* The imported record is sane.
LEMMA ImportedIsSane ==
    ASSUME pool \in [Blocks -> Contents]
    PROVE  ImportedRecord \in Record /\ Sane(pool, ImportedRecord.images)
<1> DEFINE images == ImportedRecord.images
<1>1. images = [k \in Contexts |-> LegacyImage(k)]
  BY DEF ImportedRecord
<1>2. images \in [Contexts -> Images]
  BY <1>1, LegacyImageType
<1>3. ImportedRecord \in Record
  BY <1>1, <1>2, PoolAssumption DEF ImportedRecord, Record
<1>4. \A k \in Contexts : Whole(pool, images[k])
  BY <1>1, LegacyImageType
<1>5. WellFormed(images)
  <2> SUFFICES ASSUME NEW j \in Contexts, NEW k \in Contexts,
                      NEW m \in DOMAIN images[j].blocks, NEW n \in DOMAIN images[k].blocks,
                      images[j].blocks[m] = images[k].blocks[n]
               PROVE  j = k /\ m = n
    BY DEF WellFormed
  <2>1. images[j] = LegacyImage(j) /\ images[k] = LegacyImage(k)
    BY <1>1
  <2>2. m \in 1..Window /\ images[j].blocks[m] = LegacyBlocks[j][m]
    BY <2>1, LegacyImageType
  <2>3. n \in 1..Window /\ images[k].blocks[n] = LegacyBlocks[k][n]
    BY <2>1, LegacyImageType
  <2>4. LegacyBlocks[j][m] = LegacyBlocks[k][n]
    BY <2>2, <2>3
  <2>5. QED
    BY <2>2, <2>3, <2>4, LegacyDisjoint
<1>6. QED
  BY <1>3, <1>4, <1>5 DEF Sane

-----------------------------------------------------------------------------
(* Types *)

CoreTypes == TypeOK /\ StageOK

\* A session names a core and its blocks.
LEMMA UploadParts ==
    ASSUME CoreTypes, upload # NoUpload
    PROVE  /\ upload \in Uploads
           /\ upload.image.core \in Cores
           /\ upload.image.blocks \in [1..Count(upload.image.core) -> Blocks]
           /\ Count(upload.image.core) \in 1..NumBlocks
           /\ upload.erased \in Nat /\ upload.written \in Nat
<1>1. upload \in Uploads /\ upload.image.core \in Cores
  BY DEF CoreTypes, TypeOK, StageOK
<1>2. upload.image \in Images /\ upload.erased \in Nat /\ upload.written \in Nat
  BY <1>1, PoolAssumption DEF Uploads
<1>3. QED
  BY <1>1, <1>2, ImageParts, CountCore

\* The block an upload works on.
LEMMA NextBlockType ==
    ASSUME CoreTypes, Erasing \/ Writing
    PROVE  /\ NextBlock \in Blocks
           /\ \E n \in 1..Count(upload.image.core) : NextBlock = upload.image.blocks[n]
           /\ Writing => Expected \in Contents
<1>1. upload # NoUpload
  BY DEF Erasing, Writing, Uploading
<1>2. CASE Erasing
  <2>1. upload.erased + 1 \in 1..Count(upload.image.core)
    BY <1>1, <1>2, UploadParts DEF Erasing
  <2>2. NextBlock = upload.image.blocks[upload.erased + 1]
    BY <1>2 DEF NextBlock
  <2>3. ~Writing
    BY <1>1, <1>2, UploadParts DEF Erasing, Writing
  <2>4. QED
    BY <1>1, <2>1, <2>2, <2>3, UploadParts
<1>3. CASE Writing
  <2>1. upload.written + 1 \in 1..Count(upload.image.core)
    BY <1>1, <1>3, UploadParts DEF Writing
  <2>2. ~Erasing
    BY <1>1, <1>3, UploadParts DEF Erasing, Writing
  <2>3. NextBlock = upload.image.blocks[upload.written + 1]
    BY <2>2 DEF NextBlock
  <2>4. upload.written + 1 \in 1..NumBlocks
    BY <1>1, <2>1, UploadParts, PoolAssumption
  <2>5. Expected \in Contents
    BY <1>1, <2>4, UploadParts DEF Expected, Part, Contents
  <2>6. QED
    BY <1>1, <2>1, <2>3, <2>5, UploadParts
<1>4. QED
  BY <1>2, <1>3

\* The next record to persist.
LEMMA NewRecordType ==
    ASSUME CoreTypes
    PROVE  /\ NewRecord \in Record
           /\ NewRecord.images = record.images
           /\ NewRecord.seq = NextSeq(record.seq)
           /\ Target \in Sectors /\ current \in Sectors /\ Target # current
           /\ \A k \in Sectors : k = Target \/ k = current
<1>1. record \in Record /\ current \in Sectors
  BY DEF CoreTypes, TypeOK
<1>2. record.seq \in 0..(SeqMod - 1)
  BY <1>1 DEF Record
<1>3. NextSeq(record.seq) \in 0..(SeqMod - 1)
  BY <1>2, SuccessorIsNewer
<1>4. QED
  BY <1>1, <1>3 DEF NewRecord, Record, Target, Sectors

\* What a load leaves in memory.
LEMMA LoadTypes ==
    ASSUME CoreTypes, NEW s \in [Sectors -> Record \cup {Clear, Torn}], NEW g, Load(s, g)
    PROVE  /\ state' \in {"Legacy", "Ready", "Corrupt"}
           /\ current' \in Sectors
           /\ record' \in Record
           /\ upload' = NoUpload
<1>1. CASE AnyReadable(s)
  BY <1>1, SelectedIsReadable DEF Load
<1>2. CASE ~AnyReadable(s)
  BY <1>2 DEF Load, CoreTypes, TypeOK
<1>3. QED
  BY <1>1, <1>2

\* What an interrupted operation leaves in flash.
LEMMA InterruptedTypes ==
    ASSUME CoreTypes, InterruptedFlash
    PROVE  /\ pool' \in [Blocks -> Contents]
           /\ sector' \in [Sectors -> Record \cup {Clear, Torn}]
           /\ guard' \in BOOLEAN
<1> USE DEF CoreTypes, TypeOK
<1>1. CASE UNCHANGED flash
  BY <1>1 DEF flash
<1>2. CASE /\ step = "erase"
           /\ \E r \in {Clear, Torn} : sector' = [sector EXCEPT ![Target] = r]
           /\ UNCHANGED <<pool, guard>>
  BY <1>2
<1>3. CASE /\ step = "program"
           /\ \E r \in {Torn, NewRecord} : sector' = [sector EXCEPT ![Target] = r]
           /\ UNCHANGED <<pool, guard>>
  BY <1>3, NewRecordType
<1>4. CASE step = "guard" /\ guard' = TRUE /\ UNCHANGED <<pool, sector>>
  BY <1>4
<1>5. CASE /\ Erasing
           /\ \E content \in {Blank, Junk} : Fill(NextBlock, content)
           /\ UNCHANGED <<sector, guard>>
  BY <1>5 DEF Fill, Contents
<1>6. CASE /\ Writing
           /\ \E content \in {Expected, Junk} : Fill(NextBlock, content)
           /\ UNCHANGED <<sector, guard>>
  <2>1. Expected \in Contents /\ Junk \in Contents
    BY <1>6, NextBlockType DEF Contents
  <2>2. QED
    BY <1>6, <2>1 DEF Fill
<1>7. QED
  BY <1>1, <1>2, <1>3, <1>4, <1>5, <1>6 DEF InterruptedFlash

\* Starting a call keeps the types.
LEMMA StartTypes ==
    ASSUME CoreTypes, NEW a \in Calls, Start(a),
           a.op = "upload" =>
              a.core \in Cores /\ (state = "Ready" => Fits(record.images, a.core))
    PROVE  CoreTypes'
<1>1. ImportedRecord \in Record
  BY ImportedIsSane DEF CoreTypes, TypeOK
<1>2. TypeOK'
  BY <1>1 DEF CoreTypes, TypeOK, Start, Persist, flash, environment, Sectors
<1>3. StageOK'
  BY DEF CoreTypes, TypeOK, StageOK, Start, Persist, Calls, NoCall
<1>4. QED
  BY <1>2, <1>3 DEF CoreTypes

\* The steps of a call on the records keep the types.
LEMMA PersistEraseTypes == CoreTypes /\ PersistErase => CoreTypes'
<1> SUFFICES ASSUME CoreTypes, PersistErase PROVE CoreTypes'
  OBVIOUS
<1>1. TypeOK'
  BY NewRecordType DEF CoreTypes, TypeOK, PersistErase, store, environment
<1>2. StageOK'
  BY DEF CoreTypes, TypeOK, StageOK, PersistErase, store, environment
<1>3. QED
  BY <1>1, <1>2 DEF CoreTypes

LEMMA PersistProgramTypes == CoreTypes /\ PersistProgram => CoreTypes'
<1> SUFFICES ASSUME CoreTypes, PersistProgram PROVE CoreTypes'
  OBVIOUS
<1>1. sector' \in [Sectors -> Record \cup {Clear, Torn}]
  BY NewRecordType DEF CoreTypes, TypeOK, PersistProgram
<1>2. CASE WellFormed(record.images)
  <2>1. Persisted
    BY <1>2 DEF PersistProgram
  <2>2. TypeOK'
    BY <1>1, <2>1, NewRecordType
       DEF CoreTypes, TypeOK, PersistProgram, Persisted, Persist, Return, environment
  <2>3. StageOK'
    BY <2>1, NewRecordType
       DEF CoreTypes, StageOK, PersistProgram, Persisted, Persist, Return, NoCall
  <2>4. QED
    BY <2>2, <2>3 DEF CoreTypes
<1>3. CASE ~WellFormed(record.images)
  <2>1. Load(sector', guard) /\ Return
    BY <1>3 DEF PersistProgram
  <2>2. TypeOK'
    BY <1>1, <2>1, LoadTypes
       DEF CoreTypes, TypeOK, PersistProgram, Return, environment
  <2>3. StageOK'
    BY <1>1, <2>1, LoadTypes DEF StageOK, Return, NoCall
  <2>4. QED
    BY <2>2, <2>3 DEF CoreTypes
<1>4. QED
  BY <1>2, <1>3

\* A session on free blocks.
LEMMA AllocatedType ==
    ASSUME NEW images \in [Contexts -> Images], NEW c \in Cores,
           NEW blocks \in Allocations(images, c)
    PROVE  /\ blocks \in [1..Count(c) -> Blocks]
           /\ [core |-> c, blocks |-> blocks] \in Images
           /\ \A n \in 1..Count(c) : ~Uses(images, blocks[n])
           /\ \A m, n \in 1..Count(c) : blocks[m] = blocks[n] => m = n
<1>1. blocks \in [1..Count(c) -> {b \in Blocks : ~Uses(images, b)}]
  BY DEF Allocations
<1>2. blocks \in [1..Count(c) -> Blocks]
  BY <1>1
<1>3. [core |-> c, blocks |-> blocks] \in Images
  BY <1>2, ImageMade DEF Kinds
<1>4. \A m, n \in 1..Count(c) : m < n => blocks[m] < blocks[n]
  BY DEF Allocations
<1>5. \A m, n \in 1..Count(c) : blocks[m] = blocks[n] => m = n
  <2> SUFFICES ASSUME NEW m \in 1..Count(c), NEW n \in 1..Count(c), blocks[m] = blocks[n]
               PROVE  m = n
    OBVIOUS
  <2>1. blocks[m] \in Int /\ m \in Int /\ n \in Int
    BY <1>2, CountCore, PoolAssumption DEF Blocks
  <2>2. ~(m < n) /\ ~(n < m)
    BY <1>4, <2>1
  <2>3. QED
    BY <2>1, <2>2
<1>6. QED
  BY <1>1, <1>2, <1>3, <1>5

LEMMA GuardTypes == CoreTypes /\ Guard => CoreTypes'
<1> SUFFICES ASSUME CoreTypes, Guard PROVE CoreTypes'
  OBVIOUS
<1>1. record.images \in [Contexts -> Images] /\ record \in Record
  BY DEF CoreTypes, TypeOK, Record
<1>2. CASE /\ stage = "importCheckpoint"
           /\ IF call.op = "upload" /\ ~Fits(record.images, call.core)
              THEN Return
              ELSE Persist("checkpoint") /\ UNCHANGED call
           /\ UNCHANGED <<record, upload>>
  <2>1. TypeOK'
    BY <1>2 DEF CoreTypes, TypeOK, Guard, Return, Persist, environment
  <2>2. StageOK'
    BY <1>2 DEF CoreTypes, StageOK, Guard, Return, Persist, NoCall
  <2>3. QED
    BY <2>1, <2>2 DEF CoreTypes
<1>3. CASE /\ stage = "checkpoint"
           /\ call.op = "upload"
           /\ \E blocks \in Allocations(record.images, call.core) :
                 upload' = [slot |-> call.slot,
                            image |-> [core |-> call.core, blocks |-> blocks],
                            erased |-> 0, written |-> 0, intact |-> TRUE,
                            failed |-> FALSE]
           /\ Return
           /\ UNCHANGED record
  <2>1. call \in Calls /\ call.core \in Cores
    BY <1>3 DEF CoreTypes, StageOK
  <2>2. upload' \in Uploads /\ upload'.image.core \in Cores
    BY <1>1, <1>3, <2>1, AllocatedType, PoolAssumption DEF Uploads, Calls
  <2>3. TypeOK'
    BY <1>3, <2>2 DEF CoreTypes, TypeOK, Guard, Return, environment
  <2>4. StageOK'
    BY <1>3, <2>2 DEF CoreTypes, StageOK, Guard, Return, NoCall
  <2>5. QED
    BY <2>3, <2>4 DEF CoreTypes
<1>4. CASE /\ stage = "checkpoint"
           /\ call.op = "delete"
           /\ record' = WithoutImage(call.slot)
           /\ Persist("update")
           /\ UNCHANGED <<call, upload>>
  <2>1. record' \in Record
    BY <1>1, <1>4, EmptyImageType DEF WithoutImage, Record
  <2>2. TypeOK'
    BY <1>4, <2>1 DEF CoreTypes, TypeOK, Guard, Persist, environment
  <2>3. StageOK'
    BY <1>4 DEF CoreTypes, StageOK, Guard, Persist
  <2>4. QED
    BY <2>2, <2>3 DEF CoreTypes
<1>5. QED
  BY <1>2, <1>3, <1>4 DEF Guard, Guarded

\* The steps of an upload keep the types.
LEMMA UploadTypes ==
    CoreTypes /\ (EraseNext \/ (\E data \in {Expected, Junk} : WritePages(data)) \/ Commit \/ Abort)
        => CoreTypes'
<1>1. ASSUME CoreTypes, EraseNext PROVE CoreTypes'
  <2>1. upload # NoUpload /\ upload.erased + 1 \in 0..NumBlocks
    BY <1>1, UploadParts, PoolAssumption DEF EraseNext, Erasing, Uploading
  <2>2. upload' \in Uploads /\ upload'.image = upload.image
    BY <1>1, <2>1, UploadParts DEF EraseNext, Uploads
  <2>3. TypeOK'
    BY <1>1, <2>2 DEF CoreTypes, TypeOK, EraseNext, Fill, Contents, store, control, environment
  <2>4. StageOK'
    BY <1>1, <2>1, <2>2 DEF CoreTypes, StageOK, EraseNext, Erasing, Uploading, store, control
  <2>5. QED
    BY <2>3, <2>4 DEF CoreTypes
<1>2. ASSUME CoreTypes, NEW data \in {Expected, Junk}, WritePages(data) PROVE CoreTypes'
  <2>1. upload # NoUpload /\ upload.written + 1 \in 0..NumBlocks
    BY <1>2, UploadParts, PoolAssumption DEF WritePages, Writing, Uploading
  <2>2. Programmed(pool[NextBlock], data) \in Contents
    BY <1>2, NextBlockType DEF Programmed, Contents, WritePages
  <2>3. upload' \in Uploads /\ upload'.image = upload.image
    <3>1. upload.intact \in BOOLEAN /\ upload \in Uploads
      BY <1>2, <2>1, UploadParts DEF Uploads
    <3>2. (upload.intact /\ data = Expected) \in BOOLEAN
      OBVIOUS
    <3>3. [upload EXCEPT !.written = @ + 1, !.intact = @ /\ data = Expected] \in Uploads
      BY <2>1, <3>1, <3>2 DEF Uploads
    <3>4. QED
      BY <1>2, <3>1, <3>3 DEF WritePages, Uploads
  <2>4. pool' \in [Blocks -> Contents]
    BY <1>2, <2>2 DEF CoreTypes, TypeOK, WritePages, Fill
  <2>5. TypeOK'
    BY <1>2, <2>3, <2>4 DEF CoreTypes, TypeOK, WritePages, store, control, environment
  <2>6. StageOK'
    BY <1>2, <2>1, <2>3 DEF CoreTypes, StageOK, WritePages, Writing, Uploading, store, control
  <2>7. QED
    BY <2>5, <2>6 DEF CoreTypes
<1>3. ASSUME CoreTypes, Commit PROVE CoreTypes'
  <2>1. upload # NoUpload
    BY <1>3 DEF Commit, Uploading
  <2>2. upload.image \in Images /\ upload.slot \in Contexts
    BY <1>3, <2>1, UploadParts DEF Uploads
  <2>3. record' \in Record
    BY <1>3, <2>2 DEF CoreTypes, TypeOK, Commit, Record
  <2>4. TypeOK'
    BY <1>3, <2>3 DEF CoreTypes, TypeOK, Commit, Persist, flash, environment
  <2>5. StageOK'
    BY <1>3, <2>1 DEF CoreTypes, StageOK, Commit, Uploading, Persist
  <2>6. QED
    BY <2>4, <2>5 DEF CoreTypes
<1>4. ASSUME CoreTypes, Abort PROVE CoreTypes'
  <2>1. TypeOK'
    BY <1>4 DEF CoreTypes, TypeOK, Abort, flash, store, control, environment
  <2>2. StageOK'
    BY <1>4 DEF CoreTypes, StageOK, Abort, Uploading, store, control
  <2>3. QED
    BY <2>1, <2>2 DEF CoreTypes
<1>5. QED
  BY <1>1, <1>2, <1>3, <1>4

\* Power, faults and rot keep the types.
LEMMA EnvironmentTypes ==
    CoreTypes /\ (PowerOn \/ PowerLoss \/ FlashFault \/ Rot) => CoreTypes'
<1>1. ASSUME CoreTypes, PowerOn PROVE CoreTypes'
  <2>1. sector \in [Sectors -> Record \cup {Clear, Torn}]
    BY <1>1 DEF CoreTypes, TypeOK
  <2>2. TypeOK'
    BY <1>1, <2>1, LoadTypes DEF CoreTypes, TypeOK, PowerOn, Return, flash, environment
  <2>3. StageOK'
    BY <1>1, <2>1, LoadTypes DEF StageOK, PowerOn, Return, NoCall
  <2>4. QED
    BY <2>2, <2>3 DEF CoreTypes
<1>2. ASSUME CoreTypes, PowerLoss PROVE CoreTypes'
  <2>1. EmptyRecord \in Record
    BY EmptyImageType, PoolAssumption DEF EmptyRecord, Record
  <2>2. TypeOK'
    BY <1>2, <2>1, InterruptedTypes DEF CoreTypes, TypeOK, PowerLoss, Sectors, environment
  <2>3. StageOK'
    BY <1>2 DEF StageOK, PowerLoss, NoCall
  <2>4. QED
    BY <2>2, <2>3 DEF CoreTypes
<1>3. ASSUME CoreTypes, FlashFault PROVE CoreTypes'
  <2>1. /\ pool' \in [Blocks -> Contents]
        /\ sector' \in [Sectors -> Record \cup {Clear, Torn}]
        /\ guard' \in BOOLEAN
    BY <1>3, InterruptedTypes DEF FlashFault
  <2>2. faults' \in 0..MaxFaults /\ damage' \in 0..MaxDamage
    BY <1>3, PoolAssumption DEF FlashFault, CoreTypes, TypeOK
  <2>3. CASE step \in {"erase", "program"} /\ Load(sector', guard) /\ Return
    <3>1. TypeOK'
      BY <1>3, <2>1, <2>2, <2>3, LoadTypes DEF TypeOK, Return
    <3>2. StageOK'
      BY <1>3, <2>1, <2>3, LoadTypes DEF StageOK, Return, NoCall
    <3>3. QED
      BY <3>1, <3>2 DEF CoreTypes
  <2>4. CASE step = "guard" /\ ~guard /\ UNCHANGED <<store, upload>> /\ Return
    <3>1. TypeOK'
      BY <1>3, <2>1, <2>2, <2>4 DEF CoreTypes, TypeOK, Return, store
    <3>2. StageOK'
      BY <1>3, <2>4 DEF CoreTypes, StageOK, Return, NoCall, store
    <3>3. QED
      BY <3>1, <3>2 DEF CoreTypes
  <2>5. CASE UploadFails /\ UNCHANGED <<store, control>>
    <3>1. upload' = NoUpload \/ upload' = [upload EXCEPT !.failed = TRUE]
      BY <2>5 DEF UploadFails
    <3>2. upload # NoUpload /\ stage = "idle"
      BY <2>5 DEF UploadFails, Erasing, Writing, Uploading
    <3>3. upload' \in Uploads \cup {NoUpload}
      BY <1>3, <3>1, <3>2 DEF CoreTypes, TypeOK, Uploads
    <3>4. upload' # NoUpload => upload'.image = upload.image
      BY <1>3, <3>1, <3>2 DEF CoreTypes, TypeOK, Uploads
    <3>5. TypeOK'
      BY <1>3, <2>1, <2>2, <2>5, <3>3 DEF CoreTypes, TypeOK, store, control
    <3>6. StageOK'
      BY <1>3, <2>5, <3>2, <3>4 DEF CoreTypes, StageOK, store, control
    <3>7. QED
      BY <3>5, <3>6 DEF CoreTypes
  <2>6. QED
    BY <1>3, <2>3, <2>4, <2>5 DEF FlashFault, CallFails
<1>4. ASSUME CoreTypes, Rot PROVE CoreTypes'
  <2>1. TypeOK'
    BY <1>4, PoolAssumption DEF CoreTypes, TypeOK, Rot, store, control
  <2>2. StageOK'
    BY <1>4 DEF CoreTypes, StageOK, Rot, store, control
  <2>3. QED
    BY <2>1, <2>2 DEF CoreTypes
<1>5. QED
  BY <1>1, <1>2, <1>3, <1>4

\* The types hold at the start.
LEMMA InitialTypes == Init => CoreTypes
<1> SUFFICES ASSUME Init PROVE CoreTypes
  OBVIOUS
<1>1. EmptyRecord \in Record
  BY EmptyImageType, PoolAssumption DEF EmptyRecord, Record
<1>2. sector \in [Sectors -> Record \cup {Clear, Torn}]
  BY DEF Init
<1>3. current \in Sectors /\ faults \in 0..MaxFaults /\ damage \in 0..MaxDamage
  BY PoolAssumption DEF Init, Sectors
<1>4. TypeOK
  BY <1>1, <1>2, <1>3 DEF Init, TypeOK
<1>5. StageOK
  BY DEF Init, StageOK, NoCall
<1>6. QED
  BY <1>4, <1>5 DEF CoreTypes

\* Every step keeps the types.
LEMMA StepTypes == CoreTypes /\ [Next]_vars => CoreTypes'
<1>1. ASSUME CoreTypes, NEW k \in Contexts, NEW c \in Cores, Begin(k, c) PROVE CoreTypes'
  <2> DEFINE a == [op |-> "upload", slot |-> k, core |-> c]
  <2>1. a \in Calls
    BY DEF Calls
  <2>2. QED
    BY <1>1, <2>1, StartTypes DEF Begin
<1>2. ASSUME CoreTypes, NEW k \in Contexts, ClearImage(k) PROVE CoreTypes'
  <2> DEFINE a == [op |-> "delete", slot |-> k, core |-> NoCore]
  <2>1. a \in Calls
    BY DEF Calls
  <2>2. QED
    BY <1>2, <2>1, StartTypes DEF ClearImage
<1>3. ASSUME CoreTypes, UNCHANGED vars PROVE CoreTypes'
  <2>1. TypeOK'
    BY <1>3 DEF CoreTypes, TypeOK, vars, flash, store, control, environment
  <2>2. StageOK'
    BY <1>3 DEF CoreTypes, StageOK, vars, store, control
  <2>3. QED
    BY <2>1, <2>2 DEF CoreTypes
<1>4. QED
  BY <1>1, <1>2, <1>3, PersistEraseTypes, PersistProgramTypes, GuardTypes, UploadTypes,
     EnvironmentTypes DEF Next

\* Every variable keeps its type, in every behaviour.
THEOREM TypesCorrect == Spec => []TypeOK
<1>1. Spec => []CoreTypes
  BY InitialTypes, StepTypes, PTL DEF Spec
<1>2. CoreTypes => TypeOK
  BY DEF CoreTypes
<1>3. QED
  BY <1>1, <1>2, PTL
=============================================================================
