---------------------------- MODULE BootJournal -----------------------------
(***************************************************************************)
(* The boot choice saved for each hardware context (boot_config.cpp): two  *)
(* sectors that take turns, one record in memory, and the save that        *)
(* erases, programs and reads back the sector not in use.                  *)
(*                                                                         *)
(* A choice is Automatic, Flash, Golden, or the path of an image on the    *)
(* card.                                                                   *)
(***************************************************************************)
EXTENDS Integers

CONSTANTS
    Contexts,               \* the hardware contexts
    FirstContext,           \* kGoldenRecoveryContext
    GoldenContexts,         \* context_has_golden_recovery
    Paths,                  \* images on the manager's card
    Automatic, Flash, Golden,    \* the other choices
    SeqMod,                 \* sequence numbers wrap here (2^32)
    SavedRecords,           \* what an earlier session may have saved
    MaxDamage,              \* records that rot, at most
    MaxFaults,              \* flash operations that fail, at most
    Damaged                 \* a sector without a valid record

Choices == Paths \cup {Automatic, Flash, Golden}

ASSUME JournalAssumption ==
    /\ FirstContext \in GoldenContexts /\ GoldenContexts \subseteq Contexts
    /\ {Automatic, Flash, Golden} \cap Paths = {}
    /\ Automatic # Flash /\ Automatic # Golden /\ Flash # Golden
    /\ SeqMod \in Nat /\ SeqMod > 2
    /\ MaxDamage \in Nat /\ MaxFaults \in Nat

Sectors == {"A", "B"}
Tables == [Contexts -> Choices]
Records == [seq: 0..(SeqMod - 1), table: Tables]

ASSUME RecordAssumption == Damaged \notin Records /\ SavedRecords \subseteq Records

VARIABLES
    sector,     \* the two metadata sectors
    metadata,   \* the record in memory
    active,     \* active_offset
    previous,   \* the record a failed save falls back to
    saving,     \* "none", or what the save does next
    up,         \* boot_config_init has run since the last reset
    damage, faults

journal == <<sector, metadata, active, previous, saving, up, damage, faults>>

-----------------------------------------------------------------------------
(* Records *)

Readable(k) == sector[k] # Damaged

\* Mutant of NextSeq: the number outgrows its field.
NextSeqUnwrapped(n) == n + 1

NextSeq(n) == IF n + 1 = SeqMod THEN 0 ELSE n + 1

\* Mutant of Newer: the numbers are compared as they are.
NewerUnsigned(a, b) == a > b

\* The sign of the difference in a signed word.
Newer(a, b) ==
    LET d == IF a >= b THEN a - b ELSE a - b + SeqMod
    IN  d > 0 /\ 2 * d < SeqMod

\* A fresh installation boots the embedded image of the first context.
Defaults ==
    [seq |-> 0,
     table |-> [k \in Contexts |-> IF k = FirstContext THEN Golden ELSE Automatic]]

\* refresh_public_selections: an embedded image that a context does not have.
Normal(table) ==
    [k \in Contexts |->
        IF table[k] = Golden /\ k \notin GoldenContexts THEN Automatic ELSE table[k]]

\* The sector boot_config_init takes, of the readable ones.
Newest ==
    IF Readable("A") /\ (Readable("B") => Newer(sector["A"].seq, sector["B"].seq))
    THEN "A" ELSE "B"

Stored == IF Readable(Newest) THEN sector[Newest] ELSE Defaults

\* What the next reset will load.
Durable == Normal(Stored.table)

\* boot_config_selection.
Selection(k) == metadata.table[k]

-----------------------------------------------------------------------------
(* Operations *)

\* Mutant of Target: the sector in use is written.
TargetActive == active

Target == IF active = "A" THEN "B" ELSE "A"

JournalInit ==
    /\ \/ sector = [k \in Sectors |-> Damaged]
       \/ \E r \in SavedRecords, k \in Sectors :
             sector = [j \in Sectors |-> IF j = k THEN r ELSE Damaged]
    /\ metadata = Defaults
    /\ active = "B"
    /\ previous = Defaults
    /\ saving = "none"
    /\ up = FALSE
    /\ damage = 0
    /\ faults = 0

\* boot_config_init.
Load ==
    /\ ~up
    /\ up' = TRUE
    /\ metadata' = [Stored EXCEPT !.table = Normal(@)]
    /\ active' = Newest
    /\ UNCHANGED <<sector, previous, saving, damage, faults>>

Savable(k, choice) == choice = Golden => k \in GoldenContexts

\* boot_config_set_selection, up to the flash.
BeginSave(k, choice) ==
    /\ up /\ saving = "none"
    /\ Savable(k, choice)
    /\ previous' = metadata
    /\ metadata' = [seq |-> NextSeq(metadata.seq),
                    table |-> [metadata.table EXCEPT ![k] = choice]]
    /\ saving' = "erase"
    /\ UNCHANGED <<sector, active, up, damage, faults>>

\* A flash operation that fails leaves no record, and is noticed by the readback.
EraseSector ==
    /\ saving = "erase"
    /\ sector' = [sector EXCEPT ![Target] = Damaged]
    /\ saving' = "program"
    /\ UNCHANGED <<metadata, active, previous, up, damage, faults>>

ProgramSector ==
    /\ saving = "program"
    /\ saving' = "verify"
    /\ \/ /\ sector' = [sector EXCEPT ![Target] = metadata]
          /\ UNCHANGED faults
       \/ /\ faults < MaxFaults
          /\ faults' = faults + 1
          /\ UNCHANGED sector
    /\ UNCHANGED <<metadata, active, previous, up, damage>>

Verified == Readable(Target) /\ sector[Target].seq = metadata.seq

\* The save has succeeded.
FinishSave ==
    /\ saving = "verify" /\ Verified
    /\ active' = Target
    /\ metadata' = [metadata EXCEPT !.table = Normal(@)]
    /\ saving' = "none"
    /\ UNCHANGED <<sector, previous, up, damage, faults>>

\* Mutant of FailSave: memory keeps what could not be saved.
FailSaveKeeps ==
    /\ saving = "verify" /\ ~Verified
    /\ saving' = "none"
    /\ UNCHANGED <<sector, metadata, active, previous, up, damage, faults>>

\* The save has failed, and memory is what it was.
FailSave ==
    /\ saving = "verify" /\ ~Verified
    /\ metadata' = previous
    /\ saving' = "none"
    /\ UNCHANGED <<sector, active, previous, up, damage, faults>>

\* Power is lost, or the processor reset; an erase that was under way may have
\* taken the record.  Memory starts anew.
JournalOff ==
    /\ up' = FALSE
    /\ saving' = "none"
    /\ \/ UNCHANGED sector
       \/ /\ saving = "erase"
          /\ sector' = [sector EXCEPT ![Target] = Damaged]
    /\ metadata' = Defaults /\ active' = "B" /\ previous' = Defaults
    /\ UNCHANGED <<damage, faults>>

Rot(k) ==
    /\ damage < MaxDamage
    /\ Readable(k)
    /\ sector' = [sector EXCEPT ![k] = Damaged]
    /\ damage' = damage + 1
    /\ UNCHANGED <<metadata, active, previous, saving, up, faults>>

SaveStep == EraseSector \/ ProgramSector \/ FinishSave \/ FailSave

JournalNext ==
    \/ Load
    \/ \E k \in Contexts, choice \in Choices : BeginSave(k, choice)
    \/ SaveStep
    \/ JournalOff
    \/ \E k \in Sectors : Rot(k)

JournalSpec == JournalInit /\ [][JournalNext]_journal

-----------------------------------------------------------------------------
(* Properties *)

\* The types of the state, and what goes together.
JournalTypes ==
    /\ sector \in [Sectors -> Records \cup {Damaged}]
    /\ metadata \in Records /\ previous \in Records
    /\ active \in Sectors
    /\ saving \in {"none", "erase", "program", "verify"}
    /\ up \in BOOLEAN
    /\ saving # "none" => up
    /\ damage \in 0..MaxDamage /\ faults \in 0..MaxFaults

\* Of two valid records one is the successor of the other, so that their numbers
\* tell them apart when they wrap.
Successive ==
    Readable("A") /\ Readable("B") =>
        \/ sector["A"].seq = NextSeq(sector["B"].seq)
        \/ sector["B"].seq = NextSeq(sector["A"].seq)

\* The choices in memory are those a reset would load: a save that was refused or
\* failed has changed neither, one that succeeded has changed both.  (No record
\* has rotted; memory then outlives its record.)
MemoryIsDurable == up /\ saving = "none" /\ damage = 0 => metadata.table = Durable

\* The journal keeps the promise of BootChoices: power lost at any point of a save,
\* or a save that fails, leaves every choice as it was, and a save that gets as far
\* as a valid record changes the one choice it was asked to change.
Promise == INSTANCE BootChoices WITH table <- Durable, lost <- damage > 0

KeepsChoices == Promise!Spec
=============================================================================
