-------------------------- MODULE BootJournalProofs --------------------------
(***************************************************************************)
(* The journal of boot choices for every number of contexts, images and    *)
(* failures: of two records the newer is found, memory and flash agree     *)
(* between saves, and the journal implements BootChoices.                  *)
(***************************************************************************)
EXTENDS BootJournal, TLAPS

-----------------------------------------------------------------------------
(* The inductive invariant: what each sector holds at each step of a save. *)

Other(k) == IF k = "A" THEN "B" ELSE "A"

\* The record that memory had before the save in progress.
Settled == IF saving = "none" THEN metadata ELSE previous

\* A sector in use holds the record that memory settled on.
ActiveAgrees ==
    up /\ Readable(active) =>
        /\ sector[active].seq = Settled.seq
        /\ Normal(sector[active].table) = Settled.table

\* The other holds the record before, until a save erases it.
OtherPrecedes ==
    up /\ saving \in {"none", "erase"} /\ Readable(Target) =>
        Settled.seq = NextSeq(sector[Target].seq)

\* Then it holds nothing, or the record being saved.
OtherSaved ==
    /\ saving = "program" => ~Readable(Target)
    /\ saving = "verify" /\ Readable(Target) => sector[Target] = metadata

\* Without rot, memory has no record behind it only on a fresh installation.
FreshOnly ==
    up /\ damage = 0 /\ ~Readable(active) =>
        /\ Settled.table = Defaults.table
        /\ saving \in {"none", "erase"} => ~Readable(Target)

\* A save changes one choice.
SaveIsOne ==
    saving # "none" =>
        /\ metadata.seq = NextSeq(previous.seq)
        /\ \E k \in Contexts, choice \in Choices :
              /\ Savable(k, choice)
              /\ metadata.table = [previous.table EXCEPT ![k] = choice]

\* Memory never holds an embedded image for a context without one.
MemoryNormal == up => Normal(Settled.table) = Settled.table

JournalInv ==
    /\ JournalTypes /\ Successive
    /\ ActiveAgrees /\ OtherPrecedes /\ OtherSaved
    /\ FreshOnly /\ SaveIsOne /\ MemoryNormal

-----------------------------------------------------------------------------
(* Sequence numbers and tables *)

SeqNumbers == 0..(SeqMod - 1)

\* Of two successive numbers, across the wrap, the later one is newer.
LEMMA SuccessorIsNewer ==
    ASSUME NEW n \in SeqNumbers
    PROVE  /\ NextSeq(n) \in SeqNumbers /\ NextSeq(n) # n
           /\ Newer(NextSeq(n), n) /\ ~Newer(n, NextSeq(n))
BY JournalAssumption, SMT DEF SeqNumbers, NextSeq, Newer

\* Numbers do not follow each other in a circle of two.
LEMMA NoCircle ==
    ASSUME NEW m \in SeqNumbers, NEW n \in SeqNumbers, m = NextSeq(n)
    PROVE  n # NextSeq(m)
BY JournalAssumption, SMT DEF SeqNumbers, NextSeq

\* A table made normal is a table, and stays so.
LEMMA NormalTable ==
    ASSUME NEW t \in Tables
    PROVE  Normal(t) \in Tables /\ Normal(Normal(t)) = Normal(t)
BY JournalAssumption DEF Normal, Tables, Choices

\* The table of a fresh installation is normal.
LEMMA NormalDefaults == Defaults \in Records /\ Normal(Defaults.table) = Defaults.table
BY JournalAssumption DEF Defaults, Normal, Records, Tables, Choices

\* A choice that can be saved is saved as it is.
LEMMA NormalSave ==
    ASSUME NEW t \in Tables, Normal(t) = t,
           NEW k \in Contexts, NEW choice \in Choices, Savable(k, choice)
    PROVE  LET u == [t EXCEPT ![k] = choice]
           IN  u \in Tables /\ Normal(u) = u
<1> DEFINE u == [t EXCEPT ![k] = choice]
<1>1. u \in Tables
  BY DEF Tables
<1>2. \A j \in Contexts : u[j] = IF j = k THEN choice ELSE t[j]
  BY DEF Tables
<1>3. \A j \in Contexts : t[j] = Golden => j \in GoldenContexts
  <2> SUFFICES ASSUME NEW j \in Contexts, t[j] = Golden, j \notin GoldenContexts
               PROVE  FALSE
    OBVIOUS
  <2>1. Normal(t)[j] = Automatic
    BY DEF Normal
  <2>2. QED
    BY <2>1, JournalAssumption
<1>4. \A j \in Contexts : u[j] = Golden => j \in GoldenContexts
  BY <1>2, <1>3 DEF Savable
<1>5. Normal(u) = [j \in Contexts |-> u[j]]
  BY <1>4 DEF Normal
<1>6. QED
  BY <1>1, <1>5 DEF Tables

\* A record is its parts.
LEMMA RecordParts ==
    ASSUME NEW r \in Records
    PROVE  /\ r.seq \in SeqNumbers /\ r.table \in Tables
           /\ r = [seq |-> r.seq, table |-> r.table]
           /\ r # Damaged
BY RecordAssumption DEF Records, SeqNumbers

-----------------------------------------------------------------------------
(* What a reset would load *)

\* The record with the later of two successive numbers is the newest.
LEMMA NewestFound ==
    ASSUME JournalTypes, NEW k \in Sectors, Readable(k),
           Readable(Other(k)) => sector[k].seq = NextSeq(sector[Other(k)].seq)
    PROVE  Newest = k /\ Stored = sector[k] /\ Durable = Normal(sector[k].table)
<1>1. \A j \in Sectors : Readable(j) => sector[j].seq \in SeqNumbers
  BY RecordParts DEF JournalTypes, Readable
<1>2. Newest = k
  <2>1. CASE k = "A"
    <3>1. Readable("B") => Newer(sector["A"].seq, sector["B"].seq)
      BY <1>1, <2>1, SuccessorIsNewer DEF Other, Sectors
    <3>2. QED
      BY <2>1, <3>1 DEF Newest
  <2>2. CASE k = "B"
    <3>1. Readable("A") => ~Newer(sector["A"].seq, sector["B"].seq)
      BY <1>1, <2>2, SuccessorIsNewer DEF Other, Sectors
    <3>2. QED
      BY <2>2, <3>1 DEF Newest
  <2>3. QED
    BY <2>1, <2>2 DEF Sectors
<1>3. QED
  BY <1>2 DEF Stored, Durable

\* Without a record a fresh installation is found.
LEMMA NothingFound ==
    ASSUME \A k \in Sectors : ~Readable(k)
    PROVE  Newest = "B" /\ Stored = Defaults /\ Durable = Defaults.table
BY NormalDefaults DEF Sectors, Newest, Stored, Durable

\* The record found is readable if any is, and then the other one precedes it.
LEMMA NewestIsLast ==
    ASSUME JournalTypes, Successive
    PROVE  /\ Newest \in Sectors
           /\ ~Readable(Newest) => \A k \in Sectors : ~Readable(k)
           /\ Readable(Newest) /\ Readable(Other(Newest)) =>
                 sector[Newest].seq = NextSeq(sector[Other(Newest)].seq)
           /\ Stored \in Records
<1>1. \A j \in Sectors : Readable(j) => sector[j] \in Records /\ sector[j].seq \in SeqNumbers
  BY RecordParts DEF JournalTypes, Readable
<1>2. Newest \in Sectors
  BY DEF Newest, Sectors
<1>3. ~Readable(Newest) => \A k \in Sectors : ~Readable(k)
  BY DEF Newest, Sectors
<1>4. Readable("A") /\ Readable("B") =>
         sector[Newest].seq = NextSeq(sector[Other(Newest)].seq)
  BY <1>1, SuccessorIsNewer DEF Newest, Sectors, Other, Successive
<1>5. Readable(Newest) /\ Readable(Other(Newest)) => Readable("A") /\ Readable("B")
  BY DEF Newest, Other
<1>6. QED
  BY <1>1, <1>2, <1>3, <1>4, <1>5, NormalDefaults DEF Stored

\* Target is the other sector.
LEMMA TargetOther ==
    ASSUME active \in Sectors
    PROVE  Target = Other(active) /\ Target \in Sectors /\ Other(Target) = active
           /\ Target # active
BY DEF Target, Other, Sectors

-----------------------------------------------------------------------------
(* The invariant *)

\* At the start at most one sector holds a record.
LEMMA InitialJournal == JournalInit => JournalInv
<1> SUFFICES ASSUME JournalInit PROVE JournalInv
  OBVIOUS
<1>1. sector \in [Sectors -> Records \cup {Damaged}]
  BY RecordAssumption DEF JournalInit
<1>2. JournalTypes
  <2>1. "B" \in Sectors /\ 0 \in 0..MaxDamage /\ 0 \in 0..MaxFaults
    BY JournalAssumption DEF Sectors
  <2>2. QED
    BY <1>1, <2>1, NormalDefaults DEF JournalInit, JournalTypes
<1>3. ~(Readable("A") /\ Readable("B"))
  BY DEF JournalInit, Readable, Sectors
<1>4. QED
  BY <1>2, <1>3
     DEF JournalInit, JournalInv, Successive, ActiveAgrees, OtherPrecedes, OtherSaved,
         FreshOnly, SaveIsOne, MemoryNormal

\* The types, by action.
LEMMA TypesStep ==
    ASSUME JournalTypes, Successive, JournalNext
    PROVE  JournalTypes'
<1>1. CASE Load
  BY <1>1, NewestIsLast, NormalTable, RecordParts
     DEF Load, JournalTypes, Records, Sectors
<1>2. ASSUME NEW k \in Contexts, NEW choice \in Choices, BeginSave(k, choice)
      PROVE  JournalTypes'
  <2>1. metadata.seq \in SeqNumbers /\ metadata.table \in Tables
    BY RecordParts DEF JournalTypes
  <2>2. metadata' \in Records
    BY <1>2, <2>1, SuccessorIsNewer DEF BeginSave, Records, Tables, SeqNumbers
  <2>3. QED
    BY <1>2, <2>2 DEF BeginSave, JournalTypes
<1>3. CASE SaveStep
  <2>1. Target \in Sectors
    BY TargetOther DEF JournalTypes
  <2>2. metadata.seq \in SeqNumbers /\ metadata.table \in Tables
    BY RecordParts DEF JournalTypes
  <2>3. CASE EraseSector
    BY <2>3, <2>1 DEF EraseSector, JournalTypes
  <2>4. CASE ProgramSector
    BY <2>4, <2>1, JournalAssumption DEF ProgramSector, JournalTypes
  <2>5. CASE FinishSave
    <3>1. metadata' \in Records
      BY <2>5, <2>2, NormalTable DEF FinishSave, Records, JournalTypes
    <3>2. QED
      BY <2>5, <2>1, <3>1 DEF FinishSave, JournalTypes
  <2>6. CASE FailSave
    BY <2>6 DEF FailSave, JournalTypes
  <2>7. QED
    BY <1>3, <2>3, <2>4, <2>5, <2>6 DEF SaveStep
<1>4. CASE JournalOff
  <2>1. Target \in Sectors
    BY TargetOther DEF JournalTypes
  <2>2. QED
    BY <1>4, <2>1, NormalDefaults DEF JournalOff, JournalTypes, Sectors
<1>5. ASSUME NEW k \in Sectors, Rot(k)
      PROVE  JournalTypes'
  BY <1>5, JournalAssumption DEF Rot, JournalTypes
<1>6. QED
  BY <1>1, <1>2, <1>3, <1>4, <1>5 DEF JournalNext

\* What boot_config_init takes is the newest record.
LEMMA LoadStep ==
    ASSUME JournalInv, Load, JournalTypes'
    PROVE  JournalInv'
<1>0. UNCHANGED <<sector, previous, saving, damage>> /\ saving = "none" /\ up'
  BY DEF Load, JournalInv, JournalTypes
<1>1. active' = Newest /\ metadata' = [Stored EXCEPT !.table = Normal(@)]
  BY DEF Load
<1>2. /\ Newest \in Sectors
      /\ ~Readable(Newest) => \A k \in Sectors : ~Readable(k)
      /\ Readable(Newest) /\ Readable(Other(Newest)) =>
            sector[Newest].seq = NextSeq(sector[Other(Newest)].seq)
      /\ Stored \in Records
  BY NewestIsLast DEF JournalInv
<1>3. Stored.table \in Tables /\ Stored.seq \in SeqNumbers
  BY <1>2, RecordParts
<1>4. metadata'.seq = Stored.seq /\ metadata'.table = Normal(Stored.table)
  BY <1>1, <1>2 DEF Records
<1>5. Settled' = metadata'
  BY <1>0 DEF Settled
<1>6. Target' = Other(Newest)
  BY <1>1, <1>2 DEF Target, Other, Sectors
<1>7. \A k \in Sectors : Readable(k)' <=> Readable(k)
  BY <1>0 DEF Readable
<1>8. Readable(Newest) => Stored = sector[Newest]
  BY DEF Stored
<1>9. Other(Newest) \in Sectors
  BY DEF Other, Sectors
<1>10. Successive'
  BY <1>0 DEF Successive, JournalInv, Readable
<1>11. ActiveAgrees'
  BY <1>0, <1>1, <1>2, <1>4, <1>5, <1>7, <1>8 DEF ActiveAgrees
<1>12. OtherPrecedes'
  BY <1>0, <1>2, <1>4, <1>5, <1>6, <1>7, <1>8, <1>9, NewestIsLast DEF OtherPrecedes
<1>13. FreshOnly'
  BY <1>0, <1>1, <1>2, <1>4, <1>5, <1>6, <1>7, <1>9, NothingFound, NormalDefaults
     DEF FreshOnly
<1>14. MemoryNormal'
  BY <1>3, <1>4, <1>5, NormalTable DEF MemoryNormal
<1>15. OtherSaved' /\ SaveIsOne'
  BY <1>0 DEF OtherSaved, SaveIsOne
<1>16. QED
  BY <1>10, <1>11, <1>12, <1>13, <1>14, <1>15 DEF JournalInv

\* A save begins from what memory holds.
LEMMA BeginStep ==
    ASSUME JournalInv, NEW k \in Contexts, NEW choice \in Choices, BeginSave(k, choice),
           JournalTypes'
    PROVE  JournalInv'
<1>0. /\ UNCHANGED <<sector, active, up, damage>> /\ saving = "none" /\ saving' = "erase"
      /\ Target' = Target
  BY DEF BeginSave, Target
<1>1. Settled' = Settled
  BY <1>0 DEF BeginSave, Settled
<1>2. SaveIsOne'
  BY DEF BeginSave, SaveIsOne, Savable
<1>3. \A j \in Sectors : Readable(j)' <=> Readable(j)
  BY <1>0 DEF Readable
<1>4. active \in Sectors /\ Target \in Sectors
  BY TargetOther DEF JournalInv, JournalTypes
<1>5. Successive' /\ OtherSaved'
  BY <1>0 DEF JournalInv, Successive, OtherSaved, Readable
<1>6. ActiveAgrees' /\ OtherPrecedes' /\ FreshOnly' /\ MemoryNormal'
  BY <1>0, <1>1, <1>3, <1>4
     DEF JournalInv, ActiveAgrees, OtherPrecedes, FreshOnly, MemoryNormal
<1>7. QED
  BY <1>2, <1>5, <1>6 DEF JournalInv

\* The sector in use is not the one a save erases.
LEMMA EraseStep ==
    ASSUME JournalInv, EraseSector, JournalTypes'
    PROVE  JournalInv'
<1>0. /\ UNCHANGED <<metadata, active, previous, up, damage>>
      /\ saving = "erase" /\ saving' = "program" /\ Target' = Target
      /\ sector' = [sector EXCEPT ![Target] = Damaged]
  BY DEF EraseSector, Target
<1>1. active \in Sectors /\ Target \in Sectors /\ Target # active
  BY TargetOther DEF JournalInv, JournalTypes
<1>2. sector'[active] = sector[active] /\ sector'[Target] = Damaged
  BY <1>0, <1>1 DEF JournalInv, JournalTypes
<1>3. (Readable(active)' <=> Readable(active)) /\ ~Readable(Target)'
  BY <1>0, <1>2 DEF Readable
<1>4. Settled' = Settled
  BY <1>0 DEF Settled
<1>5. Successive'
  BY <1>0, <1>1, <1>3 DEF Successive, Readable, Sectors, Target
<1>6. ActiveAgrees' /\ OtherPrecedes' /\ OtherSaved' /\ FreshOnly' /\ MemoryNormal'
  BY <1>0, <1>2, <1>3, <1>4
     DEF JournalInv, ActiveAgrees, OtherPrecedes, OtherSaved, FreshOnly, MemoryNormal
<1>7. SaveIsOne'
  BY <1>0 DEF JournalInv, SaveIsOne
<1>8. QED
  BY <1>5, <1>6, <1>7 DEF JournalInv

\* What is programmed follows the record in use.
LEMMA ProgramStep ==
    ASSUME JournalInv, ProgramSector, JournalTypes'
    PROVE  JournalInv'
<1>0. /\ UNCHANGED <<metadata, active, previous, up, damage>>
      /\ saving = "program" /\ saving' = "verify" /\ Target' = Target
      /\ sector' = [sector EXCEPT ![Target] = metadata] \/ UNCHANGED sector
  BY DEF ProgramSector, Target
<1>1. active \in Sectors /\ Target \in Sectors /\ Target = Other(active) /\ Target # active
  BY TargetOther DEF JournalInv, JournalTypes
<1>2. /\ sector'[active] = sector[active]
      /\ sector'[Target] = metadata \/ sector'[Target] = Damaged
  BY <1>0, <1>1 DEF JournalInv, JournalTypes, OtherSaved, Readable
<1>3. Readable(active)' <=> Readable(active)
  BY <1>0, <1>2 DEF Readable
<1>4. Settled' = Settled
  BY <1>0 DEF Settled
<1>5. up
  BY <1>0 DEF JournalInv, JournalTypes
<1>6. Successive'
  <2> SUFFICES ASSUME Readable("A")', Readable("B")' PROVE Successive'
    BY DEF Successive
  <2>1. Readable(Target)' /\ Readable(active)'
    BY <1>0, <1>1 DEF Sectors, Target
  <2>2. sector'[Target].seq = NextSeq(sector'[active].seq)
    BY <1>0, <1>2, <1>3, <1>5, <2>1 DEF JournalInv, ActiveAgrees, SaveIsOne, Settled, Readable
  <2>3. QED
    BY <1>1, <2>2 DEF Successive, Other, Sectors
<1>7. ActiveAgrees' /\ OtherPrecedes' /\ OtherSaved' /\ FreshOnly' /\ MemoryNormal'
  BY <1>0, <1>2, <1>3, <1>4
     DEF JournalInv, ActiveAgrees, OtherPrecedes, OtherSaved, FreshOnly, MemoryNormal, Readable
<1>8. SaveIsOne'
  BY <1>0 DEF JournalInv, SaveIsOne
<1>9. QED
  BY <1>6, <1>7, <1>8 DEF JournalInv

\* A save that was verified has moved the record in use.
LEMMA FinishStep ==
    ASSUME JournalInv, FinishSave, JournalTypes'
    PROVE  JournalInv'
<1>0. /\ UNCHANGED <<sector, previous, up, damage>>
      /\ saving = "verify" /\ saving' = "none" /\ active' = Target
      /\ metadata' = [metadata EXCEPT !.table = Normal(@)]
      /\ Readable(Target)
  BY DEF FinishSave, Verified
<1>1. active \in Sectors /\ Target \in Sectors /\ Target # active
  BY TargetOther DEF JournalInv, JournalTypes
<1>2. Target' = active
  BY <1>0, <1>1 DEF Target, Sectors
<1>3. metadata.seq \in SeqNumbers /\ metadata.table \in Tables /\ previous.table \in Tables
  BY RecordParts DEF JournalInv, JournalTypes
<1>4. metadata'.seq = metadata.seq /\ metadata'.table = Normal(metadata.table)
  BY <1>0 DEF JournalInv, JournalTypes, Records
<1>5. Settled' = metadata' /\ Settled = previous /\ up
  BY <1>0 DEF Settled, JournalInv, JournalTypes
<1>6. sector[Target] = metadata
  BY <1>0 DEF JournalInv, OtherSaved
<1>7. \A k \in Sectors : Readable(k)' <=> Readable(k)
  BY <1>0 DEF Readable
<1>8. Successive'
  BY <1>0 DEF JournalInv, Successive, Readable
<1>9. ActiveAgrees'
  BY <1>0, <1>4, <1>5, <1>6 DEF ActiveAgrees
<1>10. OtherPrecedes'
  BY <1>0, <1>1, <1>2, <1>4, <1>5, <1>7
     DEF OtherPrecedes, JournalInv, ActiveAgrees, SaveIsOne
<1>11. FreshOnly'
  BY <1>0, <1>1, <1>7 DEF FreshOnly
<1>12. MemoryNormal'
  BY <1>3, <1>4, <1>5, NormalTable DEF MemoryNormal
<1>13. OtherSaved' /\ SaveIsOne'
  BY <1>0 DEF OtherSaved, SaveIsOne
<1>14. QED
  BY <1>8, <1>9, <1>10, <1>11, <1>12, <1>13 DEF JournalInv

\* A save that failed left the other sector without a record.
LEMMA FailStep ==
    ASSUME JournalInv, FailSave, JournalTypes'
    PROVE  JournalInv'
<1>0. /\ UNCHANGED <<sector, active, up, damage>> /\ Target' = Target
      /\ saving = "verify" /\ saving' = "none" /\ metadata' = previous
      /\ ~Readable(Target)
  BY DEF FailSave, Verified, Target, JournalInv, OtherSaved
<1>1. Settled' = Settled
  BY <1>0 DEF Settled
<1>2. (Readable(active)' <=> Readable(active)) /\ ~Readable(Target)'
  BY <1>0 DEF Readable
<1>3. Successive'
  BY <1>0 DEF JournalInv, Successive, Readable
<1>4. ActiveAgrees' /\ OtherPrecedes' /\ FreshOnly' /\ MemoryNormal'
  BY <1>0, <1>1, <1>2
     DEF JournalInv, ActiveAgrees, OtherPrecedes, FreshOnly, MemoryNormal
<1>5. OtherSaved' /\ SaveIsOne'
  BY <1>0 DEF OtherSaved, SaveIsOne
<1>6. QED
  BY <1>3, <1>4, <1>5 DEF JournalInv

\* Of a processor that is off only flash is left.
LEMMA OffStep ==
    ASSUME JournalInv, JournalOff, JournalTypes'
    PROVE  JournalInv'
<1>0. ~up' /\ saving' = "none"
  BY DEF JournalOff
<1>1. Successive'
  <2>1. CASE UNCHANGED sector
    BY <2>1 DEF JournalInv, Successive, Readable
  <2>2. CASE sector' = [sector EXCEPT ![Target] = Damaged]
    BY <2>2 DEF JournalInv, JournalTypes, Successive, Readable, Sectors, Target
  <2>3. QED
    BY <2>1, <2>2 DEF JournalOff
<1>2. QED
  BY <1>0, <1>1
     DEF JournalInv, ActiveAgrees, OtherPrecedes, OtherSaved, FreshOnly, SaveIsOne,
         MemoryNormal

\* A record that rots is no longer readable, and the rest is what it was.
LEMMA RotStep ==
    ASSUME JournalInv, NEW k \in Sectors, Rot(k), JournalTypes'
    PROVE  JournalInv'
<1>0. /\ UNCHANGED <<metadata, active, previous, saving, up>>
      /\ sector' = [sector EXCEPT ![k] = Damaged] /\ damage' = damage + 1
      /\ Target' = Target
  BY DEF Rot, Target
<1>1. damage' # 0
  BY <1>0 DEF JournalInv, JournalTypes
<1>2. \A j \in Sectors : Readable(j)' => Readable(j) /\ sector'[j] = sector[j]
  BY <1>0 DEF JournalInv, JournalTypes, Readable
<1>3. active \in Sectors /\ Target \in Sectors
  BY TargetOther DEF JournalInv, JournalTypes
<1>4. Settled' = Settled
  BY <1>0 DEF Settled
<1>5. Successive'
  BY <1>2 DEF JournalInv, Successive, Sectors
<1>6. ActiveAgrees' /\ OtherPrecedes' /\ OtherSaved' /\ FreshOnly' /\ MemoryNormal'
  BY <1>0, <1>1, <1>2, <1>3, <1>4
     DEF JournalInv, ActiveAgrees, OtherPrecedes, OtherSaved, FreshOnly, MemoryNormal
<1>7. SaveIsOne'
  BY <1>0 DEF JournalInv, SaveIsOne
<1>8. QED
  BY <1>5, <1>6, <1>7 DEF JournalInv

\* Every step keeps the invariant.
LEMMA JournalStep == JournalInv /\ [JournalNext]_journal => JournalInv'
<1> SUFFICES ASSUME JournalInv, [JournalNext]_journal PROVE JournalInv'
  OBVIOUS
<1>1. CASE JournalNext
  <2>1. JournalTypes'
    BY <1>1, TypesStep DEF JournalInv
  <2>2. QED
    BY <1>1, <2>1, LoadStep, BeginStep, EraseStep, ProgramStep, FinishStep, FailStep,
       OffStep, RotStep
       DEF JournalNext, SaveStep
<1>2. CASE UNCHANGED journal
  BY <1>2
     DEF journal, JournalInv, JournalTypes, Successive, ActiveAgrees, OtherPrecedes,
         OtherSaved, FreshOnly, SaveIsOne, MemoryNormal, Settled, Readable, Target, Savable
<1>3. QED
  BY <1>1, <1>2

\* Flash, memory and the save in progress agree at every step of a save.
THEOREM JournalInvariant == JournalSpec => []JournalInv
BY InitialJournal, JournalStep, PTL DEF JournalSpec

\* Where two records are readable, one is the successor of the other.
THEOREM RecordsSuccessive == JournalSpec => []Successive
<1>1. JournalInv => Successive
  BY DEF JournalInv
<1>2. QED
  BY <1>1, JournalInvariant, PTL

-----------------------------------------------------------------------------
(* What memory knows is what flash holds *)

\* Without rot a reset would load what memory settled on, unless the save has
\* produced a record, which it would load then.
LEMMA DurableIs ==
    ASSUME JournalInv, up, damage = 0
    PROVE  Durable = IF saving = "verify" /\ Readable(Target) THEN metadata.table
                     ELSE Settled.table
<1>1. active \in Sectors /\ Target \in Sectors /\ Target = Other(active)
      /\ Other(Target) = active
  BY TargetOther DEF JournalInv, JournalTypes
<1>2. JournalTypes
  BY DEF JournalInv
<1>3. metadata.table \in Tables /\ previous.table \in Tables
  BY <1>2, RecordParts DEF JournalTypes
<1>4. CASE saving = "verify" /\ Readable(Target)
  <2>1. sector[Target] = metadata
    BY <1>4 DEF JournalInv, OtherSaved
  <2>2. Readable(active) => sector[Target].seq = NextSeq(sector[active].seq)
    BY <1>4, <2>1 DEF JournalInv, ActiveAgrees, SaveIsOne, Settled
  <2>3. Durable = Normal(metadata.table)
    BY <1>1, <1>2, <1>4, <2>1, <2>2, NewestFound
  <2>4. Normal(previous.table) = previous.table
    BY <1>4 DEF JournalInv, MemoryNormal, Settled
  <2>5. PICK k \in Contexts, choice \in Choices :
           /\ Savable(k, choice)
           /\ metadata.table = [previous.table EXCEPT ![k] = choice]
    BY <1>4 DEF JournalInv, SaveIsOne
  <2>6. Normal(metadata.table) = metadata.table
    BY <1>3, <2>4, <2>5, NormalSave
  <2>7. QED
    BY <1>4, <2>3, <2>6
<1>5. CASE ~(saving = "verify" /\ Readable(Target)) /\ Readable(active)
  <2>1. Readable(Target) => sector[active].seq = NextSeq(sector[Target].seq)
    BY <1>2, <1>5
       DEF JournalInv, JournalTypes, ActiveAgrees, OtherPrecedes, OtherSaved
  <2>2. Durable = Normal(sector[active].table)
    BY <1>1, <1>2, <1>5, <2>1, NewestFound
  <2>3. QED
    BY <1>5, <2>2 DEF JournalInv, ActiveAgrees
<1>6. CASE ~(saving = "verify" /\ Readable(Target)) /\ ~Readable(active)
  <2>1. ~Readable(Target) /\ Settled.table = Defaults.table
    BY <1>2, <1>6 DEF JournalInv, JournalTypes, FreshOnly, OtherSaved
  <2>2. \A k \in Sectors : ~Readable(k)
    BY <1>1, <1>6, <2>1 DEF Sectors, Other
  <2>3. QED
    BY <1>6, <2>1, <2>2, NothingFound
<1>7. QED
  BY <1>4, <1>5, <1>6

\* Between saves the choices in memory are those a reset would load, whatever
\* saves have failed and wherever power was lost.
THEOREM MemoryStaysDurable == JournalSpec => []MemoryIsDurable
<1>1. JournalInv => MemoryIsDurable
  BY DurableIs DEF MemoryIsDurable, Settled
<1>2. QED
  BY <1>1, JournalInvariant, PTL

-----------------------------------------------------------------------------
(* The journal implements BootChoices *)

\* What a reset would load is a choice for every context.
LEMMA DurableType ==
    ASSUME JournalTypes, Successive
    PROVE  Durable \in Tables
BY NewestIsLast, RecordParts, NormalTable DEF Durable

\* A choice that lasts is unchanged by what does not touch flash.
LEMMA DurableUnchanged ==
    ASSUME UNCHANGED sector
    PROVE  UNCHANGED Durable
BY DEF Durable, Stored, Newest, Readable

\* A sector erased by a save was not the one a reset would load.
LEMMA EraseKeepsDurable ==
    ASSUME JournalInv, JournalInv', up, saving = "erase", damage = 0,
           sector' = [sector EXCEPT ![Target] = Damaged]
    PROVE  UNCHANGED Durable
<1>1. active \in Sectors /\ Target \in Sectors /\ Target = Other(active) /\ Target # active
  BY TargetOther DEF JournalInv, JournalTypes
<1>2. sector'[active] = sector[active] /\ sector'[Target] = Damaged
  BY <1>1 DEF JournalInv, JournalTypes
<1>3. CASE Readable(active)
  <2>1. Durable = Normal(sector[active].table)
    <3>1. Readable(Target) => sector[active].seq = NextSeq(sector[Target].seq)
      BY <1>3 DEF JournalInv, ActiveAgrees, OtherPrecedes
    <3>2. QED
      BY <1>1, <1>3, <3>1, NewestFound DEF JournalInv
  <2>2. Durable' = Normal(sector'[active].table)
    BY <1>1, <1>2, <1>3 DEF Durable, Stored, Newest, Readable, Sectors, Target
  <2>3. QED
    BY <1>2, <2>1, <2>2
<1>4. CASE ~Readable(active)
  <2>1. ~Readable(Target)
    BY <1>4 DEF JournalInv, FreshOnly
  <2>2. sector' = sector
    BY <1>1, <2>1 DEF JournalInv, JournalTypes, Readable
  <2>3. QED
    BY <2>2, DurableUnchanged
<1>5. QED
  BY <1>3, <1>4

\* What a reset would load once a save has been programmed.
LEMMA DurableIsNext ==
    JournalInv' /\ up' /\ damage' = 0 /\ saving' = "verify" =>
        Durable' = IF Readable(Target)' THEN metadata'.table ELSE previous'.table
<1>1. JournalInv /\ up /\ damage = 0 /\ saving = "verify" =>
         Durable = IF Readable(Target) THEN metadata.table ELSE previous.table
  BY DurableIs DEF Settled
<1>2. (JournalInv /\ up /\ damage = 0 /\ saving = "verify" =>
         Durable = IF Readable(Target) THEN metadata.table ELSE previous.table)'
  BY <1>1, PTL
<1>3. QED
  BY <1>2

\* The record that completes a save changes the choice that was saved.
LEMMA ProgramSaves ==
    ASSUME JournalInv, JournalInv', ProgramSector, damage = 0
    PROVE  \/ UNCHANGED Durable
           \/ \E k \in Contexts, choice \in Choices :
                 /\ Savable(k, choice)
                 /\ Durable' = [Durable EXCEPT ![k] = choice]
<1>1. saving = "program" /\ saving' = "verify" /\ up /\ up' /\ damage' = 0
      /\ UNCHANGED <<metadata, previous>>
  BY DEF ProgramSector, JournalInv, JournalTypes
<1>2. Durable = previous.table
  BY <1>1, DurableIs DEF Settled
<1>3. Durable' = IF Readable(Target)' THEN metadata.table ELSE previous.table
  BY <1>1, DurableIsNext
<1>4. QED
  BY <1>1, <1>2, <1>3 DEF JournalInv, SaveIsOne

\* What a step of the journal is to BootChoices.
Kept == Promise!Next \/ UNCHANGED <<Durable, damage > 0>>

\* A step that leaves flash alone is a stutter.
LEMMA StaysKept ==
    ASSUME UNCHANGED <<sector, damage>>
    PROVE  Kept
BY DurableUnchanged DEF Kept

\* What a reset would load after a step is a choice for every context.
LEMMA DurableTypeNext == JournalInv' => Durable' \in Tables
<1>1. JournalInv => Durable \in Tables
  BY DurableType DEF JournalInv
<1>2. (JournalInv => Durable \in Tables)'
  BY <1>1, PTL
<1>3. QED
  BY <1>2

\* Once a record has rotted anything may be found.
LEMMA LostKept ==
    ASSUME JournalInv', damage' > 0
    PROVE  Kept
<1>1. Durable' \in [Contexts -> Choices]
  BY DurableTypeNext DEF Tables
<1>2. (damage' > 0) = TRUE
  OBVIOUS
<1>3. Promise!Lose
  BY <1>1, <1>2 DEF Promise!Lose
<1>4. QED
  BY <1>3 DEF Kept, Promise!Next

\* A save that is interrupted, or whose record is erased, changes nothing.
LEMMA EraseKept ==
    ASSUME JournalInv, JournalInv', up, saving = "erase", UNCHANGED damage,
           sector' = [sector EXCEPT ![Target] = Damaged]
    PROVE  Kept
<1>1. damage \in Nat
  BY JournalAssumption DEF JournalInv, JournalTypes
<1>2. CASE damage = 0
  BY <1>2, EraseKeepsDurable DEF Kept
<1>3. CASE damage > 0
  BY <1>3, LostKept
<1>4. QED
  BY <1>1, <1>2, <1>3

\* A record that is programmed saves one choice, or none.
LEMMA ProgramKept ==
    ASSUME JournalInv, JournalInv', ProgramSector
    PROVE  Kept
<1>1. damage \in Nat /\ damage' = damage
  BY JournalAssumption DEF JournalInv, JournalTypes, ProgramSector
<1>2. CASE damage = 0
  <2>1. CASE UNCHANGED Durable
    BY <1>1, <2>1 DEF Kept
  <2>2. ASSUME NEW k \in Contexts, NEW choice \in Choices, Savable(k, choice),
               Durable' = [Durable EXCEPT ![k] = choice]
        PROVE  Kept
    <3>1. (damage > 0) = FALSE /\ (damage' > 0) = FALSE
      BY <1>1, <1>2
    <3>2. Promise!Save(k, choice)
      BY <2>2, <3>1 DEF Promise!Save, Savable
    <3>3. QED
      BY <3>2 DEF Kept, Promise!Next
  <2>3. QED
    BY <1>2, <2>1, <2>2, ProgramSaves
<1>3. CASE damage > 0
  BY <1>1, <1>3, LostKept
<1>4. QED
  BY <1>1, <1>2, <1>3

\* Every step is one of BootChoices, or changes nothing of it.
LEMMA StepKept == JournalInv /\ JournalInv' /\ [JournalNext]_journal => Kept
<1> SUFFICES ASSUME JournalInv, JournalInv', [JournalNext]_journal PROVE Kept
  OBVIOUS
<1>1. JournalTypes
  BY DEF JournalInv
<1>2. CASE Load
  BY <1>2, StaysKept DEF Load
<1>3. ASSUME NEW k \in Contexts, NEW choice \in Choices, BeginSave(k, choice)
      PROVE  Kept
  BY <1>3, StaysKept DEF BeginSave
<1>4. CASE EraseSector
  <2>1. saving = "erase" /\ up
    BY <1>1, <1>4 DEF EraseSector, JournalTypes
  <2>2. QED
    BY <1>4, <2>1, EraseKept DEF EraseSector
<1>5. CASE ProgramSector
  BY <1>5, ProgramKept
<1>6. CASE FinishSave \/ FailSave
  BY <1>6, StaysKept DEF FinishSave, FailSave
<1>7. CASE JournalOff
  <2>1. CASE UNCHANGED sector
    BY <1>7, <2>1, StaysKept DEF JournalOff
  <2>2. CASE saving = "erase" /\ sector' = [sector EXCEPT ![Target] = Damaged]
    <3>1. up
      BY <1>1, <2>2 DEF JournalTypes
    <3>2. QED
      BY <1>7, <2>2, <3>1, EraseKept DEF JournalOff
  <2>3. QED
    BY <1>7, <2>1, <2>2 DEF JournalOff
<1>8. ASSUME NEW k \in Sectors, Rot(k)
      PROVE  Kept
  <2>1. damage' > 0
    BY <1>1, <1>8 DEF Rot, JournalTypes
  <2>2. QED
    BY <2>1, LostKept
<1>9. CASE UNCHANGED journal
  BY <1>9, StaysKept DEF journal
<1>10. QED
  BY <1>2, <1>3, <1>4, <1>5, <1>6, <1>7, <1>8, <1>9 DEF JournalNext, SaveStep

\* The choices of a device that starts.
LEMMA InitialKept == JournalInit => Promise!Init
<1> SUFFICES ASSUME JournalInit PROVE Promise!Init
  OBVIOUS
<1>1. JournalTypes /\ Successive
  BY InitialJournal DEF JournalInv
<1>2. Durable \in [Contexts -> Choices]
  BY <1>1, DurableType DEF Tables
<1>3. (damage > 0) = FALSE
  BY DEF JournalInit
<1>4. QED
  BY <1>2, <1>3 DEF Promise!Init

\* Whatever saves fail and wherever power is lost, a saved choice changes all at
\* once, alone, and only by a save.
THEOREM JournalKeepsChoices == JournalSpec => KeepsChoices
<1>1. JournalInv /\ JournalInv' /\ [JournalNext]_journal
        => [Promise!Next]_<<Durable, damage > 0>>
  BY StepKept DEF Kept
<1>2. QED
  BY <1>1, InitialKept, JournalInvariant, PTL DEF JournalSpec, KeepsChoices, Promise!Spec
=============================================================================
