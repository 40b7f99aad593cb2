-------------------------- MODULE SupervisorProofs ---------------------------
(***************************************************************************)
(* Theorems about the manager in service, for any commands, contexts,      *)
(* images and failures: what a boot tries always ends with the embedded    *)
(* image where there is one, and the status names what was loaded; a       *)
(* command is executed at most once and answered with its own result, what *)
(* was acknowledged as saved is saved, and boots when it can.              *)
(***************************************************************************)
EXTENDS Supervisor, BootJournalProofs

-----------------------------------------------------------------------------
(* The choice of an image *)

Candidates == Sources \cup {Automatic}
Attempting == boot \in {"starting", "programming"}
Rescued == image[<<context, Golden>>] = "good" /\ context \in GoldenContexts

\* What is still to be tried ends with the embedded image.
GoldenLast == Rescued /\ Attempting => plan # <<>> /\ plan[Len(plan)] = Golden

\* The status keeps naming what the FPGA runs while something else is tried.
StatusNames == boot \in {"serving", "programming"} /\ fabric # NoImage => running = fabric

BootInv == BootTypes /\ GoldenLast /\ NeverDark /\ StatusNames

-----------------------------------------------------------------------------
(* Sequences and plans *)

\* The last of two sequences in a row is the last of the second.
LEMMA LastOfConcat ==
    ASSUME NEW S, NEW s \in Seq(S), NEW t \in Seq(S), t # <<>>
    PROVE  /\ s \o t \in Seq(S) /\ s \o t # <<>>
           /\ (s \o t)[Len(s \o t)] = t[Len(t)]
<1>1. Len(t) \in Nat /\ Len(s) \in Nat /\ Len(t) # 0
  OBVIOUS
<1>2. s \o t \in Seq(S) /\ Len(s \o t) = Len(s) + Len(t)
  OBVIOUS
<1>3. (s \o t)[Len(s) + Len(t)] = t[Len(t)]
  BY <1>1
<1>4. QED
  BY <1>1, <1>2, <1>3

\* A sequence that is longer than its head ends as it did without it.
LEMMA LastOfTail ==
    ASSUME NEW S, NEW s \in Seq(S), s # <<>>, Head(s) # s[Len(s)]
    PROVE  Tail(s) \in Seq(S) /\ Tail(s) # <<>> /\ Tail(s)[Len(Tail(s))] = s[Len(s)]
<1>1. Len(s) \in Nat /\ Len(s) # 0 /\ Head(s) = s[1]
  OBVIOUS
<1>2. Len(s) # 1
  BY <1>1
<1>3. Len(Tail(s)) = Len(s) - 1 /\ Tail(s) \in Seq(S)
  BY <1>1
<1>4. Tail(s)[Len(s) - 1] = s[Len(s)]
  BY <1>1, <1>2
<1>5. Len(Tail(s)) # 0
  BY <1>1, <1>2, <1>3
<1>6. Tail(s) # <<>>
  <2> SUFFICES ASSUME NEW t \in Seq(S), Len(t) # 0 PROVE t # <<>>
    BY <1>3, <1>5
  <2>1. QED
    OBVIOUS
<1>7. QED
  BY <1>3, <1>4, <1>6

\* Short sequences.
LEMMA ShortSequences ==
    ASSUME NEW S, NEW x \in S, NEW y \in S, NEW z \in S
    PROVE  /\ <<>> \in Seq(S)
           /\ <<x>> \in Seq(S) /\ <<x>> # <<>> /\ Head(<<x>>) = x
           /\ <<x, y>> \in Seq(S) /\ <<x, y>> # <<>> /\ Head(<<x, y>>) = x
           /\ <<x, y, z>> \in Seq(S) /\ <<x, y, z>> # <<>> /\ Head(<<x, y, z>>) = x
OBVIOUS

\* What discovery finds are images on the card.
LEMMA DiscoveredType == Discovered \in Seq(Candidates)
<1>1. ASSUME NEW class
      PROVE  Found(class) \in Seq(Candidates)
  <2> DEFINE names == {p \in Paths : Home[p] = context /\ Class[p] = class
                                       /\ image[p] # "absent"}
             latest == CHOOSE p \in names : \A q \in names : Rank[q] <= Rank[p]
  <2>1. names \in SUBSET Paths
    OBVIOUS
  <2>2. names # {} => latest \in Candidates
    <3>1. names # {} => \E p \in names : \A q \in names : Rank[q] <= Rank[p]
      BY <2>1, OrderAssumption
    <3>2. names # {} => latest \in names
      BY <3>1
    <3>3. QED
      BY <3>2 DEF Candidates, Sources
  <2>3. Found(class) = IF names = {} THEN <<>> ELSE <<latest>>
    BY DEF Found
  <2>4. QED
    <3> HIDE DEF names, latest
    <3>1. CASE names = {}
      BY <2>3, <3>1
    <3>2. CASE names # {}
      BY <2>2, <2>3, <3>2
    <3>3. QED
      BY <3>1, <3>2
<1>2. QED
  BY <1>1 DEF Discovered

\* A plan tries sources, the embedded image last where there is one.
LEMMA PlanType ==
    ASSUME NEW choice \in Choices
    PROVE  /\ PlanFor(choice) \in Seq(Candidates)
           /\ PlanFor(choice) # <<>>
           /\ context \in GoldenContexts => PlanFor(choice)[Len(PlanFor(choice))] = Golden
           /\ choice \in Sources => Head(PlanFor(choice)) = choice
<1> DEFINE f == Fallbacks(choice)
           g == IF context \in GoldenContexts THEN <<Golden>> ELSE <<>>
<1>1. f \in Seq(Candidates) /\ f # <<>> /\ (choice \in Sources => Head(f) = choice)
  <2>1. {Flash, Golden, Automatic} \subseteq Candidates
    BY DEF Candidates, Sources
  <2>2. CASE choice \in Paths
    <3>1. choice \in Candidates /\ f = <<choice, Flash>>
      BY <2>2 DEF Candidates, Sources, Fallbacks
    <3>2. QED
      BY <2>1, <3>1, ShortSequences
  <2>3. CASE choice = Flash
    <3>1. f = <<Flash, Automatic>>
      BY <2>3, JournalAssumption DEF Fallbacks
    <3>2. QED
      BY <2>1, <2>3, <3>1, ShortSequences
  <2>4. CASE choice = Golden
    <3>1. f = <<Golden, Automatic, Flash>>
      BY <2>4, JournalAssumption DEF Fallbacks
    <3>2. QED
      BY <2>1, <2>4, <3>1, ShortSequences
  <2>5. CASE choice = Automatic
    <3>1. f = <<Automatic, Flash>> /\ choice \notin Sources
      BY <2>5, JournalAssumption DEF Fallbacks, Sources
    <3>2. QED
      BY <2>1, <3>1, ShortSequences
  <2>6. QED
    BY <2>2, <2>3, <2>4, <2>5 DEF Choices
<1>2. g \in Seq(Candidates)
  BY ShortSequences DEF Candidates, Sources
<1>3. PlanFor(choice) = f \o g
  BY DEF PlanFor
<1> HIDE DEF f
<1>4. f \o g \in Seq(Candidates) /\ f \o g # <<>> /\ Head(f \o g) = Head(f)
  BY <1>1, <1>2
<1>5. context \in GoldenContexts => (f \o g)[Len(f \o g)] = Golden
  <2>1. CASE context \in GoldenContexts
    <3>1. g = <<Golden>> /\ g # <<>> /\ g[Len(g)] = Golden
      BY <2>1
    <3>2. QED
      BY <1>1, <1>2, <3>1, LastOfConcat
  <2>2. QED
    BY <2>1
<1>6. QED
  BY <1>1, <1>3, <1>4, <1>5

\* Automatic discovery is not a source.
LEMMA AutomaticApart == Automatic \notin Sources /\ Golden \in Sources
BY JournalAssumption DEF Sources

-----------------------------------------------------------------------------
(* The steps *)

\* A start tries what is saved, or the embedded image alone.
LEMMA StartBootStep ==
    ASSUME BootInv, JournalTypes, JournalTypes', NEW force \in BOOLEAN, StartBoot(force)
    PROVE  BootInv'
<1>0. /\ UNCHANGED <<image, context, card, mount, fabric, running>> /\ boot' = "starting"
      /\ forced' = force
      /\ plan' = IF force THEN <<Golden>> ELSE PlanFor(metadata'.table[context])
  BY DEF StartBoot
<1>1. metadata'.table[context] \in Choices
  BY DEF JournalTypes, Records, Tables, BootInv, BootTypes
<1>2. <<Golden>> \in Seq(Candidates) /\ <<Golden>> # <<>> /\ <<Golden>>[Len(<<Golden>>)] = Golden
  BY DEF Candidates, Sources
<1>3. plan' \in Seq(Candidates) /\ plan' # <<>>
      /\ (context \in GoldenContexts => plan'[Len(plan')] = Golden)
  BY <1>0, <1>1, <1>2, PlanType
<1>4. BootTypes'
  BY <1>0, <1>3 DEF BootInv, BootTypes, Candidates
<1>5. QED
  BY <1>0, <1>3, <1>4 DEF BootInv, GoldenLast, NeverDark, StatusNames, Rescued, Attempting

\* A reconfiguration has the same fallbacks.
LEMMA ReprogramStep ==
    ASSUME BootInv, NEW choice \in Choices, Reprogram(choice)
    PROVE  BootInv'
<1>0. /\ UNCHANGED <<image, context, card, mount, forced, fabric, running>>
      /\ boot = "serving" /\ boot' = "programming" /\ plan' = PlanFor(choice)
  BY DEF Reprogram
<1>1. plan' \in Seq(Candidates) /\ plan' # <<>>
      /\ (context \in GoldenContexts => plan'[Len(plan')] = Golden)
  BY <1>0, PlanType
<1>2. BootTypes'
  BY <1>0, <1>1 DEF BootInv, BootTypes, Candidates
<1>3. QED
  BY <1>0, <1>1, <1>2 DEF BootInv, GoldenLast, NeverDark, StatusNames, Rescued, Attempting

\* What discovery finds comes before what was left.
LEMMA DiscoverStep ==
    ASSUME BootInv, Discover
    PROVE  BootInv'
<1>0. /\ UNCHANGED <<image, context, card, boot, forced, fabric, running>> /\ Attempting
      /\ plan # <<>> /\ Head(plan) = Automatic /\ mount' = MountResult
      /\ plan' = (IF mount' = "ok" THEN Discovered ELSE <<>>) \o Tail(plan)
  BY DEF Discover, Attempting
<1>1. mount' \in {"untried", "ok", "failed"}
  BY <1>0 DEF MountResult, BootInv, BootTypes
<1> DEFINE found == IF mount' = "ok" THEN Discovered ELSE <<>>
<1>2. found \in Seq(Candidates) /\ plan \in Seq(Candidates)
  BY DiscoveredType DEF BootInv, BootTypes, Candidates
<1>3. Tail(plan) \in Seq(Candidates)
  BY <1>0, <1>2
<1> HIDE DEF found
<1>4. plan' = found \o Tail(plan)
  BY <1>0 DEF found
<1>5. plan' \in Seq(Candidates)
  BY <1>2, <1>3, <1>4
<1>6. Rescued => plan' # <<>> /\ plan'[Len(plan')] = Golden
  <2> SUFFICES ASSUME Rescued PROVE plan' # <<>> /\ plan'[Len(plan')] = Golden
    OBVIOUS
  <2>1. plan[Len(plan)] = Golden /\ Head(plan) # plan[Len(plan)]
    BY <1>0, AutomaticApart DEF BootInv, GoldenLast
  <2>2. Tail(plan) # <<>> /\ Tail(plan)[Len(Tail(plan))] = Golden
    BY <1>0, <1>2, <2>1, LastOfTail
  <2>3. QED
    BY <1>2, <1>3, <1>4, <2>2, LastOfConcat
<1>7. BootTypes'
  BY <1>0, <1>1, <1>5 DEF BootInv, BootTypes, Candidates
<1>8. QED
  BY <1>0, <1>6, <1>7 DEF BootInv, GoldenLast, NeverDark, StatusNames, Rescued, Attempting

\* An attempt on what is rescued last succeeds.
LEMMA RescueSucceeds ==
    ASSUME Rescued
    PROVE  Attempt(Golden) = "good"
BY JournalAssumption DEF Attempt, Rescued, Place

\* An attempt succeeds and ends the search, or goes on with what is left.
LEMMA TryStep ==
    ASSUME BootInv, TryNext
    PROVE  BootInv'
<1> DEFINE source == Head(plan)
<1>0. /\ UNCHANGED <<image, context, card>> /\ forced' \in BOOLEAN /\ Attempting
      /\ plan # <<>> /\ source # Automatic
      /\ mount' = IF source \in Paths THEN MountResult ELSE mount
      /\ fabric' = CASE Attempt(source) = "good" -> source
                     [] Attempt(source) = "broken" -> NoImage
                     [] OTHER -> fabric
      /\ running' = IF Attempt(source) = "good" THEN source ELSE running
      /\ plan' = IF Attempt(source) = "good" THEN <<>> ELSE Tail(plan)
      /\ boot' = IF Attempt(source) = "good" THEN "serving" ELSE boot
  BY DEF TryNext, Attempting, BootInv, BootTypes
<1>1. plan \in Seq(Candidates)
  BY DEF BootInv, BootTypes, Candidates
<1>2. source \in Sources /\ source # NoImage
  BY <1>0, <1>1, BootAssumption DEF Candidates
<1>3. mount' \in {"untried", "ok", "failed"}
  BY <1>0 DEF MountResult, BootInv, BootTypes
<1>4. CASE Attempt(source) = "good"
  <2>1. fabric' = source /\ running' = source /\ plan' = <<>> /\ boot' = "serving"
    BY <1>0, <1>4
  <2>2. BootTypes'
    BY <1>0, <1>2, <1>3, <2>1 DEF BootInv, BootTypes
  <2>3. QED
    BY <1>2, <2>1, <2>2 DEF BootInv, GoldenLast, NeverDark, StatusNames, Attempting
<1>5. CASE Attempt(source) # "good"
  <2>1. /\ fabric' \in {fabric, NoImage} /\ running' = running /\ plan' = Tail(plan)
        /\ boot' = boot
    BY <1>0, <1>5
  <2>2. plan' \in Seq(Candidates)
    BY <1>0, <1>1, <2>1
  <2>3. BootTypes'
    BY <1>0, <1>3, <2>1, <2>2 DEF BootInv, BootTypes, Candidates
  <2>4. Rescued => plan' # <<>> /\ plan'[Len(plan')] = Golden
    <3> SUFFICES ASSUME Rescued PROVE plan' # <<>> /\ plan'[Len(plan')] = Golden
      OBVIOUS
    <3>1. plan[Len(plan)] = Golden /\ Head(plan) # plan[Len(plan)]
      BY <1>0, <1>5, RescueSucceeds DEF BootInv, GoldenLast
    <3>2. QED
      BY <1>0, <1>1, <2>1, <3>1, LastOfTail
  <2>5. QED
    BY <1>0, <2>1, <2>3, <2>4
       DEF BootInv, GoldenLast, NeverDark, StatusNames, Rescued, Attempting
<1>6. QED
  BY <1>4, <1>5

\* With the embedded image to fall back on nothing is ever exhausted.
LEMMA ExhaustedStep ==
    ASSUME BootInv, Exhausted
    PROVE  BootInv'
<1>0. /\ UNCHANGED <<image, context, card, mount, plan, forced, fabric, running>>
      /\ Attempting /\ plan = <<>>
      /\ boot' = IF boot = "starting" THEN "panic" ELSE "serving"
      /\ boot' = "serving" => boot = "programming"
  BY DEF Exhausted, Attempting
<1>1. ~Rescued
  BY <1>0 DEF BootInv, GoldenLast
<1>2. BootTypes'
  BY <1>0 DEF BootInv, BootTypes
<1>3. QED
  BY <1>0, <1>1, <1>2 DEF BootInv, GoldenLast, NeverDark, StatusNames, Rescued, Attempting

\* No transfer takes the embedded image away.
LEMMA ChangeStep ==
    ASSUME BootInv, ChangeImages
    PROVE  BootInv'
<1>0. /\ UNCHANGED <<context, card, mount, boot, plan, forced, fabric, running>>
      /\ boot = "serving" /\ image' \in [Places -> Qualities]
      /\ image'[<<context, Golden>>] = image[<<context, Golden>>]
  BY BootAssumption DEF ChangeImages, BootInv, BootTypes
<1>1. BootTypes'
  BY <1>0 DEF BootInv, BootTypes
<1>2. QED
  BY <1>0, <1>1 DEF BootInv, GoldenLast, NeverDark, StatusNames, Rescued, Attempting

\* Nor does a search of the card.
LEMMA MountStep ==
    ASSUME BootInv, MountCard
    PROVE  BootInv'
<1>0. /\ UNCHANGED <<image, context, card, boot, plan, forced, fabric, running>>
      /\ mount' \in {"untried", "ok", "failed"}
  BY DEF MountCard, MountResult, BootInv, BootTypes
<1>1. BootTypes'
  BY <1>0 DEF BootInv, BootTypes
<1>2. QED
  BY <1>0, <1>1 DEF BootInv, GoldenLast, NeverDark, StatusNames, Rescued, Attempting

\* Nor the removal of a file or of a flash core.
LEMMA RemoveStep ==
    ASSUME BootInv, NEW place \in Places, NEW gone \in BOOLEAN, RemoveImage(place, gone),
           \A k \in Contexts : place # <<k, Golden>>
    PROVE  BootInv'
<1>0. /\ UNCHANGED <<context, card, boot, plan, forced, fabric, running>> /\ boot = "serving"
      /\ mount' \in {"untried", "ok", "failed"}
      /\ image' = IF gone THEN [image EXCEPT ![place] = "absent"] ELSE image
  BY DEF RemoveImage, MountResult, BootInv, BootTypes
<1>1. image \in [Places -> Qualities] /\ context \in Contexts
  BY DEF BootInv, BootTypes
<1>2. image' \in [Places -> Qualities]
  BY <1>0, <1>1 DEF Qualities
<1>3. image'[<<context, Golden>>] = image[<<context, Golden>>]
  BY <1>0, <1>1 DEF Places
<1>4. BootTypes'
  BY <1>0, <1>2 DEF BootInv, BootTypes
<1>5. QED
  BY <1>0, <1>3, <1>4 DEF BootInv, GoldenLast, NeverDark, StatusNames, Rescued, Attempting

\* A manager that is off has nothing to try.
LEMMA BootOffStep ==
    ASSUME BootInv, NEW power \in BOOLEAN, BootOff(power)
    PROVE  BootInv'
<1>0. /\ boot' = "off" /\ mount' = "untried" /\ plan' = <<>> /\ running' = NoImage
      /\ fabric' \in {fabric, NoImage} /\ UNCHANGED image /\ forced' = FALSE
      /\ context' \in Contexts /\ card' \in BOOLEAN
  BY DEF BootOff, BootInv, BootTypes
<1>1. BootTypes'
  <2>1. plan' \in Seq(Sources \cup {Automatic}) /\ image' \in [Places -> Qualities]
    BY <1>0 DEF BootInv, BootTypes
  <2>2. {fabric', running'} \subseteq Sources \cup {NoImage}
    BY <1>0 DEF BootInv, BootTypes
  <2>3. QED
    BY <1>0, <2>1, <2>2 DEF BootTypes
<1>2. QED
  BY <1>0, <1>1 DEF BootInv, GoldenLast, NeverDark, StatusNames, Attempting

\* What is not disturbed stays.
LEMMA BootStays ==
    ASSUME BootInv, UNCHANGED bootState
    PROVE  BootInv'
BY DEF bootState, BootInv, BootTypes, GoldenLast, NeverDark, StatusNames, Rescued, Attempting

\* At the start nothing has been tried.
LEMMA InitialBoot == BootInit => BootInv
<1> SUFFICES ASSUME BootInit PROVE BootInv
  OBVIOUS
<1>1. BootTypes
  <2>1. plan \in Seq(Sources \cup {Automatic}) /\ image \in [Places -> Qualities]
    BY BootAssumption DEF BootInit
  <2>2. QED
    BY <2>1 DEF BootInit, BootTypes
<1>2. QED
  BY <1>1 DEF BootInit, BootInv, GoldenLast, NeverDark, StatusNames, Attempting

-----------------------------------------------------------------------------
(* The inductive invariant of the manager *)

Serving == boot \in {"serving", "programming"}

\* last_command is the one in flight.
Remembered == last # None /\ last.seq = request.seq /\ last.op = request.op

\* Numbers count up from the last configuration, and so do commands.
Numbered ==
    /\ seq <= issued
    /\ link => response.seq <= seq
    /\ request # None => link /\ request.seq = seq /\ request.id = issued
    /\ frame # None => link /\ frame.seq <= seq /\ frame.id <= issued

\* Of the command in flight the manager knows whether it was executed.
Counted ==
    /\ \A id \in Ids : id > issued => runs[id] = 0
    /\ \A id \in Ids : runs[id] <= 1
    /\ frame # None /\ request # None /\ request # frame => runs[request.id] = 0
    /\ frame # None /\ request # None /\ request.seq = frame.seq => request = frame
    /\ frame = None /\ Serving /\ request # None /\ runs[request.id] # 0 => Remembered

\* A response that the FPGA would accept is the one to the command in flight.
Answered ==
    request # None /\ response.seq = request.seq =>
        /\ Remembered
        /\ frame = None
        /\ response.id = request.id
        /\ response.result = "ok" /\ damage = 0 =>
              Durable[request.op.k] \in Leaves(request.op)

\* The save in progress is that of the frame, a save or a removal.
SaveIsFrames ==
    /\ turn # "loop" => boot = "serving"
    /\ saving # "none" =>
          /\ frame.op.kind \in {"save"} \cup Removals
          /\ metadata.table = [previous.table EXCEPT ![frame.op.k] = ChoiceOf(frame.op)]

\* While the manager starts, the choice that is known to be saved is tried first, and
\* has failed if it is not.
SavedFirst ==
    \A source \in Sources :
        boot = "starting" /\ ~forced /\ damage = 0 /\ saved[context] = {source} =>
            \/ plan # <<>> /\ Head(plan) = source
            \/ Attempt(source) # "good"

\* What the mailbox leaves to the journal and to the choice of an image.
MailTypes ==
    /\ request \in Frames \cup {None} /\ seq \in 0..MaxRequests /\ link \in BOOLEAN
    /\ turn \in {"loop", "act", "saving"}
    /\ frame \in Frames \cup {None} /\ requested \in Frames \cup {None}
    /\ armed \in Frames \cup {None}
    /\ response \in [seq: 0..MaxRequests, id: 0..MaxRequests, result: Answers]
    /\ last \in [seq: Ids, op: Ops] \cup {None}
    /\ issued \in 0..MaxRequests /\ runs \in [Ids -> Nat]
    /\ saved \in [Contexts -> SUBSET Choices]
    /\ turn = "saving" <=> saving # "none"
    /\ turn = "saving" <=> frame # None

MailInv ==
    /\ MailTypes
    /\ Numbered /\ Counted /\ Answered /\ SaveIsFrames
    /\ AckMeansSaved /\ SavedFirst

\* A manager that runs has loaded the choices.
Awake == boot # "off" => up

SupervisorInv == JournalInv /\ BootInv /\ MailInv /\ Awake

-----------------------------------------------------------------------------
(* Steps of the parts *)

\* A frame and its parts.
LEMMA FrameParts ==
    ASSUME NEW f \in Frames
    PROVE  /\ f.id \in Ids /\ f.seq \in Ids /\ f.op \in Ops
           /\ f.op.k \in Contexts /\ f.op.choice \in Choices
           /\ f.op.kind \in {"ping", "save", "load", "once", "restart"} \cup Removals
           /\ f # None
           /\ f = [id |-> f.id, seq |-> f.seq, op |-> f.op]
<1>1. /\ f.id \in Ids /\ f.seq \in Ids /\ f.op \in Ops /\ f # None
      /\ f = [id |-> f.id, seq |-> f.seq, op |-> f.op]
  BY NoneAssumption DEF Frames
<1>2. f.op \in Commands
  BY <1>1, SupervisorAssumption
<1>3. QED
  BY <1>1, <1>2 DEF Commands, Removals, Choices

\* What a command removes is a file or a flash core; what it saves is a choice, and
\* one that it leaves.
LEMMA CommandParts ==
    ASSUME NEW op \in Commands
    PROVE  /\ op.kind \in Removals => op.choice \in Paths \cup {Flash}
           /\ ChoiceOf(op) \in Choices
           /\ Leaves(op) \subseteq Choices
           /\ op.kind \in {"save"} \cup Removals => ChoiceOf(op) \in Leaves(op)
           /\ op.kind \notin {"save"} \cup Removals => Leaves(op) = Choices
BY JournalAssumption DEF Commands, Removals, ChoiceOf, Leaves, Choices

\* The types, taken apart.
LEMMA TypesApart == SupervisorTypes <=> JournalTypes /\ BootTypes /\ MailTypes
BY DEF SupervisorTypes, MailTypes

\* Whatever the manager does to the journal is a step of it.
LEMMA ActsOnJournal == MailTypes /\ [Next]_vars => [JournalNext]_journal
<1> SUFFICES ASSUME MailTypes, [Next]_vars PROVE [JournalNext]_journal
  OBVIOUS
<1>1. ASSUME NEW op \in Ops, NewRequest(op) PROVE UNCHANGED journal
  BY <1>1 DEF NewRequest
<1>2. CASE GiveUp
  BY <1>2 DEF GiveUp
<1>3. ASSUME NEW heard \in BOOLEAN, NEW got \in BOOLEAN, Exchange(heard, got)
      PROVE  [JournalNext]_journal
  <2>1. CASE Missed \/ Poll \/ Repeat
    BY <2>1 DEF Missed, Poll, Repeat
  <2>2. CASE Obey
    <3>1. PICK open \in BOOLEAN : Refuse(open) \/ Execute(open) \/ Save(open) \/ Remove(open)
      BY <2>2 DEF Obey
    <3>2. request \in Frames /\ request.op \in Commands /\ request.op.k \in Contexts
      BY <3>1, FrameParts, SupervisorAssumption
         DEF Refuse, Execute, Save, Remove, Fresh, MailTypes
    <3>3. StartSave => JournalNext
      BY <3>2, CommandParts DEF StartSave, JournalNext
    <3>4. QED
      BY <3>1, <3>3
         DEF Refuse, Execute, Save, Remove, RemoveFails, RemoveUnselected, RemoveSelected
  <2>3. QED
    BY <1>3, <2>1, <2>2 DEF Exchange
<1>4. CASE WriteSave \/ EndSave
  BY <1>4 DEF WriteSave, EndSave, JournalNext, SaveStep
<1>5. CASE Idle \/ Reconfigure
  BY <1>5 DEF Idle, Reconfigure
<1>6. CASE Restart \/ HoldReset \/ PowerLoss
  BY <1>6 DEF Restart, HoldReset, PowerLoss, Stop, BootOff, JournalNext
<1>7. CASE Start
  BY <1>7 DEF Start, StartBoot, JournalNext
<1>8. CASE Search \/ Try \/ Upload
  BY <1>8 DEF Search, Try, Upload
<1>9. CASE Decay
  BY <1>9 DEF Decay, JournalNext
<1>10. CASE UNCHANGED vars
  BY <1>10 DEF vars
<1>11. QED
  BY <1>1, <1>2, <1>3, <1>4, <1>5, <1>6, <1>7, <1>8, <1>9, <1>10 DEF Next

\* A transaction may look at the card and remove a file or a flash core, no more.
LEMMA ExchangeBoot ==
    ASSUME BootInv, MailTypes, NEW heard \in BOOLEAN, NEW got \in BOOLEAN,
           Exchange(heard, got)
    PROVE  BootInv'
<1>1. CASE Missed \/ Poll \/ Repeat
  BY <1>1, BootStays DEF Missed, Poll, Repeat
<1>2. CASE Obey
  <2>1. PICK open \in BOOLEAN : Refuse(open) \/ Execute(open) \/ Save(open) \/ Remove(open)
    BY <1>2 DEF Obey
  <2>2. CASE Refuse(open) \/ Execute(open) \/ Save(open)
    BY <2>2, BootStays, MountStep DEF Refuse, Execute, Save
  <2>3. CASE Remove(open)
    <3> DEFINE place == Place(request.op.k, request.op.choice)
    <3>1. request \in Frames /\ request.op \in Commands /\ request.op.k \in Contexts
          /\ request.op.kind \in Removals
      BY <2>3, FrameParts, SupervisorAssumption DEF Remove, Fresh, MailTypes
    <3>2. request.op.choice \in Paths \cup {Flash}
      BY <3>1, CommandParts
    <3>3. place \in Places /\ \A k \in Contexts : place # <<k, Golden>>
      BY <3>1, <3>2, JournalAssumption, BootAssumption DEF Place, Places
    <3>4. PICK gone \in BOOLEAN : RemoveImage(place, gone)
      BY <2>3 DEF Remove, RemoveFails, RemoveUnselected, RemoveSelected
    <3>5. QED
      BY <3>3, <3>4, RemoveStep
  <2>4. QED
    BY <2>1, <2>2, <2>3
<1>3. QED
  BY <1>1, <1>2 DEF Exchange

\* Nothing a turn of the loop does disturbs the choice of an image, except to begin it.
LEMMA BootStep ==
    JournalInv /\ JournalInv' /\ BootInv /\ MailTypes /\ [Next]_vars => BootInv'
<1> SUFFICES ASSUME JournalInv, JournalInv', BootInv, MailTypes, [Next]_vars PROVE BootInv'
  OBVIOUS
<1>0. JournalTypes /\ JournalTypes'
  BY DEF JournalInv
<1>1. ASSUME NEW op \in Ops, NewRequest(op) PROVE UNCHANGED bootState
  BY <1>1 DEF NewRequest
<1>2. CASE GiveUp
  BY <1>2, BootStays DEF GiveUp
<1>3. ASSUME NEW heard \in BOOLEAN, NEW got \in BOOLEAN, Exchange(heard, got)
      PROVE  BootInv'
  BY <1>3, ExchangeBoot
<1>4. CASE WriteSave \/ EndSave \/ Idle \/ Decay
  BY <1>4, BootStays DEF WriteSave, EndSave, Idle, Decay
<1>5. CASE Reconfigure
  <2>1. armed \in Frames
    BY <1>5 DEF Reconfigure, MailTypes
  <2>2. armed.op.choice \in Choices /\ armed.op.k \in Contexts
    BY <2>1, FrameParts
  <2>3. Selection(armed.op.k) \in Choices
    BY <1>0, <2>2 DEF Selection, JournalTypes, Records, Tables
  <2>4. QED
    BY <1>5, <2>2, <2>3, ReprogramStep DEF Reconfigure
<1>6. CASE Restart \/ HoldReset \/ PowerLoss
  BY <1>6, BootOffStep DEF Restart, HoldReset, PowerLoss, Stop
<1>7. CASE Start
  BY <1>0, <1>7, StartBootStep DEF Start
<1>8. CASE Search
  BY <1>8, DiscoverStep, ExhaustedStep DEF Search
<1>9. CASE Try
  BY <1>9, TryStep DEF Try
<1>10. CASE Upload
  BY <1>10, ChangeStep DEF Upload
<1>11. CASE UNCHANGED vars
  BY <1>11, BootStays DEF vars
<1>12. QED
  BY <1>1, <1>2, <1>3, <1>4, <1>5, <1>6, <1>7, <1>8, <1>9, <1>10, <1>11, BootStays DEF Next

\* The choices are loaded by the step that starts the manager, and are there until it
\* stops.
LEMMA AwakeStep == MailTypes /\ Awake /\ [Next]_vars => Awake'
<1> SUFFICES ASSUME MailTypes, Awake, [Next]_vars PROVE Awake'
  OBVIOUS
<1>1. CASE Start
  BY <1>1 DEF Start, StartBoot, Load, Awake
<1>2. CASE Restart \/ HoldReset \/ PowerLoss
  BY <1>2 DEF Restart, HoldReset, PowerLoss, Stop, BootOff, Awake
<1>3. CASE Reconfigure \/ Search \/ Try
  BY <1>3
     DEF Reconfigure, Reprogram, Search, Discover, Exhausted, Try, TryNext, Awake, journal
<1>4. ASSUME NEW heard \in BOOLEAN, NEW got \in BOOLEAN, Exchange(heard, got)
      PROVE  Awake'
  <2>1. boot = "serving" /\ up
    BY <1>4 DEF Exchange, Awake
  <2>2. up' = up
    BY <1>4
       DEF Exchange, Missed, Poll, Repeat, Obey, Refuse, Execute, Save, Remove, RemoveFails,
           RemoveUnselected, RemoveSelected, StartSave, BeginSave, journal
  <2>3. QED
    BY <2>1, <2>2 DEF Awake
<1>5. CASE Upload
  BY <1>5 DEF Upload, ChangeImages, Awake, journal
<1>6. CASE WriteSave \/ EndSave \/ Decay
  BY <1>6
     DEF WriteSave, EraseSector, ProgramSector, EndSave, FinishSave, FailSave, Decay, Rot, Awake,
         bootState
<1>7. CASE GiveUp \/ Idle \/ (\E op \in Ops : NewRequest(op)) \/ UNCHANGED vars
  BY <1>7 DEF GiveUp, Idle, NewRequest, vars, journal, bootState, Awake
<1>8. QED
  BY <1>1, <1>2, <1>3, <1>4, <1>5, <1>6, <1>7 DEF Next

-----------------------------------------------------------------------------
(* Steps of the mailbox *)

\* At the start nothing has been said.
LEMMA InitialMail == Init => MailInv
<1> SUFFICES ASSUME Init PROVE MailInv
  OBVIOUS
<1>1. MailTypes
  <2>1. 0 \in 0..MaxRequests
    BY SupervisorAssumption
  <2>2. NoResponse \in [seq: 0..MaxRequests, id: 0..MaxRequests, result: Answers]
    BY <2>1 DEF NoResponse, Answers
  <2>3. [id \in Ids |-> 0] \in [Ids -> Nat]
    OBVIOUS
  <2>4. [k \in Contexts |-> Choices] \in [Contexts -> SUBSET Choices]
    OBVIOUS
  <2>5. QED
    BY <2>1, <2>2, <2>3, <2>4 DEF Init, JournalInit, ManagerInit, MailTypes
<1>2. AckMeansSaved
  <2>1. Durable \in Tables
    BY InitialJournal, DurableType DEF Init, JournalInv
  <2>2. QED
    BY <2>1 DEF Init, AckMeansSaved, Tables
<1>3. QED
  BY <1>1, <1>2
     DEF Init, BootInit, JournalInit, ManagerInit, NoResponse, MailInv, Numbered, Counted,
         Answered, SaveIsFrames, SavedFirst, Ids

\* A new command has a number that no frame had before.
LEMMA NewRequestStep ==
    ASSUME MailInv, NEW op \in Ops, NewRequest(op)
    PROVE  MailInv'
<1>0. /\ UNCHANGED <<journal, bootState, link, manager, runs, saved>>
      /\ link /\ request = None /\ issued < MaxRequests
      /\ request' = [id |-> issued + 1, seq |-> seq + 1, op |-> op]
      /\ seq' = seq + 1 /\ issued' = issued + 1
  BY DEF NewRequest
<1>1. issued + 1 \in Ids /\ seq + 1 \in Ids /\ MaxRequests \in Nat
  BY <1>0, SupervisorAssumption DEF MailInv, MailTypes, Numbered, Ids
<1>2. request' \in Frames /\ request' # None
  BY <1>0, <1>1, NoneAssumption DEF Frames
<1>3. request'.id = issued + 1 /\ request'.seq = seq + 1 /\ request'.op = op
  BY <1>0
<1>4. MailTypes'
  BY <1>0, <1>1, <1>2 DEF MailInv, MailTypes, journal, manager, Ids
<1>5. Numbered'
  BY <1>0, <1>3 DEF MailInv, MailTypes, Numbered, manager, Ids, Frames
<1>6. runs[issued + 1] = 0
  BY <1>1 DEF MailInv, MailTypes, Counted, Ids
<1>7. frame # None => frame.seq # seq + 1
  BY DEF MailInv, MailTypes, Numbered, Ids, Frames
<1>8. response.seq # seq + 1
  BY <1>0 DEF MailInv, MailTypes, Numbered, Ids
<1>9. Counted'
  BY <1>0, <1>3, <1>6, <1>7 DEF MailInv, MailTypes, Counted, manager, bootState, Serving, Ids
<1>10. Answered'
  BY <1>0, <1>3, <1>8 DEF Answered, manager
<1>11. SaveIsFrames' /\ AckMeansSaved' /\ SavedFirst'
  BY <1>0, DurableUnchanged
     DEF MailInv, SaveIsFrames, AckMeansSaved, SavedFirst, Attempt, MountResult, Place, journal,
         bootState, manager
<1>12. QED
  BY <1>4, <1>5, <1>9, <1>10, <1>11 DEF MailInv

\* A command that is given up is no longer there to be answered.
LEMMA GiveUpStep ==
    ASSUME MailInv, GiveUp
    PROVE  MailInv'
<1>0. UNCHANGED <<journal, bootState, seq, link, manager, history>> /\ request' = None
  BY DEF GiveUp
<1>1. MailTypes' /\ Numbered' /\ Counted' /\ Answered'
  BY <1>0
     DEF MailInv, MailTypes, Numbered, Counted, Answered, journal, bootState, manager, history,
         Serving
<1>2. SaveIsFrames' /\ AckMeansSaved' /\ SavedFirst'
  BY <1>0, DurableUnchanged
     DEF MailInv, SaveIsFrames, AckMeansSaved, SavedFirst, Attempt, MountResult, Place, journal,
         bootState, manager, history
<1>3. QED
  BY <1>1, <1>2 DEF MailInv

\* What an exchange leaves alone.
LEMMA ExchangeFrame ==
    ASSUME MailInv, NEW heard \in BOOLEAN, NEW got \in BOOLEAN, Exchange(heard, got)
    PROVE  /\ UNCHANGED <<sector, damage, boot, seq, issued, armed>>
           /\ boot = "serving" /\ turn = "loop" /\ frame = None /\ saving = "none"
           /\ UNCHANGED Durable
           /\ Missed \/ Poll \/ Repeat \/ Fresh
<1>1. Exchange(heard, got) => Missed \/ Poll \/ Repeat \/ Obey
  BY DEF Exchange
<1>2. Obey => UNCHANGED <<sector, damage, boot, armed>> /\ Fresh
  BY DEF Obey, Refuse, MountCard, Execute, Save, Remove, RemoveFails, RemoveUnselected,
         RemoveSelected, RemoveImage, StartSave, BeginSave, journal, bootState
<1>3. Missed \/ Poll \/ Repeat => UNCHANGED <<sector, damage, boot, armed>>
  BY DEF Missed, Poll, Repeat, journal, bootState
<1>4. QED
  BY <1>1, <1>2, <1>3, DurableUnchanged DEF Exchange, MailInv, MailTypes

\* What the FPGA makes of the response: it accepts the one to its command, which is
\* then saved if it says so.
LEMMA HearStep ==
    ASSUME MailInv, NEW heard \in BOOLEAN, NEW got \in BOOLEAN, Exchange(heard, got)
    PROVE  /\ request' \in {request, None}
           /\ request' = None => request = None \/ Remembered
           /\ saved' \in [Contexts -> SUBSET Choices]
           /\ AckMeansSaved'
           /\ link' \in BOOLEAN /\ (link => link')
           /\ link' => link \/ (request = None /\ Poll)
<1>0. UNCHANGED <<sector, damage, boot, seq, issued>> /\ UNCHANGED Durable /\ frame = None
  BY ExchangeFrame
<1>1. Hear(got) /\ link' = (link \/ (heard /\ request = None))
  BY DEF Exchange
<1>2. CASE got /\ request # None /\ response.seq = request.seq
  <2>1. request \in Frames
    BY <1>2 DEF MailInv, MailTypes
  <2>2. request.op.k \in Contexts /\ request.op.choice \in Choices
    BY <2>1, FrameParts
  <2>3. request' = None /\ Remembered
    BY <1>1, <1>2 DEF Hear, MailInv, Answered
  <2>4. CASE response.result = "ok"
    <3>1. saved' = [saved EXCEPT ![request.op.k] = @ \cap Leaves(request.op)]
      BY <1>1, <1>2, <2>4 DEF Hear
    <3>2. damage = 0 => Durable[request.op.k] \in Leaves(request.op)
      BY <1>2, <2>4 DEF MailInv, Answered
    <3>3. saved' \in [Contexts -> SUBSET Choices]
      BY <2>2, <3>1 DEF MailInv, MailTypes
    <3>4. AckMeansSaved'
      BY <1>0, <2>2, <3>1, <3>2 DEF MailInv, MailTypes, AckMeansSaved
    <3>5. QED
      BY <1>1, <1>2, <2>3, <3>3, <3>4 DEF MailInv, MailTypes
  <2>5. CASE response.result # "ok"
    <3>1. saved' = saved
      BY <1>1, <1>2, <2>5 DEF Hear
    <3>2. QED
      BY <1>0, <1>1, <1>2, <2>3, <3>1 DEF MailInv, MailTypes, AckMeansSaved
  <2>6. QED
    BY <2>4, <2>5
<1>3. CASE ~(got /\ request # None /\ response.seq = request.seq)
  <2>1. saved' = saved /\ request' = request
    BY <1>1, <1>3 DEF Hear
  <2>2. AckMeansSaved'
    BY <1>0, <2>1 DEF MailInv, AckMeansSaved
  <2>3. link' => link \/ (request = None /\ Poll)
    <3>1. Obey => request # None
      BY DEF Obey, Refuse, Execute, Save, Remove, Fresh
    <3>2. QED
      BY <1>1, <3>1 DEF Exchange, Repeat
  <2>4. QED
    BY <1>1, <2>1, <2>2, <2>3 DEF MailInv, MailTypes
<1>4. QED
  BY <1>2, <1>3

\* An exchange that only passes what was prepared.
LEMMA PassStep ==
    ASSUME MailInv, NEW heard \in BOOLEAN, NEW got \in BOOLEAN, Exchange(heard, got),
           Missed \/ Repeat, link' = link
    PROVE  MailInv'
<1>0. /\ UNCHANGED <<journal, bootState, frame, response, last, requested, armed, runs, seq, issued>>
      /\ turn' = "act" /\ turn = "loop" /\ boot = "serving" /\ frame = None /\ saving = "none"
      /\ UNCHANGED Durable
  BY ExchangeFrame DEF Missed, Repeat, Exchange
<1>1. /\ request' \in {request, None} /\ saved' \in [Contexts -> SUBSET Choices]
      /\ AckMeansSaved'
  BY HearStep
<1>2. MailTypes' /\ Numbered' /\ Counted' /\ Answered'
  BY <1>0, <1>1
     DEF MailInv, MailTypes, Numbered, Counted, Answered, journal, bootState, Serving, Remembered
<1>3. SaveIsFrames' /\ SavedFirst'
  BY <1>0 DEF MailInv, SaveIsFrames, SavedFirst, journal, bootState
<1>4. QED
  BY <1>1, <1>2, <1>3 DEF MailInv

\* A POLL leaves a response that no command has the number of.
LEMMA PollStep ==
    ASSUME MailInv, NEW heard \in BOOLEAN, NEW got \in BOOLEAN, Exchange(heard, got), Poll
    PROVE  MailInv'
<1>0. /\ UNCHANGED <<journal, bootState, frame, requested, armed, runs, seq, issued>>
      /\ turn' = "act" /\ boot = "serving" /\ frame = None /\ saving = "none"
      /\ UNCHANGED Durable /\ request = None
      /\ last' = None /\ response' = [NoResponse EXCEPT !.seq = seq]
  BY ExchangeFrame DEF Poll, Exchange
<1>1. /\ request' = None /\ saved' \in [Contexts -> SUBSET Choices] /\ AckMeansSaved'
      /\ link' \in BOOLEAN
  BY <1>0, HearStep
<1>2. response' \in [seq: 0..MaxRequests, id: 0..MaxRequests, result: Answers]
      /\ response'.seq = seq
  BY <1>0, SupervisorAssumption DEF NoResponse, Answers, MailInv, MailTypes
<1>3. MailTypes'
  BY <1>0, <1>1, <1>2 DEF MailInv, MailTypes, journal
<1>4. Numbered' /\ Counted' /\ Answered'
  BY <1>0, <1>1, <1>2 DEF MailInv, MailTypes, Numbered, Counted, Answered
<1>5. SaveIsFrames' /\ SavedFirst'
  BY <1>0 DEF MailInv, SaveIsFrames, SavedFirst, journal, bootState
<1>6. QED
  BY <1>1, <1>3, <1>4, <1>5 DEF MailInv

\* A response that was prepared is a record of its frame.
LEMMA ReplyType ==
    ASSUME MailTypes, NEW f \in Frames, NEW result \in Answers, Reply(f, result)
    PROVE  /\ response' \in [seq: 0..MaxRequests, id: 0..MaxRequests, result: Answers]
           /\ response'.seq = f.seq /\ response'.id = f.id /\ response'.result = result
           /\ last' \in [seq: Ids, op: Ops] /\ last' # None
           /\ last'.seq = f.seq /\ last'.op = f.op
<1>1. f.seq \in Ids /\ f.id \in Ids /\ f.op \in Ops
  BY FrameParts
<1>2. \A n \in Ids : n \in 0..MaxRequests
  BY SupervisorAssumption DEF Ids
<1>3. QED
  BY <1>1, <1>2, NoneAssumption DEF Reply

\* A command that is answered at once was not executed before, and the answer is true.
LEMMA AnswerStep ==
    ASSUME MailInv, NEW heard \in BOOLEAN, NEW got \in BOOLEAN, Exchange(heard, got), Fresh,
           NEW result \in Answers, Reply(request, result),
           result = "ok" /\ damage = 0 => Durable[request.op.k] \in Leaves(request.op),
           UNCHANGED <<journal, frame, armed>>, turn' = "act",
           requested' \in {requested, request, None}
    PROVE  MailInv'
<1>0. /\ UNCHANGED <<journal, boot, frame, armed, seq, issued>>
      /\ turn' = "act" /\ boot = "serving" /\ frame = None /\ saving = "none"
      /\ UNCHANGED Durable /\ request # None /\ ~Remembered
      /\ runs' = [runs EXCEPT ![request.id] = @ + 1]
  BY ExchangeFrame DEF Fresh, Repeated, Remembered
<1>1. /\ request' \in {request, None} /\ saved' \in [Contexts -> SUBSET Choices]
      /\ AckMeansSaved' /\ link' = link
  <2>1. link' <=> link
    BY <1>0, HearStep
  <2>2. link \in BOOLEAN /\ link' \in BOOLEAN
    BY HearStep DEF MailInv, MailTypes
  <2>3. QED
    BY <2>1, <2>2, HearStep
<1>2. request \in Frames /\ request.id \in Ids /\ request.seq \in Ids
  BY <1>0, FrameParts DEF MailInv, MailTypes
<1>4. /\ response' \in [seq: 0..MaxRequests, id: 0..MaxRequests, result: Answers]
      /\ response'.seq = request.seq /\ response'.id = request.id /\ response'.result = result
      /\ last' \in [seq: Ids, op: Ops] /\ last' # None
      /\ last'.seq = request.seq /\ last'.op = request.op
  BY <1>2, ReplyType DEF MailInv
<1>5. runs[request.id] = 0
  BY <1>0, <1>2 DEF MailInv, MailTypes, Counted, Serving
<1>6. MailTypes'
  BY <1>0, <1>1, <1>2, <1>4 DEF MailInv, MailTypes, journal
<1>7. Numbered'
  BY <1>0, <1>1, <1>2, <1>4 DEF MailInv, MailTypes, Numbered
<1>8. Counted'
  BY <1>0, <1>1, <1>2, <1>4, <1>5
     DEF MailInv, MailTypes, Numbered, Counted, Ids, Remembered
<1>9. Answered'
  BY <1>0, <1>1, <1>4 DEF Answered, Remembered, journal
<1>10. SaveIsFrames' /\ SavedFirst'
  BY <1>0 DEF MailInv, SaveIsFrames, SavedFirst, journal
<1>11. QED
  BY <1>1, <1>6, <1>7, <1>8, <1>9, <1>10 DEF MailInv

\* Nor was a save that begins, and nothing has answered it.
LEMMA StartSaveStep ==
    ASSUME MailInv, JournalTypes, NEW heard \in BOOLEAN, NEW got \in BOOLEAN,
           Exchange(heard, got), Fresh, StartSave, request.op.kind \in {"save"} \cup Removals
    PROVE  MailInv'
<1>0. /\ UNCHANGED <<sector, damage, boot, response, last, requested, armed, seq, issued>>
      /\ turn' = "saving" /\ boot = "serving" /\ frame = None /\ saving = "none"
      /\ UNCHANGED Durable /\ request # None /\ ~Remembered
      /\ frame' = request /\ saving' = "erase" /\ previous' = metadata
      /\ metadata' = [seq |-> NextSeq(metadata.seq),
                      table |-> [metadata.table EXCEPT ![request.op.k] = ChoiceOf(request.op)]]
      /\ runs' = [runs EXCEPT ![request.id] = @ + 1]
  BY ExchangeFrame DEF StartSave, BeginSave, Fresh, Repeated, Remembered
<1>1. /\ request' \in {request, None} /\ saved' \in [Contexts -> SUBSET Choices]
      /\ AckMeansSaved' /\ link' = link
  <2>1. link' <=> link
    BY <1>0, HearStep DEF Poll
  <2>2. link \in BOOLEAN /\ link' \in BOOLEAN
    BY HearStep DEF MailInv, MailTypes
  <2>3. QED
    BY <2>1, <2>2, HearStep
<1>2. request \in Frames /\ request.id \in Ids /\ request.seq \in Ids
  BY <1>0, FrameParts DEF MailInv, MailTypes
<1>3. response.seq # request.seq
  BY <1>0 DEF MailInv, Answered
<1>4. runs[request.id] = 0
  BY <1>0, <1>2 DEF MailInv, MailTypes, Counted, Serving
<1>5. MailTypes'
  BY <1>0, <1>1, <1>2 DEF MailInv, MailTypes
<1>6. Numbered'
  BY <1>0, <1>1, <1>2 DEF MailInv, MailTypes, Numbered, Ids
<1>7. Counted'
  BY <1>0, <1>1, <1>2, <1>4 DEF MailInv, MailTypes, Numbered, Counted, Ids
<1>8. Answered'
  BY <1>0, <1>1, <1>3 DEF Answered
<1>9. SaveIsFrames' /\ SavedFirst'
  BY <1>0 DEF MailInv, SaveIsFrames, SavedFirst
<1>10. QED
  BY <1>1, <1>5, <1>6, <1>7, <1>8, <1>9 DEF MailInv

\* A command is answered at once, or begins a save.  Of a removal that is answered at
\* once no choice names the image.
LEMMA ObeyStep ==
    ASSUME MailInv, JournalInv, Awake, NEW heard \in BOOLEAN, NEW got \in BOOLEAN,
           Exchange(heard, got), Obey
    PROVE  MailInv'
<1>1. PICK open \in BOOLEAN : Refuse(open) \/ Execute(open) \/ Save(open) \/ Remove(open)
  BY DEF Obey
<1>2. Fresh /\ up /\ saving = "none" /\ JournalTypes
  BY <1>1, ExchangeFrame DEF Refuse, Execute, Save, Remove, Awake, JournalInv
<1>3. request \in Frames /\ request.op \in Commands /\ request.op.k \in Contexts
  BY <1>2, FrameParts, SupervisorAssumption DEF Fresh, MailInv, MailTypes
<1>4. Durable[request.op.k] \in Choices
  BY <1>3, DurableType DEF JournalInv, Tables
<1>5. CASE Refuse(open)
  BY <1>2, <1>5, AnswerStep DEF Refuse, Answers
<1>6. CASE Execute(open)
  <2>1. Leaves(request.op) = Choices
    BY <1>3, <1>6, CommandParts DEF Execute, Removals
  <2>2. QED
    BY <1>2, <1>4, <1>6, <2>1, AnswerStep DEF Execute, Answers
<1>7. CASE Save(open)
  BY <1>2, <1>7, StartSaveStep DEF Save
<1>8. CASE Remove(open)
  <2>1. request.op.kind \in Removals
    BY <1>8 DEF Remove
  <2>2. ASSUME NEW gone \in BOOLEAN, RemoveFails(gone) PROVE MailInv'
    BY <1>2, <2>2, AnswerStep DEF RemoveFails, Answers
  <2>3. CASE RemoveUnselected
    <3>1. damage = 0 => Durable[request.op.k] # request.op.choice
      BY <1>2, <2>3, DurableIs DEF RemoveUnselected, Selection, Settled
    <3>2. damage = 0 => Durable[request.op.k] \in Leaves(request.op)
      BY <1>4, <2>1, <3>1 DEF Leaves, Removals
    <3>3. QED
      BY <1>2, <2>3, <3>2, AnswerStep DEF RemoveUnselected, Answers
  <2>4. CASE RemoveSelected
    BY <1>2, <2>1, <2>4, StartSaveStep DEF RemoveSelected
  <2>5. QED
    BY <1>8, <2>2, <2>3, <2>4 DEF Remove
<1>9. QED
  BY <1>1, <1>5, <1>6, <1>7, <1>8

\* An exchange.
LEMMA ExchangeStep ==
    ASSUME MailInv, JournalInv, Awake, NEW heard \in BOOLEAN, NEW got \in BOOLEAN,
           Exchange(heard, got)
    PROVE  MailInv'
<1>1. CASE Missed /\ ~heard
  <2>1. link' = link
    BY <1>1 DEF Exchange, MailInv, MailTypes
  <2>2. QED
    BY <1>1, <2>1, PassStep
<1>2. CASE Repeat
  <2>1. link' = link
    BY <1>2 DEF Exchange, Repeat, MailInv, MailTypes
  <2>2. QED
    BY <1>2, <2>1, PassStep
<1>3. CASE Poll
  BY <1>3, PollStep
<1>4. CASE Obey
  BY <1>4, ObeyStep
<1>5. QED
  BY <1>1, <1>2, <1>3, <1>4 DEF Exchange

-----------------------------------------------------------------------------
(* Steps of a save, and the end of a turn *)

\* While a save is written, nothing is promised of the choice that it changes.
LEMMA WriteSaveStep ==
    ASSUME MailInv, JournalInv, JournalInv', WriteSave
    PROVE  MailInv'
<1>0. /\ turn = "saving"
      /\ EraseSector \/ ProgramSector
      /\ saved' = [saved EXCEPT ![frame.op.k] = Choices]
      /\ UNCHANGED <<bootState, fpga, manager, issued, runs>>
      /\ UNCHANGED <<metadata, previous, damage>> /\ saving # "none" /\ saving' # "none"
  BY DEF WriteSave, EraseSector, ProgramSector
<1>1. frame \in Frames /\ frame.op.k \in Contexts
  BY <1>0, FrameParts DEF MailInv, MailTypes
<1>2. metadata.table = [previous.table EXCEPT ![frame.op.k] = ChoiceOf(frame.op)]
      /\ frame.op.kind \in {"save"} \cup Removals /\ boot = "serving"
  BY <1>0 DEF MailInv, SaveIsFrames
<1>3. damage = 0 => \A k \in Contexts \ {frame.op.k} : Durable'[k] = Durable[k]
  <2> SUFFICES ASSUME damage = 0 PROVE \A k \in Contexts \ {frame.op.k} : Durable'[k] = Durable[k]
    OBVIOUS
  <2>1. CASE EraseSector
    <3>1. up /\ saving = "erase" /\ sector' = [sector EXCEPT ![Target] = Damaged]
      BY <2>1 DEF EraseSector, JournalInv, JournalTypes
    <3>2. QED
      BY <3>1, EraseKeepsDurable
  <2>2. CASE ProgramSector
    <3>1. up /\ saving = "program" /\ saving' = "verify" /\ up' /\ damage' = 0
      BY <1>0, <2>2 DEF ProgramSector, JournalInv, JournalTypes
    <3>2. Durable = previous.table
      BY <3>1, DurableIs DEF Settled
    <3>3. Durable' = metadata.table \/ Durable' = previous.table
      BY <1>0, <3>1, DurableIsNext
    <3>4. previous.table \in Tables
      BY RecordParts DEF JournalInv, JournalTypes
    <3>5. QED
      BY <1>1, <1>2, <3>2, <3>3, <3>4 DEF Tables
  <2>3. QED
    BY <1>0, <2>1, <2>2
<1>4. AckMeansSaved'
  <2>1. Durable' \in Tables
    BY DurableTypeNext
  <2>2. QED
    BY <1>0, <1>1, <1>3, <2>1 DEF MailInv, MailTypes, AckMeansSaved, Tables
<1>5. MailTypes'
  BY <1>0, <1>1 DEF MailInv, MailTypes, fpga, manager
<1>6. Numbered' /\ Counted' /\ Answered'
  BY <1>0, <1>1, FrameParts
     DEF MailInv, MailTypes, Numbered, Counted, Answered, fpga, manager, bootState, Serving,
         Remembered
<1>7. SaveIsFrames' /\ SavedFirst'
  BY <1>0, <1>2 DEF MailInv, SaveIsFrames, SavedFirst, manager, bootState
<1>8. QED
  BY <1>4, <1>5, <1>6, <1>7 DEF MailInv

\* A save that is answered with success is one that a reset would load.
LEMMA EndSaveStep ==
    ASSUME MailInv, JournalInv, EndSave
    PROVE  MailInv'
<1>0. /\ turn = "saving"
      /\ FinishSave \/ FailSave
      /\ frame' = None /\ turn' = "act"
      /\ UNCHANGED <<bootState, fpga, requested, armed, history>>
      /\ UNCHANGED <<sector, damage>> /\ saving = "verify" /\ saving' = "none" /\ up
      /\ UNCHANGED Durable
  BY DurableUnchanged DEF EndSave, FinishSave, FailSave, JournalInv, JournalTypes
<1>1. PICK result \in Answers :
         /\ Reply(frame, result)
         /\ result = "ok" => FinishSave
  BY DEF EndSave, Answers
<1>2. /\ frame \in Frames /\ frame.id \in Ids /\ frame.seq \in Ids
      /\ frame.op.k \in Contexts /\ frame.op \in Commands
  BY <1>0, FrameParts, SupervisorAssumption DEF MailInv, MailTypes
<1>3. /\ response' \in [seq: 0..MaxRequests, id: 0..MaxRequests, result: Answers]
      /\ response'.seq = frame.seq /\ response'.id = frame.id /\ response'.result = result
      /\ last' \in [seq: Ids, op: Ops] /\ last' # None
      /\ last'.seq = frame.seq /\ last'.op = frame.op
  BY <1>1, <1>2, ReplyType DEF MailInv
<1>4. result = "ok" /\ damage = 0 => Durable[frame.op.k] \in Leaves(frame.op)
  <2> SUFFICES ASSUME FinishSave, damage = 0 PROVE Durable[frame.op.k] \in Leaves(frame.op)
    BY <1>1
  <2>1. Readable(Target)
    BY DEF FinishSave, Verified
  <2>2. Durable = metadata.table
    BY <1>0, <2>1, DurableIs
  <2>3. metadata.table = [previous.table EXCEPT ![frame.op.k] = ChoiceOf(frame.op)]
        /\ frame.op.kind \in {"save"} \cup Removals
    BY <1>0 DEF MailInv, SaveIsFrames
  <2>4. previous.table \in Tables
    BY RecordParts DEF JournalInv, JournalTypes
  <2>5. ChoiceOf(frame.op) \in Leaves(frame.op)
    BY <1>2, <2>3, CommandParts
  <2>6. QED
    BY <1>2, <2>2, <2>3, <2>4, <2>5 DEF Tables
<1>5. frame # None
  BY <1>2, FrameParts
<1>6. MailTypes'
  BY <1>0, <1>3 DEF MailInv, MailTypes, fpga, history
<1>7. Numbered'
  BY <1>0, <1>3, <1>5 DEF MailInv, MailTypes, Numbered, fpga, history
<1>8. request # None /\ request.seq = frame.seq => request = frame
  BY <1>5 DEF MailInv, Counted
<1>9. request # None /\ runs[request.id] # 0 => request = frame
  BY <1>5 DEF MailInv, Counted
<1>10. Counted'
  BY <1>0, <1>3, <1>9
     DEF MailInv, MailTypes, Counted, fpga, history, bootState, Remembered
<1>11. Answered'
  BY <1>0, <1>3, <1>4, <1>8 DEF Answered, fpga, Remembered
<1>12. SaveIsFrames' /\ SavedFirst' /\ AckMeansSaved'
  BY <1>0 DEF MailInv, SaveIsFrames, SavedFirst, AckMeansSaved, bootState, history
<1>13. QED
  BY <1>6, <1>7, <1>10, <1>11, <1>12 DEF MailInv

\* The loop goes on, or begins to reconfigure.
LEMMA TurnStep ==
    ASSUME MailInv, Idle \/ Reconfigure
    PROVE  MailInv'
<1>0. /\ UNCHANGED <<journal, fpga, frame, response, last, history>>
      /\ turn = "act" /\ turn' = "loop" /\ armed' = requested /\ requested' = None
      /\ boot = "serving" /\ Serving'
  BY DEF Idle, Reconfigure, Reprogram, MailInv, SaveIsFrames, bootState, Serving
<1>1. boot' # "starting"
  BY <1>0 DEF Serving
<1>2. UNCHANGED Durable
  BY <1>0, DurableUnchanged DEF journal
<1>3. MailTypes' /\ Numbered' /\ Counted' /\ Answered'
  BY <1>0, <1>2
     DEF MailInv, MailTypes, Numbered, Counted, Answered, journal, fpga, history, Serving,
         Remembered
<1>4. SaveIsFrames'
  BY <1>0 DEF MailInv, MailTypes, SaveIsFrames, journal
<1>5. SavedFirst'
  BY <1>1 DEF SavedFirst
<1>6. AckMeansSaved'
  BY <1>0, <1>2 DEF MailInv, AckMeansSaved, journal, history
<1>7. QED
  BY <1>3, <1>4, <1>5, <1>6 DEF MailInv

\* A manager that stops forgets its frames; what was saved is still what a reset
\* would load.
LEMMA StopStep ==
    ASSUME MailInv, JournalInv, JournalInv', BootInv, NEW power \in BOOLEAN, Stop(power)
    PROVE  MailInv'
<1>0. /\ boot' = "off" /\ saving' = "none"
      /\ turn' = "loop" /\ frame' = None /\ response' = NoResponse
      /\ last' = None /\ requested' = None /\ armed' = None
      /\ UNCHANGED <<issued, runs, saved, damage>>
      /\ UNCHANGED <<request, seq, link>> \/ (request' = None /\ seq' = 0 /\ link' = FALSE)
  BY DEF Stop, BootOff, JournalOff, fpga, history
<1>1. damage = 0 => UNCHANGED Durable
  <2> SUFFICES ASSUME damage = 0 PROVE UNCHANGED Durable
    OBVIOUS
  <2>1. CASE UNCHANGED sector
    BY <2>1, DurableUnchanged
  <2>2. CASE saving = "erase" /\ sector' = [sector EXCEPT ![Target] = Damaged]
    BY <2>2, EraseKeepsDurable DEF JournalInv, JournalTypes
  <2>3. QED
    BY <2>1, <2>2 DEF Stop, BootOff, JournalOff
<1>2. 0 \in 0..MaxRequests
  BY SupervisorAssumption
<1>3. NoResponse \in [seq: 0..MaxRequests, id: 0..MaxRequests, result: Answers]
      /\ NoResponse.seq = 0
  BY <1>2 DEF NoResponse, Answers
<1>4. MailTypes'
  BY <1>0, <1>2, <1>3 DEF MailInv, MailTypes
<1>5. Numbered'
  BY <1>0, <1>3 DEF MailInv, MailTypes, Numbered
<1>6. Counted'
  BY <1>0 DEF MailInv, MailTypes, Counted, Serving
<1>7. Answered'
  <2>1. request' # None => request'.seq # 0
    BY <1>0, FrameParts DEF MailInv, MailTypes, Ids
  <2>2. QED
    BY <1>0, <1>3, <2>1 DEF Answered
<1>8. SaveIsFrames' /\ SavedFirst'
  BY <1>0 DEF SaveIsFrames, SavedFirst
<1>9. AckMeansSaved'
  BY <1>0, <1>1 DEF MailInv, AckMeansSaved
<1>10. QED
  BY <1>4, <1>5, <1>6, <1>7, <1>8, <1>9 DEF MailInv

-----------------------------------------------------------------------------
(* Steps of a start *)

\* What does not touch the mailbox or flash, and begins no service, keeps all but
\* what a start tries.
LEMMA MailboxStays ==
    ASSUME MailInv, UNCHANGED <<sector, damage, mailbox, saving, metadata, previous>>,
           Serving' => Serving, turn # "loop" => boot' = "serving", SavedFirst'
    PROVE  MailInv'
<1>1. UNCHANGED Durable
  BY DurableUnchanged
<1>2. MailTypes' /\ Numbered'
  BY DEF MailInv, MailTypes, Numbered, mailbox, fpga, manager, history
<1>3. Counted' /\ Answered'
  BY <1>1
     DEF MailInv, Counted, Answered, Remembered, mailbox, fpga, manager, history
<1>4. SaveIsFrames' /\ AckMeansSaved'
  BY <1>1 DEF MailInv, SaveIsFrames, AckMeansSaved, mailbox, manager, history
<1>5. QED
  BY <1>2, <1>3, <1>4 DEF MailInv

\* A start tries the saved choice first, if it is one that can be tried.
LEMMA StartStep ==
    ASSUME MailInv, JournalInv, JournalInv', BootInv, Start
    PROVE  MailInv'
<1>0. PICK force \in BOOLEAN : StartBoot(force) /\ UNCHANGED mailbox
  BY DEF Start
<1>1. /\ Load /\ boot = "off" /\ boot' = "starting" /\ forced' = force
      /\ UNCHANGED <<image, context, card, mount, sector, previous, saving, damage, saved>>
      /\ plan' = IF force THEN <<Golden>> ELSE PlanFor(metadata'.table[context])
      /\ metadata' = [Stored EXCEPT !.table = Normal(@)]
  BY <1>0 DEF StartBoot, Load, mailbox, history
<1>2. turn = "loop" /\ frame = None /\ saving = "none"
  BY <1>1 DEF MailInv, MailTypes, SaveIsFrames
<1>3. metadata'.table = Durable
  <2>1. Stored \in Records
    BY NewestIsLast DEF JournalInv
  <2>2. QED
    BY <1>1, <2>1 DEF Durable, Records
<1>4. context \in Contexts
  BY DEF BootInv, BootTypes
<1>5. SavedFirst'
  <2> SUFFICES ASSUME NEW source \in Sources, ~force, damage = 0, saved[context] = {source}
               PROVE  plan' # <<>> /\ Head(plan') = source
    BY <1>1 DEF SavedFirst
  <2>1. Durable[context] = source
    BY <1>4 DEF MailInv, AckMeansSaved
  <2>2. source \in Choices
    BY DEF Sources, Choices
  <2>3. plan' = PlanFor(source)
    BY <1>1, <1>3, <2>1
  <2>4. QED
    BY <2>2, <2>3, PlanType
<1>6. UNCHANGED Durable
  BY <1>1, DurableUnchanged
<1>7. MailTypes' /\ Numbered' /\ Counted' /\ Answered'
  BY <1>0, <1>1, <1>2, <1>6
     DEF MailInv, MailTypes, Numbered, Counted, Answered, Remembered, Serving, mailbox, fpga,
         manager, history
<1>8. SaveIsFrames' /\ AckMeansSaved'
  BY <1>0, <1>1, <1>2, <1>6
     DEF MailInv, SaveIsFrames, AckMeansSaved, mailbox, manager, history
<1>9. QED
  BY <1>5, <1>7, <1>8 DEF MailInv

\* Discovery comes after the saved choice has failed.
LEMMA SearchStep ==
    ASSUME MailInv, BootInv, Search
    PROVE  MailInv'
<1>0. UNCHANGED <<journal, mailbox>> /\ Attempting /\ (Serving' => Serving)
  BY DEF Search, Discover, Exhausted, Attempting, Serving
<1>1. turn = "loop"
  BY <1>0 DEF Attempting, MailInv, SaveIsFrames
<1>2. SavedFirst'
  <2>1. CASE Exhausted
    <3>1. boot' # "starting"
      BY <2>1 DEF Exhausted
    <3>2. QED
      BY <3>1 DEF SavedFirst
  <2>2. CASE Discover
    <3>1. /\ UNCHANGED <<image, context, card, boot, forced, damage, saved>>
          /\ Head(plan) = Automatic /\ mount' = MountResult
      BY <1>0, <2>2 DEF Discover, journal, mailbox, history
    <3>2. ASSUME NEW source \in Sources PROVE Attempt(source)' = Attempt(source)
      <4>1. MountResult' = MountResult
        BY <3>1 DEF MountResult
      <4>2. QED
        BY <3>1, <4>1 DEF Attempt, Place
    <3>3. QED
      BY <3>1, <3>2, AutomaticApart DEF MailInv, SavedFirst
  <2>3. QED
    BY <2>1, <2>2 DEF Search
<1>3. QED
  BY <1>0, <1>1, <1>2, MailboxStays DEF journal

\* An attempt that clears the FPGA clears the mailbox, and the command in it.
LEMMA TryMailStep ==
    ASSUME MailInv, BootInv, Try
    PROVE  MailInv'
<1> DEFINE source == Head(plan)
<1>0. /\ UNCHANGED <<journal, manager, history, image, context, card>> /\ Attempting
      /\ boot' = "starting" => forced' = forced
      /\ plan # <<>> /\ mount' \in {mount, MountResult}
      /\ plan' = IF Attempt(source) = "good" THEN <<>> ELSE Tail(plan)
      /\ boot' = IF Attempt(source) = "good" THEN "serving" ELSE boot
      /\ IF Attempt(source) \in {"broken", "good"}
         THEN request' = None /\ seq' = 0 /\ link' = FALSE
         ELSE UNCHANGED fpga
  BY DEF Try, TryNext, Attempting, BootInv, BootTypes
<1>1. turn = "loop" /\ frame = None
  BY <1>0 DEF Attempting, MailInv, MailTypes, SaveIsFrames
<1>2. UNCHANGED Durable
  BY <1>0, DurableUnchanged DEF journal
<1>3. SavedFirst'
  <2>1. CASE Attempt(source) = "good"
    <3>1. boot' # "starting"
      BY <1>0, <2>1
    <3>2. QED
      BY <3>1 DEF SavedFirst
  <2>2. CASE Attempt(source) # "good"
    <3>1. UNCHANGED <<image, context, card, boot, damage, saved>>
      BY <1>0, <2>2 DEF journal, history
    <3>2. ASSUME NEW choice \in Sources PROVE Attempt(choice)' = Attempt(choice)
      <4>1. MountResult' = MountResult
        BY <1>0, <3>1 DEF MountResult
      <4>2. QED
        BY <3>1, <4>1 DEF Attempt, Place
    <3>3. QED
      BY <1>0, <2>2, <3>1, <3>2 DEF MailInv, SavedFirst
  <2>3. QED
    BY <2>1, <2>2
<1>4. SaveIsFrames' /\ AckMeansSaved'
  BY <1>0, <1>1, <1>2
     DEF MailInv, MailTypes, SaveIsFrames, AckMeansSaved, journal, manager, history
<1>5. CASE request' = None /\ seq' = 0 /\ link' = FALSE
  <2>1. 0 \in 0..MaxRequests
    BY SupervisorAssumption
  <2>2. MailTypes'
    BY <1>0, <1>5, <2>1 DEF MailInv, MailTypes, journal, manager, history
  <2>3. Numbered' /\ Counted' /\ Answered'
    BY <1>0, <1>1, <1>5
       DEF MailInv, MailTypes, Numbered, Counted, Answered, manager, history
  <2>4. QED
    BY <1>3, <1>4, <2>2, <2>3 DEF MailInv
<1>6. CASE UNCHANGED fpga /\ boot' = boot
  <2>1. UNCHANGED <<sector, damage, mailbox, saving, metadata, previous>>
    BY <1>0, <1>6 DEF journal, mailbox
  <2>2. QED
    BY <1>1, <1>3, <1>6, <2>1, MailboxStays DEF Serving
<1>7. QED
  BY <1>0, <1>5, <1>6

\* Transfers go on beside the mailbox.
LEMMA UploadStep ==
    ASSUME MailInv, Upload
    PROVE  MailInv'
<1>0. UNCHANGED <<journal, mailbox, boot>> /\ boot = "serving" /\ turn = "loop"
  BY DEF Upload, ChangeImages
<1>1. SavedFirst'
  BY <1>0 DEF SavedFirst
<1>2. QED
  BY <1>0, <1>1, MailboxStays DEF journal, Serving

\* Of a record that rots nothing was promised.
LEMMA DecayStep ==
    ASSUME MailInv, JournalInv, Decay
    PROVE  MailInv'
<1>0. UNCHANGED <<bootState, mailbox, metadata, previous, saving>> /\ damage' = damage + 1
  BY DEF Decay, Rot
<1>1. damage' # 0
  BY <1>0 DEF JournalInv, JournalTypes
<1>2. MailTypes' /\ Numbered' /\ Counted'
  BY <1>0
     DEF MailInv, MailTypes, Numbered, Counted, Remembered, Serving, bootState, mailbox, fpga,
         manager, history
<1>3. Answered'
  BY <1>0, <1>1 DEF MailInv, Answered, Remembered, mailbox, fpga, manager
<1>4. SaveIsFrames' /\ SavedFirst' /\ AckMeansSaved'
  BY <1>0, <1>1 DEF MailInv, SaveIsFrames, SavedFirst, AckMeansSaved, bootState, mailbox, manager
<1>5. QED
  BY <1>2, <1>3, <1>4 DEF MailInv

-----------------------------------------------------------------------------
(* The invariant *)

\* Every step of the manager and the FPGA keeps what the mailbox promises.
LEMMA MailStep ==
    ASSUME SupervisorInv, JournalInv', [Next]_vars
    PROVE  MailInv'
<1>0. JournalInv /\ BootInv /\ MailInv /\ Awake
  BY DEF SupervisorInv
<1>1. CASE WriteSave \/ EndSave \/ Idle \/ Reconfigure
  BY <1>0, <1>1, WriteSaveStep, EndSaveStep, TurnStep
<1>2. CASE Restart \/ HoldReset \/ PowerLoss
  BY <1>0, <1>2, StopStep DEF Restart, HoldReset, PowerLoss
<1>3. CASE Start \/ Search \/ Try \/ Upload \/ Decay
  BY <1>0, <1>3, StartStep, SearchStep, TryMailStep, UploadStep, DecayStep
<1>4. CASE UNCHANGED vars
  <2>1. UNCHANGED <<sector, damage, mailbox, saving, metadata, previous, bootState>>
    BY <1>4 DEF vars, journal
  <2>2. SavedFirst' /\ (turn # "loop" => boot' = "serving")
    BY <1>0, <2>1
       DEF MailInv, SavedFirst, SaveIsFrames, Attempt, MountResult, Place, bootState, mailbox,
           history
  <2>3. QED
    BY <1>0, <2>1, <2>2, MailboxStays DEF Serving, bootState
<1>5. QED
  BY <1>0, <1>1, <1>2, <1>3, <1>4, NewRequestStep, GiveUpStep, ExchangeStep DEF Next

\* At the start.
LEMMA InitialSupervisor == Init => SupervisorInv
BY InitialJournal, InitialBoot, InitialMail DEF Init, SupervisorInv, BootInit, Awake

\* A step.
LEMMA SupervisorStep == SupervisorInv /\ [Next]_vars => SupervisorInv'
<1> SUFFICES ASSUME SupervisorInv, [Next]_vars PROVE SupervisorInv'
  OBVIOUS
<1>0. JournalInv /\ BootInv /\ MailInv /\ Awake /\ MailTypes
  BY DEF SupervisorInv, MailInv
<1>1. JournalInv'
  BY <1>0, ActsOnJournal, JournalStep
<1>2. BootInv'
  BY <1>0, <1>1, BootStep
<1>3. MailInv'
  BY <1>1, MailStep
<1>4. Awake'
  BY <1>0, AwakeStep
<1>5. QED
  BY <1>1, <1>2, <1>3, <1>4 DEF SupervisorInv

\* The journal, the choice of an image and the mailbox agree at every step.
THEOREM SupervisorInvariant == Spec => []SupervisorInv
BY InitialSupervisor, SupervisorStep, PTL DEF Spec

-----------------------------------------------------------------------------
(* What follows *)

\* Every variable of the manager keeps its type.
THEOREM TypesCorrect == Spec => []SupervisorTypes
<1>1. SupervisorInv => SupervisorTypes
  BY TypesApart DEF SupervisorInv, JournalInv, BootInv, MailInv
<1>2. QED
  BY <1>1, SupervisorInvariant, PTL

\* A command is executed at most once, however often it is sent, whatever is reset.
THEOREM ExecutedAtMostOnce == Spec => []AtMostOnce
<1>1. SupervisorInv => AtMostOnce
  BY DEF SupervisorInv, MailInv, Counted, AtMostOnce
<1>2. QED
  BY <1>1, SupervisorInvariant, PTL

\* The answer to a command is its own.
THEOREM AnswersAreOwn == Spec => []AnswerIsOwn
<1>1. SupervisorInv => AnswerIsOwn
  BY DEF SupervisorInv, MailInv, Answered, AnswerIsOwn
<1>2. QED
  BY <1>1, SupervisorInvariant, PTL

\* What was acknowledged as saved is what a reset would load, and not what was
\* acknowledged as removed.
THEOREM AcknowledgedIsSaved == Spec => []AckMeansSaved
<1>1. SupervisorInv => AckMeansSaved
  BY DEF SupervisorInv, MailInv
<1>2. QED
  BY <1>1, SupervisorInvariant, PTL

\* A context with a good embedded image is never left dark by a choice.
THEOREM RecoveryNeverDark == Spec => []NeverDark
<1>1. SupervisorInv => NeverDark
  BY DEF SupervisorInv, BootInv
<1>2. QED
  BY <1>1, SupervisorInvariant, PTL

\* What the status names is what the FPGA runs.
THEOREM StatusNamesFabric == Spec => []StatusIsTrue
<1>1. SupervisorInv => StatusIsTrue
  BY DEF SupervisorInv, BootInv, StatusNames, StatusIsTrue
<1>2. QED
  BY <1>1, SupervisorInvariant, PTL

\* The journal of the manager is the journal of BootJournalProofs.
LEMMA IncludesJournal == Spec => JournalSpec
<1>1. SupervisorInv => MailTypes
  BY DEF SupervisorInv, MailInv
<1>2. Init => JournalInit
  BY DEF Init
<1>3. QED
  BY <1>1, <1>2, ActsOnJournal, SupervisorInvariant, PTL DEF Spec, JournalSpec

\* In service, too, memory and flash agree between saves.
THEOREM ServiceStaysDurable == Spec => []MemoryIsDurable
BY IncludesJournal, MemoryStaysDurable, PTL

\* In service, too, the journal keeps the promise of BootChoices.
THEOREM ServiceKeepsChoices == Spec => KeepsChoices
BY IncludesJournal, JournalKeepsChoices, PTL

\* The start after an acknowledged save runs what was saved, if it can be loaded and
\* was not removed since.
THEOREM SavedChoiceIsRun == Spec => SavedChoiceBoots
<1> DEFINE Boots == \A source \in Sources :
                       boot = "starting" /\ boot' = "serving" /\ ~forced /\ damage = 0
                          /\ saved[context] = {source} /\ Attempt(source) = "good"
                       => fabric' = source
<1>1. SupervisorInv /\ [Next]_vars => [Boots]_vars
  <2> SUFFICES ASSUME SupervisorInv, Next, NEW source \in Sources, boot = "starting",
                      boot' = "serving", ~forced, damage = 0, saved[context] = {source},
                      Attempt(source) = "good"
               PROVE  fabric' = source
    OBVIOUS
  <2>1. turn = "loop"
    BY DEF SupervisorInv, MailInv, SaveIsFrames
  <2>2. Head(plan) = source
    BY DEF SupervisorInv, MailInv, SavedFirst
  <2>3. Try
    <3>1. ~(\E op \in Ops : NewRequest(op)) /\ ~GiveUp
      BY DEF NewRequest, GiveUp, bootState
    <3>2. ~(\E heard, got \in BOOLEAN : Exchange(heard, got))
      BY DEF Exchange
    <3>3. ~(WriteSave \/ EndSave \/ Idle \/ Reconfigure \/ Upload \/ Decay)
      BY <2>1 DEF WriteSave, EndSave, Idle, Reconfigure, Upload, ChangeImages, Decay
    <3>4. ~(Restart \/ HoldReset \/ PowerLoss \/ Start \/ Search)
      BY DEF Restart, HoldReset, PowerLoss, Stop, BootOff, Start, StartBoot, Search, Discover,
             Exhausted
    <3>5. QED
      BY <3>1, <3>2, <3>3, <3>4 DEF Next
  <2>4. QED
    BY <2>2, <2>3 DEF Try, TryNext
<1>2. QED
  BY <1>1, SupervisorInvariant, PTL DEF Spec, SavedChoiceBoots
=============================================================================
