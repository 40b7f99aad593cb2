----------------------------- MODULE FabricBoot -----------------------------
(***************************************************************************)
(* The choice of an image for the FPGA (fpga_mgr.cpp): the saved choice or *)
(* a one-shot one, its fallbacks in order, and the programming of each     *)
(* candidate until one is accepted.                                        *)
(***************************************************************************)
EXTENDS BootJournal, Sequences

CONSTANTS
    Home,           \* the context whose directory holds a path
    Class,          \* what automatic discovery takes the name of a path for
    Rank,           \* the order of the names, ignoring case
    Images,         \* what the sources may hold at first, and after a transfer
    NoImage         \* the FPGA is not configured

Sources == Paths \cup {Flash, Golden}

\* Each context has a flash core and an embedded image of its own.
Place(k, source) == IF source \in Paths THEN source ELSE <<k, source>>
Places == Paths \cup (Contexts \X {Flash, Golden})

\* A source may be absent, refused before the FPGA is touched ("refused"), or
\* after PROGRAM_B has cleared it ("broken").
Qualities == {"absent", "refused", "broken", "good"}

ASSUME BootAssumption ==
    /\ Home \in [Paths -> Contexts]
    /\ Class \in [Paths -> {"update", "wildGz", "wildBin", "legacyGz", "legacyBin", "other"}]
    /\ Rank \in [Paths -> Nat]
    /\ Images \subseteq [Places -> Qualities]
    /\ Paths \cap (Contexts \X {Flash, Golden}) = {}
    /\ NoImage \notin Sources

\* Of any names one comes last.
ASSUME OrderAssumption ==
    \A names \in SUBSET Paths :
        names # {} => \E p \in names : \A q \in names : Rank[q] <= Rank[p]

VARIABLES
    image,      \* what the sources hold
    context,    \* the context switches, read at each start
    card,       \* a card is in the slot
    mount,      \* manager_sd_attempted, manager_sd_mounted
    boot,       \* "off", "starting", "serving", "programming" or "panic"
    plan,       \* the sources still to be tried
    forced,     \* RESET was held down at the start in progress
    fabric,     \* the image the FPGA runs
    running     \* runtime_status

bootState == <<image, context, card, mount, boot, plan, forced, fabric, running>>

-----------------------------------------------------------------------------

\* find_wildbits_image: of several names, the last one; of the others there is
\* one of each.
Found(class) ==
    LET names == {p \in Paths : Home[p] = context /\ Class[p] = class
                                 /\ image[p] # "absent"}
    IN  IF names = {} THEN <<>>
        ELSE <<CHOOSE p \in names : \A q \in names : Rank[q] <= Rank[p]>>

\* program_fpga_from_sd_card.
Discovered ==
    Found("update") \o Found("wildGz") \o Found("wildBin")
        \o Found("legacyGz") \o Found("legacyBin")

\* Mutant of Fallbacks: the card is searched before the flash that was asked for.
FallbacksCardFirst(choice) ==
    IF choice \in Paths THEN <<choice, Flash>>
    ELSE IF choice = Golden THEN <<Golden, Automatic, Flash>>
    ELSE <<Automatic, Flash>>

Fallbacks(choice) ==
    IF choice \in Paths THEN <<choice, Flash>>
    ELSE IF choice = Flash THEN <<Flash, Automatic>>
    ELSE IF choice = Golden THEN <<Golden, Automatic, Flash>>
    ELSE <<Automatic, Flash>>

\* Mutant of PlanFor: without the image of last resort.
PlanForMutable(choice) == Fallbacks(choice)

\* program_context_selection.
PlanFor(choice) ==
    Fallbacks(choice) \o (IF context \in GoldenContexts THEN <<Golden>> ELSE <<>>)

\* manager_sd_mount: tried once, when first needed.
MountResult == IF mount # "untried" THEN mount ELSE IF card THEN "ok" ELSE "failed"

\* What an attempt comes to.
Attempt(source) ==
    IF source \in Paths /\ MountResult # "ok" THEN "absent"
    ELSE IF source = Golden /\ context \notin GoldenContexts THEN "absent"
    ELSE image[Place(context, source)]

BootInit ==
    /\ image \in Images
    /\ context \in Contexts
    /\ card \in BOOLEAN
    /\ mount = "untried"
    /\ boot = "off"
    /\ plan = <<>>
    /\ forced = FALSE
    /\ fabric = NoImage
    /\ running = NoImage

\* main, up to the choice; RESET held down forces the embedded image.
StartBoot(force) ==
    /\ boot = "off"
    /\ Load
    /\ boot' = "starting"
    /\ forced' = force
    /\ plan' = IF force THEN <<Golden>> ELSE PlanFor(metadata'.table[context])
    /\ UNCHANGED <<image, context, card, mount, fabric, running>>

\* program_selected_context and program_transient_context, while serving.
Reprogram(choice) ==
    /\ boot = "serving"
    /\ boot' = "programming"
    /\ plan' = PlanFor(choice)
    /\ UNCHANGED <<image, context, card, mount, forced, fabric, running>>

\* Automatic discovery: the card is searched.
Discover ==
    /\ boot \in {"starting", "programming"}
    /\ plan # <<>> /\ Head(plan) = Automatic
    /\ mount' = MountResult
    /\ plan' = (IF mount' = "ok" THEN Discovered ELSE <<>>) \o Tail(plan)
    /\ UNCHANGED <<image, context, card, boot, forced, fabric, running>>

\* Mutant of TryNext: the status is set when an attempt begins.
TryNextEarly ==
    /\ boot \in {"starting", "programming"}
    /\ plan # <<>> /\ Head(plan) # Automatic
    /\ LET source == Head(plan)
           result == Attempt(source)
       IN  /\ mount' = IF source \in Paths THEN MountResult ELSE mount
           /\ fabric' = CASE result = "good" -> source
                          [] result = "broken" -> NoImage
                          [] OTHER -> fabric
           /\ running' = source
           /\ plan' = IF result = "good" THEN <<>> ELSE Tail(plan)
           /\ boot' = IF result = "good" THEN "serving" ELSE boot
    /\ UNCHANGED <<image, context, card, forced>>

\* One image: the first that the FPGA accepts ends the search.
TryNext ==
    /\ boot \in {"starting", "programming"}
    /\ plan # <<>> /\ Head(plan) # Automatic
    /\ LET source == Head(plan)
           result == Attempt(source)
       IN  /\ mount' = IF source \in Paths THEN MountResult ELSE mount
           /\ fabric' = CASE result = "good" -> source
                          [] result = "broken" -> NoImage
                          [] OTHER -> fabric
           /\ running' = IF result = "good" THEN source ELSE running
           /\ plan' = IF result = "good" THEN <<>> ELSE Tail(plan)
           /\ boot' = IF result = "good" THEN "serving" ELSE boot
           /\ forced' = (forced /\ boot' = "starting")
    /\ UNCHANGED <<image, context, card>>

\* Nothing is left: a start ends in a panic, a service goes on.
Exhausted ==
    /\ boot \in {"starting", "programming"}
    /\ plan = <<>>
    /\ boot' = IF boot = "starting" THEN "panic" ELSE "serving"
    /\ UNCHANGED <<image, context, card, mount, plan, forced, fabric, running>>

\* A transfer changes what the sources hold.  It never touches an embedded image,
\* and leaves a flash core or replaces it.
ChangeImages ==
    /\ boot = "serving"
    /\ image' \in Images \ {image}
    /\ \A k \in Contexts :
          /\ image'[<<k, Golden>>] = image[<<k, Golden>>]
          /\ image'[<<k, Flash>>] = "absent" => image[<<k, Flash>>] = "absent"
    /\ UNCHANGED <<context, card, mount, boot, plan, forced, fabric, running>>

\* manager_sd_mount, alone.
MountCard ==
    /\ mount' = MountResult
    /\ UNCHANGED <<image, context, card, boot, plan, forced, fabric, running>>

\* f_unlink, core_flash_clear: a file or a flash core is removed (gone), or not.
RemoveImage(place, gone) ==
    /\ boot = "serving"
    /\ image' = IF gone THEN [image EXCEPT ![place] = "absent"] ELSE image
    /\ mount' = IF place \in Paths THEN MountResult ELSE mount
    /\ UNCHANGED <<context, card, boot, plan, forced, fabric, running>>

\* The processor stops; power lost also clears the FPGA.
BootOff(power) ==
    /\ boot # "off"
    /\ JournalOff
    /\ boot' = "off"
    /\ mount' = "untried"
    /\ plan' = <<>>
    /\ running' = NoImage
    /\ fabric' = IF power THEN NoImage ELSE fabric
    /\ forced' = FALSE
    /\ UNCHANGED image
    /\ IF power THEN context' \in Contexts /\ card' \in BOOLEAN
       ELSE UNCHANGED <<context, card>>

-----------------------------------------------------------------------------
(* Properties *)

BootTypes ==
    /\ image \in [Places -> Qualities]
    /\ context \in Contexts
    /\ card \in BOOLEAN
    /\ mount \in {"untried", "ok", "failed"}
    /\ boot \in {"off", "starting", "serving", "programming", "panic"}
    /\ plan \in Seq(Sources \cup {Automatic})
    /\ forced \in BOOLEAN
    /\ {fabric, running} \subseteq Sources \cup {NoImage}

\* README.md:61, "Contexts 1 and 4 add the immutable recovery image": with a good
\* one no choice, card or flash ever leaves such a context without an image.
NeverDark ==
    image[<<context, Golden>>] = "good" /\ context \in GoldenContexts =>
        /\ boot # "panic"
        /\ boot = "serving" => fabric # NoImage

\* The orange dot marks "the core that actually booted" (README.md:147): what the
\* status names is what the FPGA runs, unless a failed attempt has cleared it.
StatusIsTrue == boot = "serving" /\ fabric # NoImage => running = fabric
=============================================================================
