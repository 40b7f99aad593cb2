\* Repeated requests, removals, power loss in saves and starts, one failed operation and
\* one rotten record.
CONSTANTS
    k1 = k1
    k2 = k2
    update = update
    wild = wild
    Contexts = {k1, k2}
    FirstContext = k1
    GoldenContexts = {k1}
    Paths = {update, wild}
    Automatic = Automatic
    Flash = Flash
    Golden = Golden
    SeqMod = 4
    SavedRecords <- MCRecords
    MaxDamage = 1
    MaxFaults = 1
    Damaged = Damaged
    Home <- MCHome
    Class <- MCClass
    Rank <- MCRank
    Images <- MCImages
    NoImage = NoImage
    Ops <- MCOps
    MaxRequests = 2
    None = None
SPECIFICATION FairSpec
INVARIANTS
    SupervisorTypes
    AtMostOnce
    AnswerIsOwn
    AckMeansSaved
    MemoryIsDurable
    StatusIsTrue
    NeverDark
PROPERTIES
    KeepsChoices
    SavedChoiceBoots
    RequestsEnd
