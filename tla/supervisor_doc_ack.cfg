\* A RECONFIGURE whose next transaction is missed.
CONSTANTS
    k1 = k1
    k2 = k2
    update = update
    wild = wild
    Contexts = {k1, k2}
    FirstContext = k1
    GoldenContexts = {k1}
    Paths = {update, wild}
    Automatic = Automatic
    Flash = Flash
    Golden = Golden
    SeqMod = 4
    SavedRecords <- MCRecords
    MaxDamage = 1
    MaxFaults = 1
    Damaged = Damaged
    Home <- MCHome
    Class <- MCClass
    Rank <- MCRank
    Images <- MCImages
    NoImage = NoImage
    Ops <- MCOps
    MaxRequests = 2
    None = None
SPECIFICATION Spec
INVARIANTS
    AcknowledgedFirst
