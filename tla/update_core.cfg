\* Three builds, power loss at every flash operation, sound flash; a supply that holds at last.
SPECIFICATION FairSpec
CONSTANTS
    v1 = v1
    v2 = v2
    v3 = v3
    Images = {v1, v2, v3}
    PoolImages <- MCPoolImages
    PayloadLen <- MCPayloadLen
    Version <- MCVersion
    MaxPayload = 2
    SeqMod = 4
    MaxDamage = 0
    MaxFaults = 0
    Erased = Erased
    Junk = Junk
    Rotten = Rotten
    Unreadable = Unreadable
    NoImage = NoImage
INVARIANTS
    UpdateInv
    NeverStranded
    RollbackKept
    ReadyMeansPending
PROPERTIES
    JournalAtomic
    UpdateOrder
    ActiveGuarded
    InstallResolves
    PendingProcessed
