\* One rotten sector and power loss while an update is being rolled back.
SPECIFICATION Spec
CONSTANTS
    v1 = v1
    v2 = v2
    v3 = v3
    Images = {v1, v2}
    PoolImages <- MCPoolImages
    PayloadLen <- MCPayloadLen
    Version <- MCVersion
    MaxPayload = 1
    SeqMod = 4
    MaxDamage = 1
    MaxFaults = 0
    Erased = Erased
    Junk = Junk
    Rotten = Rotten
    Unreadable = Unreadable
    NoImage = NoImage
INVARIANTS
    StagingIsLastResort
CHECK_DEADLOCK FALSE
