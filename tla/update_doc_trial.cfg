\* Power loss around the TRIAL record, sound flash.
SPECIFICATION Spec
CONSTANTS
    v1 = v1
    v2 = v2
    v3 = v3
    Images = {v1, v2}
    PoolImages <- MCPoolImages
    PayloadLen <- MCPayloadLen
    Version <- MCVersion
    MaxPayload = 1
    SeqMod = 4
    MaxDamage = 0
    MaxFaults = 0
    Erased = Erased
    Junk = Junk
    Rotten = Rotten
    Unreadable = Unreadable
    NoImage = NoImage
INVARIANTS
    TriedBeforeRollback
