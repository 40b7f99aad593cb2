\* One sector rots and one flash operation fails, anywhere.
SPECIFICATION Spec
CONSTANTS
    v1 = v1
    v2 = v2
    v3 = v3
    Images = {v1, v2}
    PoolImages <- MCPoolImages
    PayloadLen <- MCPayloadLen
    Version <- MCVersion
    MaxPayload = 1
    SeqMod = 4
    MaxDamage = 1
    MaxFaults = 1
    Erased = Erased
    Junk = Junk
    Rotten = Rotten
    Unreadable = Unreadable
    NoImage = NoImage
INVARIANTS
    StartsOnlyComplete
    UsbMeansBackupLost
PROPERTIES
    InstalledIsRunning
\* In USB recovery the device waits for its user.
CHECK_DEADLOCK FALSE
