\* Late, lost and older replies, with sound flash or with flash operations that fail,
\* for cores and for firmware packages.
SPECIFICATION K2FairSpec
CONSTANTS
    Files = {f1}
    Length <- MCLength
    Slots = {s1, s2}
    FrameSize = 2
    PageSize = 3
    MaxRetries = 2
    Faults <- MCFaults
    NoFile = NoFile
    NoSlot = NoSlot
    Nothing = Nothing
    Packages = {p1, p2}
    PayloadSize <- MCPayloadSize
    ManifestSize = 1
    StagingSectors = 1
    NoPackage = NoPackage
    ShortPackage = p2
INVARIANTS
    TransferInv
    ReportsAreTrue
    StoredWhole
    InStep
PROPERTIES
    OnlyWanted
    TransfersEnd
