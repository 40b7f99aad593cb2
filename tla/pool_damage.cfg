\* One record rots, and power is lost, with slots of two blocks.
SPECIFICATION Spec
CONSTANTS
    c1 = c1
    c2 = c2
    Contexts = {0, 1}
    Cores = {c1, c2}
    Size <- MCSize
    NumBlocks = 4
    Window = 2
    LegacyBlocks <- MCLegacyBlocks
    SeqMod = 4
    MaxFaults = 0
    MaxDamage = 1
    NoCore = NoCore
    Foreign = Foreign
    Blank = Blank
    Junk = Junk
    Clear = Clear
    Torn = Torn
INVARIANTS
    CorruptMeansRot
PROPERTIES
    LiveBlocksUntouched
