\* Power loss and failed operations in migrations, uploads and deletions, against the abstract pool.
SPECIFICATION Spec
CONSTANTS
    c1 = c1
    c2 = c2
    Contexts = {0, 1}
    Cores = {c1, c2}
    Size <- MCSize
    NumBlocks = 3
    Window = 1
    LegacyBlocks <- MCLegacyBlocks
    SeqMod = 4
    MaxFaults = 1
    MaxDamage = 0
    NoCore = NoCore
    Foreign = Foreign
    Blank = Blank
    Junk = Junk
    Clear = Clear
    Torn = Torn
INVARIANTS
    CoreInv
    GenerationsIntact
    MemoryMatchesFlash
PROPERTIES
    FenceMoves
    Contract
