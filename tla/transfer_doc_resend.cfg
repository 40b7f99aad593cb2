\* A page fails, and the reply to the frame is an older one.
SPECIFICATION Spec
CONSTANTS
    Files = {f1, f2}
    Length <- MCLength
    Slots = {s1, s2}
    FrameSize = 2
    PageSize = 3
    MaxRetries = 2
    Faults <- MCResend
    NoFile = NoFile
    NoSlot = NoSlot
    Nothing = Nothing
INVARIANTS
    StoredWhole
