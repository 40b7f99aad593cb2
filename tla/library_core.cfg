\* Two uploads, copies, reads and deletions, with failing calls and losses of power, two in all.
CONSTANTS
    named = named
    raw = raw
    Files = {named, raw}
    RawFiles = {raw}
    FirstRaw = raw
    Slot = Slot
    MaxUploads = 2
    MaxScans = 2
    MaxTroubles = 2
    None = None
SPECIFICATION Spec
INVARIANTS
    LibraryTypes
    Exclusive
    NothingLost
    AckMeansStored
    PageOfOwnScan
