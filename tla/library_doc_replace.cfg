\* An upload replaces an image, and power is lost.
CONSTANTS
    named = named
    raw = raw
    Files = {named, raw}
    RawFiles = {raw}
    FirstRaw = raw
    Slot = Slot
    MaxUploads = 2
    MaxScans = 2
    MaxTroubles = 1
    None = None
SPECIFICATION Spec
INVARIANTS
    DestinationKept
