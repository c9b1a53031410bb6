SPECIFICATION Spec
CONSTANTS
    FileLen = 5
    ChunkLen = 3
    PageLen = 2
    Lens <- MCLens
    Offs <- MCOffs
    RangeSupport = {TRUE}
    LengthKnown = FALSE
    Faults = {}
INVARIANTS
    EofIsEarned
