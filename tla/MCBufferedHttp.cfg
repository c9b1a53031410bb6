SPECIFICATION Spec
CONSTANTS
    FileLen = 4
    ChunkLen = 3
    PageLen = 2
    RangeSupport = {TRUE}
    LengthKnown = TRUE
    Faults = {"break", "multi", "line"}
    Capacity = 2
    StepSize = 4
    Lens <- MCLens
    Offs <- MCOffs
INVARIANTS
    InnerOutlivesFiller
PROPERTIES
    ImplementsBuffer
    ReadReturns
    SeekReturns
    DestroyReturns
