SPECIFICATION ReaderSpec
CONSTANTS
    FileLen = 5
    ChunkLen = 3
    PageLen = 2
    Lens <- MCLens
    Offs <- InnerOffs
    RangeSupport = {TRUE}
    LengthKnown = TRUE
    Faults = {}
PROPERTIES
    ImplementsStream
    ReaderReachesEof
