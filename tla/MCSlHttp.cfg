SPECIFICATION FairSpec
CONSTANTS
    FileLen = 5
    ChunkLen = 3
    PageLen = 2
    Lens <- MCLens
    Offs <- MCOffs
    RangeSupport = {TRUE, FALSE}
    LengthKnown = TRUE
    Faults = {"break", "page", "multi", "line"}
INVARIANTS
    TypeOK
    BytesAtOffset
    TransferInStep
    NoLostPause
    EofIsEarned
    SeekableIsTrue
PROPERTIES
    ReadReturns
    SeekReturns
