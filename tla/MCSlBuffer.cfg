SPECIFICATION Spec
CONSTANTS
    FileLen = 5
    Capacity = 3
    StepSize = 4
    Lens <- MCLens
    Offs <- MCOffs
    SeekMayFail = TRUE
    ReadMayFail = TRUE
    BlockingFill = TRUE
INVARIANTS
    TypeOK
    InOrder
    InnerExclusive
    NoMissedRequest
PROPERTIES
    ResetIsAlone
    ImplementsStream
