SPECIFICATION FairSpec
CONSTANTS
    FileLen = 5
    Capacity = 3
    StepSize = 4
    Lens <- MCLens
    Offs <- MCOffs
    SeekMayFail = TRUE
    ReadMayFail = FALSE
    BlockingFill = FALSE
PROPERTIES
    SeekReturns
