SPECIFICATION FairSpec
CONSTANTS
    FileLen = 5
    Capacity = 3
    StepSize = 4
    Lens <- MCLens
    Offs <- MCOffs
    SeekMayFail = FALSE
    ReadMayFail = FALSE
    BlockingFill = FALSE
INVARIANTS
    EofIsEarned
    NoUseAfterFree
PROPERTIES
    ReadReturns
    SeekReturns
    DestroyReturns
