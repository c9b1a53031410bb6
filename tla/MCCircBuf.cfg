SPECIFICATION FairSpec
CONSTANTS
    Size = 4
    MaxBytes = 6
    Lens <- MCLens
INVARIANTS
    TypeOK
    Occupancy
    Contents
    NoDataRace
    NoMissedWakeup
    InFlight
PROPERTIES
    ImplementsQueue
    ReadReturns
    WriteReturns
