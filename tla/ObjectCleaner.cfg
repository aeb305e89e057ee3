SPECIFICATION FairSpec
CONSTANTS
    N = 4
    PageSize = 2
    ListCap = 1
    NameCap = 1
    W = 2
    MaxBatch = 2
    Faults <- AllFaults
CHECK_DEADLOCK FALSE
INVARIANTS
    TypeOK
    NothingLostBeforeFailure
PROPERTIES
    PanicOnlyUncounted
    CleanupRefined
    Terminates
