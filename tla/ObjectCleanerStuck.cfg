SPECIFICATION FairSpec
CONSTANTS
    N = 5
    PageSize = 2
    ListCap = 1
    NameCap = 1
    W = 2
    MaxBatch = 1
    Faults <- BatchFaults
CHECK_DEADLOCK FALSE
PROPERTIES
    FailureIsReported
