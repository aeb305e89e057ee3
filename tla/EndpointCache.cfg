SPECIFICATION FairSpec
CONSTANTS
    Callers = {c1, c2, c3}
    Upper = {endpoint1, endpoint2}
    Lower = regions
    TtlU = 1
    TtlL = 2
    MaxTime = 2
    Failed = Failed
    None = None
INVARIANTS
    TypeOK
    FetchOnlyWhenStale
PROPERTIES
    LookupRefined
    CallsReturn
