SPECIFICATION Spec
CONSTANTS
    Paths = {p1, p2}
    Calls = {t1, t2}
    MaxMounts = 2
    MaxRestarts = 1
    Faults <- AllFaults
    None = None
SYMMETRY Symmetry
INVARIANTS
    TypeOK
    PublishedMeansMounted
    UnpublishedMeansUnmounted
    CacheInUseKept
    SecretFileRemoved
