SPECIFICATION Spec
CONSTANTS
    Controllers = {c1, c2}
    Calls = {t1, t2, t3}
    Volumes = {v1}
    Suffixes = {s1, s2}
    Policies <- AllPolicies
    normalizePolicyName <- PolicyNames
    Faults <- AnyFault
    None = None
SYMMETRY Symmetry
INVARIANTS
    TypeOK
    IInv
    BoundVolumeUsable
    OneCreator
    NoWriterWhileCleaning
    DeletedMeansRevoked
PROPERTIES
    ReclaimOnlyOnDelete
    OrphanUserBlocksVolume
