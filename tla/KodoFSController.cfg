SPECIFICATION Spec
CONSTANTS
    Controllers = {c1, c2}
    Calls = {t1, t2, t3}
    Volumes = {v1}
    Ids = {p1, p2}
    MaxArchive = 2
    Faults <- AnyFault
    None = None
SYMMETRY Symmetry
INVARIANTS
    TypeOK
    BoundVolumeUsable
    DeletedLeavesNothing
PROPERTIES
    ReclaimOnlyOnDelete
    HalfDeletedStays
