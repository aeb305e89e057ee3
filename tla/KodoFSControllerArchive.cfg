SPECIFICATION Spec
CONSTANTS
    Controllers = {c1}
    Calls = {t1}
    Volumes = {v1}
    Ids = {p1}
    MaxArchive = 2
    Faults <- NoFault
    None = None
CHECK_DEADLOCK FALSE
PROPERTIES
    ArchivedMeansDeleted
