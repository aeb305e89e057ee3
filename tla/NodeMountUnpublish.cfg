SPECIFICATION FairSpec
CONSTANTS
    Paths = {p1}
    Calls = {t1, t2}
    MaxMounts = 2
    MaxRestarts = 1
    Faults <- LostAnswers
    None = None
CHECK_DEADLOCK FALSE
PROPERTIES
    DeletedPodIsUnpublished
