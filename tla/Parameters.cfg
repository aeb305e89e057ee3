SPECIFICATION Spec
CONSTANTS
    MaxEntries = 2
    MaxEdits = 2
    FsTypeSpan = 2
    BlockSpan = 4
    BlockSize = 3
    Nil = Nil
    Bad = Bad
CHECK_DEADLOCK FALSE
INVARIANTS
    TypeOK
    RoundTrip
    ClassWins
    CreatedVolumeParses
