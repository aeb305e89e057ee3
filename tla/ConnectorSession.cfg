SPECIFICATION FairSpec
CONSTANTS
    Kinds <- AllKinds
    Prompts = 2
    Lines = 1
    Faults <- AllFaults
CHECK_DEADLOCK FALSE
INVARIANTS
    TypeOK
    ReportedMountIsReal
    AnswersMatchQuestions
    PanicOnlyFromOutput
PROPERTIES
    ConfigRemoved
    ClientReturns
    CleanupDone
