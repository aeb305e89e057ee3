SPECIFICATION Spec
CONSTANTS
    Kinds <- MountKinds
    Prompts = 2
    Lines = 0
    Faults <- NoFaults
CHECK_DEADLOCK FALSE
INVARIANTS
    SuccessMeansMounted
