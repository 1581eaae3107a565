SPECIFICATION Spec
CONSTANTS
    None = None
    Worlds <- Outrun
INVARIANTS
    FailuresReal
CHECK_DEADLOCK FALSE
