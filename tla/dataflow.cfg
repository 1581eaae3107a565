SPECIFICATION FairSpec
CONSTANTS
    None = None
    Worlds <- Programs
INVARIANTS
    TypeOK
    TickCoherent
PROPERTIES
    Delivered
    TicksEnd
CHECK_DEADLOCK FALSE
