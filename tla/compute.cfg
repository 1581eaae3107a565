SPECIFICATION FairSpec
CONSTANTS
  MaxId = 4
  Worlds <- Programs
INVARIANTS
  TypeOK
  NoStrandedCall
  CallRouted
  OutputBeforeResult
PROPERTIES
  CallsEnd
  SessionEnds
CHECK_DEADLOCK FALSE
