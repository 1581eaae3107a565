SPECIFICATION Spec
CONSTANTS
  MaxId = 4
  Worlds <- Homecoming
INVARIANTS
  CallRouted
CHECK_DEADLOCK FALSE
