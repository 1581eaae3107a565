SPECIFICATION FairSpec
CONSTANTS
  t1 = t1
  t2 = t2
  Threads = {t1, t2}
  RT = {t2}
  Worlds <- Programs
  MaxCommands = 2
INVARIANTS
  TypeOK
  Frozen
  HostHeld
  NoLostRelease
PROPERTIES
  StopResolves
CHECK_DEADLOCK FALSE
