SPECIFICATION FairSpec
CONSTANTS
  m1 = m1
  r1 = r1
  Threads = {m1, r1}
  Coll = coll
  None = none
  Mutators = {m1}
  RT = {r1}
  Scopers = {}
  NoParkers = {}
  GcCallers = {m1}
  Engine = {}
  Sleepy = {m1}
  Dedicated = TRUE
  CanDisable = FALSE
  CanStop = TRUE
  MaxDepth = 1
  MaxRequests = 2
INVARIANTS
  GcCollects
PROPERTIES
  RequestServed
  NoThreadStranded
  CollectorStops
CHECK_DEADLOCK FALSE
