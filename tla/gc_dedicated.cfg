SPECIFICATION Spec
CONSTANTS
  m1 = m1
  r1 = r1
  Threads = {m1, r1}
  Coll = coll
  None = none
  Mutators = {m1}
  RT = {r1}
  Scopers = {r1}
  NoParkers = {m1}
  GcCallers = {m1}
  Engine = {}
  Sleepy = {}
  Dedicated = TRUE
  CanDisable = TRUE
  CanStop = FALSE
  MaxDepth = 2
  MaxRequests = 2
INVARIANTS
  TypeOK
  BarrierExclusion
  LatchHasPublisher
PROPERTIES
  FenceHolds
CHECK_DEADLOCK FALSE
