SPECIFICATION Spec
CONSTANTS
  m1 = m1
  m2 = m2
  r1 = r1
  Threads = {m1, m2, r1}
  Coll = coll
  None = none
  Mutators = {m1, m2}
  RT = {r1}
  Scopers = {}
  NoParkers = {}
  GcCallers = {}
  Engine = {}
  Sleepy = {}
  Dedicated = FALSE
  CanDisable = FALSE
  CanStop = FALSE
  MaxDepth = 1
  MaxRequests = 2
INVARIANTS
  SingleCollector
  NoDrainDuringMark
CHECK_DEADLOCK FALSE
