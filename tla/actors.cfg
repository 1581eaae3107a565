SPECIFICATION FairSpec
CONSTANTS
  Threads = {"t1", "t2"}
  Workers = {"w1", "w2"}
  Calls = {"c1", "c2"}
  Worlds <- Scripts
  Joiners = {"life", "main"}
  Lifecycle = "life"
  NoCall = "none"
  Nobody = "nobody"
INVARIANTS
  TypeOK
  NoStranded
  CombinatorRight
  BrokenOnlyWhenDown
PROPERTIES
  CombinatorFires
  AwaitEnds
  QuitEnds
CHECK_DEADLOCK FALSE
