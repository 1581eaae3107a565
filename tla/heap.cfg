SPECIFICATION FairSpec
CONSTANTS
  a = a
  b = b
  v = v
  x = x
  s = s
  u = u
  Objs = {a, b, v, x, s, u}
  m = m
  n = n
  Worlds <- Programs
  Strings = {s, u}
  Actors = {x}
  Versions = {v}
  Natives = {a, b}
  Weaks = {x}
  Threads = {m, n}
  Writer = m
  Gc = gc
  Rec = rec
  None = none
INVARIANTS
  TypeOK
  NoUseAfterFree
PROPERTIES
  HeapImplemented
  DeathReclaimed
CHECK_DEADLOCK FALSE
