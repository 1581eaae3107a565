SPECIFICATION Spec
CONSTANTS
  w1 = w1
  w2 = w2
  o1 = o1
  o2 = o2
  Owners = {w1, w2}
  Readers = {r1}
  Objs = {o1, o2}
  Snaps = {s1, s2, s3}
  None = none
  Guarded = {o1, o2}
  Worlds <- Rejected
SYMMETRY Symmetry
INVARIANTS
  SnapshotIsolation
CHECK_DEADLOCK FALSE
