SPECIFICATION Spec
CONSTANTS
  p1 = p1
  p2 = p2
  t1 = t1
  t2 = t2
  Poster = {p1, p2}
  Task = {t1, t2}
  Lane <- MCLane
  Size = 4
  MaxPosts = 2
  MaxFaults = 1
SYMMETRY Symmetry
INVARIANTS
  TypeOK
  SingleConsumer
  ItemHasTask
PROPERTIES
  InOrder
  RoundRobin
CHECK_DEADLOCK FALSE
