SPECIFICATION FairSpec
CONSTANTS
  Producer = {p1, p2}
  Consumer = {c1, c2}
  Size = 4
  Wrap = 8
  Start = 7
  MaxEnqueues = 3
  MaxDequeues = 1
INVARIANTS
  Ordered
  CountExact
PROPERTIES
  ImplementsFifo
  EveryCallReturns
CHECK_DEADLOCK FALSE
