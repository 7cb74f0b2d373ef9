SPECIFICATION FairSpec
CONSTANTS
  l1 = l1
  l2 = l2
  m1 = m1
  m2 = m2
  Loops <- MCLoops
  Message = {m1, m2}
  Home <- MCHome
  What <- MCWhat
  Delay = {0, 1}
  MaxTime = 1
INVARIANTS
  NoUseAfterFree
  OneOwner
PROPERTIES
  QuietAfterRemove
  ImplementsTimedQueue
  EveryMessageFreed
  DeinitReturns
CHECK_DEADLOCK FALSE
