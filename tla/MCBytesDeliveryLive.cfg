SPECIFICATION FairSpec
CONSTANTS
  p1 = p1
  p2 = p2
  t1 = t1
  Poster = {p1, p2}
  Task = {t1}
  Lane <- MCLaneLow
  Size = 2
  MaxPosts = 2
  MaxFaults = 1
PROPERTIES
  EveryItemDelivered
  IdleTaskExits
CHECK_DEADLOCK FALSE
