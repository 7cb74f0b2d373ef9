SPECIFICATION Spec
CONSTANTS
  p1 = p1
  t1 = t1
  Poster = {p1}
  Task = {t1}
  Lane <- MCLaneLow
  Size = 2
  MaxPosts = 1
  MaxFaults = 0
INVARIANT NoItemLost
CHECK_DEADLOCK FALSE
