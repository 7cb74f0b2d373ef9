SPECIFICATION FairSpec
CONSTANTS
  a1 = a1
  a2 = a2
  r1 = r1
  r2 = r2
  Addr = {a1, a2}
  Req = {r1, r2}
  MaxConns = 3
  MaxEvents = 1
  MaxFaults = 0
PROPERTY EveryRequestAnswered
CHECK_DEADLOCK FALSE
