SPECIFICATION Spec
CONSTANTS
  a1 = a1
  r1 = r1
  Addr = {a1}
  Req = {r1}
  MaxConns = 3
  MaxEvents = 2
  MaxFaults = 0
INVARIANT RetriesBounded
CHECK_DEADLOCK FALSE
