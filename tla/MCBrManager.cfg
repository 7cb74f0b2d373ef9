SPECIFICATION Spec
CONSTANTS
  a1 = a1
  a2 = a2
  r1 = r1
  r2 = r2
  Addr = {a1, a2}
  Req = {r1, r2}
  MaxConns = 4
  MaxEvents = 2
  MaxFaults = 1
SYMMETRY Symmetry
INVARIANTS
  AnsweredOnce
  OneDevicePerAddr
  ConnectingTimed
  WaitersHaveWaker
  SchedulerAwake
  CountMatchesOwners
CHECK_DEADLOCK FALSE
