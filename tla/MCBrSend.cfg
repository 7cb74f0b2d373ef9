SPECIFICATION Spec
CONSTANTS
  Poster <- MCPoster
  Pid <- MCPid
  Level <- MCLevel
  Length <- MCLength
  Config <- MCConfig
  MAX_WINDOW_IN_MILLIS = 2
  Workload <- MCWorkload
  Mtu = 2
  AckLength = 1
  QueueLimit = 4
  MaxTry = 1
  MIN_WINDOW = 2
  DEFAULT_WINDOW = 3
  MAX_WINDOW = 3
  TIMEOUT_TIMES = 1
  ACK_FAILED_TIMES = 2
INVARIANTS
  SleeperHasFullQueue
  NodeHasTask
  QuotaKept
  SleepsOnce
  PacketLifetime
PROPERTIES
  SendingEnds
CHECK_DEADLOCK FALSE
