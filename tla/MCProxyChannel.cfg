SPECIFICATION Spec
CONSTANTS
    c1 = c1
    c2 = c2
    None = None
    Channels <- MCChannels
    Requests <- MCChannels
    ControlTimeout = 2
    Workloads <- MCWorkloads
INVARIANTS
    ReferencesMatchUsers
    OpenAnsweredOnce
    WaiterHasRequest
PROPERTIES
    OpenAnswered
CHECK_DEADLOCK FALSE
