SPECIFICATION Spec
CONSTANTS
    Nodes = {n1, n2}
    Pcbs = {p1, p2}
    Clients = {c1}
    MEMP_NUM_TCP_PCB = 2
    TaskQueueLen = 2
    Timeouts = {0}
    Limits = {1}
    DefaultTimeout = 2
    OptionSets <- AllOrNone
    CloseMayFail = TRUE
    Redisconnect = TRUE
    EndConnecting = FALSE
    NULL = NULL
INVARIANT
    OneEndMessage
