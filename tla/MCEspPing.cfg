SPECIFICATION FairSpec
CONSTANTS
    Pings = {s1, s2}
    MaxSeq = 3
    Counts = {0, 3}
    Coarses = {0, 2}
    MAX_COUNT = 1
    PING_COARSE = 2
    PING_TIMEOUT_MS = 2
INVARIANTS
    NoDanglingTimer
PROPERTIES
    RoundReported
    AnsweredNotLost
    PingEnds
