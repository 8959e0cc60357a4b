SPECIFICATION FairSpec
CONSTANTS
    Lengths = {1, 5}
    MaxSends = 3
    TCP_SND_BUF = 4
    TCP_SND_QUEUELEN = 2
    Mss2 = 3
    Word = 16
    TaskQueueLen = 2
    Options = {"COPY", "NODELAY"}
    MemFailsIdle = FALSE
    NULL = NULL
INVARIANTS
    StreamInOrder
    PtailValid
    ReportedWhenAcked
PROPERTIES
    RefusalIsTemporary
    AcceptedIsReported
