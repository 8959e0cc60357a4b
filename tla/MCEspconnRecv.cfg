SPECIFICATION Spec
CONSTANTS
    TCP_WND = 4
    MaxStream = 8
    NULL = NULL
INVARIANT
    NoWindowLeak
PROPERTY
    NothingLost
