SPECIFICATION FairSpec
CONSTANTS
    Macs = {m1, m2}
    Octets = 8
    HalfOctet = 4
    MaxLease = 3
    MaxStation = 2
    LeaseTimes = {2}
    Ranges <- ManyRanges
    ApIps <- ManyAps
    Claims <- Around
    Requests <- NoRequests
    AnyClaim = TRUE
    ReserveAnytime = TRUE
INVARIANTS
    OneLeasePerStation
    RangeExcludesServer
PROPERTIES
    OnlineLeaseKept
    SilentLeaseExpires
