SPECIFICATION Spec
CONSTANTS
    Macs = {m1, m2, m3, m4}
    Octets = 8
    HalfOctet = 4
    MaxLease = 3
    MaxStation = 3
    LeaseTimes = {2}
    Ranges <- NoRanges
    ApIps <- OneAp
    Claims <- InRange
    Requests <- AnyRequest
    AnyClaim = FALSE
    ReserveAnytime = FALSE
SYMMETRY Symmetry
INVARIANTS
    NoSharedAddress
    ReplyBacked
