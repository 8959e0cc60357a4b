SPECIFICATION NaptSpec
CONSTANTS
    Hosts = {h1, h2}
    Remotes = {r1}
    Sports = {5}
    Ids = {5}
    Rport = 80
    LowPorts = {}
    MapProtos = {"UDP"}
    MappedPorts = {5}
    RangeStart = 5
    RangeEnd = 8
    Listening = {}
    NaptMax = 3
    PortmapMax = 1
    TimeoutTcp = 1
    TimeoutDiscon = 0
    TimeoutOther = 0
    TcpFlags <- OpenAnswer
SYMMETRY Symmetry
INVARIANTS
    ListsIntact
    AnswerReachesHost
    RefusedWhenFull
