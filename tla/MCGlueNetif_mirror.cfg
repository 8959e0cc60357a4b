SPECIFICATION Spec
CONSTANTS
    Addrs = {1, 2}
    Gws = {0, 7}
INVARIANTS
    DefaultRouteUp
    AddressMirrored
    SntpFollowsAddress
PROPERTIES
    AddressUsable
    DownIsComplete
