SPECIFICATION SpecFaulty
CONSTANTS
    c1 = c1
    c2 = c2
    Clients = {c1}
    Blank = Blank
    Addr = {9, 10, 11}
    Start = 9
    End = 11
    Base = 8
    LocalIP = 1
    Subnet = {9, 10, 11}
    StaticConfigs <- MCNoStatic
    TwinIP = {}
    OpReads = {TRUE}
    MaxLeases = 2
    Lease = 2
    MinLease = 1
    OfferTime = 1
    ConflictTime = 0
    DeclineTime = 1
    TwinLease = 1
    LeaseOpts = {0}
    TimeMod = 64
    MaxTime = 3
INVARIANTS
    OneLeaseEach
    TableFits
PROPERTIES
    HandlerShrinks
    HandlerEnds
