SPECIFICATION SpecUp
CONSTANTS
    c1 = c1
    c2 = c2
    Clients = {c1, c2}
    Blank = Blank
    Addr = {9, 10}
    Start = 9
    End = 10
    Base = 8
    LocalIP = 1
    Subnet = {9, 10}
    StaticConfigs <- MCStaticC1
    TwinIP = {}
    OpReads = {TRUE}
    MaxLeases = 2
    Lease = 2
    MinLease = 1
    OfferTime = 1
    ConflictTime = 1
    DeclineTime = 1
    TwinLease = 1
    LeaseOpts = {0}
    TimeMod = 64
    MaxTime = 4
INVARIANTS
    ReservedForOwner
