SPECIFICATION Spec
CONSTANTS
    c1 = c1
    c2 = c2
    Clients = {c1, c2}
    Blank = Blank
    Addr = {6, 7, 8, 9}
    Start = 6
    End = 9
    Base = 4
    LocalIP = 1
    Subnet = {6, 7, 8, 9}
    StaticConfigs <- MCNoStatic
    TwinIP = {}
    OpReads = {TRUE}
    MaxLeases = 2
    Lease = 2
    MinLease = 1
    OfferTime = 1
    ConflictTime = 1
    DeclineTime = 1
    TwinLease = 1
    LeaseOpts = {0}
    TimeMod = 64
    MaxTime = 4
INVARIANTS
    PromiseKept
