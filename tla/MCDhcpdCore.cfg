SPECIFICATION Spec
CONSTANTS
    c1 = c1
    c2 = c2
    Clients = {c1, c2}
    Blank = Blank
    Addr = {9, 10, 20}
    Start = 9
    End = 10
    Base = 8
    LocalIP = 1
    Subnet = {9, 10}
    StaticConfigs <- MCStaticTwin
    TwinIP = {c1}
    OpReads = {TRUE, FALSE}
    MaxLeases = 3
    Lease = 2
    MinLease = 1
    OfferTime = 1
    ConflictTime = 1
    DeclineTime = 1
    TwinLease = 1
    LeaseOpts = {0, 1}
    TimeMod = 64
    MaxTime = 3
INVARIANTS
    TypeOK
    OneLeaseEach
    NoDoublePromise
    PromiseInv
    HeldForNobody
    PromiseKept
PROPERTIES
    BookSpec
