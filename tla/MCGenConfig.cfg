SPECIFICATION SpecCrash
CONSTANTS
    p1 = p1
    p2 = p2
    Procs = {p1, p2}
    NoProc = NoProc
    wan = wan
    dns = dns
    v1 = v1
    v2 = v2
    Tags = {wan, dns}
    Values = {v1, v2}
    NoValue = NoValue
    Prefixes <- MCPrefixes
INVARIANTS
    TypeOK
    ConfigInv
PROPERTIES
    StoreSpecLossy
    LockReturned
