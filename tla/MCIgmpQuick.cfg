CONSTANTS
    Groups = {1}
    Hosts = {1, 2}
    PortNums = {1}
    AllPorts = {1}
    Mac <- MCMac
    Shared = {}
    FastLeaves = {1}
    Upstreams = {0, 1}
    JoinResults <- MCJoinResults
    Robustness = 2
    LastMemberCount = 2
    LastMemberInterval = 1
    ProbeDelay = 1
    AgeDelay = 2
    StartupInterval = 3
    StartupCount = 1
    QueryInterval = 4
    ReportLife = 2
    CharMod = 4
    Slots = 1
    MaxJump = 4
    MaxTimers = 4
    MaxRules = 2
SPECIFICATION Spec
INVARIANT LeftWithRoute
