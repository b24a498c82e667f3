CONSTANTS
    Groups = {1}
    Hosts = {1, 2}
    PortNums <- MCPortNums
    AllPorts = {1, 2}
    Mac <- MCMac
    Shared = {}
    FastLeaves = {0, 1}
    Upstreams = {0, 1}
    JoinResults <- MCJoinResults
    Robustness = 2
    LastMemberCount = 2
    LastMemberInterval = 1
    ProbeDelay = 1
    AgeDelay = 2
    StartupInterval = 3
    StartupCount = 0
    QueryInterval = 3
    ReportLife = 2
    CharMod = 4
    Slots = 1
    MaxJump = 2
    MaxTimers = 3
    MaxRules = 2
SPECIFICATION Spec
INVARIANTS  KernelInStep JoinedReceives UpstreamInStep SwitchInStep
