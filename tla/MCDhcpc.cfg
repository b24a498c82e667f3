SPECIFICATION Spec
CONSTANTS
    Addr = {1, 2}
    LeaseTimes = {0, 1, 16}
    Modes = {"daemon", "quit", "abort", "check"}
    Signals = {"SIGUSR1", "SIGUSR2"}
    Retry = 1
    LastDiscover = 2
    LastRequest = 2
    Pause = 3
    RenewUnit = 14400
    WordMod = 256
    AgeCap = 22
INVARIANTS
    TypeOK
    Listening
    AddressFitsState
    LeaseInv
PROPERTIES
    LeaseSettled
    KeepsTrying
