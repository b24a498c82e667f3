SPECIFICATION SpecBusy
CONSTANTS
    Addr = {1}
    LeaseTimes = {8}
    Modes = {"daemon"}
    Signals = {"SIGUSR1", "SIGUSR2"}
    Retry = 1
    LastDiscover = 2
    LastRequest = 2
    Pause = 3
    RenewUnit = 14400
    WordMod = 256
    AgeCap = 24
PROPERTIES
    FallsThrough
