CONSTANTS
    PingStable = 2
    FailoverTimeout = 2
    RestartTimeout = 2
    BusyTimeout = 1
    LoadTicks = 4
    MaxDisturbances = 3
SPECIFICATION Spec
PROPERTY FailoverDelayRespected
