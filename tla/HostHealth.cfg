CONSTANTS
    PingStable = 2
    FailoverTimeout = 2
    RestartTimeout = 2
    BusyTimeout = 1
    LoadTicks = 4
    MaxDisturbances = 2
SPECIFICATION FairSpec
INVARIANT TypeOK
PROPERTY LoadingLeftAlone
PROPERTY FailoverNotEarly
PROPERTY Reopens
PROPERTY FailedOver
