CONSTANTS
    m = m
    r1 = r1
    r2 = r2
    Hosts <- MCHosts
    Here <- r1
    InitialMaster <- m
    NoHost = NoHost
    MaxDisturbances = 3
SPECIFICATION Spec
INVARIANT TypeOK
INVARIANT AnnouncedWasOpen
PROPERTY CacheConverges
