CONSTANTS
    h1 = h1
    h2 = h2
    Hosts <- MCHosts
    NoHost = NoHost
    Orphan = Orphan
    MaxDisconnects = 1
    MaxKills = 1
    MaxGiveUps = 1
    MaxReconnects = 1
SPECIFICATION FairSpec
INVARIANT TypeOK
INVARIANT KeptSessionExclusive
PROPERTY ManagersConverge
