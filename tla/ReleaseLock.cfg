CONSTANTS
    h1 = h1
    h2 = h2
    Hosts <- MCHosts
    NoHost = NoHost
    Orphan = Orphan
    MaxDisconnects = 1
    MaxKills = 0
    MaxGiveUps = 1
    MaxReconnects = 0
SYMMETRY MCSymmetry
SPECIFICATION Spec
PROPERTY ReleasesOnlyItsOwn
