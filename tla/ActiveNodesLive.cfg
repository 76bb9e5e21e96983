CONSTANTS
    m = m
    r1 = r1
    r2 = r2
    Hosts <- MCHosts
    Master <- m
    MaxDisturbances = 3
SPECIFICATION LiveSpec
INVARIANT TypeOK
INVARIANT MajorityAcknowledges
INVARIANT QuorumsIntersect
PROPERTY JoinsAreCovered
PROPERTY Converges
CHECK_DEADLOCK FALSE
