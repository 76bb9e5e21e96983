CONSTANTS
    m = m
    r1 = r1
    r2 = r2
    Hosts <- MCHosts
    Master <- m
SPECIFICATION WSpec
INVARIANT AcknowledgedWriteSurvives
