CONSTANTS
    m = m
    r1 = r1
    r2 = r2
    Hosts <- MCHosts
    Master <- m
    MaxDisturbances = 3
SPECIFICATION LiveSpec
PROPERTY DisableIsHonoured
CHECK_DEADLOCK FALSE
