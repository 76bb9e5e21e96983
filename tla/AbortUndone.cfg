CONSTANTS
    m = m
    r1 = r1
    r2 = r2
    Hosts <- MCHosts
    InitialMaster <- m
    NoHost = NoHost
    MaxWrites = 0
    Budgets <- AbortBudgets
    MaxUnreachable = 1
    MaxParallelSyncs = 1
    Backlog = 1
SPECIFICATION Spec
PROPERTY AbortedStaysAborted
