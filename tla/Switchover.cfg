CONSTANTS
    m = m
    r1 = r1
    r2 = r2
    Hosts <- MCHosts
    InitialMaster <- m
    NoHost = NoHost
    MaxWrites = 2
    Budgets <- SafetyBudgets
    MaxUnreachable = 2
    MaxParallelSyncs = 1
    Backlog = 1
SYMMETRY MCSymmetry
SPECIFICATION Spec
INVARIANT TypeOK
INVARIANT AckedKept
INVARIANT OneMaster
INVARIANT PositionsCoverQuorum
PROPERTY ImplementsShard
PROPERTY ChoiceStands
