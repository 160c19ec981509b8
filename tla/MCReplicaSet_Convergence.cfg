CONSTANTS
    u1 = u1
    u2 = u2
    u3 = u3
    None = None
    Unit <- MCSmallUnit
    InitialUnits <- MCSmallInitialUnits
    StopTimeout = 2
    MaxErrors = 1
    MaxRestarts = 1
    MaxHandovers = 1
SPECIFICATION FairSpec
INVARIANTS
    TypeOK
    SnapshotFresh
PROPERTIES
    OnlyLeaderReconfigures
    Convergence
