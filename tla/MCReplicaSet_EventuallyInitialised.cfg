CONSTANTS
    u1 = u1
    u2 = u2
    u3 = u3
    None = None
    Unit <- MCSmallUnit
    InitialUnits <- MCInitialUnits
    StopTimeout = 2
    MaxErrors = 1
    MaxRestarts = 0
    MaxHandovers = 1
SPECIFICATION FairSpec
PROPERTIES
    EventuallyInitialised
