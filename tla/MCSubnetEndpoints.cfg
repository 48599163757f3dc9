SPECIFICATION SubnetFairSpec
CONSTANTS
    p1 = p1
    p2 = p2
    s1 = s1
    s2 = s2
    two = two
    all = all
    None = None
    Procs = {p1, p2}
    Keys = {two, all}
    NamesOf <- SomeNames
    AllSubnets <- TwoSubnets
    MaxFaults = 2
    MaxRestarts = 1
INVARIANTS
    SubnetInv
    CachedHaveEndpoint
    StaleOnlyByOthers
PROPERTIES
    ImplementsKeyedMutex
    EveryUpdateReturns
