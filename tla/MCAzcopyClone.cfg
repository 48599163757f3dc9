SPECIFICATION FairSpec
CONSTANTS
    v1 = v1
    v2 = v2
    None = None
    Vols = {v1, v2}
    OwnShare = TRUE
    MaxCopies = 2
    MaxFaults = 1
CHECK_DEADLOCK FALSE
INVARIANTS
    IInv
    CompleteUnlessLost
    CopyKeepsItsShare
    OneCopyPerShare
PROPERTIES
    EventuallyCreated
