SPECIFICATION FairSpec
CONSTANTS
    v1 = v1
    v3 = v3
    v2 = v2
    a1 = a1
    a2 = a2
    a3 = a3
    a4 = a4
    k1 = k1
    p1 = p1
    p2 = p2
    None = None
    Procs = {p1, p2}
    Vols = {v1, v2, v3}
    Accounts = {a1, a2, a3, a4}
    Classes = {k1}
    ClassAtStart <- TwoAtStart
    ClassOf <- OneClass
    AccountParam <- V2NamesA1
    ShareSize = 2
    ShareLimit = 1
    AccountQuota = 1
    MinimumAccountQuota = 0
    Starts <- Several
    MaxDefers = 2
INVARIANTS
    IInv
    NoOrphanLock
    OneFreshAccountPerClass
    ExclusiveUnlessReentered
    DeletedStaysDeleted
    OneAccountPerVolume
PROPERTIES
    EveryRpcReturns
CHECK_DEADLOCK FALSE
