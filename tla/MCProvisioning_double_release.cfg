SPECIFICATION Spec
CONSTANTS
    v1 = v1
    v3 = v3
    v2 = v2
    a1 = a1
    a2 = a2
    a3 = a3
    a4 = a4
    k1 = k1
    p1 = p1
    p2 = p2
    None = None
    Procs = {p1, p2}
    Vols = {v1, v2}
    Accounts = {a1, a2}
    Classes = {k1}
    ClassAtStart <- NoneAtStart
    ClassOf <- OneClass
    AccountParam <- NoAccount
    ShareSize = 1
    ShareLimit = 1
    AccountQuota = 0
    MinimumAccountQuota = 0
    Starts <- TwoEach
    MaxDefers = 2
SYMMETRY SymmetryAll
INVARIANT OngoingIsLocked
CHECK_DEADLOCK FALSE
