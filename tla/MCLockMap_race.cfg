SPECIFICATION FairSpec
CONSTANTS
    p1 = p1
    p2 = p2
    p3 = p3
    k1 = k1
    k2 = k2
    None = None
    Procs = {p1, p2}
    Keys = {k1, k2}
    MaxRestarts = 1
PROPERTIES
    LockEntryAcquires
