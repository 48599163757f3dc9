SPECIFICATION Spec
CONSTANTS
    p1 = p1
    p2 = p2
    n1 = n1
    n2 = n2
    None = None
    Procs = {p1, p2}
    Sizes = {1, 2, 3}
    Iops = {1, 2}
    Names = {n1}
    Apis = {"mgmt", "data"}
    MaxCalls = 3
    MaxFaults = 1
    MaxCrashes = 1
CHECK_DEADLOCK FALSE
SYMMETRY Symmetry
INVARIANTS
    IInv
    ExpandedIsBigEnough
    ModifiedIsKept
    OneSnapshotPerName
    SnapshotSizeCovers
PROPERTIES
    QuotaNeverShrinks
