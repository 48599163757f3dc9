SPECIFICATION FairSpec
CONSTANTS
    p1 = p1
    p2 = p2
    x1 = x1
    x2 = x2
    None = None
    Procs = {p1, p2}
    Pods = {x1}
    Kinds = {"nfs", "disk", "inline", "token"}
    MaxCalls = 4
    MaxFaults = 2
CHECK_DEADLOCK FALSE
INVARIANTS
    IInv
    UnstagedIsClean
    StagedIsMounted
    RunningIsMounted
    GonePodIsClean
PROPERTIES
    NodeRpcReturns
