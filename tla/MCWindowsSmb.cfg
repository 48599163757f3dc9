SPECIFICATION Spec
CONSTANTS
    p1 = p1
    p2 = p2
    t1 = t1
    t2 = t2
    t3 = t3
    p3 = p3
    t4 = t4
    lower = lower
    upper = upper
    None = None
    Procs = {p1, p2, p3}
    Targets = {t1, t2, t3, t4}
    Inline = {t4}
    RemoteOf <- Spelled
    MaxCalls = 5
    MaxFaults = 2
SYMMETRY Symmetry
INVARIANTS
    IInv
    StagedHasMapping
    NoMappingLeak
