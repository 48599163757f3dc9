SPECIFICATION Spec
CONSTANTS
    v1 = v1
    v2 = v2
    None = None
    Vols = {v1, v2}
    OwnShare = TRUE
    MaxCopies = 2
    MaxFaults = 0
CHECK_DEADLOCK FALSE
SYMMETRY Symmetry
INVARIANTS
    CreatedIsComplete
