SPECIFICATION Spec
CONSTANTS
    Pools = {p1, p2}
    Dials = {}
    Nodes = {n1}
    MaxRetired = 1
    PersistMayFail = TRUE
    Persisted <- NoFile
    MaxGeneration = 2
    None = None
SYMMETRY Symmetry
CHECK_DEADLOCK FALSE
INVARIANT GroupReclaimed
