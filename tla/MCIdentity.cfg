SPECIFICATION IdentitySpec
CONSTANTS
    Pools = {p1, p2}
    Dials = {}
    Nodes = {n1, n2}
    MaxRetired = 1
    PersistMayFail = TRUE
    Persisted <- SomeFile
    MaxGeneration = 2
    None = None
SYMMETRY NodeSymmetry
CHECK_DEADLOCK FALSE
INVARIANT SlotsUnique
INVARIANT NoHandleRevival
