SPECIFICATION Spec
CONSTANTS
    Pools = {p1, p2}
    Coordinators = {c1, c2}
    Workers = 1
    Attempts = {}
    Nobody = Nobody
INVARIANT CoordinatorKept
CHECK_DEADLOCK FALSE
