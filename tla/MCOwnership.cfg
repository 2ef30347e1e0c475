SPECIFICATION MCFairSpec
CONSTANTS
    Dials = {d1, d2, d3}
    Keys = {k1, k2}
    Nodes = {n1}
    Incarnations = {v1, v2, v3}
    MaxEntries = 1
    TTL = 1
    MaxTime = 1
    MaxClears = 1
    None = None
    p1 = p1
    p2 = p2
    c1 = c1
    c2 = c2
    Pools = {p1, p2}
    Coordinators = {c1, c2}
    Workers = 1
    Attempts = {a1}
    Nobody = Nobody
INVARIANTS
    SingleLeader WaitersHaveLeader OneProber
PROPERTIES
    ClearFence NoLostUpdate WaitersProceed
    WaiterKeepsCoordinator HandoverCompletes
CHECK_DEADLOCK FALSE
