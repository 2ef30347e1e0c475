SPECIFICATION MCSpec
CONSTANTS
    Pools = {p1, p2}
    Dials = {d1, d2}
    Nodes = {n1}
    MaxRetired = 1
    PersistMayFail = FALSE
    Persisted <- NoFile
    MaxGeneration = 2
    None = None
    v1 = v1
    v2 = v2
    Providers = {v1, v2}
    Tags = {t1}
    Starter = starter
    Poller = poller
    HistoryLimit = 1
    Budgets <- Scenarios
    Nobody = Nobody
SYMMETRY Symmetry
CHECK_DEADLOCK FALSE
INVARIANTS  EvidenceNotLost  ConvergesUnlessRaced BaselinesAgree
