SPECIFICATION IngestorSpec
CONSTANTS
    Publishers = {p1, p2, p3}
    Keys = {k1, k2, k3}
    Ttl = 1
    MaxEntries = 2
    MaxTime = 1
    None = None
SYMMETRY Symmetry
INVARIANTS ReservationKept
PROPERTIES KeepsPromise
CHECK_DEADLOCK FALSE
