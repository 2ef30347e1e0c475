SPECIFICATION MCSpec
CONSTANTS
    t1 = t1
    e1 = e1
    p1 = p1
    Probers = {p1}
    Tracks = {t1}
    PassiveTracks = {}
    Endpoints = {e1}
    EndpointOf <- OneEndpoint
    ProbeCalls <- OneProber
    ProbeSlots = 1
    ProfileLimit = 2
    DeadAfter = 3
    Nil = Nil
INVARIANTS ThreeFailuresIsolate
CHECK_DEADLOCK FALSE
