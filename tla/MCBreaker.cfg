SPECIFICATION MCSpec
CONSTANTS
    Observers = {o1, o2}
    Endpoint = endpoint
    Transport = transport
    Services = {}
    FailureThreshold = 2
    BaseCooldown = 2
    MaxCooldown = 4
    JitterPercent = 50
    Retention = 2
    MaxEntries = 1
    MaxTime = 4
    MaxVersion = 2
    MaxTokens = 2
    None = None
    tcp = tcp
    udp = udp
    other = other
    e1 = e1
    e2 = e2
    c1 = c1
    c2 = c2
    c3 = c3
    Probers = {c1, c2, c3}
    Tracks = {tcp, udp, other}
    PassiveTracks = {passive}
    Endpoints = {e1, e2}
    EndpointOf <- SharedEndpoint
    ProbeCalls <- Callers
    ProbeSlots = 1
    ProfileLimit = 1
    DeadAfter = 1
    Nil = Nil
SYMMETRY Symmetry
INVARIANTS SingleRecoveryOwner BreakerConsistent OneProbePerEndpoint FreshIsNew
PROPERTIES LateResultFence 
