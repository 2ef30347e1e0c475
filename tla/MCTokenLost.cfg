SPECIFICATION Spec
CONSTANTS
    Observers = {o1, o2}
    Endpoint = endpoint
    Transport = transport
    Services = {}
    FailureThreshold = 1
    BaseCooldown = 1
    MaxCooldown = 1
    JitterPercent = 0
    Retention = 9
    MaxEntries = 3
    MaxTime = 2
    MaxVersion = 1
    MaxTokens = 2
    None = None
SYMMETRY Symmetry
INVARIANT TokenHasOwner
