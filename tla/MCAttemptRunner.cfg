SPECIFICATION MCFairSpec
CONSTANTS
    Publishers = {1, 2}
    N = 2
    None = None
    Writers = {w1}
    Savers = {c1, c2}
    WriterOf <- OneWriter
    MaxChanges = 2
    MaxFailures = 1
    MaxCrashes = 1
    q1 = q1
    q2 = q2
    q3 = q3
    s1 = s1
    s2 = s2
    l1 = l1
    Queries = {q1, q2, q3}
    Questions = {s1, s2}
    Lanes = {l1}
    Asks <- MCAsks
    LaneOf <- OneLane
    MaxTransactions = 2
    MaxCoalescedResponders = 2
    Nobody = Nobody
INVARIANTS
    FailsOnlyWhenAllFailed BindingsHeld NothingHeld LoserNotPenalized
    AckedDurable CloseSaves ClosedOnce TablesAgree
PROPERTIES DialReturns ChangesSaved FlushReturns QueriesClosed
CHECK_DEADLOCK FALSE
