SPECIFICATION MCSpec
CONSTANTS
    k1 = k1
    k2 = k2
    k3 = k3
    c1 = c1
    c2 = c2
    Keys = {k1, k2, k3}
    Callers = {c1, c2}
    Tasks <- CallerTasks
    Removals <- OneRemoval
    SourceOf <- TwoSources
    QueueSizes = {1, 3}
    ProbeWorkers = 1
    MaxBurst = 1
    Absent = Absent
INVARIANTS AnsweredOnce FreshAnswer QueueConsistent
PROPERTIES RecurringKept 
CHECK_DEADLOCK FALSE
