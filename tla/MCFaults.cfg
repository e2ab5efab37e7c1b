SPECIFICATION Spec
CONSTANTS
    w1 = w1
    w2 = w2
    a = a
    s1 = s1
    NoSnapshot = NoSnapshot
    Workers = {w1, w2}
    Sessions = {s1}
    Snapshots = {a}
    MaxJobs = 2
    MaxQueuedJobs = 1
    MaxRealtimeSessions = 2
    LeaseTTL = 1
    Durable = TRUE
    FaultKinds = {"fail", "lost", "boot"}
    MaxFaults = 2
    MaxRestarts = 1
    LongRetention = TRUE
SYMMETRY Symmetry
INVARIANTS TypeOK DeferredHasRow SoleToken OneAttempt PendingNotStarted
PROPERTIES OpenGateFinal LastSuccessMonotone ImplementsLifecycle
CHECK_DEADLOCK FALSE
