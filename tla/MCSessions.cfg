SPECIFICATION Spec
CONSTANTS
    w1 = w1
    w2 = w2
    a = a
    s1 = s1
    NoSnapshot = NoSnapshot
    Workers = {w1, w2}
    Sessions = {s1}
    Snapshots = {a}
    MaxJobs = 3
    MaxQueuedJobs = 1
    MaxRealtimeSessions = 2
    LeaseTTL = 1
    Durable = FALSE
    FaultKinds = {}
    MaxFaults = 0
    MaxRestarts = 1
    LongRetention = TRUE
SYMMETRY Symmetry
INVARIANTS PinExact QueuedIsScheduled OneSessionToken LastSuccessDurable
CHECK_DEADLOCK FALSE
