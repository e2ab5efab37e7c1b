SPECIFICATION FairSpec
CONSTANTS
    w1 = w1
    w2 = w2
    a = a
    s1 = s1
    NoSnapshot = NoSnapshot
    Workers = {w1}
    Sessions = {}
    Snapshots = {a}
    MaxJobs = 3
    MaxQueuedJobs = 1
    MaxRealtimeSessions = 2
    LeaseTTL = 1
    Durable = TRUE
    FaultKinds = {"fail"}
    MaxFaults = 1
    MaxRestarts = 0
    LongRetention = TRUE
PROPERTIES WorkerReturns
CHECK_DEADLOCK FALSE
