SPECIFICATION FairSpec
CONSTANTS
    MaxEdits = 1
    MaxRevisions = 6
    MaxCreations = 2
    MaxSessions = 3
    MaxMishaps = 1
    MaxLosses = 1
    MaxRealtimeSessions = 2
    MaxSessionReceipts = 1
    MaxRounds = 0
    Naming = TRUE
PROPERTY Settles
CHECK_DEADLOCK FALSE
