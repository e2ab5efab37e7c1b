SPECIFICATION FairSpec
CONSTANTS
    Handlers = {h1, h2}
    NoHandler = NoHandler
    maxSessionEvents = 2
    maxSessionSubscribers = 1
    MaxSequence = 4
    MaxBreaks = 2
INVARIANTS NoSilentSkip
PROPERTY FinishHeard
CHECK_DEADLOCK FALSE
