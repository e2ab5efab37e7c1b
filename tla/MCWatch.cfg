SPECIFICATION FairSpec
CONSTANTS
    Main = main
    Deps = {dep}
    Ignore = ignore
    Files = {main, dep, ignore}
    Debounce = 1
    MaxWait = 2
    MaxRounds = 1
    MaxEdits = 2
    MaxFaults = 1
INVARIANTS ReportedInTime
PROPERTY EditsCompiled
CHECK_DEADLOCK FALSE
