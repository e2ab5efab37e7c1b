SPECIFICATION Spec
CONSTANTS
    Nobody = Nobody
    Invocations = {i1, i2}
    Groups = {g, h}
    Paths = {p, q}
    KeepLast = 1
    Contents = 2
    MaxBuilds = 4
    MaxSaves = 1
    MaxDeletes = 1
    MaxFaults = 1
SYMMETRY Symmetry
INVARIANTS EditsKept LatestKept ExportsKnown
CHECK_DEADLOCK FALSE
