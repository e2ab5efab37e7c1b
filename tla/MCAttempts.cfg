SPECIFICATION Spec
CONSTANTS
    s1 = s1
    u1 = u1
    bib = bib
    sty = sty
    NoInputs = NoInputs
    Inputs = {bib, sty}
    Nobody = Nobody
    NoSession = NoSession
    Jobs = {1, 2}
    Sessions = {s1}
    Uploads = {u1}
    MaxStateBytes = 3
    ResultBytes = 2
    AuxiliaryBytes = 1
    StagedBytes = 1
    MaxCrashes = 1
    MaxFaults = 1
SYMMETRY Symmetry
INVARIANTS QuotaHeld CheckpointOwned WarmCompatible WarmHarmless NameFree
PROPERTY CacheNeverOlder
