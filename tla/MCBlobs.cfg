SPECIFICATION Spec
CONSTANTS
    u1 = u1
    u2 = u2
    p = p
    q = q
    a = a
    b = b
    NoUpload = NoUpload
    Uploads = {u1, u2}
    Projects = {p}
    Digests = {a}
    UploadLifetime = 0
    BlobRetention = 0
    SnapshotRetention = 0
    MaxUploadSessions = 1
    Durable = TRUE
    FaultKinds = {"fail", "stuck"}
    MaxClock = 1
    MaxRestarts = 1
SYMMETRY Symmetry
INVARIANTS AcknowledgedKept RevisionSources CommittedComplete
PROPERTIES ReferencedKept
CHECK_DEADLOCK FALSE
