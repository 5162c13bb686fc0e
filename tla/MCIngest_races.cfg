\* One upload of any kind under every fault: two finalizes and two sweeps of it.
SPECIFICATION Spec
CONSTANTS
    r1 = r1
    r2 = r2
    s1 = s1
    s2 = s2
    Uploads = {1}
    Kinds = {"video", "archive", "other"}
    Requests = {r1, r2}
    Sweepers = {s1, s2}
    BatchSize = 1
    BadKeys = {}
    Faults = {"late_finalize", "crash"}
    MaxDeletes = 2
SYMMETRY Symmetric
CHECK_DEADLOCK FALSE
INVARIANTS
    TypeOK
    VaultAccountedFor
    AnsweredIsComplete
PROPERTIES
    GoneStaysGone
