\* A finalize that comes, or is still running, when the upload is past the grace
\* period.
SPECIFICATION Spec
CONSTANTS
    r1 = r1
    r2 = r2
    s1 = s1
    s2 = s2
    Uploads = {1}
    Kinds = {"video"}
    Requests = {r1}
    Sweepers = {s1}
    BatchSize = 1
    BadKeys = {}
    Faults = {"late_finalize"}
    MaxDeletes = 0
CHECK_DEADLOCK FALSE
INVARIANTS
    LiveAssetHasObject
