\* Ingest: clients finalize within the grace period; one key cannot be deleted
\* and the batch is larger than the number of such keys.  The queue: two intents
\* of different length compete, processes crash, steps fail.
SPECIFICATION ProgressSpec
CONSTANTS
    r1 = r1
    s1 = s1
    w1 = w1
    h1 = h1
    a1 = a1
    Uploads = {1, 2}
    Kinds = {"other"}
    Requests = {r1}
    Sweepers = {s1}
    BatchSize = 2
    BadKeys = {1}
    Faults = {}
    MaxDeletes = 2
    Workers = {w1}
    Handlers = {h1}
    Assets = {a1}
    Intents = {"loop", "detail"}
    JobIds = {1, 2}
    MaxAttempts = 2
    MaxReclaims = 1
CHECK_DEADLOCK FALSE
PROPERTIES
    ImplementsVault
    OrphansReclaimed
    DeletedIsPurged
    EveryJobSettles
