\* Every fault; one asset, one intent, two job rows.
SPECIFICATION Spec
CONSTANTS
    a1 = a1
    w1 = w1
    w2 = w2
    h1 = h1
    h2 = h2
    Workers = {w1, w2}
    Handlers = {h1}
    Assets = {a1}
    Intents = {"detail"}
    SkipAssets = {}
    JobIds = {1, 2}
    MaxAttempts = 2
    Unfit <- FirstFileUnfit
    Faults = {"slow", "lost_ack"}
    MaxPuts = 1
    MaxReclaims = 1
SYMMETRY Symmetric
VIEW AllButProbe
CHECK_DEADLOCK FALSE
INVARIANTS
    TypeOK
    ReadyHasObject
    SucceededRecorded
    AttemptsDistinct
    RetriesBounded
