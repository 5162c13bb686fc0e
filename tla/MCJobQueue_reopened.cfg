\* A lease expires under a worker that is only slow.
SPECIFICATION Spec
CONSTANTS
    a1 = a1
    w1 = w1
    w2 = w2
    h1 = h1
    h2 = h2
    Workers = {w1, w2}
    Handlers = {h1}
    Assets = {a1}
    Intents = {"detail"}
    SkipAssets = {}
    JobIds = {1}
    MaxAttempts = 2
    Unfit = {}
    Faults = {"slow"}
    MaxPuts = 0
    MaxReclaims = 1
CHECK_DEADLOCK FALSE
PROPERTIES
    SucceededIsFinal
