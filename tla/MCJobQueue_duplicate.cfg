\* Two requests for one rendition overlap.
SPECIFICATION Spec
CONSTANTS
    a1 = a1
    w1 = w1
    w2 = w2
    h1 = h1
    h2 = h2
    Workers = {w1}
    Handlers = {h1, h2}
    Assets = {a1}
    Intents = {"detail"}
    SkipAssets = {}
    JobIds = {1, 2}
    MaxAttempts = 2
    Unfit = {}
    Faults = {}
    MaxPuts = 0
    MaxReclaims = 1
CHECK_DEADLOCK FALSE
INVARIANTS
    OneLiveJob
