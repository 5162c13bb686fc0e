\* An authored file replaces one whose job has been claimed or is done.
SPECIFICATION FairSpec
CONSTANTS
    a1 = a1
    w1 = w1
    w2 = w2
    h1 = h1
    h2 = h2
    Workers = {w1}
    Handlers = {h1}
    Assets = {a1}
    Intents = {"detail"}
    SkipAssets = {}
    JobIds = {1}
    MaxAttempts = 2
    Unfit = {}
    Faults = {}
    MaxPuts = 2
    MaxReclaims = 1
CHECK_DEADLOCK FALSE
PROPERTIES
    AcceptedFileJudged
