\* No lease expires under a live worker and no reply is lost; processes still
\* crash, steps still fail.  Two workers and two requests, which interleave in
\* any way but one: both are never between the lookup and the insert of one
\* target (MCJobQueue_duplicate.cfg shows what comes of that).
SPECIFICATION Spec
CONSTRAINT OneInsert
CONSTANTS
    a1 = a1
    w1 = w1
    w2 = w2
    h1 = h1
    h2 = h2
    Workers = {w1, w2}
    Handlers = {h1, h2}
    Assets = {a1}
    Intents = {"detail"}
    SkipAssets = {a1}
    JobIds = {1, 2}
    MaxAttempts = 2
    Unfit <- SecondFileUnfit
    Faults = {}
    MaxPuts = 2
    MaxReclaims = 1
SYMMETRY Symmetric
VIEW AllButProbe
CHECK_DEADLOCK FALSE
INVARIANTS
    ClaimExclusive
    ReadyDescribesObject
    UnfitNeverDelivered
PROPERTIES
    SucceededIsFinal
    ReadyKept
    ImplementsDerivation
