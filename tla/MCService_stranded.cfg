\* One machine that may hang, and a client that authors one file again and again.
SPECIFICATION Spec
CONSTANTS
    ChecksumAssets = {1}
    Backlog = {}
    Derivable = {}
    Unreadable = {}
    Sweeps = {1}
    MaxReputs = 0
    MaxDerives = 0
    MaxTrouble = 0
    Machines = {1}
    Probes = {1}
    Checks = {"db", "storage", "worker", "queue"}
    MaxJobs = 1
    MaxOutages = 0
    Kids = {"legacy"}
    LegacyKeyName = "legacy"
    AccountIds = {"tenant"}
    Namespaces = {{"tenant"}}
    ApiInstances = {1}
    Calls = {1}
    RequireBinding = FALSE
    MaxEdits = 0
PROPERTY StrandedFleetIsReported
CHECK_DEADLOCK FALSE
