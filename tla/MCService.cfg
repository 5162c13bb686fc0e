\* Checksum: an asset of the backlog that nobody can read, and a new one that a
\* derive job may hash too.  Readiness: one machine, two probes.  Accounts: a
\* namespace that holds one of two accounts.  One fault of each kind.  A
\* checksum behaviour ends when every asset is purged.
SPECIFICATION Spec
CONSTANTS
    ChecksumAssets = {1, 2}
    Backlog = {2}
    Derivable = {1}
    Unreadable = {2}
    Sweeps = {1, 2}
    MaxReputs = 1
    MaxDerives = 1
    MaxTrouble = 1
    Machines = {1}
    Probes = {1, 2}
    Checks = {"db", "storage", "worker", "queue"}
    MaxJobs = 1
    MaxOutages = 1
    Kids = {"named", "legacy"}
    LegacyKeyName = "legacy"
    AccountIds = {"tenant", "other"}
    Namespaces = {{"tenant"}}
    ApiInstances = {1, 2}
    Calls = {1}
    RequireBinding = FALSE
    MaxEdits = 3
INVARIANTS
    TypesOK
    EveryUrlOnItsHost
    EveryGrantServesTheSame
    EveryLadderFollowsPoster
    EveryImageWithinWall
    OneSweepPerObject
    LogAddsUp
    ProvisionedInNamespace
PROPERTIES
    ShaKept
    EveryAssetSummed
    DeadFleetIsReported
    StuckFleetIsReported
    RecoveryIsReported
    SettingsKept
    RetiredKeyStops
CHECK_DEADLOCK FALSE
