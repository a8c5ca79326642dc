SPECIFICATION FairSpec
CONSTANTS
    Requests <- AllRequests
    PathOf <- StorePathOf
    NoPath = "none"
    DaemonVersions <- Versions
    DaemonFeatures <- FeatureSets
    MaxCalls = 2
    MaxLogs = 1
    MaxDrops = 1
INVARIANTS
    InStep
    LeavesNothing
PROPERTIES
    ServiceSpec
    CallReturns
CHECK_DEADLOCK FALSE
