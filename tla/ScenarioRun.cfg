SPECIFICATION Spec
CONSTANTS
    Order <- MCOrder
    Kind <- MCKind
    Parent <- MCParent
    VIPPort <- MCVIPPort
    Deferred <- MCDeferred
    Links <- MCLinks
    StaticRoutes <- MCStaticRoutes
    Platform <- MCPlatform
    Scripts <- MCScripts
    MaxRuns = 2
    MaxFaults = 1
    MaxCrashes = 1
    MaxTroubles = 2
INVARIANTS RecordLagsByOne TornDownMeansGone ConfigsRestored
PROPERTY DownConverges
CHECK_DEADLOCK FALSE
