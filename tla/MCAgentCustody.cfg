SPECIFICATION FairAgentCustodySpec
CONSTANTS
    Requests = {"r1", "r2", "r3"}
    Scripts <- AllScripts
    MaxLaunches = 2
    MaxCrashes = 1
    MaxFaults = 1
    MaxLost = 1
INVARIANTS AuthorityHolds
PROPERTIES RemovalEndsRuntime LifecycleResolves
CHECK_DEADLOCK FALSE
