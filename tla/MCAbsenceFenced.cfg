SPECIFICATION AgentCustodySpec
CONSTANTS
    Requests = {"r1", "r2", "r3"}
    Scripts <- CreateOnly
    MaxLaunches = 1
    MaxCrashes = 0
    MaxFaults = 2
    MaxLost = 0
INVARIANT ErasedIdentityUnfenced
CHECK_DEADLOCK FALSE
