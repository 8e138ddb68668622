SPECIFICATION RoomCommandsSpec
CONSTANTS
    Clients = {"h", "g"}
    Sessions = {"g"}
    Requests <- MCRequests
    Issuer <- MCIssuer
    Key <- MCKey
    Kind <- MCKind
    Target <- MCTarget
    Scripts <- MCScripts
    Capacity = 1
    Inflight = 2
    Buffer = 1
    CatchUp = 1
    Quota = 2
    RetryLimit = 2
INVARIANTS NothingMissed CommittedOnce RevokedIsOut
PROPERTIES DeletedWhenQuiet SubscribersCatchUp
CHECK_DEADLOCK FALSE
