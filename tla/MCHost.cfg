SPECIFICATION MCSpec
CONSTANTS
    Sessions = {s1, s2}
    Ops = {o1, o2}
    Images = {1, 2}
    MaxGeneration = 3
    MaxMoves = 1
    Runtimes = {1, 2}
    Origins <- MCOrigins
    Controls <- MCControls
    Attempts = 1
    Peers = {p1, p2}
    Callers <- MCCallers
    HttpLimit = 2
    TotalLimit = 2
    CallerLimit = 2
    RoomLimit = 3
    Window = 2
    Frames = 1
    Reads = 2
    Tracked = 1
    PageLimit = 4
    FrameBytes = 4
    Sizes <- MCSizes
    MaxTime = 3
    MaxId = 6
CHECK_DEADLOCK FALSE
INVARIANTS
    TargetsFrozen
    IngressIsTrue
    LimitsAreExact
PROPERTIES
    NeverTwice
    AdmissionReturns
