SPECIFICATION MCSpec
CONSTANTS
    Devices  = {"phone", "laptop"}
    OneUse   = {"single"}
    Reusable = {"many"}
    Limit   <- MCLimit
    Copies   = {"token", "joincode"}
    Requests = {"r1", "r2"}
    Seats    = 2
    Scripts <- MCScripts
    CtFiles = {"a1", "a2"}
    CtChannels = {"side"}
    CtTexts = {1, 2}
    CtOptions = {1, 2}
    CtAssets = 1
    CtPins = 1
    CtBallots = 2
    CtPage = 1
    CtTtl = 1
    CtTime = 1
    CtSeq = 4
    RcRequests = {"a"}
    RcAttempts = 2
    RcSockets = 3
    RcEvents = 2
    RcRooms = 2
    RcFaults = 1
    ScRequests = {"m1"}
    ScKeep = 1
    ScTtl = 1
    ScTime = 1
    ScSeq = 3
    ScLives = 2
    CnConns = 2
    CnIds = {1}
    CnPage = 2
    CnEvents = 3
    CnLosses = 1
    LaRequests = {"q1", "q2"}
    LaInvites = {"i1", "i2"}
    LaLosses = 1
    OpVersions = 2
    OpRefreshes = 2
    OpRuns = 2
    CxTurns = 2
    CxQueue = 2
    CxNotes = 1
    CxRequests = 6
    ClRequests = {1, 2}
    ClCapacity = 2
    AcTurns = 2
    AcRequests = {1, 2}
    OcTurns = 2
    OcPrompts = 2
    OcStream = 2
    RpTurns = 2
    RpTools = {1, 2, 3}
    RpResults = 2
    RpQueueSize = 1
    RpAttempts = 1
    RpConns = {1, 2}
    RpConnections = 1
    RdRounds = 4
    MbTurns = 2
    MbTools = {1}
    MbRequests = {2}
INVARIANTS
    AdmissionHolds
    ConversationIsTrue
    SettledIsTrue
    ContentIsTrue
    ClientIsTrue
    SideChatTrue
    RefreshFollowsEffect
    OwnTurnOnly
    SafeToRepeat
CHECK_DEADLOCK FALSE
