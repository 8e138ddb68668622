SPECIFICATION MCSpec
CONSTANTS
    MaxLaunches = 2
    MaxCrashes = 2
    MaxBoots = 1
    MaxKills = 1
    Escapes = TRUE
    RqIds = {1, 2}
    RqSession <- MCSession
    RqAnswers = {1, 2}
    RqLimit = 1
    RqTurns = 2
    AtConns = 2
    AtTurns = 2
    AtOrders = 1
    AtLosses = 1
INVARIANTS CustodyHolds EachTurnOnce
PROPERTIES AbsenceIsTrue OrphansEnd RequestsSettle RoomSettles
CHECK_DEADLOCK FALSE
