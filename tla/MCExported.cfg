SPECIFICATION AccessSpec
CONSTANTS
    Devices  = {"phone", "laptop"}
    OneUse   = {"single"}
    Reusable = {"many"}
    Limit   <- MCLimit
    Copies   = {"token", "joincode"}
    Requests = {"r1", "r2"}
    Seats    = 2
    Scripts <- MCScripts

PROPERTY ExportedIsFinal
CHECK_DEADLOCK FALSE
