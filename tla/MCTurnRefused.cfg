\* The room refuses one completion, and accepts any later one.
CONSTANTS
    MaxTurns = 1
    MaxTasks = 1
    MaxRestarts = 0
    MaxRefusals = 1
    MaxLate = 0
    StopAllowed = FALSE
    Duplicates = FALSE
SPECIFICATION FairSpec
PROPERTIES ResultSettles
