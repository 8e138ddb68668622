\* The reconciler hands out an assigned turn whose task is still at work.
CONSTANTS
    MaxTurns = 1
    MaxTasks = 2
    MaxRestarts = 0
    MaxRefusals = 0
    MaxLate = 0
    StopAllowed = FALSE
    Duplicates = TRUE
SPECIFICATION FairSpec
PROPERTIES KeepsPromise
