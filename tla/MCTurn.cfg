\* See MCProviderTurn for what each focus allows.
CONSTANTS
    MaxTurns = 2
    MaxTasks = 2
    MaxRestarts = 1
    MaxRefusals = 1
    MaxLate = 1
    StopAllowed = TRUE
    Duplicates = FALSE
SPECIFICATION MCSpec
INVARIANTS PairConsistent SlotServesOpenTurn
PROPERTIES KeepsPromise InterruptsSettle ResultsSettle
