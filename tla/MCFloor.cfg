\* Two agents; focus selects what happens to them (see MCAgentFloor).
CONSTANTS
    Sessions <- TwoSessions
    Launched <- TwoSessions
    Directors <- First
    Managed <- First
    ExcludePrevious = TRUE
    MaxQueue = 2
    MaxBatch = 2
    MaxSeq = 3
SPECIFICATION MCSpec
INVARIANTS TurnAuthority ExecutionTracksTurn QueuesServable MutedTurnsInterrupted
PROPERTIES OrderedFloorExclusive InputConserved FloorNeverIdles
