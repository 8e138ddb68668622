------------------------------ MODULE RoomPortal ------------------------------
(***************************************************************************)
(* The room portal of a driver: one observation at a time, opened for a    *)
(* turn, and the tools an agent calls on it over a loopback server. A room *)
(* tool is executed by the room task, which takes it from a queue whenever *)
(* it gets to it: the turn may be over by then. Whoever calls the tools    *)
(* (the agent) is external.                                                *)
(***************************************************************************)
EXTENDS Naturals, Sequences, FiniteSets

CONSTANTS
    RpTurns,       \* bound: observations opened
    RpTools,       \* room tool calls
    RpResults,     \* MAX_ROOM_TOOL_RESULTS
    RpQueueSize,   \* capacity of the room's tool queue
    RpAttempts,    \* ATTEMPTS_PER_ATTACHMENT
    RpConns,       \* connections to the portal
    RpConnections  \* MAX_PORTAL_CONNECTIONS

VARIABLES
    rp,     \* PortalState: the active observation
    rpTool, \* a tool command: the observation that reserved it and where it is
    rpRead, \* the read of the attachment: the observation that reserved it
    rpRoom, \* the room task: its queue of commands and the turns it has open
    rpPast, \* observations opened; outcomes returned; effects made in the room
    rpConn  \* connections: free, open, authenticated, or removed from the registry

rpVars == <<rp, rpTool, rpRead, rpRoom, rpPast, rpConn>>

NoObservation ==
    [gen |-> 0, receipt |-> FALSE, outcome |-> FALSE, closing |-> FALSE, tools |-> {}, executing |-> {},
     results |-> 0, attempts |-> 0, reading |-> FALSE]

RpInit ==
    /\ rp = NoObservation
    /\ rpTool = [k \in RpTools |-> [at |-> "none", gen |-> 0]]
    /\ rpRead = 0
    /\ rpRoom = [queue |-> <<>>, open |-> 0]
    /\ rpPast = [opened |-> 0, returned |-> {}, effects |-> {}]
    /\ rpConn = [c \in RpConns |-> "free"]

HasPending(a) == a.tools # {} \/ a.reading

\* A closing observation is kept as long as an operation of it is pending.
Remains(a) == IF a.closing /\ ~HasPending(a) THEN NoObservation ELSE a

------------------------
\* The driver

BeginObservation ==
    /\ rp = NoObservation /\ rpPast.opened < RpTurns
    /\ rpPast' = [rpPast EXCEPT !.opened = @ + 1]
    /\ rp' = [NoObservation EXCEPT !.gen = rpPast'.opened]
    /\ rpRoom' = [rpRoom EXCEPT !.open = rpPast'.opened]
    /\ UNCHANGED <<rpTool, rpRead, rpConn>>

\* finish_observation; the room commits the outcome and closes its turn.
FinishObservation ==
    /\ rp.gen # 0 /\ ~rp.closing /\ ~HasPending(rp) /\ rp.receipt /\ rp.outcome
    /\ rp' = NoObservation
    /\ rpPast' = [rpPast EXCEPT !.returned = @ \cup {rp.gen}, !.effects = @ \cup {rp.gen}]
    /\ rpRoom' = [rpRoom EXCEPT !.open = 0]
    /\ UNCHANGED <<rpTool, rpRead, rpConn>>

\* end_observation: commands still queued lose their reservation, the ones the
\* room executes keep the observation as a tombstone.
TurnEnded == Remains([rp EXCEPT !.closing = TRUE, !.tools = rp.executing])

EndObservation ==
    /\ rp.gen # 0 /\ ~rp.closing
    /\ rp' = TurnEnded
    /\ UNCHANGED <<rpTool, rpRead, rpRoom, rpPast, rpConn>>

------------------------
\* The tools

ReadDiscussion ==
    /\ rp.gen # 0 /\ ~rp.receipt
    /\ rp' = [rp EXCEPT !.receipt = TRUE]
    /\ UNCHANGED <<rpTool, rpRead, rpRoom, rpPast, rpConn>>

\* reserve_tool
CanReserve ==
    /\ rp.gen # 0 /\ ~rp.closing /\ ~rp.outcome /\ rp.receipt
    /\ rp.results + Cardinality(rp.tools) < RpResults

\* reserve_tool and submit: a full queue gives the reservation back.
SubmitTool(k) ==
    /\ rpTool[k].at = "none" /\ CanReserve
    /\ IF Len(rpRoom.queue) < RpQueueSize
       THEN /\ rp' = [rp EXCEPT !.tools = @ \cup {k}]
            /\ rpTool' = [rpTool EXCEPT ![k] = [at |-> "queued", gen |-> rp.gen]]
            /\ rpRoom' = [rpRoom EXCEPT !.queue = Append(@, k)]
       ELSE rpTool' = [rpTool EXCEPT ![k] = [at |-> "error", gen |-> rp.gen]] /\ UNCHANGED <<rp, rpRoom>>
    /\ UNCHANGED <<rpRead, rpPast, rpConn>>

\* RoomToolReservation.resolve
Resolved(k, ok) ==
    IF rp.gen = rpTool[k].gen
    THEN Remains([rp EXCEPT !.tools = @ \ {k}, !.executing = @ \ {k},
                            !.results = IF ok /\ k \in rp.executing THEN @ + 1 ELSE @])
    ELSE rp

\* begin_execution
MayExecute(k) == rp.gen = rpTool[k].gen /\ ~rp.closing /\ k \in rp.tools

\* handle_provider_room_tool
TakeTool ==
    /\ rpRoom.queue # <<>> /\ \A k \in RpTools : rpTool[k].at # "executing"
    /\ LET k == Head(rpRoom.queue) IN
          IF MayExecute(k)
          THEN /\ rp' = [rp EXCEPT !.executing = @ \cup {k}]
               /\ rpTool' = [rpTool EXCEPT ![k].at = "executing"]
          ELSE rp' = Resolved(k, FALSE) /\ rpTool' = [rpTool EXCEPT ![k].at = "error"]
    /\ rpRoom' = [rpRoom EXCEPT !.queue = Tail(@)]
    /\ UNCHANGED <<rpRead, rpPast, rpConn>>

\* The commit checks the turn in the store; a result that does not match the
\* request, the write budget or the store may refuse it.
CompleteTool(k) ==
    /\ rpTool[k].at = "executing"
    /\ \E ok \in BOOLEAN :
          /\ ok => rpRoom.open = rpTool[k].gen
          /\ rp' = Resolved(k, ok)
          /\ rpTool' = [rpTool EXCEPT ![k].at = IF ok THEN "done" ELSE "error"]
          /\ rpPast' = [rpPast EXCEPT !.effects = IF ok THEN @ \cup {rpTool[k].gen} ELSE @]
    /\ UNCHANGED <<rpRead, rpRoom, rpConn>>

\* A command dropped with the queue of a room task that stops.
DropTool ==
    /\ rpRoom.queue # <<>>
    /\ LET k == Head(rpRoom.queue) IN
          rp' = Resolved(k, FALSE) /\ rpTool' = [rpTool EXCEPT ![k].at = "error"]
    /\ rpRoom' = [rpRoom EXCEPT !.queue = Tail(@)]
    /\ UNCHANGED <<rpRead, rpPast, rpConn>>

\* reserve_attachment_read
ReserveRead ==
    /\ rp.gen # 0 /\ ~rp.closing /\ ~rp.outcome /\ ~rp.reading /\ rp.attempts < RpAttempts /\ rpRead = 0
    /\ rp' = [rp EXCEPT !.reading = TRUE, !.attempts = @ + 1] /\ rpRead' = rp.gen
    /\ UNCHANGED <<rpTool, rpRoom, rpPast, rpConn>>

\* AttachmentReadReservation.resolve, also when the call is dropped
ResolveRead ==
    /\ rpRead # 0 /\ rpRead' = 0
    /\ rp' = IF rp.gen = rpRead THEN Remains([rp EXCEPT !.reading = FALSE]) ELSE rp
    /\ UNCHANGED <<rpTool, rpRoom, rpPast, rpConn>>

\* publish_message, decline_to_speak, stage_vote: terminal_observation
StageOutcome ==
    /\ rp.gen # 0 /\ rp.receipt /\ ~rp.closing /\ ~rp.outcome /\ ~HasPending(rp)
    /\ rp' = [rp EXCEPT !.outcome = TRUE]
    /\ UNCHANGED <<rpTool, rpRead, rpRoom, rpPast, rpConn>>

------------------------
\* The loopback server of the portal

Permits == Cardinality({c \in RpConns : rpConn[c] # "free"})

\* admit_connection and register
Connect(c) ==
    /\ rpConn[c] = "free" /\ Permits < RpConnections
    /\ rpConn' = [rpConn EXCEPT ![c] = "open"]
    /\ UNCHANGED <<rp, rpTool, rpRead, rpRoom, rpPast>>

Authenticate(c) ==
    /\ rpConn[c] = "open"
    /\ rpConn' = [rpConn EXCEPT ![c] = "authenticated"]
    /\ UNCHANGED <<rp, rpTool, rpRead, rpRoom, rpPast>>

\* evict_oldest_unauthenticated: the connection is out of the registry before
\* its task has ended and given its permit back.
Evict(c) ==
    /\ Permits = RpConnections /\ rpConn[c] = "open"
    /\ rpConn' = [rpConn EXCEPT ![c] = "removed"]
    /\ UNCHANGED <<rp, rpTool, rpRead, rpRoom, rpPast>>

ConnectionEnds(c) ==
    /\ rpConn[c] # "free"
    /\ rpConn' = [rpConn EXCEPT ![c] = "free"]
    /\ UNCHANGED <<rp, rpTool, rpRead, rpRoom, rpPast>>

RoomSide == TakeTool \/ DropTool \/ \E k \in RpTools : CompleteTool(k)
RpNext ==
    \/ BeginObservation \/ FinishObservation \/ EndObservation
    \/ ReadDiscussion \/ ReserveRead \/ ResolveRead \/ StageOutcome \/ RoomSide
    \/ \E k \in RpTools : SubmitTool(k)
ConnNext == \E c \in RpConns : Connect(c) \/ Authenticate(c) \/ Evict(c) \/ ConnectionEnds(c)

RpSpec == RpInit /\ [][RpNext \/ ConnNext]_rpVars

------------------------

\* A tool the room executes belongs to the observation the portal has open, in
\* which no terminal action was taken: none runs in a later turn, and an outcome
\* is the last thing a turn does in the room, although calls, room and driver
\* run beside each other.
ToolsWithinTurn ==
    \A k \in RpTools : rpTool[k].at = "executing" =>
        rpTool[k].gen = rp.gen /\ k \in rp.tools /\ ~rp.outcome /\ rp.gen \notin rpPast.returned
===============================================================================
