------------------------------ MODULE RoomClient ------------------------------
(***************************************************************************)
(* The browser's end of a room socket (roomSocketClient.ts): one logical   *)
(* connection made of many sockets.  Commands wait, are sent once on each  *)
(* socket, retried under the same identity while their outcome is open and *)
(* told to their caller once; snapshots and events are accepted only in    *)
(* sequence and only for the room the client accepted.  The server's end   *)
(* is reduced to the frames RoomCommands shows it to send: a receipt, a    *)
(* snapshot, a catch-up, live events, and answers.                         *)
(***************************************************************************)
EXTENDS Integers, FiniteSets, Sequences, SequencesExt

CONSTANTS
    RcRequests, \* commands callers may ask for
    RcAttempts, \* UNCERTAIN_ATTEMPT_LIMIT
    RcSockets,  \* bound: sockets the client opens
    RcEvents,   \* bound: events of a room
    RcRooms,    \* bound: lifetimes of the room's name
    RcFaults    \* bound: answers that leave the outcome open, and replays

VARIABLES
    rc,      \* the client's connection state
    rcReq,   \* each command: its pending entry and what its caller was told
    rcConn,  \* the socket's frames in both directions, and the server's stage of it
    rcLate,  \* commands of closed sockets the server still has before it
    rcRoom,  \* the server's room: lifetime, last sequence number
    rcDone,  \* the lifetime each command was committed in, 0 for none
    rcView,  \* what the handlers were given since the last snapshot
    rcSpent  \* faults so far

rcVars == <<rc, rcReq, rcConn, rcLate, rcRoom, rcDone, rcView, rcSpent>>

NoConn == [at |-> "none", resume |-> 0, cursor |-> 0, mode |-> "initial", up |-> <<>>, down |-> <<>>]
NewCommand ==
    [state |-> "new", phase |-> "idle", on |-> 0, counted |-> 0, tries |-> 0, wait |-> FALSE,
     timer |-> FALSE, ever |-> FALSE, again |-> FALSE, uid |-> 0, told |-> "nothing"]

RcInit ==
    /\ rc = [closed |-> FALSE, gen |-> 0, sock |-> "none", failed |-> FALSE, last |-> 0,
             fresh |-> FALSE, uid |-> 0, stage |-> "receipt", high |-> 0]
    /\ rcReq = [r \in RcRequests |-> NewCommand]
    /\ rcConn = NoConn /\ rcLate = {}
    /\ rcRoom = [uid |-> 1, last |-> 0]
    /\ rcDone = [r \in RcRequests |-> 0]
    /\ rcView = [uid |-> 0, upto |-> 0, true |-> TRUE]
    /\ rcSpent = 0

PendingIn(req) == {r \in RcRequests : req[r].state = "pending"}

------------------------
(* Telling a caller, and the retry budget of an uncertain command.          *)

\* The pending entry goes; what the caller knows stays.
Told(command, what) == [NewCommand EXCEPT !.state = "told", !.told = what, !.uid = command.uid,
                                          !.again = command.again]

\* Mutant: what was sent fails for good as well.
RejectAll_surely(req, why) ==
    [r \in RcRequests |-> IF req[r].state = "pending" THEN Told(req[r], why) ELSE req[r]]
\* rejectAll: what was never sent fails for good, what was sent has an unknown outcome.
RejectAll(req, why) ==
    [r \in RcRequests |->
        IF req[r].state = "pending" THEN Told(req[r], IF req[r].ever THEN "unknown" ELSE why)
        ELSE req[r]]

\* One socket counts as one attempt, whatever went wrong on it.
Counted(command, gen) ==
    IF command.counted = gen THEN command
    ELSE [command EXCEPT !.tries = @ + 1, !.counted = gen, !.wait = TRUE]
Exhausted(command, gen) == command.counted # gen /\ command.tries + 1 >= RcAttempts

\* sendPending: each waiting command once per socket, as soon as the socket is ready.
Sendable(c, req) ==
    IF c.sock = "open" /\ c.stage = "ready"
    THEN {r \in PendingIn(req) : req[r].on # c.gen /\ ~req[r].wait} ELSE {}

SendPending(c, req, conn) ==
    LET now == Sendable(c, req) IN
    /\ rc' = c
    /\ rcReq' = [r \in RcRequests |->
                    IF r \in now
                    THEN [req[r] EXCEPT !.on = c.gen, !.phase = "sent", !.ever = TRUE, !.again = req[r].ever,
                                        !.timer = TRUE, !.uid = IF @ = 0 THEN c.uid ELSE @]
                    ELSE req[r]]
    /\ rcConn' = [conn EXCEPT !.up = @ \o SetToSeq(now)]

------------------------
(* The socket.                                                              *)

\* A fresh ticket, a new socket, and a subscription from the verified cursor.
OpenSocket ==
    /\ ~rc.closed /\ rc.sock = "none" /\ rc.gen < RcSockets
    /\ rc' = [rc EXCEPT !.gen = @ + 1, !.sock = "open", !.failed = FALSE, !.stage = "receipt"]
    /\ rcConn' = [NoConn EXCEPT !.at = "new", !.resume = IF rc.fresh THEN 0 ELSE rc.last]
    /\ UNCHANGED <<rcReq, rcLate, rcRoom, rcDone, rcView, rcSpent>>

Failed(c) == [c EXCEPT !.failed = TRUE, !.sock = "closing"]

\* The server, the network, a caller or a missing pong ends the socket.
SocketEnds ==
    /\ rc.sock = "open"
    /\ rc' = [rc EXCEPT !.sock = "closing"]
    /\ UNCHANGED <<rcReq, rcConn, rcLate, rcRoom, rcDone, rcView, rcSpent>>

KeepaliveFails ==
    /\ rc.sock = "open" /\ rc.stage = "ready" /\ ~rc.failed
    /\ rc' = Failed(rc)
    /\ UNCHANGED <<rcReq, rcConn, rcLate, rcRoom, rcDone, rcView, rcSpent>>

\* onclose: what was sent on this socket is counted and waits for the next one.
Closed ==
    [r \in RcRequests |->
        LET command == rcReq[r] IN
        IF command.state # "pending" \/ command.on # rc.gen \/ command.phase # "sent" THEN command
        ELSE IF Exhausted(command, rc.gen) THEN Told(command, "unknown")
        ELSE [Counted(command, rc.gen) EXCEPT !.phase = "idle", !.timer = TRUE]]

OnClose ==
    /\ rc.sock = "closing"
    /\ rc' = [rc EXCEPT !.sock = "none", !.stage = "receipt"]
    /\ rcReq' = Closed
    /\ rcLate' = rcLate \cup Range(rcConn.up)
    /\ rcConn' = NoConn
    /\ UNCHANGED <<rcRoom, rcDone, rcView, rcSpent>>

CloseClient ==
    /\ ~rc.closed
    /\ rc' = [rc EXCEPT !.closed = TRUE, !.gen = @ + 1, !.sock = "none", !.stage = "receipt"]
    /\ rcReq' = RejectAll(rcReq, "closed")
    /\ rcLate' = rcLate \cup Range(rcConn.up)
    /\ rcConn' = NoConn
    /\ UNCHANGED <<rcRoom, rcDone, rcView, rcSpent>>

------------------------
(* Commands.                                                                *)

Enqueue(r) ==
    /\ ~rc.closed /\ rcReq[r].state = "new"
    /\ SendPending(rc, [rcReq EXCEPT ![r].state = "pending", ![r].timer = TRUE, ![r].uid = rc.uid],
                   rcConn)
    /\ UNCHANGED <<rcLate, rcRoom, rcDone, rcView, rcSpent>>

\* A caller told of an unknown outcome asks again under the same identity; only for the
\* room the command was meant for.
SameRoom(r) == rcReq[r].uid # 0 /\ rcReq[r].uid = rc.uid

Replay(r) ==
    /\ ~rc.closed /\ rcReq[r].told = "unknown" /\ SameRoom(r)
    /\ rcSpent < RcFaults /\ rcSpent' = rcSpent + 1
    /\ SendPending(rc, [rcReq EXCEPT ![r] = [NewCommand EXCEPT !.state = "pending", !.timer = TRUE,
                                                               !.ever = TRUE, !.again = TRUE,
                                                               !.uid = rcReq[r].uid]],
                   rcConn)
    /\ UNCHANGED <<rcLate, rcRoom, rcDone, rcView>>

\* The pause before a retry is over.
RetryDue(r) ==
    /\ rcReq[r].state = "pending" /\ rcReq[r].wait
    /\ SendPending(rc, [rcReq EXCEPT ![r].wait = FALSE], rcConn)
    /\ UNCHANGED <<rcLate, rcRoom, rcDone, rcView, rcSpent>>

\* The deadline: a command never sent fails, one that waits for a socket is given up,
\* one without an answer costs the socket.
Deadline(r) ==
    LET command == rcReq[r]
        unsent  == ~command.ever
        idle    == command.ever /\ command.phase = "idle"
    IN
    /\ command.state = "pending" /\ command.timer
    /\ rcReq' = [rcReq EXCEPT ![r] =
                    IF unsent THEN Told(command, "timeout")
                    ELSE IF idle \/ Exhausted(command, rc.gen) THEN Told(command, "unknown")
                    ELSE [Counted(command, rc.gen) EXCEPT !.timer = FALSE]]
    /\ rc' = IF unsent \/ idle \/ rc.sock = "none" THEN rc ELSE [rc EXCEPT !.sock = "closing"]
    /\ UNCHANGED <<rcConn, rcLate, rcRoom, rcDone, rcView, rcSpent>>

------------------------
(* Frames from the server, in the order they were sent.                     *)

\* After the client gave the socket up, or before it was established and while it
\* closes, frames fall on deaf ears.
Listening == ~rc.failed /\ (rc.sock = "open" \/ rc.stage = "ready")
Frame     == Head(rcConn.down)
FramesLeft      == [rcConn EXCEPT !.down = Tail(@)]

Ignores ==
    /\ ~Listening
    /\ rcConn' = FramesLeft
    /\ UNCHANGED <<rc, rcReq, rcView>>

Fails ==
    /\ rc' = Failed(rc) /\ rcConn' = FramesLeft
    /\ UNCHANGED <<rcReq, rcView>>

TakeResync ==
    /\ rc' = Failed(IF Frame.seq < rc.last THEN [rc EXCEPT !.fresh = TRUE] ELSE rc)
    /\ rcConn' = FramesLeft
    /\ UNCHANGED <<rcReq, rcView>>

TakeReceipt ==
    /\ rc' = [rc EXCEPT !.high = Frame.seq, !.stage = "snapshot"]
    /\ rcConn' = FramesLeft
    /\ UNCHANGED <<rcReq, rcView>>

\* markReady, once the catch-up reached the receipt's high-water mark.
Ready(c) == IF c.stage = "catchup" /\ c.last = c.high THEN [c EXCEPT !.stage = "ready"] ELSE c

\* Another room under the same name takes neither pending intent nor the cursor.
OtherRoom ==
    /\ rc.uid # 0 /\ Frame.uid # rc.uid
    /\ rcReq' = RejectAll(rcReq, "scope")
    /\ rc' = Failed([rc EXCEPT !.uid = Frame.uid, !.last = 0])
    /\ rcConn' = FramesLeft
    /\ UNCHANGED rcView

SnapshotFits == (Frame.mode = "initial") = (rc.last = 0) /\ Frame.seq >= rc.last

TakeSnapshot ==
    \/ OtherRoom
    \/ /\ rc.uid \in {0, Frame.uid} /\ ~SnapshotFits
       /\ Fails
    \/ /\ rc.uid \in {0, Frame.uid} /\ SnapshotFits
       /\ rcView' = [uid |-> Frame.uid, upto |-> Frame.seq, true |-> rcView.true]
       /\ SendPending(Ready([rc EXCEPT !.uid = Frame.uid, !.last = Frame.seq, !.fresh = FALSE,
                                         !.stage = "catchup"]), rcReq, FramesLeft)

\* acceptEventFrame: the next event, in a catch-up not behind the high-water mark.
TakeEvent ==
    IF Frame.seq # rc.last + 1 \/ (rc.stage = "catchup" /\ Frame.seq > rc.high)
    THEN Fails
    ELSE /\ rcView' = [rcView EXCEPT !.upto = Frame.seq,
                                     !.true = @ /\ Frame.uid = rcView.uid /\ Frame.seq = rcView.upto + 1]
         /\ SendPending(Ready([rc EXCEPT !.last = Frame.seq]), rcReq, FramesLeft)

TakeAnswer ==
    LET r == Frame.of
        command == rcReq[r]
    IN
    IF command.state # "pending" THEN Fails
    ELSE IF Frame.op # "unresolved"
    THEN /\ rcReq' = [rcReq EXCEPT ![r] = Told(command, Frame.op)]
         /\ rcConn' = FramesLeft /\ UNCHANGED <<rc, rcView>>
    ELSE /\ rcReq' = [rcReq EXCEPT ![r] = IF Exhausted(command, rc.gen) THEN Told(command, "unknown")
                                          ELSE [Counted(command, rc.gen) EXCEPT !.timer = FALSE]]
         /\ rc' = IF Exhausted(command, rc.gen) \/ command.counted = rc.gen THEN rc ELSE Failed(rc)
         /\ rcConn' = FramesLeft /\ UNCHANGED rcView

AnswerFrames == {"acked", "rejected", "unresolved"}
Expected ==
    CASE rc.stage = "receipt"  -> {"receipt", "resync"}
      [] rc.stage = "snapshot" -> {"snapshot"}
      [] rc.stage = "catchup"  -> {"event"}
      [] rc.stage = "ready"    -> {"event"} \cup AnswerFrames

OnMessage ==
    /\ rcConn.down # <<>>
    /\ UNCHANGED <<rcLate, rcRoom, rcDone, rcSpent>>
    /\ \/ Ignores
       \/ Listening /\ Frame.op \notin Expected /\ Fails
       \/ /\ Listening /\ Frame.op \in Expected
          /\ \/ Frame.op = "receipt" /\ TakeReceipt
             \/ Frame.op = "resync" /\ TakeResync
             \/ Frame.op = "snapshot" /\ TakeSnapshot
             \/ Frame.op = "event" /\ TakeEvent
             \/ Frame.op \in AnswerFrames /\ TakeAnswer

------------------------
(* The server's end of the socket.                                          *)

EventFrame(n)  == [op |-> "event", uid |-> rcRoom.uid, seq |-> n]
Live(new) == IF rcConn.at = "live" THEN new ELSE <<>>

\* The snapshot is read first and the catch-up after it; events may fall between.
ServerReads ==
    /\ rcConn.at = "new"
    /\ rcConn' = IF rcConn.resume > rcRoom.last
                 THEN [rcConn EXCEPT !.at = "over", !.down = <<[op |-> "resync", seq |-> rcRoom.last]>>]
                 ELSE [rcConn EXCEPT !.at = "read", !.cursor = rcRoom.last,
                                     !.mode = IF rcConn.resume = 0 THEN "initial" ELSE "resume"]
    /\ UNCHANGED <<rc, rcReq, rcLate, rcRoom, rcDone, rcView, rcSpent>>

ServerServes ==
    /\ rcConn.at = "read"
    /\ rcConn' = [rcConn EXCEPT !.at = "live", !.resume = 0, !.cursor = 0, !.mode = "initial",
                     !.down = <<[op |-> "receipt", seq |-> rcRoom.last],
                                [op |-> "snapshot", uid |-> rcRoom.uid, seq |-> rcConn.cursor,
                                 mode |-> rcConn.mode]>>
                              \o [i \in 1 .. rcRoom.last - rcConn.cursor |-> EventFrame(rcConn.cursor + i)]]
    /\ UNCHANGED <<rc, rcReq, rcLate, rcRoom, rcDone, rcView, rcSpent>>

RoomGrows ==
    /\ rcRoom.last < RcEvents
    /\ rcRoom' = [rcRoom EXCEPT !.last = @ + 1]
    /\ rcConn' = [rcConn EXCEPT !.down = @ \o Live(<<EventFrame(rcRoom.last + 1)>>)]
    /\ UNCHANGED <<rc, rcReq, rcLate, rcDone, rcView, rcSpent>>

\* A command is committed once; its event and its answer may be sent in either order.  A
\* refusal is of this copy only: the room is looked at before the stored result and the write
\* budget is of the moment, so a retry may be refused after the command was committed.
Runs(r, conn, answered) ==
    LET reply(what) == IF answered THEN <<[op |-> what, of |-> r]>> ELSE <<>> IN
    /\ UNCHANGED <<rc, rcReq, rcView>>
    /\ \/ /\ rcConn' = [conn EXCEPT !.down = @ \o reply("rejected")]
          /\ UNCHANGED <<rcRoom, rcDone, rcSpent>>
       \/ /\ rcDone[r] = rcRoom.uid
          /\ rcConn' = [conn EXCEPT !.down = @ \o reply("acked")]
          /\ UNCHANGED <<rcRoom, rcDone, rcSpent>>
       \/ /\ rcDone[r] # rcRoom.uid /\ rcRoom.last < RcEvents
          /\ rcDone' = [rcDone EXCEPT ![r] = rcRoom.uid]
          /\ rcRoom' = [rcRoom EXCEPT !.last = @ + 1]
          /\ LET event == Live(<<EventFrame(rcRoom.last + 1)>>) IN
             \/ /\ UNCHANGED rcSpent
                /\ \/ rcConn' = [conn EXCEPT !.down = @ \o event \o reply("acked")]
                   \/ rcConn' = [conn EXCEPT !.down = @ \o reply("acked") \o event]
             \/ /\ rcSpent < RcFaults /\ rcSpent' = rcSpent + 1
                /\ rcConn' = [conn EXCEPT !.down = @ \o event \o reply("unresolved")]
       \/ /\ rcSpent < RcFaults /\ rcSpent' = rcSpent + 1
          /\ rcConn' = [conn EXCEPT !.down = @ \o reply("unresolved")]
          /\ UNCHANGED <<rcRoom, rcDone>>

ServerRuns ==
    /\ rcConn.at = "live" /\ rcConn.up # <<>>
    /\ Runs(Head(rcConn.up), [rcConn EXCEPT !.up = Tail(@)], TRUE)
    /\ UNCHANGED rcLate

\* A closed socket's command reaches the room late, or not at all.
ServerTakesLate(r) ==
    /\ r \in rcLate /\ rcLate' = rcLate \ {r}
    /\ \/ Runs(r, rcConn, FALSE)
       \/ UNCHANGED <<rc, rcReq, rcConn, rcRoom, rcDone, rcView, rcSpent>>

\* The room is deleted and another one made under its name: its sockets end, and what
\* was under way to the old one is refused.
Recreate ==
    /\ rcRoom.uid < RcRooms
    /\ rcRoom' = [rcRoom EXCEPT !.uid = @ + 1, !.last = 0]
    /\ rcLate' = {}
    /\ rcConn' = [rcConn EXCEPT !.at = "over", !.up = <<>>]
    /\ rc' = IF rc.sock = "open" THEN [rc EXCEPT !.sock = "closing"] ELSE rc
    /\ UNCHANGED <<rcReq, rcDone, rcView, rcSpent>>

RcNext ==
    \/ OpenSocket \/ SocketEnds \/ KeepaliveFails \/ OnClose \/ CloseClient \/ OnMessage
    \/ ServerReads \/ ServerServes \/ RoomGrows \/ ServerRuns \/ Recreate
    \/ \E r \in RcRequests : Enqueue(r) \/ Replay(r) \/ RetryDue(r) \/ Deadline(r) \/ ServerTakesLate(r)

RcSpec == RcInit /\ [][RcNext]_rcVars

------------------------
(* What the browser shows and says is true, over lost sockets, late answers, retries and a
   room made anew under the same name: its view grows event by event from a snapshot of one
   room and is complete when everything sent arrived; a command is committed only in the
   room it was meant for; "done" was committed; "timed out", "closed" and "another room" mean
   that it was not and never will be, and so does "refused" of a command sent once, while the
   refusal of one that was retried or replayed says nothing of its earlier copies
   (acceptEventFrame, processFrame, rejectAll, armCommandDeadline, unknownOutcome). *)
ClientIsTrue ==
    /\ rcView.true
    /\ rcView.uid = rcRoom.uid => rcView.upto <= rcRoom.last
    /\ rc.stage = "ready" /\ rc.sock = "open" /\ ~rc.failed /\ rcConn.down = <<>> =>
          rcView.uid = rcRoom.uid /\ rcView.upto = rcRoom.last
    /\ \A r \in RcRequests :
          /\ rcDone[r] # 0 => rcReq[r].uid = rcDone[r]
          /\ rcReq[r].told = "acked" => rcDone[r] # 0
          /\ \/ rcReq[r].told \in {"timeout", "closed", "scope"}
             \/ rcReq[r].told = "rejected" /\ ~rcReq[r].again
             => rcDone[r] = 0 /\ r \notin rcLate \cup Range(rcConn.up)
=============================================================================
