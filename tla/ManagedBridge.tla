---------------------------- MODULE ManagedBridge ----------------------------
(***************************************************************************)
(* The managed provider bridge: the driver lives in a worker process; the  *)
(* parent's ManagedDriver and its actor call it over a pair of pipes, and  *)
(* the worker relays room tools and provider requests back as exchanges.   *)
(* Calls, events and both directions of an exchange cross in the pipes;    *)
(* whatever a side does not expect is a protocol error that ends the       *)
(* runtime. The native driver, the room and the portal are external here.  *)
(***************************************************************************)
EXTENDS Naturals, Sequences, FiniteSets

CONSTANTS
    MbTurns,    \* number of turns
    MbTools,    \* exchanges that relay a room tool
    MbRequests  \* exchanges that relay a provider request

\* The identifiers of the exchanges; 0 is none of them.
ASSUME MbAssumption ==
    MbTools \subseteq Nat \ {0} /\ MbRequests \subseteq Nat \ {0} /\ MbTools \cap MbRequests = {}

VARIABLES
    mbCall,   \* the turn task: the turn it runs, the call it awaits
    mbActor,  \* parent_actor::serve: its pending calls and its context
    mbDown,   \* commands on the way to the worker
    mbUp,     \* events on the way to the parent
    mbWorker, \* worker::serve: what it is doing, the active turn, the portal
    mbInner,  \* worker side of an exchange
    mbOuter,  \* parent side of an exchange
    mbBroken  \* a side met a message it does not expect

mbVars == <<mbCall, mbActor, mbDown, mbUp, mbWorker, mbInner, mbOuter, mbBroken>>

Exchanges == MbTools \cup MbRequests
Cmd(op, x) == [op |-> op, turn |-> mbCall.turn, x |-> x, ok |-> TRUE]
Ev(op, x, ok) == [op |-> op, x |-> x, ok |-> ok]
NoX == 0

MbInit ==
    /\ mbCall = [turn |-> 0, at |-> "idle", next |-> "none"]
    /\ mbActor = [pending |-> {}, context |-> 0, open |-> TRUE]
    /\ mbDown = <<>> /\ mbUp = <<>>
    /\ mbWorker = [at |-> "loop", turn |-> 0, execution |-> "none", portal |-> 0, closing |-> FALSE, executing |-> {}]
    /\ mbInner = [x \in Exchanges |-> [at |-> "none", turn |-> 0, answered |-> FALSE]]
    /\ mbOuter = [x \in Exchanges |-> "none"]
    /\ mbBroken = FALSE

Breaks == mbBroken' = TRUE /\ UNCHANGED <<mbCall, mbActor, mbDown, mbUp, mbWorker, mbInner, mbOuter>>
Up(event) == mbUp' = Append(mbUp, event)
Down(command) == mbDown' = Append(mbDown, command)

------------------------
\* The turn task and ManagedDriver.rpc: one call at a time. A send that was
\* dropped stays pending at the actor when an interruption or an abort follows.

\* parent_actor: which calls may be queued beside the pending ones
MbAdmits(op) ==
    \/ op = "Stop"
    \/ mbActor.pending = {}
    \/ mbActor.pending = {"Send"} /\ op \in {"Interrupt", "Abort"}

Rpc(op) ==
    /\ IF MbAdmits(op) THEN mbBroken' = mbBroken ELSE mbBroken' = TRUE
    /\ mbActor' = [mbActor EXCEPT !.pending = @ \cup {op}]
    /\ UNCHANGED <<mbUp, mbWorker, mbInner, mbOuter>>

CallIsAlive ==
    /\ mbCall.at = "idle" /\ mbCall.turn < MbTurns
    /\ mbCall' = [mbCall EXCEPT !.at = "IsAlive"] /\ Down(Cmd("IsAlive", NoX)) /\ Rpc("IsAlive")

CallPrepare ==
    /\ mbCall.at = "alive"
    /\ mbCall' = [mbCall EXCEPT !.turn = @ + 1, !.at = "Prepare"]
    /\ mbDown' = Append(mbDown, [op |-> "Prepare", turn |-> mbCall.turn + 1, x |-> NoX, ok |-> TRUE])
    /\ Rpc("Prepare")

CallSend ==
    /\ mbCall.at = "prepared"
    /\ mbCall' = [mbCall EXCEPT !.at = "Send"] /\ Down(Cmd("Send", NoX)) /\ Rpc("Send")

\* The exact turn is interrupted, or the runtime is stopping: send_turn is dropped
\* (or was not called yet).
DropSend ==
    /\ mbCall.at \in {"prepared", "Send"}
    /\ \E op \in {"Interrupt", "Abort"} :
          mbCall' = [mbCall EXCEPT !.at = op] /\ Down(Cmd(op, NoX)) /\ Rpc(op)

CallFinish ==
    /\ mbCall.at = "completed"
    /\ mbCall' = [mbCall EXCEPT !.at = "Finish"] /\ Down(Cmd("Finish", NoX)) /\ Rpc("Finish")

CallAbort ==
    /\ mbCall.at = "failed"
    /\ mbCall' = [mbCall EXCEPT !.at = "Abort"] /\ Down(Cmd("Abort", NoX)) /\ Rpc("Abort")

\* stop takes the place of whatever is awaited.
StopRuntime ==
    /\ mbCall.at \notin {"Stop", "stopped"} /\ mbActor.open
    /\ mbCall' = [mbCall EXCEPT !.at = "Stop"] /\ Down(Cmd("Stop", NoX)) /\ Rpc("Stop")

------------------------
\* The worker

\* next and drive: the native driver's callbacks go out first.
Relay(x) ==
    /\ mbWorker.at \in {"loop", "sending", "interrupting"} /\ mbInner[x].at = "queued"
    /\ mbInner' = [mbInner EXCEPT ![x].at = "asked"]
    /\ Up(Ev(IF x \in MbTools THEN "Tool" ELSE "Request", x, TRUE))
    /\ UNCHANGED <<mbCall, mbActor, mbDown, mbWorker, mbOuter, mbBroken>>

\* The agent calls a tool or asks for a permission within its turn; the portal
\* reserves the tool (external).
AgentCalls(x) ==
    /\ mbWorker.at = "sending" /\ mbInner[x].at = "none"
    /\ \A y \in Exchanges : y < x => mbInner[y].at # "none"
    /\ mbInner' = [mbInner EXCEPT ![x] = [at |-> "queued", turn |-> mbWorker.turn, answered |-> FALSE]]
    /\ UNCHANGED <<mbCall, mbActor, mbDown, mbUp, mbWorker, mbOuter, mbBroken>>

\* The agent's call is dropped with its turn: an open request is not delivered.
\* A tool goes on: its command holds the reservation.
TurnDropped(inner) ==
    [x \in Exchanges |-> IF x \in MbRequests /\ inner[x].at \in {"open", "answering"}
                         THEN [inner[x] EXCEPT !.at = "dropped"] ELSE inner[x]]

\* send: completes by itself
SendReturns ==
    /\ mbWorker.at = "sending"
    /\ \A x \in MbRequests : mbInner[x].at \notin {"queued", "asked", "open", "answering"}
    /\ \E ok \in BOOLEAN : Up(Ev("Turn", NoX, ok))
    /\ mbWorker' = [mbWorker EXCEPT !.at = "loop", !.execution = "returned"]
    /\ UNCHANGED <<mbCall, mbActor, mbDown, mbInner, mbOuter, mbBroken>>

\* Portal state of the worker: end_observation leaves a tombstone while a tool runs.
PortalEnds(w) ==
    [w EXCEPT !.portal = IF w.executing = {} THEN 0 ELSE @, !.closing = w.executing # {}]

\* execute
Handles(command, w) ==
    LET reply(op, ok, worker) ==
            mbWorker' = worker /\ mbUp' = (IF w.at = "sending" THEN Append(mbUp, Ev("TurnCancelled", NoX, TRUE))
                                           ELSE mbUp) \o <<Ev(op, NoX, ok)>>
    IN CASE command.op = "IsAlive" -> reply("Alive", TRUE, w)
         [] command.op = "Prepare" ->
              IF w.portal = 0 THEN reply("Prepared", TRUE, [w EXCEPT !.turn = command.turn, !.portal = command.turn,
                                                                     !.execution = "prepared"])
                              ELSE reply("Prepared", FALSE, w)
         [] command.op = "Finish" ->
              \/ w.executing = {} /\ reply("Finished", TRUE, [w EXCEPT !.turn = 0, !.portal = 0, !.execution = "none"])
              \/ reply("Finished", FALSE, w)
         [] command.op = "Abort" ->
              reply("Aborted", TRUE, [PortalEnds(w) EXCEPT !.turn = 0, !.execution = "none", !.at = "loop"])
         [] command.op = "Stop" ->
              reply("Stopped", TRUE, [w EXCEPT !.at = "exited", !.turn = 0])

\* A protocol error of the worker
Unexpected(command, w) ==
    \/ command.op = "Prepare" /\ w.turn # 0
    \/ command.op = "Send" /\ (w.turn = 0 \/ w.execution # "prepared" \/ w.at # "loop")
    \/ command.op = "Interrupt" /\ (w.turn = 0 \/ w.at = "interrupting")
    \/ command.op = "Finish" /\ (w.turn = 0 \/ w.execution = "prepared" \/ w.at # "loop")
    \/ command.op \in {"Abort", "IsAlive"} /\ w.at = "interrupting"
    \/ command.op = "IsAlive" /\ w.at = "sending"

WorkerReads ==
    /\ mbWorker.at \in {"loop", "sending", "interrupting"} /\ mbDown # <<>>
    /\ Head(mbDown).op \notin {"ToolBegin", "ToolResult", "RequestOpened", "Resolution", "Receipt"}
    /\ LET command == Head(mbDown) IN
          IF Unexpected(command, mbWorker) THEN Breaks
          ELSE /\ mbDown' = Tail(mbDown)
               /\ \/ /\ command.op = "Send"
                     /\ mbWorker' = [mbWorker EXCEPT !.at = "sending", !.execution = "entered"]
                     /\ UNCHANGED <<mbUp, mbInner>>
                  \/ /\ command.op = "Interrupt"
                     /\ mbUp' = IF mbWorker.at = "sending" THEN Append(mbUp, Ev("TurnCancelled", NoX, TRUE)) ELSE mbUp
                     /\ mbWorker' = [mbWorker EXCEPT !.at = "interrupting"]
                     /\ mbInner' = TurnDropped(mbInner)
                  \/ /\ command.op \notin {"Send", "Interrupt"} /\ Handles(command, mbWorker)
                     /\ mbInner' = IF mbWorker.at = "sending" THEN TurnDropped(mbInner) ELSE mbInner
               /\ UNCHANGED <<mbCall, mbActor, mbOuter, mbBroken>>

InterruptReturns ==
    /\ mbWorker.at = "interrupting"
    /\ \E ok \in BOOLEAN : Up(Ev("Interrupted", NoX, ok))
    /\ mbWorker' = [mbWorker EXCEPT !.at = "loop"]
    /\ UNCHANGED <<mbCall, mbActor, mbDown, mbInner, mbOuter, mbBroken>>

------------------------
\* The worker's side of an exchange (callbacks::tool and callbacks::request)

\* begin_execution of the reservation
Reserved(x) == mbWorker.portal = mbInner[x].turn /\ ~mbWorker.closing

\* resolve: the tombstone goes with the last tool.
Released(x) ==
    LET left == mbWorker.executing \ {x} IN
        [mbWorker EXCEPT !.executing = left, !.portal = IF mbWorker.closing /\ left = {} THEN 0 ELSE @,
                         !.closing = mbWorker.closing /\ left # {}]

\* request: a resolution that crossed Delivered is read before the receipt.
LateResolution(x) == mbInner[x].at = "reported" /\ ~mbInner[x].answered

InnerReads ==
    /\ mbWorker.at \in {"loop", "sending", "interrupting"} /\ mbDown # <<>>
    /\ Head(mbDown).op \in {"ToolBegin", "ToolResult", "RequestOpened", "Resolution", "Receipt"}
    /\ LET reply == Head(mbDown)
           x == reply.x
           becomes(at) == mbInner' = [mbInner EXCEPT ![x].at = at]
           fits == \/ reply.op = "ToolBegin" /\ mbInner[x].at = "asked"
                   \/ reply.op = "ToolResult" /\ mbInner[x].at = "asked" /\ ~reply.ok
                   \/ reply.op = "ToolResult" /\ mbInner[x].at = "begun"
                   \/ reply.op = "ToolResult" /\ mbInner[x].at = "refused" /\ ~reply.ok
                   \/ reply.op = "RequestOpened" /\ mbInner[x].at = "asked"
                   \/ reply.op = "Resolution" /\ (mbInner[x].at \in {"open", "dropped"} \/ LateResolution(x))
                   \/ reply.op = "Receipt" /\ mbInner[x].at = "reported"
       IN IF ~fits THEN Breaks
          ELSE /\ mbDown' = Tail(mbDown)
               /\ \/ /\ reply.op = "ToolBegin"
                     /\ IF Reserved(x)
                        THEN becomes("begun") /\ mbWorker' = [mbWorker EXCEPT !.executing = @ \cup {x}]
                        ELSE becomes("refused") /\ UNCHANGED mbWorker
                     /\ Up(Ev("ToolBegun", x, Reserved(x)))
                  \/ reply.op = "ToolResult" /\ becomes("done") /\ mbWorker' = Released(x) /\ UNCHANGED mbUp
                  \/ /\ reply.op = "RequestOpened" /\ UNCHANGED <<mbWorker, mbUp>>
                     \* the asking call may be gone by now
                     /\ becomes(IF ~reply.ok THEN "done"
                                ELSE IF mbWorker.at = "sending" /\ mbWorker.turn = mbInner[x].turn THEN "open" ELSE "dropped")
                  \/ /\ reply.op = "Resolution" /\ UNCHANGED <<mbWorker, mbUp>>
                     /\ mbInner' = [mbInner EXCEPT ![x].answered = TRUE,
                                                   ![x].at = IF @ = "open" THEN IF reply.ok THEN "answering" ELSE "dropped" ELSE @]
                  \/ reply.op = "Receipt" /\ becomes("done") /\ UNCHANGED <<mbWorker, mbUp>>
               /\ UNCHANGED <<mbCall, mbActor, mbOuter, mbBroken>>

\* completion: the driver delivered the answer, or the call was dropped.
ReportDelivered(x) ==
    /\ mbWorker.at \in {"loop", "sending", "interrupting"} /\ mbInner[x].at \in {"answering", "dropped"}
    /\ mbInner' = [mbInner EXCEPT ![x].at = "reported"]
    /\ \E ok \in BOOLEAN : (ok => mbInner[x].at = "answering") /\ Up(Ev("Delivered", x, ok))
    /\ UNCHANGED <<mbCall, mbActor, mbDown, mbWorker, mbOuter, mbBroken>>

------------------------
\* The parent: events of calls

Answers(event) ==
    CASE event.op = "Alive" -> "IsAlive" [] event.op = "Prepared" -> "Prepare"
      [] event.op \in {"Turn", "TurnCancelled"} -> "Send" [] event.op = "Interrupted" -> "Interrupt"
      [] event.op = "Finished" -> "Finish" [] event.op = "Aborted" -> "Abort" [] event.op = "Stopped" -> "Stop"

\* What the turn task does with the answer of the call it awaits.
Continues(event) ==
    CASE event.op = "Alive" -> "alive"
      [] event.op = "Prepared" -> IF event.ok THEN "prepared" ELSE "failed"
      [] event.op = "Turn" -> IF event.ok THEN "completed" ELSE "failed"
      [] event.op = "Interrupted" -> "failed"
      [] event.op = "Finished" -> IF event.ok THEN "idle" ELSE "failed"
      [] event.op = "Aborted" -> "idle"
      [] event.op = "Stopped" -> "stopped"

ActorReads ==
    /\ mbActor.open /\ mbUp # <<>> /\ Head(mbUp).x = NoX
    /\ LET event == Head(mbUp)
           op == Answers(event)
       IN IF op \notin mbActor.pending THEN Breaks
          ELSE /\ mbUp' = Tail(mbUp)
               /\ mbActor' = [mbActor EXCEPT
                     !.pending = @ \ {op},
                     !.context = IF event.op = "Prepared" /\ event.ok THEN mbCall.turn
                                 ELSE IF event.op \in {"Finished", "Aborted"} /\ event.ok THEN 0 ELSE @,
                     !.open = event.op # "Stopped"]
               /\ mbCall' = IF mbCall.at = op THEN [mbCall EXCEPT !.at = Continues(event)] ELSE mbCall
               /\ UNCHANGED <<mbDown, mbWorker, mbInner, mbOuter, mbBroken>>

------------------------
\* The parent's side of an exchange (parent_callbacks) and the room (external)

Replies(op, x, ok) == mbDown' = Append(mbDown, [op |-> op, turn |-> 0, x |-> x, ok |-> ok])

OuterReads ==
    /\ mbActor.open /\ mbUp # <<>> /\ Head(mbUp).x # NoX
    /\ LET event == Head(mbUp)
           x == event.x
           becomes(at) == mbOuter' = [mbOuter EXCEPT ![x] = at]
           fits == \/ event.op \in {"Tool", "Request"} /\ mbOuter[x] = "none"
                   \/ event.op = "ToolBegun" /\ mbOuter[x] = "beginning"
                   \/ event.op = "Delivered" /\ (mbOuter[x] = "resolved" \/ (mbOuter[x] \in {"waiting", "closed"} /\ ~event.ok))
       IN IF ~fits THEN Breaks
          ELSE /\ mbUp' = Tail(mbUp)
               /\ \/ event.op \in {"Tool", "Request"} /\ becomes(IF mbActor.context = 0 THEN "refused" ELSE "submitted")
                  \/ event.op = "ToolBegun" /\ becomes(IF event.ok THEN "executing" ELSE "refused")
                  \/ event.op = "Delivered" /\ becomes("completing")
               /\ UNCHANGED <<mbCall, mbActor, mbDown, mbWorker, mbInner, mbBroken>>

OuterStep(x, from, to) ==
    /\ mbActor.open /\ mbOuter[x] \in from /\ mbOuter' = [mbOuter EXCEPT ![x] = to]
    /\ UNCHANGED <<mbCall, mbActor, mbUp, mbWorker, mbInner, mbBroken>>

\* The room takes the tool and asks for its reservation, or refuses it.
RoomBegins(x) == x \in MbTools /\ OuterStep(x, {"submitted"}, "beginning") /\ Replies("ToolBegin", x, TRUE)
RoomExecutes(x) == x \in MbTools /\ OuterStep(x, {"executing"}, "done") /\ \E ok \in BOOLEAN : Replies("ToolResult", x, ok)
RoomRefuses(x) == x \in MbTools /\ OuterStep(x, {"submitted", "refused"}, "done") /\ Replies("ToolResult", x, FALSE)

RequestOpens(x) == x \in MbRequests /\ OuterStep(x, {"submitted"}, "waiting") /\ Replies("RequestOpened", x, TRUE)
RequestRefused(x) ==
    x \in MbRequests /\ OuterStep(x, {"submitted", "refused"}, "done") /\ Replies("RequestOpened", x, FALSE)
\* The owner answers, or the room closes the request.
RoomResolves(x) == x \in MbRequests /\ OuterStep(x, {"waiting"}, "resolved") /\ Replies("Resolution", x, TRUE)
RoomCloses(x) == x \in MbRequests /\ OuterStep(x, {"waiting"}, "closed") /\ Replies("Resolution", x, FALSE)
RoomReceipts(x) == x \in MbRequests /\ OuterStep(x, {"completing"}, "done") /\ Replies("Receipt", x, TRUE)

MbNext ==
    /\ ~mbBroken
    /\ \/ CallIsAlive \/ CallPrepare \/ CallSend \/ DropSend \/ CallFinish \/ CallAbort \/ StopRuntime
       \/ SendReturns \/ WorkerReads \/ InterruptReturns \/ InnerReads \/ ActorReads \/ OuterReads
       \/ \E x \in Exchanges :
             \/ Relay(x) \/ AgentCalls(x) \/ ReportDelivered(x)
             \/ RoomBegins(x) \/ RoomExecutes(x) \/ RoomRefuses(x)
             \/ RequestOpens(x) \/ RequestRefused(x) \/ RoomResolves(x) \/ RoomCloses(x) \/ RoomReceipts(x)

MbSpec == MbInit /\ [][MbNext]_mbVars

------------------------

\* No order of calls, events and exchange messages makes a side of the bridge
\* meet something it does not expect (which would end the runtime); and a tool
\* the room executes holds the portal of the turn that called it, through both
\* processes.
BridgeHolds ==
    /\ ~mbBroken
    /\ \A x \in MbTools : mbOuter[x] = "executing" /\ mbActor.open /\ mbWorker.at # "exited" =>
           mbWorker.portal = mbInner[x].turn
===============================================================================
