------------------------------ MODULE ClaudeDriver ------------------------------
(***************************************************************************)
(* One turn of the Claude SDK driver and its node host: the host turns     *)
(* native questions into provider requests, the driver opens each one in   *)
(* the room, forwards the answer and learns whether it reached the native  *)
(* process. A native cancellation may cross an answer on the pipes.        *)
(***************************************************************************)
EXTENDS Naturals, Sequences, FiniteSets

CONSTANTS
    ClRequests, \* native questions of the turn
    ClCapacity  \* bound of the requests in custody

VARIABLES
    clHost,   \* OwnerRequests: the phase of each question
    clTurn,   \* the turn at the host and at the driver
    clDriver, \* requests::run: cancellations, opening and ready
    clRoom,   \* what the room said to a request
    clUp,     \* stdin of the host
    clDown,   \* its stdout
    clTold,   \* native decisions (history)
    clFault   \* a fault outside the two programs happened (history)

clVars == <<clHost, clTurn, clDriver, clRoom, clUp, clDown, clTold, clFault>>

ClInit ==
    /\ clHost = [q \in ClRequests |-> "none"]
    /\ clTurn = [host |-> "active", driver |-> "running"]
    /\ clDriver = [q \in ClRequests |-> "none"]
    /\ clRoom = [q \in ClRequests |-> "none"]
    /\ clUp = <<>> /\ clDown = <<>>
    /\ clTold = [q \in ClRequests |-> "none"]
    /\ clFault = FALSE

Msg(k, q, ok) == [k |-> k, q |-> q, ok |-> ok]
Emit(m) == clDown' = Append(clDown, m)
Tell(m) == clUp' = Append(clUp, m)
HostRuns == clTurn.host \in {"active", "closing"}

\* fail and emitFatal
HostFails == clTurn' = [clTurn EXCEPT !.host = "failed"] /\ Emit(Msg("fatal", 0, FALSE))

------------------------
\* The host

\* OwnerRequests.ask
NativeAsks(q) ==
    /\ clHost[q] = "none" /\ clTurn.host = "active"
    /\ clHost' = [clHost EXCEPT ![q] = "open"] /\ Emit(Msg("request", q, TRUE))
    /\ UNCHANGED <<clTurn, clDriver, clRoom, clUp, clTold, clFault>>

\* abort
NativeCancels(q) ==
    /\ clHost[q] \in {"open", "answered"} /\ HostRuns
    /\ clHost' = [clHost EXCEPT ![q] = "cancelled"] /\ Emit(Msg("cancelled", q, TRUE))
    /\ clTold' = [clTold EXCEPT ![q] = "denied"]
    /\ UNCHANGED <<clTurn, clDriver, clRoom, clUp, clFault>>

\* OwnerRequests.accept, an answer: never grants a cancelled question
Accepts(q) ==
    \/ clHost[q] = "cancelled" /\ UNCHANGED <<clHost, clTurn, clDown>>
    \/ clHost[q] = "open" /\ clHost' = [clHost EXCEPT ![q] = "answered"] /\ UNCHANGED <<clTurn, clDown>>
    \/ clHost[q] \notin {"open", "cancelled"} /\ HostFails /\ UNCHANGED clHost

\* OwnerRequests.accept, the completion of a request
Completes(q) ==
    \/ clHost[q] \in {"delivered", "cancelled"} /\ clHost' = [clHost EXCEPT ![q] = "gone"] /\ UNCHANGED <<clTurn, clDown>>
    \/ clHost[q] \notin {"delivered", "cancelled"} /\ HostFails /\ UNCHANGED clHost

HostTakes ==
    /\ clUp # <<>> /\ HostRuns /\ clUp' = Tail(clUp)
    /\ LET m == Head(clUp) IN \/ m.k = "answer" /\ Accepts(m.q)
                              \/ m.k = "complete" /\ Completes(m.q)
    /\ UNCHANGED <<clDriver, clRoom, clTold, clFault>>

\* The answer is mapped and given to the native process.
HostResponds(q) ==
    /\ clHost[q] = "answered" /\ HostRuns
    /\ clHost' = [clHost EXCEPT ![q] = "responding"]
    /\ clTold' = [clTold EXCEPT ![q] = IF @ = "none" THEN "answered" ELSE "both"]
    /\ UNCHANGED <<clTurn, clDriver, clRoom, clUp, clDown, clFault>>

\* NativeDelivery.written, or its transport closed.
HostDelivered(q, delivered) ==
    /\ clHost[q] = "responding" /\ HostRuns
    /\ clHost' = [clHost EXCEPT ![q] = "delivered"] /\ Emit(Msg("delivered", q, delivered))
    /\ clFault' = (clFault \/ ~delivered)
    /\ UNCHANGED <<clTurn, clDriver, clRoom, clUp, clTold>>

\* The native result; finishTurn refuses questions without an answer.
NativeResult ==
    /\ clTurn.host = "active"
    /\ IF \E q \in ClRequests : clHost[q] \in {"open", "answered"}
       THEN HostFails /\ clFault' = TRUE
       ELSE clTurn' = [clTurn EXCEPT !.host = "closing"] /\ UNCHANGED <<clDown, clFault>>
    /\ UNCHANGED <<clHost, clDriver, clRoom, clUp, clTold>>

Settled == \A q \in ClRequests : clHost[q] \in {"none", "gone"}

HostResult ==
    /\ clTurn.host = "closing" /\ Settled
    /\ clTurn' = [clTurn EXCEPT !.host = "ended"] /\ Emit(Msg("result", 0, TRUE))
    /\ UNCHANGED <<clHost, clDriver, clRoom, clUp, clTold, clFault>>

------------------------
\* The driver

Broken == clTurn' = [clTurn EXCEPT !.driver = "failed"]

\* ClaudeSdkClient::turn: requests::run reads one message.
DriverTakes ==
    /\ clDown # <<>> /\ clTurn.driver = "running" /\ clDown' = Tail(clDown)
    /\ LET m == Head(clDown)
           q == m.q
       IN CASE m.k = "request" ->
                 IF clDriver[q] \in {"none", "gone"}
                    /\ Cardinality({p \in ClRequests : clDriver[p] \notin {"none", "gone"}}) < ClCapacity
                 THEN clDriver' = [clDriver EXCEPT ![q] = "opening"] /\ UNCHANGED <<clTurn, clUp, clFault>>
                 ELSE Broken /\ clFault' = TRUE /\ UNCHANGED <<clDriver, clUp>>
            [] m.k = "cancelled" ->
                 CASE clDriver[q] = "opening" ->
                        clDriver' = [clDriver EXCEPT ![q] = "cancelling"] /\ UNCHANGED <<clTurn, clUp, clFault>>
                   [] clDriver[q] = "ready" ->
                        /\ clDriver' = [clDriver EXCEPT ![q] = "gone"] /\ Tell(Msg("complete", q, FALSE))
                        /\ UNCHANGED <<clTurn, clFault>>
                   [] OTHER -> Broken /\ UNCHANGED <<clDriver, clUp, clFault>>
            [] m.k = "delivered" ->
                 \* the room's receipt may be an error
                 \E recorded \in BOOLEAN :
                    /\ clFault' = (clFault \/ ~recorded)
                    /\ IF clDriver[q] = "ready" /\ m.ok /\ recorded
                       THEN /\ clDriver' = [clDriver EXCEPT ![q] = "gone"] /\ Tell(Msg("complete", q, TRUE))
                            /\ UNCHANGED clTurn
                       ELSE Broken /\ UNCHANGED <<clDriver, clUp>>
            [] m.k = "result" /\ \A p \in ClRequests : clDriver[p] \in {"none", "gone"} ->
                 clTurn' = [clTurn EXCEPT !.driver = "done"] /\ UNCHANGED <<clDriver, clUp, clFault>>
            [] OTHER -> Broken /\ UNCHANGED <<clDriver, clUp, clFault>>
    /\ UNCHANGED <<clHost, clRoom, clTold>>

\* ProviderRequests: the room answers, or closes the request.
RoomAnswers(q, how) ==
    /\ clDriver[q] = "opening" /\ clRoom[q] = "none" /\ clTurn.driver = "running"
    /\ clRoom' = [clRoom EXCEPT ![q] = how]
    /\ UNCHANGED <<clHost, clTurn, clDriver, clUp, clDown, clTold, clFault>>

\* opening.next: the cancellation is looked at first.
DriverOpened(q) ==
    /\ clTurn.driver = "running"
    /\ \/ /\ clDriver[q] = "cancelling"
          /\ clDriver' = [clDriver EXCEPT ![q] = "gone"] /\ Tell(Msg("complete", q, FALSE))
          /\ UNCHANGED <<clTurn, clFault>>
       \/ /\ clDriver[q] = "opening" /\ clRoom[q] = "answered"
          /\ clDriver' = [clDriver EXCEPT ![q] = "ready"] /\ Tell(Msg("answer", q, TRUE))
          /\ UNCHANGED <<clTurn, clFault>>
       \/ clDriver[q] = "opening" /\ clRoom[q] = "closed" /\ Broken /\ clFault' = TRUE /\ UNCHANGED <<clDriver, clUp>>
    /\ UNCHANGED <<clHost, clRoom, clDown, clTold>>

ClNext ==
    \/ HostTakes \/ NativeResult \/ HostResult \/ DriverTakes
    \/ \E q \in ClRequests :
        \/ NativeAsks(q) \/ NativeCancels(q) \/ HostResponds(q) \/ DriverOpened(q)
        \/ \E delivered \in BOOLEAN : HostDelivered(q, delivered)
        \/ \E how \in {"answered", "closed"} : RoomAnswers(q, how)

ClSpec == ClInit /\ [][ClNext]_clVars

------------------------

\* A question gets one native decision, granted only on an answer of the room;
\* a turn is accepted when every question was settled on both sides; and the two
\* programs never break the protocol by themselves, however a cancellation, an
\* answer and a receipt cross: the driver fails only after a fault.
ClaudeSettles ==
    /\ \A q \in ClRequests : clTold[q] # "both" /\ (clTold[q] = "answered" => clRoom[q] = "answered")
    /\ clTurn.driver = "done" => \A q \in ClRequests : clHost[q] \in {"none", "gone"} /\ clDriver[q] \in {"none", "gone"}
    /\ clTurn.driver = "failed" => clFault
===============================================================================
