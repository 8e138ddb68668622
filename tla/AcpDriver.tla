------------------------------- MODULE AcpDriver -------------------------------
(***************************************************************************)
(* The ACP client: prompt and cancel of the driver, the task that waits    *)
(* for the agent's answer, and the handlers of permission requests, which  *)
(* run in the protocol task and share a mutex with the client. A handler   *)
(* may start at any time; the agent is external.                           *)
(***************************************************************************)
EXTENDS Naturals, FiniteSets

CONSTANTS
    AcTurns,   \* number of turns
    AcRequests \* permission requests of the agent

VARIABLES
    ac,     \* AcpClient and ProtocolState
    acCall, \* the call of the driver: prompt or cancel, and where it waits
    acReq,  \* the handler of a request: the turn it took as its scope, and where it is
    acWire  \* the agent: the prompt it works on, its stop reason

acVars == <<ac, acCall, acReq, acWire>>

AcNoCall == [op |-> "none", turn |-> 0, at |-> "none"]

AcInit ==
    /\ ac = [active |-> 0, task |-> FALSE, scope |-> 0, cancelled |-> {}, failed |-> 0,
             output |-> {}, poisoned |-> FALSE, finished |-> {}]
    /\ acCall = AcNoCall
    /\ acReq = [q \in AcRequests |-> [at |-> "none", scope |-> 0]]
    /\ acWire = [prompt |-> 0, reason |-> "none", cancel |-> FALSE]

AcPoison(c) == ac' = [c EXCEPT !.poisoned = TRUE] /\ acCall' = AcNoCall

------------------------
\* The driver

\* start_turn
Prompt(t) ==
    /\ acCall = AcNoCall /\ ~ac.poisoned /\ ac.active = 0 /\ t \notin ac.finished
    /\ ac' = [ac EXCEPT !.active = t, !.task = TRUE, !.scope = t, !.failed = 0, !.output = {}]
    /\ acCall' = [op |-> "prompt", turn |-> t, at |-> "await"]
    /\ acWire' = [prompt |-> t, reason |-> "none", cancel |-> FALSE]
    /\ UNCHANGED acReq

\* The prompt is dropped by an interruption and cancel takes its place.
Cancel ==
    /\ acCall.op = "prompt" /\ acCall.at # "take"
    /\ ac' = [ac EXCEPT !.cancelled = @ \cup {ac.scope}]
    /\ acCall' = [op |-> "cancel", turn |-> acCall.turn, at |-> "await"]
    /\ acWire' = [acWire EXCEPT !.cancel = TRUE]
    /\ UNCHANGED acReq

\* await_turn: a second wait for a turn that was awaited poisons the client.
AwaitTurn ==
    /\ acCall.at = "await"
    /\ \/ ~ac.task /\ AcPoison(ac)
       \/ ac.task /\ acWire.reason = "error" /\ AcPoison([ac EXCEPT !.task = FALSE])
       \/ /\ ac.task /\ acWire.reason \notin {"none", "error"}
          \* finish_requests: close cancels the scope and waits for its handlers
          /\ ac' = [ac EXCEPT !.task = FALSE, !.cancelled = @ \cup {ac.scope}]
          /\ acCall' = [acCall EXCEPT !.at = "finish"]
    /\ UNCHANGED <<acReq, acWire>>

CancelTimeout ==
    /\ acCall.op = "cancel" /\ acCall.at = "await" /\ acWire.reason = "none" /\ AcPoison(ac)
    /\ UNCHANGED <<acReq, acWire>>

\* Mutant: the handlers are cancelled but not waited for.
HandlersDone_now == TRUE

HandlersDone == \A q \in AcRequests : acReq[q].scope = ac.scope => acReq[q].at \in {"none", "done"}

\* finish_requests; a handler that starts after it holds a cancelled scope.
FinishRequests ==
    /\ acCall.at = "finish" /\ HandlersDone
    /\ acCall' = [acCall EXCEPT !.at = "take"]
    /\ UNCHANGED <<ac, acReq, acWire>>

\* take_output, and what prompt or cancel make of the stop reason
TakeOutput ==
    /\ acCall.at = "take"
    /\ LET c == [ac EXCEPT !.active = 0, !.scope = 0, !.output = {}, !.finished = @ \cup {ac.active}]
           confirmed == acCall.op = "prompt" \/ acWire.reason = "cancelled"
       IN IF ac.failed # 0 \/ ~confirmed THEN AcPoison(c) ELSE ac' = c /\ acCall' = AcNoCall
    /\ UNCHANGED <<acReq, acWire>>

\* shutdown and drop
AcStop ==
    /\ acCall = AcNoCall /\ ac.scope # 0
    /\ ac' = [ac EXCEPT !.cancelled = @ \cup {ac.scope}, !.scope = 0, !.poisoned = TRUE]
    /\ UNCHANGED <<acCall, acReq, acWire>>

------------------------
\* Permission requests

\* handle: the scope and a handler token are taken under the mutex; without an
\* active turn the automatic answer is given.
Handle(q) ==
    /\ acReq[q].at = "none"
    /\ \/ ac.active # 0 /\ ac.scope # 0
          /\ acReq' = [acReq EXCEPT ![q] = [at |-> "asking", scope |-> ac.scope]]
       \/ (ac.active = 0 \/ ac.scope = 0) /\ acReq' = [acReq EXCEPT ![q].at = "done"]
    /\ UNCHANGED <<ac, acCall, acWire>>

\* exchange: the cancellation of the scope goes first.
CanAnswer(q) == acReq[q].scope \notin ac.cancelled

Exchange(q) ==
    /\ acReq[q].at = "asking"
    /\ \/ ~CanAnswer(q) /\ acReq' = [acReq EXCEPT ![q].at = "done"]
       \/ CanAnswer(q) /\ acReq' = [acReq EXCEPT ![q].at = "delivering"]
    /\ UNCHANGED <<ac, acCall, acWire>>

\* request_failed is set only for the turn that is current.
Charge(q) == ac' = [ac EXCEPT !.failed = IF ac.scope = acReq[q].scope THEN acReq[q].scope ELSE @]

\* The room refused the request, or the answer could not be written.
ExchangeFails(q) ==
    /\ acReq[q].at \in {"asking", "delivering"}
    /\ Charge(q) /\ acReq' = [acReq EXCEPT ![q].at = "done"]
    /\ UNCHANGED <<acCall, acWire>>

\* Deliveries: the answer left on the pipe.
DeliveryDone(q) ==
    /\ acReq[q].at = "delivering"
    /\ acReq' = [acReq EXCEPT ![q].at = "done"]
    /\ UNCHANGED <<ac, acCall, acWire>>

------------------------
\* The agent (external)

AgentSays ==
    /\ acWire.prompt # 0 /\ acWire.reason = "none" /\ acWire.prompt \notin ac.output
    \* record_notification
    /\ ac' = IF ac.active # 0 THEN [ac EXCEPT !.output = @ \cup {acWire.prompt}] ELSE ac
    /\ ac' # ac /\ UNCHANGED <<acCall, acReq, acWire>>

AgentStops(reason) ==
    /\ acWire.prompt # 0 /\ acWire.reason = "none"
    /\ reason = "cancelled" => acWire.cancel
    /\ acWire' = [acWire EXCEPT !.reason = reason]
    /\ UNCHANGED <<ac, acCall, acReq>>

AcNext ==
    \/ Cancel \/ AwaitTurn \/ CancelTimeout \/ FinishRequests \/ TakeOutput \/ AcStop \/ AgentSays
    \/ \E t \in 1..AcTurns : Prompt(t)
    \/ \E q \in AcRequests : Handle(q) \/ Exchange(q) \/ ExchangeFails(q) \/ DeliveryDone(q)
    \/ \E reason \in {"end_turn", "refusal", "cancelled", "error"} : AgentStops(reason)

AcSpec == AcInit /\ [][AcNext]_acVars

------------------------

\* A permission is given within the turn that asked: not when its output was
\* taken, although handlers run beside the client; and the failure of a request
\* fails its own turn, never the next one.
AcpWithinTurn ==
    /\ \A q \in AcRequests : acReq[q].at = "delivering" => acReq[q].scope \notin ac.finished
    /\ ac.failed # 0 /\ ac.scope # 0 => ac.failed = ac.scope
===============================================================================
