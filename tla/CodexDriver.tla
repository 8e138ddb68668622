------------------------------ MODULE CodexDriver ------------------------------
(***************************************************************************)
(* The Codex driver: JSON-RPC over the pipes of an app-server. A call of   *)
(* the driver is dropped at any await when the turn is interrupted, so a   *)
(* request may be pending that nobody waits for; the next call with the    *)
(* same request joins it. The app-server is external.                      *)
(***************************************************************************)
EXTENDS Naturals, Sequences, SequencesExt, FiniteSetsExt

CONSTANTS
    CxTurns,   \* number of durable turns
    CxQueue,   \* MAX_PENDING_NOTIFICATIONS
    CxNotes,   \* bound: notifications of one provider turn
    CxRequests \* bound: requests of the driver

\* Turns are counted.
ASSUME CxAssumption == CxTurns \in Nat

VARIABLES
    cx,      \* CodexDriver
    cxCall,  \* the driver future that runs: attach, send or interrupt, and where it waits
    cxUp,    \* stdin of the app-server
    cxDown,  \* its stdout
    cxSrv,   \* the app-server
    cxDone   \* what send_turn returned for a turn

cxVars == <<cx, cxCall, cxUp, cxDown, cxSrv, cxDone>>

NoPending == [id |-> 0, method |-> "none", turn |-> 0]
NoActive == [turn |-> 0, pid |-> 0, content |-> {}]
CxIdle == [op |-> "none", turn |-> 0, at |-> "none"]
NoDone == [pid |-> 0, content |-> {}]

CxInit ==
    /\ cx = [next |-> 1, stage |-> "initialize", pending |-> NoPending, poisoned |-> FALSE,
             active |-> NoActive, completed |-> 0, seen |-> {}, queue |-> <<>>]
    /\ cxCall = CxIdle /\ cxUp = <<>> /\ cxDown = <<>>
    /\ cxSrv = [turns |-> <<>>, running |-> 0, owed |-> 0, stopping |-> FALSE, asks |-> FALSE,
                notes |-> 0, ended |-> [p \in 1..CxTurns |-> "no"], late |-> FALSE, dead |-> FALSE]
    /\ cxDone = [t \in 1..CxTurns |-> NoDone]

\* requires_restart
Poison(d) == cx' = [d EXCEPT !.poisoned = TRUE] /\ cxCall' = CxIdle
Returns(d) == cx' = d /\ cxCall' = CxIdle

------------------------
\* Requests

\* request: a pending request with the same content is joined, another refuses.
CanRequest(method, t) ==
    cx.pending = NoPending \/ (cx.pending.method = method /\ cx.pending.turn = t)

Request(d, call, method, t) ==
    IF d.pending # NoPending
    THEN cx' = d /\ cxCall' = [call EXCEPT !.at = "response"] /\ UNCHANGED cxUp
    ELSE /\ d.next <= CxRequests
         /\ cx' = [d EXCEPT !.pending = [id |-> d.next, method |-> method, turn |-> t], !.next = @ + 1]
         /\ cxCall' = [call EXCEPT !.at = "response"]
         /\ cxUp' = Append(cxUp, [k |-> method, id |-> d.next, turn |-> t, pid |-> d.active.pid])

\* attach, attach_thread, initialize
Attach ==
    /\ cxCall = CxIdle /\ ~cx.poisoned /\ cx.stage # "attached"
    /\ Request(cx, [op |-> "attach", turn |-> 0, at |-> "none"], cx.stage, 0)
    /\ UNCHANGED <<cxDown, cxSrv, cxDone>>

\* send_turn: a repeated request gets the same outcome, another one is refused
\* while a turn is active.
SendTurn(t) ==
    /\ cxCall = CxIdle /\ ~cx.poisoned /\ cx.stage = "attached"
    /\ LET call == [op |-> "send", turn |-> t, at |-> "read"]
       IN IF cx.completed = t THEN UNCHANGED <<cx, cxCall, cxUp>>
          ELSE IF cx.active # NoActive
          THEN cx.active.turn = t /\ cxCall' = call /\ UNCHANGED <<cx, cxUp>>
          ELSE CanRequest("start", t) /\ Request(cx, call, "start", t)
    /\ UNCHANGED <<cxDown, cxSrv, cxDone>>

\* interrupt_turn, in place of the dropped send_turn
InterruptTurn ==
    /\ cxCall.op = "send"
    /\ LET t == cxCall.turn
           call == [op |-> "interrupt", turn |-> t, at |-> "none"]
       IN IF cx.completed = t \/ (cx.active = NoActive /\ cx.pending.method # "start")
          THEN Returns(cx) /\ UNCHANGED cxUp
          ELSE IF cx.active = NoActive
          THEN IF CanRequest("start", t) THEN Request(cx, call, "start", t) ELSE Returns(cx) /\ UNCHANGED cxUp
          ELSE IF cx.active.turn = t /\ CanRequest("interrupt", t)
          THEN Request(cx, call, "interrupt", t)
          ELSE Returns(cx) /\ UNCHANGED cxUp
    /\ UNCHANGED <<cxDown, cxSrv, cxDone>>

\* The runtime is cancelled, or a request got no answer in time: it stays pending.
CallDropped ==
    /\ cxCall.at \in {"response", "drain"} \/ cxCall.op = "send"
    /\ Returns(cx)
    /\ UNCHANGED <<cxUp, cxDown, cxSrv, cxDone>>

\* TURN_INACTIVITY_TIMEOUT, or the stream ends while a turn is read
TurnTimeout ==
    /\ cxCall.at = "read" /\ Poison(cx)
    /\ UNCHANGED <<cxUp, cxDown, cxSrv, cxDone>>

------------------------
\* Reading

Answered == [cx EXCEPT !.pending = NoPending]

NextStage == [initialize |-> "thread", thread |-> "name", name |-> "attached"]

\* attach goes on with the next request of its sequence.
Attached(ok) ==
    LET d == [Answered EXCEPT !.stage = IF ok THEN NextStage[@] ELSE @]
    IN IF ~ok THEN Poison(d) /\ UNCHANGED cxUp
       ELSE IF d.stage = "attached" THEN Returns(d) /\ UNCHANGED cxUp
       ELSE Request(d, cxCall, d.stage, 0)

\* start_turn: a provider turn id is used once.
Started(m) ==
    IF ~m.ok \/ m.pid \in cx.seen THEN Poison(Answered) /\ UNCHANGED cxUp
    ELSE LET d == [Answered EXCEPT !.seen = @ \cup {m.pid}, !.completed = 0,
                                   !.active = [turn |-> cxCall.turn, pid |-> m.pid, content |-> {}]]
         IN IF cxCall.op = "interrupt" THEN Request(d, cxCall, "interrupt", cxCall.turn)
            ELSE cx' = d /\ cxCall' = [cxCall EXCEPT !.at = "read"] /\ UNCHANGED cxUp

Interrupted(m) ==
    IF m.ok THEN cx' = Answered /\ cxCall' = [cxCall EXCEPT !.at = "drain"] ELSE Returns(Answered)

\* queue_notification
Queue(m) == cx' = [cx EXCEPT !.queue = Append(@, m)] /\ UNCHANGED cxCall

Head1 == cxDown # <<>> /\ cxDown' = Tail(cxDown)
Unsupported(m) == cxUp' = Append(cxUp, [k |-> "unsupported", id |-> 0, turn |-> 0, pid |-> m.pid])

\* read_response
ReadResponse ==
    /\ cxCall.at = "response" /\ Head1
    /\ LET m == Head(cxDown)
       IN \/ /\ m.k = "note" \/ (m.k = "ask" /\ cx.pending.method = "start")
             /\ IF Len(cx.queue) < CxQueue THEN Queue(m) ELSE Returns(cx)
             /\ UNCHANGED cxUp
          \/ /\ m.k = "ask" /\ cx.pending.method # "start"
             /\ Unsupported(m) /\ UNCHANGED <<cx, cxCall>>
          \/ /\ m.k = "resp" /\ m.id # cx.pending.id
             /\ Returns(cx) /\ UNCHANGED cxUp
          \/ /\ m.k = "resp" /\ m.id = cx.pending.id /\ cx.pending.method = "start" /\ Started(m)
          \/ /\ m.k = "resp" /\ m.id = cx.pending.id /\ cx.pending.method = "interrupt"
             /\ Interrupted(m) /\ UNCHANGED cxUp
          \/ /\ m.k = "resp" /\ m.id = cx.pending.id /\ cxCall.op = "attach" /\ Attached(m.ok)
    /\ UNCHANGED <<cxSrv, cxDone>>

\* message_matches
Matches(m) == m.k # "resp" /\ m.pid = cx.active.pid

\* next_matching_notification: the queue first, then the wire.
InQueue == {j \in 1..Len(cx.queue) : Matches(cx.queue[j])}
CanTake == InQueue # {} \/ (cxDown # <<>> /\ Matches(Head(cxDown)))
CxTaken == IF InQueue = {} THEN Head(cxDown) ELSE cx.queue[Min(InQueue)]
Rest == IF InQueue = {} THEN cx ELSE [cx EXCEPT !.queue = RemoveAt(@, Min(InQueue))]
TakeOne == CanTake /\ cxDown' = IF InQueue = {} THEN Tail(cxDown) ELSE cxDown

\* read_turn and finish_turn
Note(m, d) ==
    CASE m.what = "delta" -> /\ cx' = [d EXCEPT !.active.content = @ \cup {m.pid}]
                             /\ UNCHANGED <<cxCall, cxDone>>
      [] m.what = "completed" ->
            /\ Returns([d EXCEPT !.active = NoActive, !.completed = d.active.turn])
            /\ cxDone' = [cxDone EXCEPT ![d.active.turn] = [pid |-> d.active.pid, content |-> d.active.content]]
      [] OTHER -> Poison(d) /\ UNCHANGED cxDone

ReadTurn ==
    /\ cxCall.at = "read" /\ TakeOne
    /\ \/ CxTaken.k = "note" /\ Note(CxTaken, Rest)
       \/ CxTaken.k = "ask" /\ cx' = Rest /\ cxCall' = [cxCall EXCEPT !.at = "asking"] /\ UNCHANGED cxDone
    /\ UNCHANGED <<cxUp, cxSrv>>

\* requests::handle: the room answered and the answer was written, or not.
RequestAnswered ==
    /\ cxCall.at = "asking"
    /\ cxUp' = Append(cxUp, [k |-> "answer", id |-> 0, turn |-> 0, pid |-> cx.active.pid])
    /\ cxCall' = [cxCall EXCEPT !.at = "read"]
    /\ UNCHANGED <<cx, cxDown, cxSrv, cxDone>>
RequestFails ==
    /\ cxCall.at = "asking" /\ Poison(cx)
    /\ UNCHANGED <<cxUp, cxDown, cxSrv, cxDone>>

\* interrupt_turn waits for the end of the turn.
Drain ==
    /\ cxCall.at = "drain" /\ TakeOne
    /\ \/ CxTaken.k = "ask" /\ Unsupported(CxTaken) /\ cx' = Rest /\ UNCHANGED cxCall
       \/ CxTaken.k = "note" /\ CxTaken.what = "delta" /\ cx' = Rest /\ UNCHANGED <<cxCall, cxUp>>
       \/ /\ CxTaken.k = "note" /\ CxTaken.what # "delta"
          /\ Returns([Rest EXCEPT !.active = NoActive, !.completed = 0]) /\ UNCHANGED cxUp
    /\ UNCHANGED <<cxSrv, cxDone>>

\* Messages that match no active turn: queued, refused, or a broken protocol.
ReadOther ==
    /\ cxCall.at \in {"read", "drain"} /\ InQueue = {}
    /\ Head1 /\ ~Matches(Head(cxDown))
    /\ LET m == Head(cxDown)
           broken == m.k = "resp" \/ (m.k = "note" /\ Len(cx.queue) >= CxQueue)
       IN \/ broken /\ UNCHANGED cxUp /\ (IF cxCall.at = "read" THEN Poison(cx) ELSE Returns(cx))
          \/ ~broken /\ m.k = "note" /\ Queue(m) /\ UNCHANGED cxUp
          \/ m.k = "ask" /\ Unsupported(m) /\ UNCHANGED <<cx, cxCall>>
    /\ UNCHANGED <<cxSrv, cxDone>>

------------------------
\* The app-server (external)

CxSay(m) == cxDown' = Append(cxDown, m)
Reply(id, ok, pid) == [k |-> "resp", id |-> id, ok |-> ok, pid |-> pid, what |-> "none"]
Notice(pid, what) == [k |-> "note", id |-> 0, ok |-> TRUE, pid |-> pid, what |-> what]

ServerTakes ==
    /\ cxUp # <<>> /\ ~cxSrv.dead /\ cxUp' = Tail(cxUp)
    /\ LET m == Head(cxUp)
           pid == Len(cxSrv.turns) + 1
       IN \/ /\ m.k \in {"initialize", "thread", "name"} /\ UNCHANGED cxSrv
             /\ \E ok \in BOOLEAN : CxSay(Reply(m.id, ok, 0))
          \/ /\ m.k = "start" /\ pid <= CxTurns /\ UNCHANGED cxDown
             /\ cxSrv' = [cxSrv EXCEPT !.turns = Append(@, m.turn), !.running = pid, !.owed = m.id,
                                       !.notes = 0, !.stopping = FALSE, !.asks = FALSE]
          \/ m.k = "start" /\ UNCHANGED cxSrv /\ CxSay(Reply(m.id, FALSE, 0))
          \/ /\ m.k = "interrupt" /\ cxSrv.running = m.pid
             /\ cxSrv' = [cxSrv EXCEPT !.stopping = TRUE] /\ CxSay(Reply(m.id, TRUE, 0))
          \/ /\ m.k = "interrupt" /\ cxSrv.running # m.pid /\ UNCHANGED cxSrv
             /\ \E ok \in BOOLEAN : CxSay(Reply(m.id, ok, 0))
          \/ /\ m.k \in {"answer", "unsupported"} /\ UNCHANGED cxDown
             /\ cxSrv' = [cxSrv EXCEPT !.asks = IF cxSrv.running = m.pid THEN FALSE ELSE @]
    /\ UNCHANGED <<cx, cxCall, cxDone>>

\* The answer to turn/start may come after notifications of the turn.
ServerReplies ==
    /\ cxSrv.owed # 0 /\ ~cxSrv.dead /\ CxSay(Reply(cxSrv.owed, TRUE, Len(cxSrv.turns)))
    /\ cxSrv' = [cxSrv EXCEPT !.owed = 0]
    /\ UNCHANGED <<cx, cxCall, cxUp, cxDone>>

ServerWorks ==
    /\ cxSrv.running # 0 /\ ~cxSrv.dead /\ ~cxSrv.asks /\ cxSrv.notes < CxNotes
    /\ \/ CxSay(Notice(cxSrv.running, "delta")) /\ cxSrv' = [cxSrv EXCEPT !.notes = @ + 1]
       \/ /\ CxSay([Notice(cxSrv.running, "none") EXCEPT !.k = "ask"])
          /\ cxSrv' = [cxSrv EXCEPT !.notes = @ + 1, !.asks = TRUE]
    /\ UNCHANGED <<cx, cxCall, cxUp, cxDone>>

ServerEnds(status) ==
    /\ cxSrv.running # 0 /\ ~cxSrv.dead /\ (cxSrv.stopping \/ ~cxSrv.asks)
    /\ (status = "interrupted") <=> cxSrv.stopping
    /\ CxSay(Notice(cxSrv.running, status))
    /\ cxSrv' = [cxSrv EXCEPT !.running = 0, !.ended[cxSrv.running] = status]
    /\ UNCHANGED <<cx, cxCall, cxUp, cxDone>>

\* A last notification of a turn may follow its end.
ServerLate ==
    /\ cxSrv.turns # <<>> /\ ~cxSrv.late /\ ~cxSrv.dead /\ cxSrv.owed = 0
    /\ cxSrv.running # Len(cxSrv.turns)
    /\ CxSay(Notice(Len(cxSrv.turns), "delta")) /\ cxSrv' = [cxSrv EXCEPT !.late = TRUE]
    /\ UNCHANGED <<cx, cxCall, cxUp, cxDone>>

ServerDies ==
    /\ ~cxSrv.dead /\ cxSrv' = [cxSrv EXCEPT !.dead = TRUE, !.running = 0]
    /\ UNCHANGED <<cx, cxCall, cxUp, cxDown, cxDone>>

CxNext ==
    \/ Attach \/ InterruptTurn \/ CallDropped \/ TurnTimeout \/ ReadResponse \/ ReadTurn
    \/ RequestAnswered \/ RequestFails \/ Drain \/ ReadOther
    \/ ServerTakes \/ ServerReplies \/ ServerWorks \/ ServerLate \/ ServerDies
    \/ \E t \in 1..CxTurns : SendTurn(t)
    \/ \E status \in {"completed", "failed", "interrupted"} : ServerEnds(status)

CxSpec == CxInit /\ [][CxNext]_cxVars

------------------------

\* What send_turn returns for a turn was produced by the provider turn that was
\* started for it and that completed, without text of another provider turn,
\* although calls are dropped and joined and notifications come early or late.
CodexOwnOutput ==
    \A t \in 1..CxTurns : cxDone[t] # NoDone =>
        /\ cxSrv.turns[cxDone[t].pid] = t
        /\ cxSrv.ended[cxDone[t].pid] = "completed"
        /\ cxDone[t].content \subseteq {cxDone[t].pid}

===============================================================================
