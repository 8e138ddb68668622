------------------------------ MODULE Attendee ------------------------------
(***************************************************************************)
(* An external attendee: a client process that owns a provider runtime,    *)
(* admitted to a room by a one-use invitation, and the room that assigns   *)
(* it turns over a web socket it may lose at any moment.  The room keeps   *)
(* the membership, the current connection, the open turn, its interrupt    *)
(* effect, the pending cleanup and the receipts of the reports; the server *)
(* runs one task per socket; the client keeps its request until it is      *)
(* acknowledged, across connections.  HTTP posts carry the admission, the  *)
(* interrupt report, the leave, the cleanup report and the random tool.    *)
(***************************************************************************)
EXTENDS Naturals, Sequences

CONSTANTS AtConns,  \* connections the client may claim
          AtTurns,  \* turns the room assigns
          AtOrders, \* interrupts, stops and removals asked of the room
          AtLosses  \* breaks, lost answers and host restarts

ASSUME AtConstants == {AtConns, AtTurns, AtOrders, AtLosses} \subseteq Nat

VARIABLES
    atRoom,   \* the durable rows of this attendee
    atTask,   \* the socket task of each connection
    atUp,     \* requests under way to each socket task
    atDown,   \* frames under way from each socket task
    atCl,     \* the client process
    atLoss,   \* faults so far
    atRuns,   \* per turn, how often the provider was given it
    atDone,   \* per turn, how often its result was published
    atRolls   \* per turn, how often its random tool was executed

atVars == <<atRoom, atTask, atUp, atDown, atCl, atLoss, atRuns, atDone, atRolls>>

Links == 1 .. AtConns
AtGens == 1 .. AtTurns
NoAsk == [op |-> "none", gen |-> 0]
AtPost(op, kind) == [op |-> op, gen |-> atCl.gen, kind |-> kind, conn |-> atCl.sock]
NoPost == [op |-> "none", gen |-> 0, kind |-> "none", conn |-> 0]
IdleTask == [up |-> FALSE, at |-> "wait", ready |-> FALSE, turn |-> 0, intr |-> 0]

AtInit ==
    /\ atRoom = [used |-> FALSE, member |-> "none", bound |-> FALSE, conn |-> 0, net |-> "none",
                 gen |-> 0, phase |-> "none", effect |-> "none", stop |-> FALSE,
                 cleanup |-> FALSE, receipts |-> {}, orders |-> 0]
    /\ atTask = [k \in Links |-> IdleTask]
    /\ atUp = [k \in Links |-> <<>>] /\ atDown = [k \in Links |-> <<>>]
    /\ atCl = [ph |-> "join", prov |-> "none", sock |-> 0, claims |-> 0, ask |-> NoAsk,
               sent |-> FALSE, live |-> FALSE, gen |-> 0, exec |-> "none", intr |-> "none",
               tool |-> "none", remote |-> FALSE, left |-> FALSE]
    /\ atLoss = 0
    /\ atRuns = [g \in AtGens |-> 0] /\ atDone = atRuns /\ atRolls = atRuns

------------------------
(* The room's transactions. *)

Authorized == atRoom.member = "joined"
CurrentLink(k) == Authorized /\ atRoom.conn = k /\ atRoom.net # "disconnected"
StopDue == atRoom.cleanup /\ atRoom.bound
TurnOpen == atRoom.phase # "none"

\* The turn is over and so is its effect.
AtClosed(r) == [r EXCEPT !.phase = "none", !.effect = "none"]
\* The runtime is recorded as absent; a joined participant becomes detached.
AtAbsent(r) == [AtClosed(r) EXCEPT !.bound = FALSE, !.stop = FALSE,
                               !.member = IF @ = "joined" THEN "detached" ELSE @]

\* assign_pending gives a ready, available attendee its next turn.
AssignTurn ==
    /\ CurrentLink(atRoom.conn) /\ atRoom.net = "ready" /\ atRoom.bound
    /\ ~atRoom.cleanup /\ ~TurnOpen /\ atRoom.gen < AtTurns
    /\ atRoom' = [atRoom EXCEPT !.gen = @ + 1, !.phase = "assigned"]
    /\ UNCHANGED <<atTask, atUp, atDown, atCl, atLoss, atRuns, atDone, atRolls>>

Ordered(r) == atRoom.orders < AtOrders /\ atRoom' = [r EXCEPT !.orders = @ + 1]
\* agent.interrupt or a mute prepares the effect of the open turn.
PrepareInterrupt ==
    /\ TurnOpen /\ atRoom.effect = "none" /\ ~atRoom.cleanup
    /\ Ordered([atRoom EXCEPT !.effect = "prepared"])
    /\ UNCHANGED <<atTask, atUp, atDown, atCl, atLoss, atRuns, atDone, atRolls>>

\* agent.stop reserves the stop and leaves its proof to the external owner.
StopAttendee ==
    /\ Authorized /\ atRoom.bound /\ ~atRoom.cleanup
    /\ Ordered([atRoom EXCEPT !.stop = TRUE, !.cleanup = TRUE])
    /\ UNCHANGED <<atTask, atUp, atDown, atCl, atLoss, atRuns, atDone, atRolls>>

\* A removal revokes the session and requests the cleanup of its runtime.
RemoveAttendee ==
    /\ Authorized
    /\ Ordered([atRoom EXCEPT !.member = "left", !.cleanup = TRUE])
    /\ UNCHANGED <<atTask, atUp, atDown, atCl, atLoss, atRuns, atDone, atRolls>>

\* The host finishes a cleanup whose runtime was never bound.
HostCleanup ==
    /\ atRoom.cleanup /\ ~atRoom.bound
    /\ atRoom' = [atRoom EXCEPT !.cleanup = FALSE]
    /\ UNCHANGED <<atTask, atUp, atDown, atCl, atLoss, atRuns, atDone, atRolls>>

------------------------
(* The socket task of connection k: stop, interrupt and turn are looked up  *)
(* one after the other, then the task waits.                                *)

Frame(kind, g) == [kind |-> kind, gen |-> g, old |-> FALSE]
Sends(k, frames) == atDown' = [atDown EXCEPT ![k] = @ \o frames]
TaskRunning(k, place) == atTask[k].up /\ atTask[k].at = place

\* The task ended: its connection is recorded as disconnected, if it still is the current one.
Disconnected(k) ==
    IF atRoom.conn = k /\ atRoom.net # "disconnected"
    THEN [atRoom EXCEPT !.net = "disconnected"] ELSE atRoom
\* A refused delivery is told to the client without a request and ends the task.
Ends(k, frames) ==
    /\ atTask' = [atTask EXCEPT ![k] = IdleTask]
    /\ atRoom' = Disconnected(k)
    /\ IF CurrentLink(k) THEN Sends(k, frames) ELSE UNCHANGED atDown
    /\ atUp' = [atUp EXCEPT ![k] = <<>>]

\* deliver_stop: a due stop is sent and ends the task.
DeliverStop(k) ==
    /\ TaskRunning(k, "wait") /\ StopDue
    /\ Ends(k, <<Frame("stop", 0)>>)
    /\ UNCHANGED <<atCl, atLoss, atRuns, atDone, atRolls>>

\* deliver_interrupt: the prepared effect becomes dispatching and is sent once per connection.
DeliverInterrupt(k) ==
    /\ TaskRunning(k, "wait") /\ ~StopDue /\ CurrentLink(k)
    /\ atRoom.effect # "none" /\ atTask[k].intr # atRoom.gen
    /\ atRoom' = [atRoom EXCEPT !.effect = "dispatching"]
    /\ atTask' = [atTask EXCEPT ![k].intr = atRoom.gen]
    /\ Sends(k, <<Frame("interrupt", atRoom.gen)>>)
    /\ UNCHANGED <<atUp, atCl, atLoss, atRuns, atDone, atRolls>>

\* No stop and no interrupt is due: the task goes on to the turn, after a look that may be stale.
LookForTurn(k) ==
    /\ TaskRunning(k, "wait") /\ ~StopDue /\ CurrentLink(k) /\ atRoom.effect = "none"
    /\ atTask[k].ready /\ TurnOpen /\ atTask[k].turn # atRoom.gen
    /\ atTask' = [atTask EXCEPT ![k].at = "turn"]
    /\ UNCHANGED <<atRoom, atUp, atDown, atCl, atLoss, atRuns, atDone, atRolls>>

\* deliver: an open turn is dispatched and sent once per connection.
DeliverTurn(k) ==
    /\ TaskRunning(k, "turn")
    /\ \/ /\ ~CurrentLink(k) \/ (TurnOpen /\ atRoom.effect # "none")
          /\ Ends(k, <<Frame("nack", 0)>>)
       \/ /\ CurrentLink(k) /\ ~TurnOpen
          /\ atTask' = [atTask EXCEPT ![k].at = "wait"]
          /\ UNCHANGED <<atRoom, atUp, atDown>>
       \/ /\ CurrentLink(k) /\ TurnOpen /\ atRoom.effect = "none"
          /\ atRoom' = [atRoom EXCEPT !.phase = IF @ = "assigned" THEN "dispatching" ELSE @]
          /\ atTask' = [atTask EXCEPT ![k] = [@ EXCEPT !.at = "wait", !.turn = atRoom.gen]]
          /\ Sends(k, <<[kind |-> "turn", gen |-> atRoom.gen, old |-> atRoom.phase = "running"]>>)
          /\ UNCHANGED atUp
    /\ UNCHANGED <<atCl, atLoss, atRuns, atDone, atRolls>>

\* record_attendee_turn_started.
StartedOK(g) == atRoom.gen = g /\ atRoom.effect = "none" /\ atRoom.phase \in {"dispatching", "running"}
\* record_attendee_turn_report: a stored receipt answers a repeated report.
ReportOK(g) == StartedOK(g)
Replayed(req) == req.op = "report" /\ req \in atRoom.receipts

\* The task reads one request, has the room apply it and answers.
ReceiveRequest(k) ==
    /\ TaskRunning(k, "wait") /\ atUp[k] # <<>>
    /\ atUp' = [atUp EXCEPT ![k] = IF CurrentLink(k) THEN Tail(@) ELSE <<>>]
    /\ LET req == Head(atUp[k])
           Answer(r, kind, ready) ==
               /\ atRoom' = r
               /\ Sends(k, <<[kind |-> kind, gen |-> req.gen, old |-> FALSE]>>)
               /\ atTask' = [atTask EXCEPT ![k].ready = @ \/ ready]
       IN  IF ~CurrentLink(k)
           THEN /\ atTask' = [atTask EXCEPT ![k] = IdleTask]
                /\ atRoom' = Disconnected(k)
                /\ UNCHANGED <<atDown, atDone>>
           ELSE \* record_attendee_ready: the first report binds the runtime.
                \/ /\ req.op = "ready" /\ ~atRoom.stop /\ ~atRoom.cleanup
                   /\ Answer([atRoom EXCEPT !.net = "ready", !.bound = TRUE], "ack", TRUE)
                   /\ UNCHANGED atDone
                \/ /\ req.op = "ready" /\ (atRoom.stop \/ atRoom.cleanup)
                   /\ Answer(atRoom, "nack", FALSE) /\ UNCHANGED atDone
                \/ /\ req.op = "started"
                   /\ IF StartedOK(req.gen)
                      THEN Answer([atRoom EXCEPT !.phase = "running"], "ack", FALSE)
                      ELSE Answer(atRoom, "nack", FALSE)
                   /\ UNCHANGED atDone
                \/ /\ req.op = "report" /\ Replayed(req)
                   /\ Answer(atRoom, "ack", FALSE) /\ UNCHANGED atDone
                \/ /\ req.op = "report" /\ ~Replayed(req)
                   /\ IF ReportOK(req.gen)
                      THEN /\ Answer([AtClosed(atRoom) EXCEPT !.receipts = @ \cup {req}], "ack", FALSE)
                           /\ atDone' = [atDone EXCEPT ![req.gen] = @ + 1]
                      ELSE Answer(atRoom, "nack", FALSE) /\ UNCHANGED atDone
    /\ UNCHANGED <<atCl, atLoss, atRuns, atRolls>>

\* The task ends: its client is gone or it was replaced.
AtTaskEnds(k) ==
    /\ TaskRunning(k, "wait")
    /\ ~CurrentLink(k) \/ (atUp[k] = <<>> /\ atCl.sock # k)
    /\ atTask' = [atTask EXCEPT ![k] = IdleTask]
    /\ atRoom' = Disconnected(k)
    /\ UNCHANGED <<atUp, atDown, atCl, atLoss, atRuns, atDone, atRolls>>

------------------------
(* The client process. *)

Became(ph) == atCl' = [atCl EXCEPT !.ph = ph]
Faulty == atLoss < AtLosses /\ atLoss' = atLoss + 1

\* next_report, or readiness when there is nothing to report.
NextReport(c) == IF c.exec = "done" THEN [op |-> "started", gen |-> c.gen] ELSE NoAsk
AskReady == [op |-> "ready", gen |-> 0]
\* What a new connection sends first: the request it still owes, else its report or readiness.
FirstAsk ==
    IF atCl.ask # NoAsk \/ atCl.intr # "none" THEN atCl.ask
    ELSE IF NextReport(atCl) # NoAsk THEN NextReport(atCl) ELSE AskReady

\* The provider runtime is reserved and started; a failure goes to the shutdown.
StartRuntime ==
    /\ atCl.ph = "start"
    /\ \/ atCl' = [atCl EXCEPT !.ph = "offline", !.prov = "up", !.ask = AskReady]
       \/ atCl' = [atCl EXCEPT !.ph = "stopping"]
    /\ UNCHANGED <<atRoom, atTask, atUp, atDown, atLoss, atRuns, atDone, atRolls>>

\* The handshake claims a fresh connection; the first frame of it may be lost.
AtConnect ==
    /\ atCl.ph = "offline" /\ Authorized /\ atCl.claims < AtConns
    /\ LET k == atCl.claims + 1 IN
       /\ atRoom' = [atRoom EXCEPT !.conn = k, !.net = "connected"]
       /\ atTask' = [atTask EXCEPT ![k] = [IdleTask EXCEPT !.up = TRUE]]
       /\ \/ /\ atCl' = [atCl EXCEPT !.ph = "online", !.sock = k, !.claims = k, !.ask = FirstAsk,
                                     !.sent = FALSE, !.live = FALSE]
             /\ UNCHANGED atLoss
          \/ /\ Faulty /\ k < AtConns
             /\ atCl' = [atCl EXCEPT !.claims = k]
    /\ UNCHANGED <<atUp, atDown, atRuns, atDone, atRolls>>

\* A session that ended is refused for good; the client has no connection left otherwise.
ConnectRefused ==
    /\ atCl.ph = "offline" /\ (~Authorized \/ atCl.claims = AtConns)
    /\ Became("stopping")
    /\ UNCHANGED <<atRoom, atTask, atUp, atDown, atLoss, atRuns, atDone, atRolls>>

\* The client lost the socket: what was under way down is gone, and a pending stop is looked up.
Offline == [atCl EXCEPT !.ph = "checking", !.sock = 0]
SocketBreaks ==
    /\ atCl.ph = "online" /\ Faulty /\ atCl.claims < AtConns
    /\ atCl' = Offline
    /\ atDown' = [atDown EXCEPT ![atCl.sock] = <<>>]
    /\ UNCHANGED <<atRoom, atTask, atUp, atRuns, atDone, atRolls>>
\* The server closed it.
SeesClose ==
    /\ atCl.ph = "online" /\ ~atTask[atCl.sock].up /\ atDown[atCl.sock] = <<>>
    /\ atCl' = Offline
    /\ UNCHANGED <<atRoom, atTask, atUp, atDown, atLoss, atRuns, atDone, atRolls>>

\* After each connection the client reads the cleanup control.
CheckCleanup ==
    /\ atCl.ph = "checking"
    /\ atCl' = IF StopDue THEN [atCl EXCEPT !.ph = "stopping", !.remote = TRUE]
                          ELSE [atCl EXCEPT !.ph = "offline"]
    /\ UNCHANGED <<atRoom, atTask, atUp, atDown, atLoss, atRuns, atDone, atRolls>>

SendAsk ==
    /\ atCl.ph = "online" /\ atCl.ask # NoAsk /\ ~atCl.sent
    /\ atUp' = [atUp EXCEPT ![atCl.sock] = Append(@, atCl.ask)]
    /\ atCl' = [atCl EXCEPT !.sent = TRUE]
    /\ UNCHANGED <<atRoom, atTask, atDown, atLoss, atRuns, atDone, atRolls>>

\* acknowledge: what follows the request that was committed.
Acknowledged ==
    CASE atCl.ask.op = "report" ->
            [atCl EXCEPT !.exec = "none", !.tool = "none", !.sent = FALSE,
                         !.ask = IF atCl.live THEN NoAsk ELSE AskReady]
      [] atCl.ask.op = "started" ->
            [atCl EXCEPT !.sent = FALSE, !.ask = [op |-> "report", gen |-> atCl.gen]]
      [] OTHER -> [atCl EXCEPT !.sent = FALSE, !.live = TRUE, !.ask = NextReport(atCl)]

\* execute: only a newer turn that no provider was given yet enters the provider.
Enters(f) == f.gen > atCl.gen /\ ~f.old
\* A redelivered turn must be the one the client owns.
Owned(f) == f.gen = atCl.gen /\ (~f.old \/ atCl.exec = "done")

\* frame: one frame of the current socket.
ReceiveFrame ==
    /\ atCl.ph = "online" /\ atDown[atCl.sock] # <<>>
    /\ atDown' = [atDown EXCEPT ![atCl.sock] = Tail(@)]
    /\ LET f == Head(atDown[atCl.sock]) IN
       \/ /\ f.kind = "ack"
          /\ atCl' = IF atCl.ask # NoAsk /\ atCl.sent /\ f.gen = atCl.ask.gen THEN Acknowledged
                     ELSE [atCl EXCEPT !.ph = "stopping"]
          /\ UNCHANGED atRuns
       \/ /\ f.kind = "nack" /\ Became("stopping") /\ UNCHANGED atRuns
       \/ /\ f.kind = "stop"
          /\ atCl' = [atCl EXCEPT !.ph = "stopping", !.remote = TRUE] /\ UNCHANGED atRuns
       \/ /\ f.kind = "turn" /\ atCl.exec # "none"
          /\ atCl' = IF Owned(f) THEN atCl ELSE [atCl EXCEPT !.ph = "stopping"]
          /\ UNCHANGED atRuns
       \/ /\ f.kind = "turn" /\ atCl.exec = "none" /\ atCl.intr # "none"
          /\ UNCHANGED <<atCl, atRuns>>
       \/ /\ f.kind = "turn" /\ atCl.exec = "none" /\ atCl.intr = "none"
          /\ IF Enters(f)
             THEN /\ atCl' = [atCl EXCEPT !.exec = "running", !.gen = f.gen]
                  /\ atRuns' = [atRuns EXCEPT ![f.gen] = @ + 1]
             ELSE Became("stopping") /\ UNCHANGED atRuns
       \/ /\ f.kind = "interrupt"
          /\ atCl' = IF atCl.intr # "none" /\ f.gen = atCl.gen THEN atCl
                     ELSE IF /\ atCl.intr = "none"
                             /\ IF atCl.exec # "none" THEN f.gen = atCl.gen ELSE f.gen > atCl.gen
                     THEN [atCl EXCEPT !.intr = "asked", !.gen = f.gen]
                     ELSE [atCl EXCEPT !.ph = "stopping"]
          /\ UNCHANGED atRuns
    /\ UNCHANGED <<atRoom, atTask, atUp, atLoss, atDone, atRolls>>

\* The provider ended its turn and the connected client collects the result.
Collect ==
    /\ atCl.ph = "online" /\ atCl.exec = "running" /\ atCl.intr = "none"
    /\ LET c == [atCl EXCEPT !.exec = "done"] IN
       \/ atCl' = IF c.ask = NoAsk THEN [c EXCEPT !.ask = NextReport(c), !.sent = FALSE] ELSE c
       \/ Became("stopping") \* the effect is uncertain or the runtime stopped
    /\ UNCHANGED <<atRoom, atTask, atUp, atDown, atLoss, atRuns, atDone, atRolls>>

\* The interrupt task: the runtime is retained, gone, or nothing is proven.
Quiesce ==
    /\ atCl.intr = "asked"
    /\ \/ atCl' = [atCl EXCEPT !.intr = "retained", !.exec = IF @ = "running" THEN "ended" ELSE @]
       \/ atCl' = [atCl EXCEPT !.intr = "gone", !.prov = "down",
                               !.exec = IF @ = "running" THEN "ended" ELSE @]
       \/ atCl.ph = "online" /\ Became("stopping")
    /\ UNCHANGED <<atRoom, atTask, atUp, atDown, atLoss, atRuns, atDone, atRolls>>

\* One random tool of a running turn, with one request identity over all its attempts.
Roll == [op |-> "random", gen |-> atCl.gen]
\* Mutant: the receipt of an earlier attempt is not looked up.
RollReplayed_never == FALSE
RollReplayed == Roll \in atRoom.receipts
ToolCall ==
    /\ atCl.ph = "online" /\ atCl.exec = "running" /\ atCl.tool # "used"
    /\ LET allowed == /\ CurrentLink(atCl.sock) /\ ~RollReplayed /\ atRoom.gen = atCl.gen
                      /\ atRoom.effect = "none" /\ atRoom.phase \in {"dispatching", "running"}
       IN IF allowed
          THEN /\ atRoom' = [atRoom EXCEPT !.receipts = @ \cup {Roll}]
               /\ atRolls' = [atRolls EXCEPT ![atCl.gen] = @ + 1]
          ELSE UNCHANGED <<atRoom, atRolls>>
    /\ \/ /\ atCl' = [atCl EXCEPT !.tool = "used"]
          /\ UNCHANGED <<atLoss, atDown>>
       \/ /\ Faulty /\ atCl.claims < AtConns
          /\ atCl' = Offline
          /\ atDown' = [atDown EXCEPT ![atCl.sock] = <<>>]
    /\ UNCHANGED <<atTask, atUp, atRuns, atDone>>

------------------------
(* HTTP posts and the shutdown. *)

\* The post the client owes in its phase.
Owed ==
    CASE atCl.ph = "join" -> AtPost("join", "none")
      [] atCl.ph = "online" /\ atCl.intr \in {"retained", "gone"} -> AtPost("interrupt", atCl.intr)
      [] atCl.ph = "leaving" -> AtPost("leave", "none")
      [] atCl.ph = "reporting" -> AtPost("cleanup", "none")
      [] OTHER -> NoPost

\* The identity of a report does not depend on the connection it is sent over.
AtReceipt(p) == [op |-> p.op, gen |-> p.gen]
\* A cleanup report proves the runtime absent: the turn, the stop and the cleanup end with it.
AtCleanedUp == [AtAbsent(atRoom) EXCEPT !.cleanup = FALSE]

\* Whether the room accepts a post for the first time, and the row it leaves.
Accepts1(p) ==
    CASE p.op = "join" -> ~atRoom.used
      [] p.op = "leave" -> Authorized
      [] p.op = "cleanup" -> StopDue
      [] p.op = "interrupt" -> /\ CurrentLink(p.conn) /\ atRoom.effect = "dispatching"
                               /\ atRoom.gen = p.gen
      [] OTHER -> FALSE
Applied(p) ==
    CASE p.op = "join" -> [atRoom EXCEPT !.used = TRUE, !.member = "joined"]
      [] p.op = "leave" -> [atRoom EXCEPT !.cleanup = TRUE, !.member = "left"]
      [] p.op = "cleanup" -> AtCleanedUp
      [] p.op = "interrupt" -> IF p.kind = "retained" THEN AtClosed(atRoom) ELSE AtAbsent(atRoom)
      [] OTHER -> atRoom
\* A repeated post: the admission is replayed while the session lives, a report by its receipt.
Repeats(p) == IF p.op = "join" THEN atRoom.used /\ Authorized ELSE AtReceipt(p) \in atRoom.receipts
Committed(p) == Repeats(p) \/ Accepts1(p)
RoomAfter(p) ==
    IF Repeats(p) \/ ~Accepts1(p) THEN atRoom
    ELSE [Applied(p) EXCEPT !.receipts = @ \cup {AtReceipt(p)}]

\* What the client does with the answer.
AtAnswered(p, ok) ==
    CASE p.op = "join" -> [atCl EXCEPT !.ph = IF ok THEN "start" ELSE "failed"]
      [] p.op = "leave" -> [atCl EXCEPT !.ph = "asking", !.left = ok]
      [] p.op = "cleanup" -> [atCl EXCEPT !.ph = IF ok THEN "ended" ELSE "failed"]
      [] p.op = "interrupt" /\ ~ok -> [atCl EXCEPT !.ph = "stopping"]
      [] p.op = "interrupt" /\ ok /\ p.kind = "gone" ->
            [atCl EXCEPT !.ph = "stopping", !.intr = "none", !.exec = "none"]
      [] OTHER -> [atCl EXCEPT !.intr = "none", !.exec = "none", !.tool = "none",
                               !.ask = AskReady, !.sent = FALSE]

\* A post reaches the room and the client gets the answer.
ServePost ==
    /\ Owed # NoPost
    /\ atRoom' = RoomAfter(Owed)
    /\ atCl' = AtAnswered(Owed, Committed(Owed))
    /\ UNCHANGED <<atTask, atUp, atDown, atLoss, atRuns, atDone, atRolls>>

\* The post or its answer is lost: a lost interrupt report breaks the connection, the other
\* posts are sent again.
LosePost ==
    /\ Owed # NoPost /\ Faulty
    /\ atRoom' \in {atRoom, RoomAfter(Owed)}
    /\ \/ Owed.op # "interrupt" /\ UNCHANGED <<atCl, atDown>>
       \/ /\ Owed.op = "interrupt" /\ atCl.claims < AtConns
          /\ atCl' = Offline
          /\ atDown' = [atDown EXCEPT ![atCl.sock] = <<>>]
    /\ UNCHANGED <<atTask, atUp, atRuns, atDone, atRolls>>

\* shutdown_attendee: the runtime is stopped before the room is told anything.
Shutdown(prov) ==
    [atCl EXCEPT !.ph = IF atCl.remote THEN "reporting" ELSE "leaving", !.prov = prov,
                 !.exec = "none", !.intr = "none", !.tool = "none", !.ask = NoAsk, !.sent = FALSE,
                 !.live = FALSE, !.sock = 0]
\* Mutant: the room is told before the runtime stopped.
AtStopRuntime_later ==
    /\ atCl.ph = "stopping"
    /\ atCl' = Shutdown(atCl.prov)
    /\ atDown' = [k \in Links |-> <<>>]
    /\ UNCHANGED <<atRoom, atTask, atUp, atLoss, atRuns, atDone, atRolls>>
AtStopRuntime ==
    /\ atCl.ph = "stopping"
    /\ \/ atCl' = Shutdown(IF atCl.prov = "up" THEN "down" ELSE atCl.prov)
       \/ atCl.prov = "up" /\ atCl' = [atCl EXCEPT !.ph = "failed", !.sock = 0]
    /\ atDown' = [k \in Links |-> <<>>]
    /\ UNCHANGED <<atRoom, atTask, atUp, atLoss, atRuns, atDone, atRolls>>

\* After the leave the client reads whether the room wants a proof of its cleanup.
\* Mutant: an accepted leave ends the client without a look at the cleanup.
AskCleanup_skipped ==
    /\ atCl.ph = "asking"
    /\ Became(IF atCl.left THEN "ended" ELSE "failed")
    /\ UNCHANGED <<atRoom, atTask, atUp, atDown, atLoss, atRuns, atDone, atRolls>>
AskCleanup ==
    /\ atCl.ph = "asking"
    /\ Became(IF StopDue THEN "reporting" ELSE IF atCl.left THEN "ended" ELSE "failed")
    /\ UNCHANGED <<atRoom, atTask, atUp, atDown, atLoss, atRuns, atDone, atRolls>>

\* The budget of the remote part of the shutdown is used up.
GiveUp ==
    /\ atCl.ph \in {"leaving", "asking", "reporting"} /\ Faulty
    /\ atCl' = [atCl EXCEPT !.ph = "failed"]
    /\ UNCHANGED <<atRoom, atTask, atUp, atDown, atRuns, atDone, atRolls>>

\* The host stops and starts again: disconnect_attendees_before_admission.
RestartHost ==
    /\ atCl.ph = "online" /\ Faulty /\ atCl.claims < AtConns
    /\ atTask' = [k \in Links |-> IdleTask] /\ atUp' = [k \in Links |-> <<>>]
    /\ atRoom' = [atRoom EXCEPT !.net = IF @ = "none" THEN @ ELSE "disconnected"]
    /\ UNCHANGED <<atDown, atCl, atRuns, atDone, atRolls>>

TaskStep(k) ==
    \/ DeliverStop(k) \/ DeliverInterrupt(k) \/ LookForTurn(k) \/ DeliverTurn(k)
    \/ ReceiveRequest(k) \/ AtTaskEnds(k)
ClientStep ==
    \/ StartRuntime \/ AtConnect \/ ConnectRefused \/ SeesClose \/ CheckCleanup \/ SendAsk
    \/ ReceiveFrame \/ Collect \/ AtStopRuntime \/ AskCleanup

AtNext ==
    \/ AssignTurn \/ PrepareInterrupt \/ StopAttendee \/ RemoveAttendee \/ HostCleanup
    \/ \E k \in Links : TaskStep(k)
    \/ ClientStep \/ ServePost \/ Quiesce \/ ToolCall
    \/ SocketBreaks \/ LosePost \/ GiveUp \/ RestartHost

AtSpec == AtInit /\ [][AtNext]_atVars

------------------------
(* However often the socket breaks and whatever answer is lost, a turn enters the
   provider once, its result is published once and its random tool is rolled once;
   and while the provider works on a turn the room holds that very turn open, so that
   no report, interrupt, stop or removal closed it and no other turn was assigned
   (AttendeeRuntime::execute, record_attendee_turn_report, commit_attendee_random,
   record_attendee_interrupt, checkpoint_absence). *)
EachTurnOnce ==
    /\ \A g \in AtGens : /\ atRuns[g] <= 1 /\ atDone[g] <= 1 /\ atRolls[g] <= 1
                         /\ atDone[g] <= atRuns[g] /\ atRolls[g] <= atRuns[g]
    /\ atCl.exec = "running" => TurnOpen /\ atRoom.gen = atCl.gen

(* The room records the runtime as absent only when the client really stopped it
   (record_attendee_cleanup, AttendeeInterruptedRuntime::Gone). *)
AbsenceIsTrue == [][atRoom.bound /\ ~atRoom'.bound => atCl.prov = "down"]_atVars

(* An open turn, a stop and a removal settle: the room closes the turn and finishes the
   cleanup, unless the client could not prove that its runtime stopped. *)
RoomSettles ==
    (TurnOpen \/ atRoom.cleanup) ~> ((~TurnOpen /\ ~atRoom.cleanup) \/ atCl.ph = "failed")
=============================================================================
