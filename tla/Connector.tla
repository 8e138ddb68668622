------------------------------ MODULE Connector ------------------------------
(***************************************************************************)
(* The room connector: an MCP hub that admits AI conversations to a room   *)
(* with a one-use invitation.  Each connection of the hub owns one client: *)
(* the identity of its join, the one command whose answer it still misses, *)
(* the cursor of room_wait_next and the receipt of its leave.  The room    *)
(* keeps the invitation with its session, the events and the command       *)
(* receipts.  An answer of the room may be lost before or after its        *)
(* commit, and the hub's answer to the conversation after that.            *)
(***************************************************************************)
EXTENDS Naturals, Sequences, FiniteSets

CONSTANTS CnConns,   \* connections of the hub
          CnIds,     \* request identities the conversation uses for messages
          CnPage,    \* events one read returns (SNAPSHOT_EVENTS)
          CnEvents,  \* bound on the room's events
          CnLosses   \* lost answers of the room, full queues and lagging subscriptions

VARIABLES
    cnMode,    \* "local": one conversation over stdio; "remote": an allow-listed registry
    cnInvite,  \* the invitation row and the session it became
    cnLog,     \* the room's events, in order: who spoke, under which request
    cnCl,      \* per connection, the client it owns
    cnHeard,   \* per connection, the messages its waits gave since it joined: seen by the
               \* conversation, in answers on their way to it, lost with such an answer
    cnTold,    \* per message, the answer the conversation got
    cnLate,    \* messages still in the room's queue when the wait for their answer was given up
    cnLoss     \* faults so far

cnVars == <<cnMode, cnInvite, cnLog, cnCl, cnHeard, cnTold, cnLate, cnLoss>>

Conversations == 1 .. CnConns
NoHearing == [seen |-> {}, way |-> {}]
NoClient == [st |-> "absent", tried |-> FALSE, closed |-> FALSE, pend |-> 0, left |-> FALSE,
             base |-> 0, cursor |-> 0, wait |-> "none", sub |-> 0, given |-> 0]
LeaveId == 99

\* A message has an identity of its own: not the one of an admission, of somebody
\* else's event or of a leave.
ASSUME CnAssumption == CnIds \subseteq Nat \ {0, LeaveId} /\ CnConns \in Nat /\ CnPage \in Nat /\ CnEvents \in Nat

Event(who, id) == [by |-> who, id |-> id]
LastSeq == Len(cnLog)

CnInit ==
    /\ cnMode \in {"local", "remote"}
    /\ cnInvite = [used |-> 0, revoked |-> FALSE, expired |-> FALSE, left |-> FALSE]
    /\ cnLog = <<>>
    /\ cnCl = [c \in Conversations |-> NoClient]
    /\ cnHeard = [c \in Conversations |-> NoHearing]
    /\ cnTold = [i \in CnIds |-> "none"] /\ cnLate = {}
    /\ cnLoss = 0

CnFault == cnLoss < CnLosses /\ cnLoss' = cnLoss + 1
Client(c, r) == cnCl' = [cnCl EXCEPT ![c] = r]
\* A closed client answers nothing; one that left keeps only its receipt.
Open(c) == cnCl[c].st # "absent" /\ ~cnCl[c].closed
\* authorize_in: the session lives while its participant is joined.
CnSession(c) == cnInvite.used = c /\ ~cnInvite.revoked
Log(e) == cnLog' = Append(cnLog, e)
Room4Event == LastSeq < CnEvents

------------------------
(* Admission. *)

\* reserve: a slot of the hub; stdio has one conversation at a time.
Reserve(c) ==
    /\ cnCl[c].st = "absent"
    /\ cnMode = "local" => \A d \in Conversations : cnCl[d].st = "absent" \/ cnCl[d].left
    /\ Client(c, [NoClient EXCEPT !.st = "pending"])
    /\ UNCHANGED <<cnMode, cnLate, cnInvite, cnLog, cnHeard, cnTold, cnLoss>>

\* admit_connector: the first client consumes the invitation, the same client gets it again.
AdmitFirst(c) == ~cnInvite.revoked /\ cnInvite.used = 0 /\ ~cnInvite.expired /\ Room4Event
AdmitAgain(c) == CnSession(c)
Admits(c) ==
    IF AdmitFirst(c) THEN cnInvite' = [cnInvite EXCEPT !.used = c] /\ Log(Event(c, 0))
                     ELSE UNCHANGED <<cnInvite, cnLog>>
Removed(c) == Client(c, NoClient)

\* The join is sent: answered, refused for good, or its answer is lost.
JoinPost(c) ==
    /\ Open(c) /\ cnCl[c].st = "pending"
    /\ \/ /\ AdmitFirst(c) \/ AdmitAgain(c)
          /\ Admits(c) /\ Client(c, [cnCl[c] EXCEPT !.st = "admitted", !.tried = TRUE])
          /\ UNCHANGED cnLoss
       \/ /\ ~AdmitFirst(c) /\ ~AdmitAgain(c)
          /\ Removed(c) /\ UNCHANGED <<cnInvite, cnLog, cnLoss>>
       \/ /\ CnFault /\ Client(c, [cnCl[c] EXCEPT !.tried = TRUE])
          /\ Admits(c) \/ UNCHANGED <<cnInvite, cnLog>>
    /\ UNCHANGED <<cnMode, cnLate, cnHeard, cnTold>>

\* The room's queue is full: the attempt is rejected, and with it the client.
JoinBusy(c) ==
    /\ Open(c) /\ cnCl[c].st = "pending" /\ CnFault
    /\ Removed(c)
    /\ UNCHANGED <<cnMode, cnLate, cnInvite, cnLog, cnHeard, cnTold>>

\* The first read after the admission sets the cursor.
JoinRead(c) ==
    /\ Open(c) /\ cnCl[c].st = "admitted" /\ CnSession(c)
    /\ Client(c, [cnCl[c] EXCEPT !.st = "ready", !.base = LastSeq, !.cursor = LastSeq])
    /\ cnHeard' = [cnHeard EXCEPT ![c] = NoHearing]
    /\ UNCHANGED <<cnMode, cnLate, cnInvite, cnLog, cnTold, cnLoss>>

\* cancel_prepared: a connection that never tried to join is given up.
CancelPrepared(c) ==
    /\ Open(c) /\ cnCl[c].st = "pending" /\ ~cnCl[c].tried
    /\ Removed(c)
    /\ UNCHANGED <<cnMode, cnLate, cnInvite, cnLog, cnHeard, cnTold, cnLoss>>

------------------------
(* Commands: one at a time, with one identity until its answer is known. *)

Unanswered(c, id) == [cnCl[c] EXCEPT !.pend = id]
Stored(id) == \E n \in 1 .. LastSeq : cnLog[n].id = id
MayAsk(c, id) == cnCl[c].pend \in {0, id}

\* The hub's answer to a tool reaches the conversation, or is lost after the hub took the room's.
Tells(id, what) == cnTold' = [cnTold EXCEPT ![id] = what] \/ UNCHANGED cnTold

\* room_say and the other writing tools, under the identity the conversation gave.  A message
\* is refused when the session ended, or the write budget is spent and it is not stored.
Say(c, id) ==
    /\ Open(c) /\ cnCl[c].st = "ready" /\ MayAsk(c, id) /\ cnTold[id] # "committed"
    /\ LET Commits == IF CnSession(c) /\ ~Stored(id) THEN Log(Event(c, id)) ELSE UNCHANGED cnLog
       IN  \/ /\ CnSession(c) /\ (Stored(id) \/ Room4Event) /\ Commits
              /\ Client(c, [cnCl[c] EXCEPT !.pend = 0])
              /\ Tells(id, "committed") /\ UNCHANGED <<cnLate, cnLoss>>
           \/ /\ ~CnSession(c) \/ ~Stored(id)
              /\ Client(c, [cnCl[c] EXCEPT !.pend = 0])
              /\ Tells(id, "rejected") /\ UNCHANGED <<cnLog, cnLate, cnLoss>>
           \/ /\ CnFault /\ Client(c, Unanswered(c, id)) /\ UNCHANGED cnTold
              /\ \/ ((Room4Event /\ Commits) \/ UNCHANGED cnLog) /\ UNCHANGED cnLate
                 \/ cnLate' = cnLate \cup {<<c, id>>} /\ UNCHANGED cnLog
    /\ UNCHANGED <<cnMode, cnInvite, cnHeard>>

\* The room comes to a message whose sender waits no more.
RoomTakesLate(c, id) ==
    /\ <<c, id>> \in cnLate /\ cnLate' = cnLate \ {<<c, id>>}
    /\ \/ CnSession(c) /\ ~Stored(id) /\ Room4Event /\ Log(Event(c, id))
       \/ UNCHANGED cnLog
    /\ UNCHANGED <<cnMode, cnInvite, cnCl, cnHeard, cnTold, cnLoss>>

\* room_leave: the receipt answers a leave that was committed, after it revoked the session.
LeaveRoom(c) ==
    /\ Open(c) /\ cnCl[c].st \in {"admitted", "ready"} /\ MayAsk(c, LeaveId)
    /\ LET Commits == /\ cnInvite' = [cnInvite EXCEPT !.revoked = TRUE, !.left = TRUE]
                      /\ Log(Event(c, LeaveId))
           done == cnInvite.left
       IN  \/ /\ done \/ (CnSession(c) /\ Room4Event)
              /\ IF done THEN UNCHANGED <<cnInvite, cnLog>> ELSE Commits
              /\ Client(c, [cnCl[c] EXCEPT !.left = TRUE, !.closed = TRUE, !.pend = 0, !.wait = "none",
                                         !.sub = 0, !.given = 0])
              /\ UNCHANGED cnLoss
           \/ /\ ~done /\ ~CnSession(c)
              /\ Client(c, [cnCl[c] EXCEPT !.pend = 0]) /\ UNCHANGED <<cnInvite, cnLog, cnLoss>>
           \/ /\ CnFault /\ Client(c, Unanswered(c, LeaveId))
              /\ \/ CnSession(c) /\ Room4Event /\ Commits
                 \/ UNCHANGED <<cnInvite, cnLog>>
    /\ UNCHANGED <<cnMode, cnLate, cnHeard, cnTold>>

\* The receipt of a leave is given up and its slot with it.
ReleaseReceipt(c) ==
    /\ cnCl[c].left /\ Removed(c)
    /\ UNCHANGED <<cnMode, cnLate, cnInvite, cnLog, cnHeard, cnTold, cnLoss>>

------------------------
(* room_wait_next: the room's events are subscribed to before the page after *)
(* the cursor is read; the cursor is locked while a wait is under way, and    *)
(* what the wait holds of the subscription ends with it.                      *)

Others(c, from, to) == {n \in from + 1 .. to : cnLog[n].by # c}
Waiting(c, place) == Open(c) /\ cnCl[c].wait = place
EndWait(c) == Client(c, [cnCl[c] EXCEPT !.wait = "none", !.sub = 0, !.given = 0])

WaitNext(c) ==
    /\ Waiting(c, "none") /\ cnCl[c].st = "ready" /\ CnSession(c)
    /\ Client(c, [cnCl[c] EXCEPT !.wait = "subscribed", !.sub = LastSeq])
    /\ UNCHANGED <<cnMode, cnLate, cnInvite, cnLog, cnHeard, cnTold, cnLoss>>

\* The room's answer is in the hub: the cursor moves, and the answer is on its way on to the
\* conversation.  One lost before that ends the wait (WaitEnds).
\* Mutant: the cursor moves before the answer is in.
HubAnswers_early(c, last) ==
    /\ Client(c, [cnCl[c] EXCEPT !.wait = "none", !.sub = 0, !.given = 0, !.cursor = last])
    /\ \/ cnHeard' = [cnHeard EXCEPT ![c].way = @ \cup {Others(c, cnCl[c].cursor, last)}]
       \/ UNCHANGED cnHeard
    /\ UNCHANGED cnLoss
HubAnswers(c, last) ==
    /\ Client(c, [cnCl[c] EXCEPT !.wait = "none", !.sub = 0, !.given = 0, !.cursor = last])
    /\ cnHeard' = [cnHeard EXCEPT ![c].way = @ \cup {Others(c, cnCl[c].cursor, last)}]
    /\ UNCHANGED cnLoss

\* An answer of the hub reaches the conversation.  One whose call was cancelled or cut off
\* never does: it stays on its way.
Delivered(c) ==
    /\ \E page \in cnHeard[c].way :
          cnHeard' = [cnHeard EXCEPT ![c] = [seen |-> @.seen \cup page, way |-> @.way \ {page}]]
    /\ UNCHANGED <<cnMode, cnLate, cnInvite, cnLog, cnCl, cnTold, cnLoss>>

WaitSnapshot(c) ==
    /\ Waiting(c, "subscribed")
    /\ IF ~CnSession(c) \/ LastSeq - cnCl[c].cursor > CnPage
       THEN EndWait(c) /\ UNCHANGED <<cnHeard, cnLoss>>
       ELSE IF Others(c, cnCl[c].cursor, LastSeq) # {} THEN HubAnswers(c, LastSeq)
       ELSE /\ Client(c, [cnCl[c] EXCEPT !.wait = "events", !.given = LastSeq])
            /\ UNCHANGED <<cnHeard, cnLoss>>
    /\ UNCHANGED <<cnMode, cnLate, cnInvite, cnLog, cnTold>>

\* One event of the subscription; own events are passed over, a lagging subscription
\* sends the conversation to a resync.
WaitEvent(c) ==
    /\ Waiting(c, "events") /\ cnCl[c].sub < LastSeq
    /\ LET n == cnCl[c].sub + 1 IN
       \/ CnFault /\ EndWait(c) /\ UNCHANGED cnHeard
       \/ ~CnSession(c) /\ EndWait(c) /\ UNCHANGED <<cnHeard, cnLoss>>
       \/ CnSession(c) /\ n > cnCl[c].given /\ cnLog[n].by # c /\ HubAnswers(c, n)
       \/ /\ CnSession(c) /\ (n <= cnCl[c].given \/ cnLog[n].by = c)
          /\ Client(c, [cnCl[c] EXCEPT !.sub = n, !.given = IF n > @ THEN n ELSE @])
          /\ UNCHANGED <<cnHeard, cnLoss>>
    /\ UNCHANGED <<cnMode, cnLate, cnInvite, cnLog, cnTold>>

\* The conversation cancels its wait, the room's answer is lost, or a revocation ends it: the
\* cursor stays.
WaitEnds(c) ==
    /\ cnCl[c].wait # "none"
    /\ EndWait(c)
    /\ UNCHANGED <<cnMode, cnLate, cnInvite, cnLog, cnHeard, cnTold, cnLoss>>

\* room_read with resync gives the latest messages, which need not reach back to the cursor,
\* and what a wait observes starts anew behind them.
Resync(c) ==
    /\ Waiting(c, "none") /\ cnCl[c].st = "ready" /\ CnSession(c)
    /\ Client(c, [cnCl[c] EXCEPT !.base = LastSeq, !.cursor = LastSeq])
    /\ UNCHANGED <<cnMode, cnLate, cnInvite, cnLog, cnHeard, cnTold, cnLoss>>

------------------------
(* The room. *)

OtherSpeaks ==
    /\ Room4Event /\ Log(Event(0, 0))
    /\ UNCHANGED <<cnMode, cnLate, cnInvite, cnCl, cnHeard, cnTold, cnLoss>>

\* A kick, an export or an archive revokes the invitation and its session; time ends an unused one.
RevokeConnector ==
    /\ ~cnInvite.revoked
    /\ cnInvite' \in {[cnInvite EXCEPT !.revoked = TRUE], [cnInvite EXCEPT !.expired = TRUE]}
    /\ UNCHANGED <<cnMode, cnLate, cnLog, cnCl, cnHeard, cnTold, cnLoss>>

\* The hub closes every client.
HubClose ==
    /\ \E c \in Conversations : cnCl[c].st # "absent"
    /\ cnCl' = [c \in Conversations |-> [cnCl[c] EXCEPT !.closed = TRUE, !.wait = "none", !.sub = 0, !.given = 0]]
    /\ UNCHANGED <<cnMode, cnLate, cnInvite, cnLog, cnHeard, cnTold, cnLoss>>

CnNext ==
    \/ \E c \in Conversations :
        \/ Reserve(c) \/ JoinPost(c) \/ JoinBusy(c) \/ JoinRead(c) \/ CancelPrepared(c)
        \/ LeaveRoom(c) \/ ReleaseReceipt(c) \/ WaitNext(c) \/ WaitSnapshot(c) \/ WaitEvent(c)
        \/ WaitEnds(c) \/ Delivered(c) \/ Resync(c)
        \/ \E id \in CnIds : Say(c, id) \/ RoomTakesLate(c, id)
    \/ OtherSpeaks \/ RevokeConnector \/ HubClose

CnSpec == CnInit /\ [][CnNext]_cnVars

------------------------
Given(c) == cnHeard[c].seen \cup UNION cnHeard[c].way

(* The cursor of room_wait_next only passes a message of somebody else by giving it: since
   the conversation joined, or asked for a resync, each message behind the cursor was seen by
   the conversation, is in an answer on its way, or was in an answer of the hub that was lost
   (wait, wait_next).  And no wait gives a message twice: what was given is behind the cursor.
   What was lost between the hub and the conversation no later wait repeats. *)
NothingSkipped ==
    \A c \in Conversations :
        cnCl[c].st = "ready" => /\ Others(c, cnCl[c].base, cnCl[c].cursor) \subseteq Given(c)
                               /\ Given(c) \subseteq 1 .. cnCl[c].cursor

(* A message is in the room at most once, however often its answer was lost, its tool called
   again and a copy left in the queue, and it is there when the conversation was told so
   (command_identified, execute_connector). *)
SaidOnce ==
    \A id \in CnIds :
        /\ Cardinality({n \in 1 .. LastSeq : cnLog[n].id = id}) <= 1
        /\ cnTold[id] = "committed" => Stored(id)

(* A conversation over a connector is true in both directions: the hub gives it each message
   that is said to it, once, and what it says is in the room once when it was told so, whatever
   answers are lost and calls are repeated (room_wait_next, room_say). *)
ConversationIsTrue == NothingSkipped /\ SaidOnce
=============================================================================
