---------------------------- MODULE ProviderRequests ----------------------------
(***************************************************************************)
(* Requests of a running provider to the owner of the agent: permission,   *)
(* user input, external action. A request is a durable row; the room task  *)
(* keeps the live exchange with the driver that asked, commits the owner's *)
(* answer, hands it over, and records how the delivery ended.              *)
(***************************************************************************)
EXTENDS Naturals, FiniteSets

CONSTANTS
    RqIds,     \* request identities, 1..n
    RqSession, \* the session that makes a request
    RqAnswers, \* answers of the owner
    RqLimit,   \* MAX_LIVE_REQUESTS
    RqTurns    \* bound: executions of a session

ASSUME RqAssumption == RqAnswers \subseteq Nat \ {0} /\ RqLimit \in Nat \ {0}

RqSessions == {RqSession[r] : r \in RqIds}

VARIABLES
    rqRow,    \* provider_requests
    rqDue,    \* requests whose deadline has passed
    rqTurn,   \* the current execution of a session and whether it has authority
    rqLive,   \* RequestBroker: pending entries, watches and the channels of an exchange
    rqDriver, \* where the driver is with a request
    rqExec,   \* the execution a request is asked for
    rqOwner,  \* the command of the owner the room task is in
    rqGiven   \* what the native provider was told (history)

rqVars == <<rqRow, rqDue, rqTurn, rqLive, rqDriver, rqExec, rqOwner, rqGiven>>

NoRow == [state |-> "none", exec |-> 0, answer |-> 0]
NoExchange == [pending |-> FALSE, delivery |-> 0, watch |-> FALSE, cancelled |-> TRUE,
               response |-> 0, completion |-> "none", receipt |-> "none"]
NoOwner == [request |-> 0, answer |-> 0]

RqInit ==
    /\ rqRow = [r \in RqIds |-> NoRow] /\ rqDue = {}
    /\ rqTurn = [s \in RqSessions |-> [exec |-> 1, allowed |-> TRUE]]
    /\ rqLive = [r \in RqIds |-> NoExchange]
    /\ rqDriver = [r \in RqIds |-> "none"]
    /\ rqExec = [r \in RqIds |-> 0]
    /\ rqOwner = NoOwner
    /\ rqGiven = [r \in RqIds |-> 0]

Pending(row) == row.state \in {"open", "resolving"}
Terminal == {"resolved", "failed", "expired", "cancelled"}

\* require_pending_authority_in
Authority(r) ==
    /\ rqTurn[RqSession[r]].allowed
    /\ rqRow[r].exec = rqTurn[RqSession[r]].exec

\* RequestBroker::reconcile, after every input of the room task
Reconciled(live, rows) ==
    [r \in RqIds |-> IF live[r].pending /\ ~Pending(rows[r])
                     THEN [live[r] EXCEPT !.pending = FALSE, !.cancelled = TRUE, !.delivery = 0] ELSE live[r]]

\* One input of the room task
Turn(rows, live) == rqRow' = rows /\ rqLive' = Reconciled(live, rows)
TaskFree == rqOwner = NoOwner

------------------------
\* The driver asks

\* ProviderRequestIngress::open
Ask(r) ==
    /\ rqDriver[r] = "none" /\ rqTurn[RqSession[r]].exec # 0
    /\ \A q \in RqIds : RqSession[q] = RqSession[r] => rqDriver[q] \in {"none", "ok"}
    /\ rqDriver' = [rqDriver EXCEPT ![r] = "opening"]
    /\ rqExec' = [rqExec EXCEPT ![r] = rqTurn[RqSession[r]].exec]
    /\ UNCHANGED <<rqRow, rqDue, rqTurn, rqLive, rqOwner, rqGiven>>

Refused(r) == rqDriver' = [rqDriver EXCEPT ![r] = IF @ = "opening" THEN "failed" ELSE @]

\* RequestBroker::open and open_in: the limit of live requests, the authority of
\* the turn and of its owner, one pending request of a session.
Open(r) ==
    /\ TaskFree /\ rqDriver[r] \in {"opening", "gone"} /\ rqRow[r] = NoRow /\ ~rqLive[r].watch
    /\ LET s == RqSession[r]
           full == Cardinality({q \in RqIds : rqLive[q].pending}) >= RqLimit
           busy == \E q \in RqIds : RqSession[q] = s /\ Pending(rqRow[q])
       IN \/ /\ full \/ busy \/ ~rqTurn[s].allowed \/ rqTurn[s].exec # rqExec[r]
             /\ Refused(r) /\ Turn(rqRow, rqLive)
          \/ /\ ~full /\ ~busy /\ rqTurn[s].allowed /\ rqTurn[s].exec = rqExec[r]
             /\ Turn([rqRow EXCEPT ![r] = [state |-> "open", exec |-> rqExec[r], answer |-> 0]],
                     [rqLive EXCEPT ![r] = [NoExchange EXCEPT !.pending = TRUE, !.watch = TRUE,
                                                              !.cancelled = rqDriver[r] = "gone"]])
             /\ rqDriver' = [rqDriver EXCEPT ![r] = IF @ = "opening" THEN "waiting" ELSE @]
    /\ UNCHANGED <<rqDue, rqTurn, rqExec, rqOwner, rqGiven>>

\* ProviderRequestExchange::receive
Receive(r) ==
    /\ rqDriver[r] = "waiting"
    /\ \/ rqLive[r].cancelled /\ rqDriver' = [rqDriver EXCEPT ![r] = "failed"]
       \/ ~rqLive[r].cancelled /\ rqLive[r].response # 0 /\ rqDriver' = [rqDriver EXCEPT ![r] = "writing"]
    /\ UNCHANGED <<rqRow, rqDue, rqTurn, rqLive, rqExec, rqOwner, rqGiven>>

\* The driver writes the answer to its provider, and complete reports that.
Write(r, written) ==
    /\ rqDriver[r] = "writing"
    /\ rqGiven' = [rqGiven EXCEPT ![r] = IF written THEN rqLive[r].response ELSE @]
    /\ rqLive' = [rqLive EXCEPT ![r].completion = IF written THEN "delivered" ELSE "undelivered"]
    /\ rqDriver' = [rqDriver EXCEPT ![r] = "completing"]
    /\ UNCHANGED <<rqRow, rqDue, rqTurn, rqExec, rqOwner>>

ReceiptRead(r) ==
    /\ rqDriver[r] = "completing" /\ rqLive[r].receipt # "none"
    /\ rqDriver' = [rqDriver EXCEPT ![r] = IF rqLive[r].receipt = "ok" THEN "ok" ELSE "failed"]
    /\ UNCHANGED <<rqRow, rqDue, rqTurn, rqLive, rqExec, rqOwner, rqGiven>>

\* The driver's call is dropped at an await, and the exchange with it.
Dropped(r) ==
    /\ rqDriver[r] \in {"opening", "waiting", "completing"}
    /\ rqDriver' = [rqDriver EXCEPT ![r] = "gone"]
    /\ rqLive' = [rqLive EXCEPT ![r].cancelled = TRUE]
    /\ UNCHANGED <<rqRow, rqDue, rqTurn, rqExec, rqOwner, rqGiven>>

------------------------
\* The owner answers

Answerable(r) == rqRow[r].state = "open" /\ r \notin rqDue

\* resolve_provider_request: the answer is committed before it is handed over;
\* the same answer again is a duplicate, another one a conflict.
ResolveCommit(r, a) ==
    /\ TaskFree /\ rqRow[r] # NoRow /\ Authority(r) /\ rqRow[r].answer = 0 /\ Answerable(r)
    /\ rqRow' = [rqRow EXCEPT ![r].state = "resolving", ![r].answer = a]
    /\ rqOwner' = [request |-> r, answer |-> a]
    /\ UNCHANGED <<rqDue, rqTurn, rqLive, rqDriver, rqExec, rqGiven>>

\* RequestBroker::resolve, after the commit
Respond ==
    /\ ~TaskFree
    /\ LET r == rqOwner.request
           x == rqLive[r]
       IN IF ~x.pending \/ x.cancelled \/ rqDriver[r] # "waiting"
          THEN Turn([rqRow EXCEPT ![r].state = IF @ = "resolving" THEN "failed" ELSE @],
                    [rqLive EXCEPT ![r].cancelled = TRUE])
          ELSE Turn(rqRow, [rqLive EXCEPT ![r].response = rqOwner.answer, ![r].delivery = rqOwner.answer])
    /\ rqOwner' = NoOwner
    /\ UNCHANGED <<rqDue, rqTurn, rqDriver, rqExec, rqGiven>>

------------------------
\* The end of a request

\* complete_provider_request_delivery: only within the deadline and the authority
\* may a delivery be recorded.
CanRecord(r) == rqRow[r].state = "resolving" /\ r \notin rqDue /\ Authority(r)


\* ProviderRequestCompletion::completion: a cancelled exchange was not delivered.
Delivered(r) == ~rqLive[r].cancelled /\ rqLive[r].completion = "delivered"

\* RequestBroker::complete; the store may fail.
Complete(r, expired, stored) ==
    /\ TaskFree /\ rqLive[r].watch
    /\ IF expired THEN r \in rqDue ELSE rqLive[r].cancelled \/ rqLive[r].completion # "none"
    /\ LET x == rqLive[r]
           row == rqRow[r]
           had == x.pending /\ x.delivery # 0
           recorded == had /\ ~expired /\ Delivered(r) /\ stored /\ CanRecord(r)
           state == IF ~x.pending \/ ~stored \/ ~Pending(row) THEN row.state
                    ELSE IF expired THEN "expired"
                    ELSE IF ~had THEN "cancelled"
                    ELSE IF recorded THEN "resolved"
                    ELSE IF Delivered(r) THEN row.state ELSE "failed"
       IN Turn([rqRow EXCEPT ![r].state = state],
               [rqLive EXCEPT ![r] = [@ EXCEPT !.pending = FALSE, !.watch = FALSE, !.cancelled = TRUE,
                                      !.delivery = 0, !.receipt = IF recorded THEN "ok" ELSE "error"]])
    /\ UNCHANGED <<rqDue, rqTurn, rqDriver, rqExec, rqOwner, rqGiven>>

Deadline(r) ==
    /\ rqRow[r] # NoRow /\ r \notin rqDue /\ rqDue' = rqDue \cup {r}
    /\ UNCHANGED <<rqRow, rqTurn, rqLive, rqDriver, rqExec, rqOwner, rqGiven>>

\* reconcile_session_in, in the transaction that ends the execution
Closed(s, r, exec) ==
    IF RqSession[r] # s \/ ~Pending(rqRow[r]) \/ (rqRow[r].exec = exec /\ r \notin rqDue) THEN rqRow[r]
    ELSE [rqRow[r] EXCEPT !.state = IF r \in rqDue THEN "expired" ELSE "cancelled"]

\* A turn ends: by an input of the room task or, recovered, by another task.
EndTurn(s, inRoom) ==
    /\ rqTurn[s].exec # 0 /\ (inRoom => TaskFree)
    /\ \A r \in RqIds : RqSession[r] = s => rqDriver[r] \in {"none", "ok", "failed", "gone"}
    /\ rqTurn' = [rqTurn EXCEPT ![s].exec = IF @ < RqTurns THEN @ + 1 ELSE 0]
    /\ LET rows == [r \in RqIds |-> Closed(s, r, 0)]
       IN IF inRoom THEN Turn(rows, rqLive) ELSE rqRow' = rows /\ UNCHANGED rqLive
    /\ UNCHANGED <<rqDue, rqDriver, rqExec, rqOwner, rqGiven>>

\* cancel_participant_in: the agent or its owner is muted or leaves.
CancelParticipant(s) ==
    /\ TaskFree /\ rqTurn[s].allowed
    /\ rqTurn' = [rqTurn EXCEPT ![s].allowed = FALSE]
    /\ Turn([r \in RqIds |-> IF RqSession[r] = s /\ Pending(rqRow[r])
                             THEN [rqRow[r] EXCEPT !.state = "cancelled"] ELSE rqRow[r]], rqLive)
    /\ UNCHANGED <<rqDue, rqDriver, rqExec, rqOwner, rqGiven>>

\* Mutant: a request whose answer was committed is taken for settled.
Failed_open(row) == IF row.state = "open" THEN [row EXCEPT !.state = "failed"] ELSE row

\* fail_provider_requests_before_admission
Failed(row) == IF Pending(row) THEN [row EXCEPT !.state = "failed"] ELSE row

\* The process dies with every exchange; the next one fails what was pending.
Restart ==
    /\ rqRow' = [r \in RqIds |-> Failed(rqRow[r])]
    /\ rqTurn' = [s \in RqSessions |-> [rqTurn[s] EXCEPT !.exec = 0]]
    /\ rqLive' = [r \in RqIds |-> NoExchange] /\ rqOwner' = NoOwner
    /\ rqDriver' = [r \in RqIds |-> IF rqDriver[r] \in {"none", "ok"} THEN rqDriver[r] ELSE "failed"]
    /\ UNCHANGED <<rqDue, rqExec, rqGiven>>

RqNext ==
    \/ Respond \/ Restart
    \/ \E r \in RqIds :
        \/ Ask(r) \/ Open(r) \/ Receive(r) \/ ReceiptRead(r) \/ Dropped(r) \/ Deadline(r)
        \/ \E written \in BOOLEAN : Write(r, written)
        \/ \E a \in RqAnswers : ResolveCommit(r, a)
        \/ \E expired, stored \in BOOLEAN : Complete(r, expired, stored)
    \/ \E s \in RqSessions :
        \/ CancelParticipant(s)
        \/ \E inRoom \in BOOLEAN : EndTurn(s, inRoom)

------------------------

\* The native provider is told the answer that is committed and no other; a row
\* is resolved only if the provider was told; the driver learns of a success
\* only when the row is resolved. Drops, deadlines, failing stores and answers
\* that are repeated or come late lead to a failure, never to a false receipt.
AnswersAreTrue ==
    \A r \in RqIds :
        /\ rqGiven[r] # 0 => rqGiven[r] = rqRow[r].answer
        /\ rqRow[r].state = "resolved" => rqGiven[r] # 0
        /\ rqDriver[r] = "ok" => rqRow[r].state = "resolved"

\* What the provider waits for ends: every pending request closes, by its answer,
\* its deadline, the end of its driver or turn, or a restart.
RequestsClose == \A r \in RqIds : Pending(rqRow[r]) ~> rqRow[r].state \in Terminal

\* A provider's request is settled truthfully, and it is settled: what is told is
\* what is stored, and nothing stays pending (provider_request_runtime.rs).
RequestsSettle == []AnswersAreTrue /\ RequestsClose
===============================================================================
