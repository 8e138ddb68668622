---------------------------- MODULE RoomCommands ----------------------------
(***************************************************************************)
(* One room as its clients see it: commands are admitted, queued to the    *)
(* room's actor, executed once in a transaction, their events published to *)
(* the subscribers, and the reply returned; sockets subscribe with a       *)
(* snapshot, catch up and follow the live events; the room is closed and   *)
(* deleted, and may be created again under the same id.                    *)
(*                                                                         *)
(* The store survives a crash of the server; the actor, its queues, the    *)
(* broadcast channel, the sockets and the mutation windows do not.         *)
(***************************************************************************)
EXTENDS Naturals, Sequences, FiniteSets, FiniteSetsExt

CONSTANTS
    Clients,     \* the local operator and the guests with a room session
    Sessions,    \* the clients that act through a durable room session
    Requests,    \* the commands the clients may issue
    Issuer, Key, \* who issues a request, and under which request id
    Kind,        \* "message", "leave" or "delete"
    Target,      \* the incarnation a deletion names
    Capacity,    \* ROOM_QUEUE_CAPACITY
    Inflight,    \* MAX_INFLIGHT_MUTATIONS
    Buffer,      \* EVENT_RECEIVER_CAPACITY
    CatchUp,     \* MAX_SUBSCRIPTION_CATCH_UP_EVENTS
    Quota,       \* MAX_MUTATIONS_PER_WINDOW
    RetryLimit,  \* RETRY_MAX_CONSECUTIVE_FAILURES
    Scripts      \* the bounds a behaviour may choose: tries of each command,
                 \* joins of each client, events of other owners, sessions ended,
                 \* rooms created again, expiring charges, crashes, store faults

ASSUME RoomCommandsAssumption ==
    /\ Sessions \subseteq Clients /\ "server" \notin Clients
    /\ Issuer \in [Requests -> Clients]
    /\ Kind \in [Requests -> {"message", "leave", "delete"}]
    /\ Target \in [Requests -> Nat]
    /\ {Capacity, Inflight, Buffer, CatchUp, Quota, RetryLimit} \subseteq Nat \ {0}
    /\ Scripts \subseteq [tries : [Requests -> Nat], joins : [Clients -> Nat], events : Nat,
                          ends : Nat, rooms : Nat, windows : Nat, crashes : Nat, faults : Nat]

VARIABLES
    room,     \* the room row: its incarnation and status
    log,      \* room_events of the current incarnation
    cursor,   \* room_event_publication_cursors
    results,  \* command_results of the current incarnation
    tombs,    \* room_delete_results
    cleanup,  \* whether room_runtime_cleanup still holds a row of the room
    valid,    \* the clients whose authority the store confirms
    task,     \* the room's entry in RoomRuntime.rooms: none, running or dead
    queue,    \* the mutations channel
    wake,     \* the publication_wake channel
    actor,    \* what the room task is doing
    retry,    \* its PublicationRetry
    window,   \* the mutation windows of the principals
    sock,     \* the connection of every client
    call,     \* what a client knows of each of its commands
    worker,   \* whether a committed event's owner has yet to wake the room
    seen,     \* the last event each client was shown (history)
    revoked,  \* where the log stood when a client lost its authority (history)
    left      \* what is left of the bounds

store   == <<room, log, cursor, results, tombs, cleanup, valid>>
memory  == <<task, queue, wake, actor, retry>>
history == <<seen, revoked>>
rcVars  == <<store, memory, window, sock, call, worker, history, left>>

------------------------
(* State. *)

NoRequest == "none"
Nowhere   == [uid |-> 0, seq |-> 0]

\* The room task between two inputs; else: the command in hand, whether its
\* issuer still waits, its debit and outcome, the sessions it revoked, and
\* whether the task was asked to finalize a deletion.
Idle == [pc |-> "idle", req |-> NoRequest, live |-> FALSE, debit |-> 0,
         out |-> "none", cut |-> {}, fin |-> FALSE]

\* A connection: the incarnation of its snapshot, the sequence delivered, the
\* high water of its catch-up, its broadcast receiver (buffer, lagged, closed),
\* a passed authority check whose frame is not yet sent, a revocation signal.
Off == [pc |-> "off", uid |-> 0, at |-> 0, high |-> 0, buf |-> <<>>, lag |-> FALSE,
        shut |-> FALSE, checked |-> FALSE, signal |-> FALSE]

Event(c, k, d)    == [by |-> c, key |-> k, kind |-> d]
Calm              == [failures |-> 0, armed |-> FALSE]
NoCharges         == [count |-> [r \in Requests |-> 0], retryable |-> [r \in Requests |-> 0],
                      last |-> [r \in Requests |-> 0], refused |-> {}]
Waiting(r)        == call[r] \in {"admitted", "queued"}
ViaSocket(r)      == Kind[r] # "delete"
Busy(c)           == \E r \in Requests : Issuer[r] = c /\ ViaSocket(r) /\ Waiting(r)
Spend(b)          == left[b] > 0 /\ left' = [left EXCEPT ![b] = @ - 1]
Pending(t)        == t.state = "pending"
Attached          == {c \in Clients : sock[c].pc # "off"}
Close(c)          == sock' = [sock EXCEPT ![c] = Off]

RoomCommandsInit ==
    /\ room = [uid |-> 1, status |-> "active"]
    /\ log = <<Event("server", "create", "created")>> /\ cursor = 0
    /\ results = {} /\ tombs = {} /\ cleanup = FALSE /\ valid = Clients
    /\ task = "none" /\ queue = <<>> /\ wake = {} /\ actor = Idle /\ retry = Calm
    /\ window = NoCharges
    /\ sock = [c \in Clients |-> Off] /\ call = [r \in Requests |-> "idle"]
    /\ worker = FALSE
    /\ seen = [c \in Clients |-> Nowhere] /\ revoked = [c \in Clients |-> Nowhere]
    /\ left \in Scripts

\* handle_locked: whoever needs the room's handle starts its task, which
\* publishes what is durable before it takes any input.
EnsureTask ==
    IF task = "none"
    THEN task' = "running" /\ actor' = [Idle EXCEPT !.pc = "drain"] /\ retry' = Calm
    ELSE UNCHANGED <<task, actor, retry>>

------------------------
(* What the store says of a request. *)

\* deletion_replay: the deletion this very request has started.
DeletionReplay(r) == Kind[r] = "delete" /\ \E t \in tombs : t.req = r
DeletionDone(r)   == \E t \in tombs : t.req = r /\ ~Pending(t)

\* reject_deleted_request_reuse: the request id of a deletion is spent.
SpentByDeletion(r) ==
    \E t \in tombs : t.req # r /\ Issuer[t.req] = Issuer[r] /\ Key[t.req] = Key[r]

\* existing_command: another action or payload is stored under this id.
Conflict(r) ==
    \/ SpentByDeletion(r)
    \/ \E s \in results \ {r} : Issuer[s] = Issuer[r] /\ Key[s] = Key[r]

\* active_room_for_principal; resolve_delete_request wants a local owner.
Authorized(r) ==
    \/ DeletionReplay(r)
    \/ /\ Issuer[r] \in valid /\ room.status = "active"
       /\ Kind[r] = "delete" => Issuer[r] \notin Sessions

\* command_requires_principal_budget: a leave disables its own issuer and is
\* free the first time; of the others only an identity not yet stored pays.
RequiresBudget(r) ==
    CASE DeletionReplay(r) -> FALSE
      [] Kind[r] = "leave" -> r \in results
      [] OTHER             -> r \notin results

------------------------
(* The mutation window of a principal. *)

Used(c) == MapThenSumSet(LAMBDA r : window.count[r], {r \in Requests : Issuer[r] = c})

\* PrincipalWindow::charge finds the unresolved debit of this identity.
CanReuse(r) == window.retryable[r] > 0

\* MutationState::charge: one more debit in the window, to be reused by the
\* same identity until it is resolved.
Charged(r) == [window EXCEPT !.count[r] = @ + 1, !.last[r] = @ + 1,
                             !.retryable[r] = window.last[r] + 1]
OverQuota(r) == ~CanReuse(r) /\ Used(Issuer[r]) >= Quota

\* MutationDebit::resolve: a stale debit resolves nothing.
Resolved(w, r, debit) ==
    IF debit > 0 /\ w.retryable[r] = debit THEN [w EXCEPT !.retryable[r] = 0] ELSE w

\* PrincipalWindow::prune: a minute later the debits of an identity are gone.
ChargesExpire(r) ==
    /\ window.count[r] > 0 /\ Spend("windows")
    /\ window' = [window EXCEPT !.count[r] = 0, !.retryable[r] = 0]
    /\ UNCHANGED <<store, memory, sock, call, worker, history>>

------------------------
(* A client issues a command. *)

\* The frame of a command reaches the socket's loop, or the local surface.
Issue(r) ==
    /\ call[r] \in {"idle", "unresolved"}
    /\ left.tries[r] > 0 /\ left' = [left EXCEPT !.tries[r] = @ - 1]
    /\ ViaSocket(r) => sock[Issuer[r]].pc = "live" /\ ~sock[Issuer[r]].checked
                       /\ ~Busy(Issuer[r])

\* The session or the incarnation of the socket has ended: it closes.
IssueCloses(r) ==
    LET c == Issuer[r] IN
    /\ Issue(r) /\ ViaSocket(r)
    /\ IF c \in Sessions THEN c \notin valid
       ELSE room.status = "absent" \/ sock[c].uid # room.uid
    /\ Close(c)
    /\ UNCHANGED <<store, memory, window, call, worker, history>>

SocketHolds(r) ==
    ViaSocket(r) => IF Issuer[r] \in Sessions THEN Issuer[r] \in valid
                    ELSE room.status # "absent" /\ sock[Issuer[r]].uid = room.uid

\* admit_current_command: a definitive refusal is charged and resolved.
IssueRefused(r) ==
    /\ Issue(r) /\ SocketHolds(r)
    /\ \/ Conflict(r) \/ ~Authorized(r)
       \/ RequiresBudget(r) /\ OverQuota(r)
    /\ call' = [call EXCEPT ![r] = "rejected"]
    /\ window' = IF OverQuota(r) THEN window
                 ELSE LET w == IF CanReuse(r) THEN window ELSE Charged(r)
                      IN  [Resolved(w, r, w.retryable[r]) EXCEPT !.refused = @ \cup {r}]
    /\ UNCHANGED <<store, memory, sock, worker, history>>

\* The permits of commands on their way to, in, or just out of the queue.
InFlight == Cardinality({r \in Requests : call[r] = "admitted"}) + Len(queue)
            + IF actor.req = NoRequest THEN 0 ELSE 1

\* The store fails, or every in-flight permit is taken: nothing is known.
IssueUnresolved(r) ==
    /\ Issue(r) /\ SocketHolds(r) /\ Authorized(r) /\ ~Conflict(r)
    /\ InFlight >= Inflight
    /\ ~(RequiresBudget(r) /\ OverQuota(r))
    /\ window' = IF RequiresBudget(r) /\ ~CanReuse(r) THEN Charged(r) ELSE window
    /\ call' = [call EXCEPT ![r] = "unresolved"]
    /\ UNCHANGED <<store, memory, sock, worker, history>>

IssueAdmitted(r) ==
    /\ Issue(r) /\ SocketHolds(r) /\ Authorized(r) /\ ~Conflict(r)
    /\ InFlight < Inflight
    /\ ~(RequiresBudget(r) /\ OverQuota(r))
    /\ window' = IF RequiresBudget(r) /\ ~CanReuse(r) THEN Charged(r) ELSE window
    /\ call' = [call EXCEPT ![r] = "admitted"]
    /\ UNCHANGED <<store, memory, sock, worker, history>>

\* The debit that an admitted command carries.
Debit(r) == IF RequiresBudget(r) THEN window.retryable[r] ELSE 0

\* enqueue_command: a completed deletion answers at once.
EnqueueReplayed(r) ==
    /\ call[r] = "admitted" /\ Kind[r] = "delete" /\ DeletionDone(r)
    /\ call' = [call EXCEPT ![r] = "ok"]
    /\ window' = Resolved(window, r, window.retryable[r])
    /\ UNCHANGED <<store, memory, sock, worker, history, left>>

\* try_send to the room's task; a full or closed channel leaves it unresolved.
Enqueue(r) ==
    /\ call[r] = "admitted" /\ ~(Kind[r] = "delete" /\ DeletionDone(r))
    /\ EnsureTask
    /\ IF task = "dead" \/ Len(queue) >= Capacity
       THEN call' = [call EXCEPT ![r] = "unresolved"] /\ UNCHANGED queue
       ELSE /\ call' = [call EXCEPT ![r] = "queued"]
            /\ queue' = Append(queue, [req |-> r, live |-> TRUE, debit |-> Debit(r),
                                       uid |-> IF ViaSocket(r) THEN sock[Issuer[r]].uid ELSE 0])
    /\ UNCHANGED <<store, wake, window, sock, worker, history, left>>

\* The connection breaks while the command is queued or executed: the client
\* learns nothing, the room task goes on.
CallerGone(r) ==
    /\ call[r] = "queued" /\ left.tries[r] > 0
    /\ call' = [call EXCEPT ![r] = "unresolved"]
    /\ queue' = [i \in DOMAIN queue |-> IF queue[i].req = r THEN [queue[i] EXCEPT !.live = FALSE]
                                        ELSE queue[i]]
    /\ actor' = IF actor.req = r THEN [actor EXCEPT !.live = FALSE] ELSE actor
    /\ IF ViaSocket(r) THEN Close(Issuer[r]) ELSE UNCHANGED sock
    /\ UNCHANGED <<store, task, wake, retry, window, worker, history, left>>

------------------------
(* The room task executes a command in one transaction. *)

\* Mutant: a retried command is executed again.
IsReplay_never(r) == FALSE

\* The stored result answers a command that was already committed.
IsReplay(r) == r \in results

\* RoomMutationAuthority::resolve, inside the transaction, and for the local
\* operator the incarnation its socket was opened on.
CommandAuthority(e) ==
    /\ Authorized(e.req)
    /\ Issuer[e.req] \in Sessions \/ e.uid = 0 \/ e.uid = room.uid

\* execute_room_delete: the payload names the incarnation.
NamesThisRoom(r) == Target[r] = room.uid /\ \A t \in tombs : t.uid # room.uid

Take == actor.pc = "idle" /\ task = "running" /\ queue # <<>> /\ queue' = Tail(queue)
InHand(e, pc, out, cut) == [Idle EXCEPT !.pc = pc, !.req = e.req, !.live = e.live,
                                        !.debit = e.debit, !.out = out, !.cut = cut]

\* The store fails, or the lifecycle tracker is held: unresolved, no effect.
ExecuteFails ==
    /\ Take /\ Spend("faults")
    /\ actor' = InHand(Head(queue), "reply", "unresolved", {})
    /\ UNCHANGED <<store, task, wake, retry, window, sock, call, worker, history>>

ExecuteRejected ==
    LET e == Head(queue) IN
    /\ Take
    /\ \/ ~CommandAuthority(e) \/ Conflict(e.req)
       \/ /\ Kind[e.req] = "delete" /\ ~DeletionReplay(e.req) /\ ~NamesThisRoom(e.req)
    /\ actor' = InHand(e, "reply", "rejected", {})
    /\ UNCHANGED <<store, task, wake, retry, window, sock, call, worker, history, left>>

\* A replay commits nothing; a pending deletion stays unresolved.
ExecuteReplayed ==
    LET e == Head(queue) IN
    /\ Take /\ CommandAuthority(e) /\ ~Conflict(e.req)
    /\ DeletionReplay(e.req) \/ IsReplay(e.req)
    /\ actor' = InHand(e, "reply", IF DeletionReplay(e.req) /\ ~DeletionDone(e.req)
                                   THEN "unresolved" ELSE "ok", {})
    /\ UNCHANGED <<store, task, wake, retry, window, sock, call, worker, history, left>>

\* Losing authority is recorded with the log as it stands after the commit.
Revoke(cs) ==
    /\ valid' = valid \ cs
    /\ revoked' = [c \in Clients |-> IF c \in cs \cap valid
                                     THEN [uid |-> room'.uid, seq |-> Len(log')] ELSE revoked[c]]

ExecuteMessage ==
    LET e == Head(queue) IN
    /\ Take /\ CommandAuthority(e) /\ ~Conflict(e.req)
    /\ Kind[e.req] = "message" /\ ~IsReplay(e.req)
    /\ log' = Append(log, Event(Issuer[e.req], Key[e.req], "message"))
    /\ results' = results \cup {e.req}
    /\ actor' = InHand(e, "drain", "ok", {})
    /\ UNCHANGED <<room, cursor, tombs, cleanup, valid, task, wake, retry, window, sock,
                   call, worker, history, left>>

ExecuteLeave ==
    LET e == Head(queue)  c == Issuer[e.req] IN
    /\ Take /\ CommandAuthority(e) /\ ~Conflict(e.req)
    /\ Kind[e.req] = "leave" /\ ~IsReplay(e.req)
    /\ log' = Append(log, Event(c, Key[e.req], "leave"))
    /\ results' = results \cup {e.req}
    /\ UNCHANGED room
    /\ Revoke({c})
    /\ actor' = InHand(e, "drain", "ok", {c})
    /\ UNCHANGED <<cursor, tombs, cleanup, task, wake, retry, window, sock, call, worker,
                   seen, left>>

\* The room closes, its access is revoked, its runtimes are to be cleaned up,
\* and a tombstone keeps the request; the rows go later.
ExecuteDelete ==
    LET e == Head(queue) IN
    /\ Take /\ CommandAuthority(e) /\ ~Conflict(e.req)
    /\ Kind[e.req] = "delete" /\ ~DeletionReplay(e.req) /\ NamesThisRoom(e.req)
    /\ room' = [room EXCEPT !.status = "closed"]
    /\ log' = Append(log, Event(Issuer[e.req], Key[e.req], "closed"))
    /\ tombs' = tombs \cup {[uid |-> room.uid, req |-> e.req, seq |-> Len(log) + 1,
                             state |-> "pending"]}
    /\ cleanup' = TRUE
    /\ Revoke(Sessions)
    /\ actor' = InHand(e, "drain", "unresolved", Sessions \cap valid)
    /\ UNCHANGED <<cursor, results, task, wake, retry, window, sock, call, worker, seen, left>>

Execute == \/ ExecuteFails \/ ExecuteRejected \/ ExecuteReplayed
           \/ ExecuteMessage \/ ExecuteLeave \/ ExecuteDelete

------------------------
(* Publication: send an event to the subscribers, then acknowledge it. *)

\* broadcast::Sender::send: a full receiver loses its oldest event.
Received(k, e) ==
    IF Len(k.buf) < Buffer THEN [k EXCEPT !.buf = Append(@, e)]
    ELSE [k EXCEPT !.buf = Append(Tail(@), e), !.lag = TRUE]

PublishSend ==
    /\ actor.pc = "drain" /\ cursor < Len(log)
    /\ sock' = [c \in Clients |-> IF c \in Attached /\ ~sock[c].shut
                                  THEN Received(sock[c], [uid |-> room.uid, seq |-> cursor + 1])
                                  ELSE sock[c]]
    /\ actor' = [actor EXCEPT !.pc = "ack"]
    /\ UNCHANGED <<store, task, queue, wake, retry, window, call, worker, history, left>>

PublishAck ==
    /\ actor.pc = "ack"
    /\ cursor' = cursor + 1
    /\ actor' = [actor EXCEPT !.pc = "drain"]
    /\ UNCHANGED <<room, log, results, tombs, cleanup, valid, task, queue, wake, retry,
                   window, sock, call, worker, history, left>>

\* What the task turns to once the drain is over.
AfterDrain(drained) ==
    CASE actor.fin /\ drained   -> [actor EXCEPT !.pc = "finalize"]
      [] actor.fin /\ ~drained  -> Idle
      [] ~actor.fin /\ actor.req # NoRequest -> [actor EXCEPT !.pc = "reply"]
      [] OTHER                  -> Idle

\* Mutant: a failed publication waits for the next input.
Recorded_unarmed(drained) ==
    CASE actor.fin             -> retry
      [] ~actor.fin /\ drained -> Calm
      [] OTHER                 -> [retry EXCEPT !.armed = FALSE]

\* PublicationRetry::record.
Recorded(drained) ==
    CASE actor.fin             -> retry
      [] ~actor.fin /\ drained -> Calm
      [] OTHER ->
            [failures |-> IF retry.failures < RetryLimit THEN retry.failures + 1 ELSE RetryLimit,
             armed    |-> retry.failures + 1 < RetryLimit]

DrainDone ==
    /\ actor.pc = "drain" /\ cursor = Len(log)
    /\ actor' = AfterDrain(TRUE) /\ retry' = Recorded(TRUE)
    /\ UNCHANGED <<store, task, queue, wake, window, sock, call, worker, history, left>>

\* Reading the backlog or acknowledging an event fails.
PublishFails ==
    /\ actor.pc \in {"drain", "ack"} /\ Spend("faults")
    /\ actor' = AfterDrain(FALSE) /\ retry' = Recorded(FALSE)
    /\ UNCHANGED <<store, task, queue, wake, window, sock, call, worker, history>>

\* CommandExecution::is_definitive.
Settles(out) == out # "unresolved"

\* The end of handle_room_command: revocation signals, then the reply.
Reply ==
    LET r == actor.req IN
    /\ actor.pc = "reply"
    /\ sock' = [c \in Clients |-> IF c \in actor.cut \cap Attached
                                  THEN [sock[c] EXCEPT !.signal = TRUE] ELSE sock[c]]
    /\ call' = IF actor.live THEN [call EXCEPT ![r] = actor.out] ELSE call
    /\ window' = IF Settles(actor.out)
                 THEN [Resolved(window, r, actor.debit) EXCEPT
                         !.refused = IF actor.out = "rejected" THEN @ \cup {r} ELSE @]
                 ELSE window
    /\ actor' = Idle
    /\ UNCHANGED <<store, task, queue, wake, retry, worker, history, left>>

\* A wake, or the retry timer.
WakeUp ==
    /\ actor.pc = "idle" /\ task = "running"
    /\ \/ "publish" \in wake /\ wake' = wake \ {"publish"}
          /\ actor' = [Idle EXCEPT !.pc = "drain"] /\ UNCHANGED retry
       \/ "finalize" \in wake /\ wake' = wake \ {"finalize"}
          /\ actor' = [Idle EXCEPT !.pc = "drain", !.fin = TRUE] /\ UNCHANGED retry
       \/ retry.armed /\ retry' = [retry EXCEPT !.armed = FALSE]
          /\ actor' = [Idle EXCEPT !.pc = "drain"] /\ UNCHANGED wake
    /\ UNCHANGED <<store, task, queue, window, sock, call, worker, history, left>>

\* Every caller whose command is still queued loses its reply.
QueueDropped ==
    /\ queue' = <<>>
    /\ call' = [r \in Requests |->
                  IF \E i \in DOMAIN queue : queue[i].req = r /\ queue[i].live
                  THEN "unresolved" ELSE call[r]]

\* A runtime failure could not be recorded, or the live provider requests not
\* be reconciled: the task stops, its handle stays in the map.
TaskDies ==
    /\ actor.pc = "idle" /\ task = "running" /\ Spend("faults")
    /\ task' = "dead" /\ wake' = {} /\ retry' = Calm /\ QueueDropped
    /\ UNCHANGED <<store, actor, window, sock, worker, history>>

\* Mutant: the rows go while a runtime of the room may still run.
MayFinish_running(t) == cursor >= t.seq

\* finish_room_deletion: no runtime is left and the close event is published.
MayFinish(t) == ~cleanup /\ cursor >= t.seq

\* finalize_owned_room.
Finalize ==
    /\ actor.pc = "finalize"
    /\ IF \E t \in tombs : Pending(t) /\ t.uid = room.uid /\ MayFinish(t)
       THEN /\ room' = [room EXCEPT !.status = "absent"]
            /\ log' = <<>> /\ cursor' = 0 /\ results' = {}
            /\ tombs' = {[t EXCEPT !.state = "complete"] : t \in tombs}
            /\ valid' = {}
            /\ task' = "none" /\ wake' = {} /\ retry' = Calm /\ QueueDropped
            /\ sock' = [c \in Clients |-> IF c \in Attached THEN [sock[c] EXCEPT !.shut = TRUE]
                                          ELSE sock[c]]
       ELSE UNCHANGED <<room, log, cursor, results, tombs, valid, task, wake, retry, queue,
                        call, sock>>
    /\ actor' = Idle
    /\ UNCHANGED <<cleanup, window, worker, history, left>>

RoomTask == \/ Execute \/ PublishSend \/ PublishAck \/ DrainDone \/ PublishFails
            \/ Reply \/ WakeUp \/ Finalize

------------------------
(* Other owners of the room's rows. *)

\* A lifecycle or clean-up worker commits an event of the room.
WorkerCommits ==
    /\ room.status # "absent" /\ ~worker /\ Spend("events")
    /\ log' = Append(log, Event("server", "work", "work"))
    /\ worker' = TRUE
    /\ UNCHANGED <<room, cursor, results, tombs, cleanup, valid, memory, window, sock, call,
                   history>>

\* The last runtime of the closing room is gone.
CleanupDone ==
    /\ cleanup /\ cleanup' = FALSE
    /\ UNCHANGED <<room, log, cursor, results, tombs, valid, memory, window, sock, call,
                   worker, history, left>>

\* notify_room_publication.
WorkerNotifies ==
    /\ worker /\ worker' = FALSE
    /\ EnsureTask
    /\ wake' = IF task = "dead" THEN wake ELSE wake \cup {"publish"}
    /\ UNCHANGED <<store, queue, window, sock, call, history, left>>

\* reconcile_deletion_page asks the task to finalize every pending deletion.
RequestFinalize ==
    /\ \E t \in tombs : Pending(t)
    /\ task # "dead" /\ "finalize" \notin wake /\ ~actor.fin
    /\ EnsureTask
    /\ wake' = wake \cup {"finalize"}
    /\ UNCHANGED <<store, queue, window, sock, call, worker, history, left>>

\* create_room_in_transaction: the id is free again.
CreateAgain ==
    /\ room.status = "absent" /\ Spend("rooms")
    /\ room' = [uid |-> room.uid + 1, status |-> "active"]
    /\ log' = <<Event("server", "create", "created")>> /\ cursor' = 0
    /\ valid' = Clients \ Sessions
    /\ worker' = TRUE
    /\ UNCHANGED <<results, tombs, cleanup, memory, window, sock, call, history>>

\* A session runs out, or its owner is removed by another surface.
SessionEnds(c) ==
    /\ c \in Sessions \cap valid /\ Spend("ends")
    /\ UNCHANGED <<room, log>>
    /\ Revoke({c})
    /\ sock' = [sock EXCEPT ![c].signal = sock[c].pc # "off"]
    /\ UNCHANGED <<cursor, results, tombs, cleanup, memory, window, call, worker, seen>>

------------------------
(* A socket: subscribe, snapshot, catch-up, live. *)

MayRead(c) == c \in valid /\ room.status = "active"

\* prepare_snapshot attaches the receiver before it reads the snapshot.
Subscribe(c) ==
    /\ sock[c].pc = "off" /\ MayRead(c) /\ ~Busy(c)
    /\ left.joins[c] > 0 /\ left' = [left EXCEPT !.joins[c] = @ - 1]
    /\ EnsureTask
    /\ sock' = [sock EXCEPT ![c] = [Off EXCEPT !.pc = "joined"]]
    /\ UNCHANGED <<store, queue, wake, window, call, worker, history>>

\* A cursor the room has not reached asks the client to start over.
ReadSnapshot(c) ==
    /\ sock[c].pc = "joined"
    /\ \/ /\ MayRead(c) /\ seen[c].seq <= Len(log)
          /\ sock' = [sock EXCEPT ![c] = [@ EXCEPT !.pc = "snapshot", !.uid = room.uid,
                                                   !.at = Len(log)]]
          /\ UNCHANGED seen
       \/ /\ MayRead(c) /\ seen[c].seq > Len(log)
          /\ Close(c) /\ seen' = [seen EXCEPT ![c] = Nowhere]
       \/ /\ ~MayRead(c) /\ Close(c) /\ UNCHANGED seen
    /\ UNCHANGED <<store, memory, window, call, worker, revoked, left>>

\* room_subscription_catch_up: what was committed since, up to a bound.
ReadCatchUp(c) ==
    /\ sock[c].pc = "snapshot"
    /\ sock' = [sock EXCEPT ![c] =
         IF MayRead(c) /\ sock[c].at <= Len(log) /\ Len(log) - sock[c].at <= CatchUp
         THEN [@ EXCEPT !.pc = "first", !.high = Len(log)] ELSE Off]
    /\ UNCHANGED <<store, memory, window, call, worker, history, left>>

Next_(k) == k.buf # <<>> /\ Head(k.buf).seq = k.at + 1
Terminal(c, k) == c \notin Sessions /\ \E t \in tombs : t.uid = k.uid /\ t.seq = k.at + 1

\* Mutant: a frame is sent on the authority of the subscription.
StillAuthorized_cached(c) == TRUE

\* refresh_room_session; for the operator resolve_principal, on live events.
StillAuthorized(c) == IF c \in Sessions THEN c \in valid
                      ELSE sock[c].pc = "live" => MayRead(c)

\* A frame is due: the authority is read first, the frame is sent after it.
Refresh(c) ==
    LET k == sock[c] IN
    /\ ~k.checked
    /\ \/ k.pc = "first"
       \/ k.pc = "catching" /\ k.at < k.high
       \/ k.pc = "live" /\ ~k.lag /\ ~Busy(c) /\ Next_(k) /\ ~Terminal(c, k)
    /\ sock' = [sock EXCEPT ![c] =
         IF ~StillAuthorized(c) THEN Off
         ELSE [k EXCEPT !.checked = TRUE, !.buf = IF k.pc = "live" THEN Tail(@) ELSE @]]
    /\ UNCHANGED <<store, memory, window, call, worker, history, left>>

\* The frame of a snapshot, of a caught-up event or of a live event.
Send(c) ==
    LET k == sock[c]  seq == IF k.pc = "first" THEN k.at ELSE k.at + 1 IN
    /\ k.checked
    /\ sock' = [sock EXCEPT ![c] = [k EXCEPT !.checked = FALSE, !.at = seq,
                                     !.pc = IF k.pc = "first" THEN "catching" ELSE @]]
    /\ seen' = [seen EXCEPT ![c] = [uid |-> k.uid, seq |-> seq]]
    /\ UNCHANGED <<store, memory, window, call, worker, revoked, left>>

\* Mutant: the receiver is attached when the catch-up has been sent.
GoLive_attaches(c) ==
    /\ sock[c].pc = "catching" /\ sock[c].at = sock[c].high
    /\ sock' = [sock EXCEPT ![c] = [@ EXCEPT !.pc = "live", !.buf = <<>>]]
    /\ UNCHANGED <<store, memory, window, call, worker, history, left>>

GoLive(c) ==
    /\ sock[c].pc = "catching" /\ sock[c].at = sock[c].high
    /\ sock' = [sock EXCEPT ![c].pc = "live"]
    /\ UNCHANGED <<store, memory, window, call, worker, history, left>>

Contiguous(k) == Head(k.buf).seq <= k.at + 1

\* A live event already delivered is skipped; after a gap or a lag the client
\* must resynchronize; the operator gets the terminal event and is done.
Drop(c) ==
    LET k == sock[c] IN
    /\ k.pc = "live" /\ ~k.checked /\ ~Busy(c)
    /\ \/ /\ k.lag \/ (k.buf # <<>> /\ ~Contiguous(k))
          /\ Close(c) /\ UNCHANGED seen
       \/ /\ ~k.lag /\ k.buf # <<>> /\ Contiguous(k) /\ ~Next_(k)
          /\ sock' = [sock EXCEPT ![c].buf = Tail(@)] /\ UNCHANGED seen
       \/ /\ ~k.lag /\ Next_(k) /\ Terminal(c, k)
          /\ Close(c) /\ seen' = [seen EXCEPT ![c] = [uid |-> k.uid, seq |-> k.at + 1]]
    /\ UNCHANGED <<store, memory, window, call, worker, revoked, left>>

\* The channel is closed, the session was revoked or expired, the client left.
SocketEnds(c) ==
    LET k == sock[c] IN
    /\ k.pc = "live" /\ ~k.checked /\ ~Busy(c)
    /\ k.signal \/ (k.shut /\ k.buf = <<>>)
    /\ Close(c)
    /\ UNCHANGED <<store, memory, window, call, worker, history, left>>

Disconnect(c) ==
    /\ sock[c].pc # "off" /\ ~Busy(c) /\ left.joins[c] > 0
    /\ Close(c)
    /\ UNCHANGED <<store, memory, window, call, worker, history, left>>

SocketStep(c) == \/ ReadSnapshot(c) \/ ReadCatchUp(c) \/ Refresh(c) \/ Send(c) \/ GoLive(c)
                 \/ Drop(c) \/ SocketEnds(c)

\* The server dies and starts again.
Crash ==
    /\ Spend("crashes")
    /\ task' = "none" /\ queue' = <<>> /\ wake' = {} /\ actor' = Idle /\ retry' = Calm
    /\ window' = [NoCharges EXCEPT !.refused = window.refused]
    /\ sock' = [c \in Clients |-> Off]
    /\ call' = [r \in Requests |-> IF Waiting(r) THEN "unresolved" ELSE call[r]]
    /\ worker' = FALSE
    /\ UNCHANGED <<store, history>>

ClientStep(r) == \/ IssueCloses(r) \/ IssueRefused(r) \/ IssueUnresolved(r) \/ IssueAdmitted(r)
                 \/ CallerGone(r) \/ ChargesExpire(r)
Admitted(r)   == EnqueueReplayed(r) \/ Enqueue(r)

RoomCommandsNext ==
    \/ \E r \in Requests : ClientStep(r) \/ Admitted(r)
    \/ \E c \in Clients : Subscribe(c) \/ SocketStep(c) \/ Disconnect(c) \/ SessionEnds(c)
    \/ RoomTask \/ TaskDies
    \/ WorkerCommits \/ CleanupDone \/ WorkerNotifies \/ RequestFinalize \/ CreateAgain
    \/ Crash

\* Every task of the server is polled; clients, workers' commits, faults and
\* crashes owe nothing.  The clean-up is retried until it ends.
RoomCommandsFairness ==
    /\ WF_rcVars(RoomTask) /\ WF_rcVars(WorkerNotifies)
    /\ WF_rcVars(CleanupDone) /\ SF_rcVars(RequestFinalize)
    /\ \A c \in Clients : WF_rcVars(SocketStep(c))
    /\ \A r \in Requests : WF_rcVars(Admitted(r))

RoomCommandsSpec == RoomCommandsInit /\ [][RoomCommandsNext]_rcVars /\ RoomCommandsFairness

------------------------
(* Properties. *)

\* A connection that follows the room misses nothing without knowing: every
\* event published beyond what it delivered waits in its receiver, unless that
\* receiver has lagged, whatever was committed and published between the
\* attachment, the snapshot and the catch-up, and however often an event was
\* sent again.
NothingMissed ==
    \A c \in Clients :
      LET k == sock[c] IN
      (k.pc \in {"snapshot", "first", "catching", "live"} /\ ~k.lag /\ ~k.shut /\ k.uid = room.uid)
        => \A q \in (k.at + 1)..cursor :
             \/ \E i \in DOMAIN k.buf : k.buf[i] = [uid |-> room.uid, seq |-> q]
             \/ k.checked /\ k.pc = "live" /\ q = k.at + 1
             \/ k.pc # "live" /\ q <= k.high

\* A command takes effect at most once, however often it is retried, dropped by
\* its connection or interrupted by a crash, and a client that was told "ok" of
\* a message finds it in the log.
CommittedOnce ==
    /\ \A i, j \in DOMAIN log : log[i].by \in Clients /\ i # j
         => [log[i] EXCEPT !.kind = ""] # [log[j] EXCEPT !.kind = ""]
    /\ \A r \in results : \E i \in DOMAIN log : log[i] = Event(Issuer[r], Key[r], Kind[r])

\* A client that lost its authority is shown nothing committed afterwards and
\* commits nothing afterwards, although its frames and commands may have been
\* in flight.
RevokedIsOut ==
    \A c \in Sessions : c \notin valid =>
      /\ seen[c].uid = revoked[c].uid => seen[c].seq <= revoked[c].seq
      /\ seen[c].uid <= revoked[c].uid
      /\ room.uid = revoked[c].uid =>
           \A i \in DOMAIN log : log[i].by = c => i <= revoked[c].seq

\* The rows of a room, and with them every way to name its runtimes, only go
\* once no runtime is left to clean up and the close event was published,
\* whatever crashes, faults and commits came between.
DeletedWhenQuiet ==
    [][room.status = "closed" /\ room'.status = "absent"
         => ~cleanup /\ \E t \in tombs : t.uid = room.uid /\ cursor >= t.seq]_rcVars

\* A live subscriber gets every committed event or is told to reconnect, unless
\* the task stopped or gave up retrying its publication.
SubscribersCatchUp ==
    \A c \in Clients :
      [](sock[c].pc = "live" /\ sock[c].at < Len(log) /\ sock[c].uid = room.uid
           => <>(\/ sock[c].pc = "off" \/ sock[c].at = Len(log)
                 \/ task # "running" \/ retry.failures >= RetryLimit))

=============================================================================
