----------------------------- MODULE RoomFloor -----------------------------
(***************************************************************************)
(* The turn floor of one room: which agent session may speak next, what    *)
(* room input it is handed, and what becomes of that input when its turn   *)
(* ends.  Every store method of the persistence crate is one SQLite        *)
(* transaction, hence one action; a transaction that returns an error      *)
(* changes nothing, hence its action is simply not enabled.                *)
(*                                                                         *)
(* Only canonical messages (event type message_final) are kept in the log, *)
(* and an event's seq is its position in it: control events (turn_started, *)
(* agent_session_state, ...) also consume sequence numbers, but the floor  *)
(* only compares the numbers of messages.                                  *)
(***************************************************************************)
EXTENDS Naturals, Sequences, FiniteSets

CONSTANTS
    Sessions,         \* agent session ids, ordered like the stored ids
    Directors,        \* sessions whose participant has role Director
    Launched,         \* sessions whose runtime is attached when the run begins
    ExcludePrevious,  \* room setting ordered_exclude_previous_speaker
    MaxQueue,         \* MAX_QUEUED_EVENT_IDS, 256 in the code
    MaxBatch,         \* MAX_CONTEXT_MESSAGES, 50 in the code
    MaxSeq            \* bound on the length of the log

ASSUME SessionsAssumption ==
    /\ Sessions \subseteq Nat \ {0}
    /\ Directors \subseteq Sessions
    /\ Launched \subseteq Sessions
    /\ ExcludePrevious \in BOOLEAN

ASSUME BoundsAssumption ==
    /\ MaxQueue \in Nat \ {0}
    /\ MaxBatch \in Nat \ {0}
    /\ MaxSeq \in Nat

VARIABLES
    log,          \* room_events of type message_final, in seq order
    mode,         \* RoomSettings.conversation_mode
    quiescing,    \* a runtime restart record blocks admission
    session,      \* agent_sessions with their current execution and effect row
    participant,  \* the participant row of each session
    wake          \* a committed command still owes assign_pending_turn

vars == <<log, mode, quiescing, session, participant, wake>>

Human == 0        \* any author that is not an agent session
None  == 0        \* no session

Modes      == {"ordered", "ambient"}
Statuses   == {"available", "attached", "detached", "unavailable", "error"}
Runtimes   == {"stopped", "starting", "idle", "busy", "stopping",
               "disconnected", "error"}
Executions == {"none", "assigned", "started", "quarantined", "interrupted"}
Effects    == {"none", "participant_muted", "agent_interrupt"}
Intents    == {"none", "start", "stop"}
Steps      == {"none", "prepared", "effect_inflight", "unconfirmed",
               "effect_applied"}

Message == [author : Sessions \cup {Human}, deleted : BOOLEAN]
Input   == [event : Nat, kind : Modes]

------------------------
(* What a session row says.  All predicates take the row, so that they can  *)
(* be applied to the intermediate rows of a transaction.                    *)

\* active_turn_id, turn_phase, inflight_inputs and the input cursor say with
\* one voice that a turn is active ...
TurnActive(row) ==
    /\ row.turn
    /\ row.runtime \in {"busy", "stopping"}
    /\ row.inflight # <<>>
    /\ row.up_to = row.inflight[Len(row.inflight)].event

\* ... or that none is.
TurnClear(row) ==
    /\ ~row.turn
    /\ row.runtime # "busy"
    /\ row.inflight = <<>>
    /\ row.up_to = 0

Queue(row) == row.inflight \o row.pending

\* merge_room_inputs accepts the queue: bounded, and no event twice.
Canonical(row) ==
    LET q == Queue(row) IN
    /\ Len(q) <= MaxQueue
    /\ \A i, j \in DOMAIN q : q[i].event = q[j].event => i = j

\* active_turn_authority returns Ok; every routing and every assignment of
\* the room refuses to run while one row of the room fails this test.
Authority(row) == Canonical(row) /\ (TurnActive(row) \/ TurnClear(row))

Assignable(row) ==
    /\ row.enabled
    /\ row.status = "attached"
    /\ row.runtime = "idle"
    /\ row.session_active
    /\ ~row.turn
    /\ row.inflight = <<>>
    /\ row.intent = "none"

Ready(row, part) ==
    Assignable(row) /\ part.status = "joined" /\ ~part.muted

Eligible(row, part) ==
    /\ part.status = "joined" /\ ~part.muted
    /\ row.enabled
    /\ row.status = "attached"
    /\ row.runtime \in {"idle", "busy"}
    /\ row.session_active
    /\ row.intent = "none"

\* What valid_pending_inputs accepts: existing, visible messages of others,
\* beyond the provider cursor and in sequence order.
ValidPending(s, row, msgs) ==
    LET q == row.pending IN
    /\ \A i \in DOMAIN q :
         /\ q[i].event \in DOMAIN msgs
         /\ msgs[q[i].event].author # s
         /\ ~msgs[q[i].event].deleted
         /\ q[i].event > row.sync_seq
    /\ \A i, j \in DOMAIN q : i < j => q[i].event < q[j].event

------------------------
(* Assignment: room_turn_scheduler.rs, assign_available_pending.            *)

Prefix(q, n) == [i \in 1..n |-> q[i]]

\* The longest run of one delivery kind at the head of the queue, at most
\* MaxBatch long.  Attachment and view-size budgets may cut it shorter.
RunLength(q) ==
    CHOOSE n \in 1..MaxBatch :
        /\ n <= Len(q)
        /\ \A i \in 1..n : q[i].kind = q[1].kind
        /\ \/ n = MaxBatch
           \/ n = Len(q)
           \/ q[n + 1].kind # q[1].kind

\* prepare_assignment for a row whose n oldest inputs fit the observation.
PrepareAssignment(row, n) ==
    [row EXCEPT !.schedule_requested = FALSE,
                !.runtime  = "busy",
                !.turn     = TRUE,
                !.exec     = "assigned",
                !.effect   = "none",
                !.inflight = Prefix(row.pending, n),
                !.pending  = SubSeq(row.pending, n + 1, Len(row.pending)),
                !.up_to    = row.pending[n].event]

Candidates(rows, parts) ==
    {s \in Sessions : Ready(rows[s], parts[s]) /\ rows[s].pending # <<>>}

AnyActive(rows) == \E s \in Sessions : TurnActive(rows[s])

FloorHeld(rows, m) == m = "ordered" /\ AnyActive(rows)

\* Oldest first input, session id as the tie break.
Earlier(rows, s, t) ==
    \/ rows[s].pending[1].event < rows[t].pending[1].event
    \/ rows[s].pending[1].event = rows[t].pending[1].event /\ s <= t

\* Mutant: the ordered floor is handed out without looking for a running turn.
ChosenWithoutFloorCheck(rows, parts, m) ==
    LET cands == Candidates(rows, parts) IN
    IF m = "ambient" \/ cands = {} THEN cands
    ELSE {CHOOSE s \in cands : \A t \in cands : Earlier(rows, s, t)}

Chosen(rows, parts, m) ==
    LET cands == Candidates(rows, parts) IN
    IF m = "ambient" THEN cands
    ELSE IF AnyActive(rows) \/ cands = {} THEN {}
    ELSE {CHOOSE s \in cands : \A t \in cands : Earlier(rows, s, t)}

Assigned(rows, parts, m, fit) ==
    LET chosen == Chosen(rows, parts, m) IN
    [s \in Sessions |->
        IF s \in chosen
        THEN PrepareAssignment(rows[s], fit[s])
        ELSE IF /\ Ready(rows[s], parts[s])
                /\ rows[s].pending = <<>>
                /\ ~FloorHeld(rows, m)
             THEN [rows[s] EXCEPT !.schedule_requested = FALSE]
             ELSE rows[s]]

\* No stored row makes the scheduler return an error.
SchedulerAccepts(rows, parts, msgs) ==
    \A s \in Sessions :
        /\ Authority(rows[s])
        /\ Ready(rows[s], parts[s]) => ValidPending(s, rows[s], msgs)

\* The rows that assign_available_pending may leave; none if it errors.
Scheduled(rows, parts, msgs, m) ==
    IF quiescing THEN {rows}
    ELSE IF ~SchedulerAccepts(rows, parts, msgs) THEN {}
    ELSE {Assigned(rows, parts, m, fit) :
            fit \in {f \in [Sessions -> 1..MaxBatch] :
                       \A s \in Sessions :
                          IF s \in Chosen(rows, parts, m)
                          THEN f[s] <= RunLength(rows[s].pending)
                          ELSE f[s] = 1}}

------------------------
(* Routing: room_turn_scheduler.rs, route_message.                          *)

\* recent_agent_speaking_state over the messages before the routed one.
Spoken(msgs, s) == Cardinality({i \in DOMAIN msgs : msgs[i].author = s})

PreviousSpeaker(msgs) ==
    LET spoke == {i \in DOMAIN msgs : msgs[i].author # Human} IN
    IF spoke = {} THEN None
    ELSE msgs[CHOOSE i \in spoke : \A j \in spoke : j <= i].author

Pool(rows, parts, before, author) ==
    LET eligible  == {s \in Sessions \ {author} : Eligible(rows[s], parts[s])}
        directors == eligible \cap Directors
        base      == IF /\ author \in Sessions \ Directors
                        /\ directors # {}
                     THEN directors ELSE eligible
    IN  IF ExcludePrevious /\ Cardinality(base) > 1
        THEN base \ {PreviousSpeaker(before)} ELSE base

\* The sessions that can win: the least talkative of two sampled members of
\* the pool.  A pool of at most two is taken whole, in id order.
Winners(pool, before) ==
    IF Cardinality(pool) <= 2
    THEN {s \in pool : \A t \in pool \ {s} :
            \/ Spoken(before, s) < Spoken(before, t)
            \/ Spoken(before, s) = Spoken(before, t) /\ s < t}
    ELSE {s \in pool : \E t \in pool \ {s} :
            Spoken(before, s) <= Spoken(before, t)}

\* The possible target sets of a message, given its direct target.  A direct
\* target need not be running: it only must not be kicked or muted.
OrderedTargets(rows, parts, before, author, direct) ==
    IF direct # None
    THEN {IF parts[direct].status = "kicked" \/ parts[direct].muted
          THEN {} ELSE {direct}}
    ELSE LET pool == Pool(rows, parts, before, author) IN
         IF pool = {} THEN {{}}
         ELSE {{s} : s \in Winners(pool, before)}

AmbientTargets(rows, parts, author) ==
    {{s \in Sessions \ {author} : Eligible(rows[s], parts[s])}}

Targets(rows, parts, before, m, author, direct) ==
    IF m = "ordered"
    THEN OrderedTargets(rows, parts, before, author, direct)
    ELSE AmbientTargets(rows, parts, author)

Holds(row, event) == \E i \in DOMAIN Queue(row) : Queue(row)[i].event = event

\* queue_input: one full queue among the targets rejects the whole message.
QueueInput(rows, targets, event, m) ==
    [s \in Sessions |->
        IF s \in targets /\ ~Holds(rows[s], event)
        THEN [rows[s] EXCEPT !.pending =
                Append(@, [event |-> event, kind |-> m])]
        ELSE rows[s]]

QueueHasRoom(rows, targets, event) ==
    \A s \in targets :
        Holds(rows[s], event) \/ Len(Queue(rows[s])) < MaxQueue

RouterAccepts(rows, before) ==
    \A s \in Sessions :
        Authority(rows[s]) /\ rows[s].sync_seq <= Len(before)

\* The rows that route_message may leave; none if it errors.
Routed(rows, parts, before, m, author, direct) ==
    IF ~RouterAccepts(rows, before) THEN {}
    ELSE LET event == Len(before) + 1 IN
         {QueueInput(rows, targets, event, m) :
            targets \in {t \in Targets(rows, parts, before, m, author, direct) :
                           QueueHasRoom(rows, t, event)}}

\* Route one new message and hand out the floor, in one transaction.
RoutedAndScheduled(rows, parts, before, m, author, direct) ==
    LET after == Append(before, [author |-> author, deleted |-> FALSE]) IN
    UNION {Scheduled(r, parts, after, m) :
             r \in Routed(rows, parts, before, m, author, direct)}

------------------------
(* How a turn leaves its session row.                                       *)

\* complete_session_state: the input is consumed, the cursor moves past it.
CompletedRow(row) ==
    [row EXCEPT !.status   = "attached",
                !.runtime  = "idle",
                !.turn     = FALSE,
                !.exec     = "none",
                !.inflight = <<>>,
                !.sync_seq = row.up_to,
                !.up_to    = 0]

\* A queue without the input of some events, in the same order.
Without(q, events) ==
    LET kept[n \in 0..Len(q)] ==
          IF n = 0 THEN <<>>
          ELSE IF q[n].event \in events THEN kept[n - 1]
          ELSE Append(kept[n - 1], q[n])
    IN  kept[Len(q)]

DeletedEvents(msgs) == {e \in DOMAIN msgs : msgs[e].deleted}

\* merged_turn_queue: inflight input returns to the head of the queue unless
\* its message was deleted meanwhile.
MergedQueue(row, msgs) == Without(Queue(row), DeletedEvents(msgs))

\* Mutant: the input cursor of the ended turn is not reset.
ReleasedRowKeepsCursor(row, msgs) ==
    [row EXCEPT !.pending  = MergedQueue(row, msgs),
                !.turn     = FALSE,
                !.exec     = "none",
                !.effect   = "none",
                !.inflight = <<>>]

\* Mutant: the in-flight input is not put back.
ReleasedRowDropsInput(row, msgs) ==
    [row EXCEPT !.turn     = FALSE,
                !.exec     = "none",
                !.effect   = "none",
                !.inflight = <<>>,
                !.up_to    = 0]

ReleasedRow(row, msgs) ==
    [row EXCEPT !.pending  = MergedQueue(row, msgs),
                !.turn     = FALSE,
                !.exec     = "none",
                !.effect   = "none",
                !.inflight = <<>>,
                !.up_to    = 0]

FailedRow(row, msgs, stopped) ==
    [ReleasedRow(row, msgs) EXCEPT
        !.status         = "error",
        !.runtime        = "error",
        !.custody        = @ /\ ~stopped,
        !.session_active = @ /\ ~stopped]

RetainedRow(row, msgs) ==
    [ReleasedRow(row, msgs) EXCEPT !.status = "attached", !.runtime = "idle"]

GoneRow(row, msgs) ==
    [ReleasedRow(row, msgs) EXCEPT
        !.status             = "detached",
        !.runtime            = "stopped",
        !.enabled            = FALSE,
        !.session_active     = FALSE,
        !.custody            = FALSE,
        !.schedule_requested = FALSE]

\* Mutant: the execution of the stopped turn is ended, its effect is not.
StoppedTurnRowKeepsEffect(row) ==
    IF row.turn THEN [row EXCEPT !.exec = "interrupted"] ELSE row

\* terminalize_confirmed_stop_turn: the execution and its effect end, the row
\* keeps its turn until the stop is finalized.
StoppedTurnRow(row) ==
    IF row.turn
    THEN [row EXCEPT !.exec = "interrupted", !.effect = "none"]
    ELSE row

Detached(part) ==
    IF part.status = "joined" THEN [part EXCEPT !.status = "detached"] ELSE part

\* terminalize_ordinary_execution: an ordinary outcome is only committed for
\* an undisturbed turn.
OrdinaryOutcomeAllowed(row, part) ==
    /\ row.turn
    /\ row.exec = "started"
    /\ row.effect = "none"
    /\ row.status = "attached"
    /\ row.enabled
    /\ row.runtime = "busy"
    /\ row.session_active
    /\ row.intent = "none"
    /\ part.status = "joined"
    /\ ~part.muted

OpenExecution(row) == row.exec \in {"assigned", "started", "quarantined"}

------------------------
InitRow(s) ==
    [status |-> IF s \in Launched THEN "attached" ELSE "detached",
     enabled |-> s \in Launched,
     runtime |-> IF s \in Launched THEN "idle" ELSE "stopped",
     session_active |-> s \in Launched,
     custody |-> s \in Launched,
     turn |-> FALSE,
     exec |-> "none",
     effect |-> "none",
     pending |-> <<>>,
     inflight |-> <<>>,
     up_to |-> 0,
     sync_seq |-> 0,
     schedule_requested |-> FALSE,
     intent |-> "none",
     step |-> "none"]

FloorInit ==
    /\ log = <<>>
    /\ mode \in Modes
    /\ quiescing = FALSE
    /\ session = [s \in Sessions |-> InitRow(s)]
    /\ participant =
         [s \in Sessions |->
            [status |-> IF s \in Launched THEN "joined" ELSE "detached",
             muted |-> FALSE]]
    /\ wake = FALSE

Post(author) ==
    /\ Len(log) < MaxSeq
    /\ log' = Append(log, [author |-> author, deleted |-> FALSE])

\* message.send (or vote create) by a human whose text names `direct`.
SendMessage(direct) ==
    /\ ~quiescing
    /\ Post(Human)
    /\ session' \in
         RoutedAndScheduled(session, participant, log, mode, Human, direct)
    /\ UNCHANGED <<mode, quiescing, participant, wake>>

\* authorize_start_in: the provider call of an assigned turn may go out.
AuthorizeStart(s) ==
    /\ participant[s].status = "joined"
    /\ ~participant[s].muted
    /\ TurnActive(session[s])
    /\ session[s].exec = "assigned"
    /\ session[s].effect = "none"
    /\ session' = [session EXCEPT ![s].exec = "started"]
    /\ UNCHANGED <<log, mode, quiescing, participant, wake>>

\* complete_message (and complete_vote for a vote it creates): the answer is
\* posted, routed to the next speaker and the floor handed on.  The handoff
\* target is validated; a later mention in the text overrides it.
CompleteMessage(s, target, mention) ==
    /\ OrdinaryOutcomeAllowed(session[s], participant[s])
    /\ target # None =>
         /\ target # s
         /\ participant[target].status # "kicked"
         /\ ~participant[target].muted
    /\ mention # s
    /\ Post(s)
    /\ session' \in
         RoutedAndScheduled([session EXCEPT ![s] = CompletedRow(@)],
                            participant, log, mode, s,
                            IF mention # None THEN mention ELSE target)
    /\ UNCHANGED <<mode, quiescing, participant, wake>>

\* complete_vote for a cast, withdrawal or close: posted but not routed.
CompleteVoteCast(s) ==
    /\ OrdinaryOutcomeAllowed(session[s], participant[s])
    /\ Post(s)
    /\ session' \in
         Scheduled([session EXCEPT ![s] = CompletedRow(@)],
                   participant, log', mode)
    /\ UNCHANGED <<mode, quiescing, participant, wake>>

\* Mutant: the floor is not handed on after a decline.
CompleteSilentlyUnscheduled(s) ==
    /\ OrdinaryOutcomeAllowed(session[s], participant[s])
    /\ session' = [session EXCEPT ![s] = CompletedRow(@)]
    /\ UNCHANGED <<log, mode, quiescing, participant, wake>>

\* decline, and a vote that the room terminally rejects: nothing is posted.
CompleteSilently(s) ==
    /\ OrdinaryOutcomeAllowed(session[s], participant[s])
    /\ session' \in
         Scheduled([session EXCEPT ![s] = CompletedRow(@)],
                   participant, log, mode)
    /\ UNCHANGED <<log, mode, quiescing, participant, wake>>

\* fail: the provider reported an error, perhaps with a confirmed shutdown.
FailTurn(s, stopped) ==
    /\ OrdinaryOutcomeAllowed(session[s], participant[s])
    /\ session' \in
         Scheduled([session EXCEPT ![s] = FailedRow(@, log, stopped)],
                   participant, log, mode)
    /\ UNCHANGED <<log, mode, quiescing, participant, wake>>

\* record_provider_turn_task_death before provider I/O was authorized, and
\* finalize_provider_turn_not_started with the proof that a started one never
\* entered it ...
TaskDiesBeforeStart(s) ==
    /\ TurnActive(session[s])
    /\ session[s].exec \in {"assigned", "started"}
    /\ session[s].effect = "none"
    /\ session' \in
         Scheduled([session EXCEPT ![s] = FailedRow(@, log, FALSE)],
                   participant, log, mode)
    /\ UNCHANGED <<log, mode, quiescing, participant, wake>>

\* ... and after: the turn keeps the floor, quarantined.  An interrupt effect
\* on an assigned turn has already moved it to interrupt_pending.
TaskDiesAfterStart(s) ==
    /\ TurnActive(session[s])
    /\ \/ session[s].exec = "started"
       \/ session[s].exec = "assigned" /\ session[s].effect # "none"
    /\ session' = [session EXCEPT ![s].exec = "quarantined"]
    /\ UNCHANGED <<log, mode, quiescing, participant, wake>>

------------------------
(* Moderation and interrupts.                                               *)

\* Mutant: a mute accepts a turn that an agent command is interrupting.
MuteOverInterrupt(s) ==
    /\ ~quiescing
    /\ participant[s].status = "joined"
    /\ Authority(session[s])
    /\ TurnActive(session[s]) => OpenExecution(session[s])
    /\ participant' = [participant EXCEPT ![s].muted = TRUE]
    /\ session' = [session EXCEPT ![s].effect =
                     IF TurnActive(session[s]) /\ @ = "none"
                     THEN "participant_muted" ELSE @]
    /\ UNCHANGED <<log, mode, quiescing, wake>>

\* participant.mute: an active turn gets an interrupt effect with this cause,
\* unless it already has one with the other cause, which rejects the command.
Mute(s) ==
    /\ ~quiescing
    /\ participant[s].status = "joined"
    /\ Authority(session[s])
    /\ TurnActive(session[s]) =>
         /\ OpenExecution(session[s])
         /\ session[s].effect # "agent_interrupt"
    /\ participant' = [participant EXCEPT ![s].muted = TRUE]
    /\ session' = [session EXCEPT ![s].effect =
                     IF TurnActive(session[s]) THEN "participant_muted" ELSE @]
    /\ UNCHANGED <<log, mode, quiescing, wake>>

\* Unmuting requests scheduling and hands out the floor at once.
Unmute(s) ==
    /\ ~quiescing
    /\ participant[s].status = "joined"
    /\ participant' = [participant EXCEPT ![s].muted = FALSE]
    /\ session' \in
         Scheduled([session EXCEPT ![s].schedule_requested = TRUE],
                   participant', log, mode)
    /\ UNCHANGED <<log, mode, quiescing, wake>>

\* agent.interrupt of a busy turn that nobody else is interrupting.
AgentInterrupt(s) ==
    /\ ~quiescing
    /\ Authority(session[s])
    /\ TurnActive(session[s])
    /\ session[s].status = "attached"
    /\ session[s].runtime = "busy"
    /\ session[s].enabled
    /\ session[s].session_active
    /\ session[s].custody
    /\ session[s].intent = "none"
    /\ session[s].exec \in {"assigned", "started"}
    /\ session[s].effect = "none"
    /\ participant[s].status = "joined"
    /\ ~participant[s].muted
    /\ session' = [session EXCEPT ![s].effect = "agent_interrupt"]
    /\ UNCHANGED <<log, mode, quiescing, participant, wake>>

\* finalize_retained_in: the provider went quiet and kept its runtime.  Only
\* the mute cause hands out the floor in the same transaction.
FinalizeRetained(s) ==
    LET released == [session EXCEPT ![s] = RetainedRow(@, log)] IN
    /\ Authority(session[s])
    /\ TurnActive(session[s])
    /\ OpenExecution(session[s])
    /\ session[s].custody
    /\ \/ /\ session[s].effect = "participant_muted"
          /\ session' \in Scheduled(released, participant, log, mode)
       \/ /\ session[s].effect = "agent_interrupt"
          /\ session' = released
    /\ UNCHANGED <<log, mode, quiescing, participant, wake>>

StopUnderWay(row) ==
    /\ row.intent = "stop"
    /\ row.step \in {"effect_inflight", "unconfirmed", "effect_applied"}

\* finalize_runtime_gone_in: the runtime of an unfinished turn is proved gone.
\* A stop in progress is confirmed by it; otherwise the session is detached,
\* and the floor handed on unless an agent command was interrupting the turn.
\* (The FloorProgression::Defer variant belongs to process shutdown.)
RuntimeGone(s) ==
    LET gone  == [session EXCEPT ![s] = GoneRow(@, log)]
        parts == [participant EXCEPT ![s] = Detached(@)]
    IN  /\ Authority(session[s])
        /\ TurnActive(session[s])
        /\ OpenExecution(session[s])
        /\ IF StopUnderWay(session[s])
           THEN /\ session' = [session EXCEPT
                      ![s] = [StoppedTurnRow(@) EXCEPT !.step = "effect_applied"]]
                /\ UNCHANGED participant
           ELSE /\ participant' = parts
                /\ IF session[s].effect = "agent_interrupt"
                   THEN session' = gone
                   ELSE session' \in Scheduled(gone, parts, log, mode)
        /\ UNCHANGED <<log, mode, quiescing, wake>>

------------------------
(* Message deletion, settings and runtime restart.                          *)

\* Mutant: a deleted message stays queued.
DeleteMessageKeepsQueue(e) ==
    /\ ~quiescing
    /\ ~log[e].deleted
    /\ log' = [log EXCEPT ![e].deleted = TRUE]
    /\ UNCHANGED <<mode, quiescing, session, participant, wake>>

\* message.delete leaves input that already crossed the provider boundary.
DeleteMessage(e) ==
    /\ ~quiescing
    /\ ~log[e].deleted
    /\ log' = [log EXCEPT ![e].deleted = TRUE]
    /\ session' = [s \in Sessions |->
                     [session[s] EXCEPT !.pending = Without(@, {e})]]
    /\ UNCHANGED <<mode, quiescing, participant, wake>>

\* room.settings.update; floor progression follows in its own transaction.
SetMode(m) ==
    /\ ~quiescing
    /\ m # mode
    /\ mode' = m
    /\ wake' = TRUE
    /\ UNCHANGED <<log, quiescing, session, participant>>

\* assign_pending_turn, owed by a committed command.  If the scheduler
\* rejects the stored state, record_floor_progression_failure reports it and
\* the wake is spent all the same.
AssignPending ==
    /\ wake
    /\ wake' = FALSE
    /\ LET next == Scheduled(session, participant, log, mode) IN
       IF next = {} THEN UNCHANGED session ELSE session' \in next
    /\ UNCHANGED <<log, mode, quiescing, participant>>

\* prepare_runtime_restart: only a quiet runtime may start quiescing.
PrepareRestart ==
    /\ ~quiescing
    /\ \A s \in Sessions :
         /\ session[s].intent = "none"
         /\ session[s].status # "error"
         /\ Authority(session[s])
         /\ ~TurnActive(session[s])
         /\ session[s].runtime \notin {"starting", "busy", "stopping"}
         /\ session[s].exec = "none"
    /\ quiescing' = TRUE
    /\ UNCHANGED <<log, mode, session, participant, wake>>

\* recover: the successor process relaunched the captured sessions, released
\* the barrier and wakes the floor of every room.
CompleteRestart ==
    /\ quiescing
    /\ quiescing' = FALSE
    /\ wake' = TRUE
    /\ UNCHANGED <<log, mode, session, participant>>

FloorNext ==
    \/ \E d \in Sessions \cup {None} : SendMessage(d)
    \/ \E s \in Sessions :
         \/ AuthorizeStart(s)
         \/ \E t, d \in Sessions \cup {None} : CompleteMessage(s, t, d)
         \/ CompleteVoteCast(s)
         \/ CompleteSilently(s)
         \/ \E stopped \in BOOLEAN : FailTurn(s, stopped)
         \/ TaskDiesBeforeStart(s)
         \/ TaskDiesAfterStart(s)
         \/ Mute(s)
         \/ Unmute(s)
         \/ AgentInterrupt(s)
         \/ FinalizeRetained(s)
         \/ RuntimeGone(s)
    \/ \E e \in DOMAIN log : DeleteMessage(e)
    \/ \E m \in Modes : SetMode(m)
    \/ AssignPending
    \/ PrepareRestart
    \/ CompleteRestart
=============================================================================
