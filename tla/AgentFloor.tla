----------------------------- MODULE AgentFloor -----------------------------
(***************************************************************************)
(* The room floor together with the start and stop lifecycle of its        *)
(* sessions.  A lifecycle command is a chain of transactions around a      *)
(* provider effect: prepare an intent, authorize the effect, then record   *)
(* what the provider did.  The chain can be cut at every point (a failed   *)
(* transaction, an unconfirmed effect, a crash), and the server-lifetime   *)
(* reconciler and the turn tasks commit beside the room actor that runs    *)
(* it, so its transactions interleave freely with those of the floor.      *)
(*                                                                         *)
(* What the provider adapter answers is external: a runtime that runs a    *)
(* turn is Running in the adapter, so a start of it is a reuse, and a      *)
(* failing reuse is always reported as uncertain.                          *)
(***************************************************************************)
EXTENDS RoomFloor

CONSTANT Managed   \* the sessions that agent.start and agent.stop name

ASSUME ManagedAssumption == Managed \subseteq Sessions

NoIntent(row) == row.intent = "none" /\ row.step = "none"

HasIntent(row, action, step) == row.intent = action /\ row.step = step

\* prepare_launch_session and authorize_start_effect mark the row the same way.
LaunchingRow(row, step) ==
    [row EXCEPT !.status  = "available",
                !.enabled = TRUE,
                !.runtime = IF @ \in {"starting", "idle", "busy"}
                            THEN @ ELSE "starting",
                !.intent  = "start",
                !.step    = step]

ClearIntent(row) == [row EXCEPT !.intent = "none", !.step = "none"]

------------------------
(* agent.start: agent_lifecycle.rs, agent_start_failure.rs.                 *)

PrepareLaunch(s) ==
    /\ ~quiescing
    /\ NoIntent(session[s])
    /\ Authority(session[s])
    /\ participant[s].status # "kicked"
    /\ session' = [session EXCEPT ![s] = LaunchingRow(@, "prepared")]
    /\ UNCHANGED <<log, mode, quiescing, participant, wake>>

\* The adapter reserved a runtime identity; it becomes durable custody.
AuthorizeLaunch(s) ==
    /\ HasIntent(session[s], "start", "prepared")
    /\ session' = [session EXCEPT
                     ![s] = [LaunchingRow(@, "effect_inflight")
                               EXCEPT !.custody = TRUE]]
    /\ UNCHANGED <<log, mode, quiescing, participant, wake>>

\* apply_runtime_started: only a reused runtime can still be busy.
LaunchedRow(row, reused, active) ==
    [ClearIntent(row) EXCEPT
        !.status  = "attached",
        !.enabled = TRUE,
        !.runtime = IF reused /\ @ \in {"idle", "busy"} THEN @ ELSE "idle",
        !.session_active = active]

\* complete_agent_launch; progressed_execution then
\* owes the room an assignment.
CompleteLaunch(s, reused, active) ==
    /\ HasIntent(session[s], "start", "effect_inflight")
    /\ session[s].custody
    /\ session[s].turn => reused /\ active
    /\ session' = [session EXCEPT ![s] = LaunchedRow(@, reused, active)]
    /\ participant' = [participant EXCEPT ![s].status = "joined"]
    /\ wake' = TRUE
    /\ UNCHANGED <<log, mode, quiescing>>

\* fail_agent_start_before_effect: the row is only marked failed when it has
\* no custody; a session whose runtime lives keeps the launching marks.
FailLaunchBeforeEffect(s) ==
    /\ HasIntent(session[s], "start", "prepared")
    /\ session' = [session EXCEPT
         ![s] = IF @.custody THEN ClearIntent(@)
                ELSE [ClearIntent(@) EXCEPT
                        !.status  = "unavailable",
                        !.enabled = FALSE,
                        !.runtime = "error",
                        !.session_active = FALSE]]
    /\ UNCHANGED <<log, mode, quiescing, participant, wake>>

\* fail_agent_launch: the adapter proved that no process was left behind.
FailLaunch(s) ==
    /\ HasIntent(session[s], "start", "effect_inflight")
    /\ ~session[s].turn
    /\ session' = [session EXCEPT
         ![s] = [ClearIntent(@) EXCEPT
                   !.status  = "unavailable",
                   !.enabled = FALSE,
                   !.runtime = "error",
                   !.session_active = FALSE,
                   !.custody = FALSE]]
    /\ UNCHANGED <<log, mode, quiescing, participant, wake>>

\* mark_agent_start_unconfirmed: the launch may have taken effect.  The turn
\* fields are left alone, whatever the session was doing.
LaunchUnconfirmed(s) ==
    /\ HasIntent(session[s], "start", "effect_inflight")
    /\ session[s].custody
    /\ session' = [session EXCEPT ![s] = [@ EXCEPT !.status = "unavailable",
                                                   !.enabled = FALSE,
                                                   !.runtime = "disconnected",
                                                   !.session_active = FALSE,
                                                   !.step = "unconfirmed"]]
    /\ UNCHANGED <<log, mode, quiescing, participant, wake>>

------------------------
(* agent.stop: agent_stop_lifecycle.rs.                                     *)

\* failed_session_has_confirmed_runtime_exit
ExitConfirmed(row) ==
    /\ row.runtime = "error"
    /\ ~row.session_active
    /\ ~row.custody
    /\ ~row.turn
    /\ row.status \in {"unavailable", "error"}

PrepareStop(s) ==
    /\ ~quiescing
    /\ NoIntent(session[s])
    /\ Authority(session[s])
    /\ session[s].runtime # "stopped" \/ session[s].custody
    /\ session[s].custody \/ ExitConfirmed(session[s])
    /\ session' = [session EXCEPT
         ![s] = [@ EXCEPT !.intent = "stop",
                          !.step = IF ExitConfirmed(session[s])
                                   THEN "effect_applied" ELSE "prepared"]]
    /\ UNCHANGED <<log, mode, quiescing, participant, wake>>

\* authorize_agent_stop_effect
AuthorizeStop(s) ==
    /\ HasIntent(session[s], "stop", "prepared")
    /\ session[s].custody
    /\ session' = [session EXCEPT ![s] = [@ EXCEPT !.runtime = "stopping",
                                                   !.enabled = FALSE,
                                                   !.step = "effect_inflight"]]
    /\ UNCHANGED <<log, mode, quiescing, participant, wake>>

\* fail_agent_stop_before_effect: the intent goes, nothing is scheduled.
FailStopBeforeEffect(s) ==
    /\ HasIntent(session[s], "stop", "prepared")
    /\ session' = [session EXCEPT ![s] = ClearIntent(@)]
    /\ UNCHANGED <<log, mode, quiescing, participant, wake>>

\* record_agent_stop_effect: shutdown confirmed, the turn is terminalized.
RecordStopEffect(s) ==
    /\ HasIntent(session[s], "stop", "effect_inflight")
    /\ Authority(session[s])
    /\ session' = [session EXCEPT
         ![s] = [StoppedTurnRow(@) EXCEPT !.step = "effect_applied"]]
    /\ UNCHANGED <<log, mode, quiescing, participant, wake>>

\* mark_agent_stop_unconfirmed: an active turn is kept for reconciliation.
StopUnconfirmed(s) ==
    LET row == session[s]
        cut == IF TurnActive(row) THEN row
               ELSE [ReleasedRow(row, log) EXCEPT
                       !.runtime = "disconnected",
                       !.session_active = FALSE]
    IN  /\ HasIntent(row, "stop", "effect_inflight")
        /\ Authority(row)
        /\ session' = [session EXCEPT
             ![s] = [cut EXCEPT !.status  = "unavailable",
                                !.enabled = FALSE,
                                !.step    = "unconfirmed"]]
        /\ participant' = [participant EXCEPT ![s] = Detached(@)]
        /\ UNCHANGED <<log, mode, quiescing, wake>>

\* detach_confirmed_session
DetachedRow(row, msgs) ==
    [ClearIntent(ReleasedRow(row, msgs)) EXCEPT
        !.status  = "detached",
        !.enabled = FALSE,
        !.runtime = "stopped",
        !.session_active = FALSE,
        !.custody = FALSE]

\* finalize_agent_stop
FinalizeStop(s) ==
    LET parts == [participant EXCEPT ![s] = Detached(@)] IN
    /\ HasIntent(session[s], "stop", "effect_applied")
    /\ participant' = parts
    /\ session' \in
         Scheduled([session EXCEPT ![s] = DetachedRow(@, log)],
                   parts, log, mode)
    /\ UNCHANGED <<log, mode, quiescing, wake>>

------------------------
LifecycleNext ==
    \E s \in Managed :
        \/ PrepareLaunch(s)
        \/ AuthorizeLaunch(s)
        \/ \E reused, active \in BOOLEAN : CompleteLaunch(s, reused, active)
        \/ FailLaunchBeforeEffect(s)
        \/ FailLaunch(s)
        \/ LaunchUnconfirmed(s)
        \/ PrepareStop(s)
        \/ AuthorizeStop(s)
        \/ FailStopBeforeEffect(s)
        \/ RecordStopEffect(s)
        \/ StopUnconfirmed(s)
        \/ FinalizeStop(s)

Init == FloorInit

Next == FloorNext \/ LifecycleNext

Spec == Init /\ [][Next]_vars

------------------------
(* Properties.                                                              *)

Row ==
    [status : Statuses, enabled : BOOLEAN, runtime : Runtimes,
     session_active : BOOLEAN, custody : BOOLEAN, turn : BOOLEAN,
     exec : Executions, effect : Effects,
     pending : Seq(Input), inflight : Seq(Input), up_to : Nat,
     sync_seq : Nat, schedule_requested : BOOLEAN,
     intent : Intents, step : Steps]

Part == [status : {"joined", "detached", "kicked"}, muted : BOOLEAN]

\* The stored rows, settings and messages have their declared types.
TypeOK ==
    /\ log \in Seq(Message)
    /\ mode \in Modes
    /\ quiescing \in BOOLEAN
    /\ session \in [Sessions -> Row]
    /\ participant \in [Sessions -> Part]
    /\ wake \in BOOLEAN

\* A start that was left unconfirmed: the only place where the code lets a
\* session row contradict itself (TurnAuthority excepts it).
StartUnconfirmed(row) == HasIntent(row, "start", "unconfirmed")

\* The turn id, runtime status, in-flight input and cursor of every session
\* agree, through every interleaving of turns, interrupts, stops and starts,
\* unless its start is unconfirmed.  One row that fails active_turn_authority
\* makes every routing and assignment of the whole room return an error.
TurnAuthority ==
    \A s \in Sessions :
        StartUnconfirmed(session[s]) \/ Authority(session[s])

\* Whatever is queued for a session can be served: in flight and pending input
\* together are messages of others, in sequence order, beyond the provider
\* cursor, and no pending message is deleted.  valid_pending_inputs errors
\* otherwise, and no session of the room is assigned again.
QueuesServable ==
    \A s \in Sessions :
        LET q == Queue(session[s]) IN
        /\ ValidPending(s, session[s], log)
        /\ \A i \in DOMAIN q :
             /\ q[i].event \in DOMAIN log
             /\ log[q[i].event].author # s
             /\ q[i].event > session[s].sync_seq
        /\ \A i, j \in DOMAIN q : i < j => q[i].event < q[j].event

\* The execution row tracks the turn: a session has a live execution exactly
\* while it has a turn, an unfinished interrupt effect belongs to an unfinished
\* execution, and a turn whose execution has ended waits for its confirmed
\* stop to be finalized.
ExecutionTracksTurn ==
    \A s \in Sessions :
        LET row == session[s] IN
        /\ row.exec # "none" <=> row.turn
        /\ row.effect # "none" => OpenExecution(row)
        /\ row.exec = "interrupted" => HasIntent(row, "stop", "effect_applied")

\* A muted participant never runs a turn unsupervised: while one is unfinished
\* it carries the interrupt effect of the mute, however mute, unmute, agent
\* interrupt and assignment interleave.
MutedTurnsInterrupted ==
    \A s \in Sessions :
        participant[s].muted /\ OpenExecution(session[s])
            => session[s].effect = "participant_muted"

\* A session is given a new turn by the step, perhaps with the same input that
\* an interrupted turn gave back in the same transaction.
NewTurn(s) ==
    /\ session'[s].exec = "assigned"
    /\ \/ session[s].exec # "assigned"
       \/ session[s].effect # "none" /\ session'[s].effect = "none"

\* In an ordered room a turn is only handed out when, in the same transaction,
\* no other turn is active and no other turn is handed out.
OrderedFloorExclusive ==
    [][\A s, t \in Sessions :
          mode = "ordered" /\ NewTurn(s) /\ s # t => ~session'[t].turn]_vars

Queued(row) == {Queue(row)[i].event : i \in DOMAIN Queue(row)}

\* Routed input is neither lost nor replayed: a queued event leaves the queue
\* of a session only because its message is deleted or because the provider
\* cursor moved past it, and the cursor only moves to the end of the input
\* that was in flight.
InputConserved ==
    [][\A s \in Sessions :
          /\ \A e \in Queued(session[s]) :
               \/ e \in Queued(session'[s])
               \/ log'[e].deleted
               \/ e <= session'[s].sync_seq
          /\ session'[s].sync_seq # session[s].sync_seq =>
               /\ session'[s].sync_seq = session[s].up_to
               /\ session'[s].sync_seq > session[s].sync_seq]_vars

\* Work waits for a free floor and nothing is on its way to assign it.
Stalled ==
    /\ ~quiescing
    /\ ~wake
    /\ SchedulerAccepts(session, participant, log)
    /\ Candidates(session, participant) # {}
    /\ ~FloorHeld(session, mode)

\* The floor never falls idle while a session could take it, except after an
\* agent interrupt, which the design does not reschedule, and after a start or
\* stop that was rejected before its effect.
FloorNeverIdles ==
    [][~Stalled /\ Stalled' =>
          \E s \in Sessions :
             \/ session[s].effect = "agent_interrupt" /\ ~session'[s].turn
             \/ session[s].step = "prepared" /\ session'[s].intent = "none"]_vars
=============================================================================
