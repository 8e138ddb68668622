---------------------------- MODULE ProviderTurn ----------------------------
(***************************************************************************)
(* One provider turn of one agent session, from its durable assignment to  *)
(* its durable end, across the four processes that work on it:             *)
(*                                                                         *)
(*   - the turn task, which prepares the turn in the provider adapter,     *)
(*     authorizes its start in the store, runs the provider and reports;   *)
(*   - the room actor, which commits reported results and runs the mute,   *)
(*     agent.interrupt and agent.stop commands, one at a time;             *)
(*   - the server-lifetime reconciler, which visits every open execution   *)
(*     and settles what no live process will;                              *)
(*   - the provider adapter, whose slot holds the one turn in memory and   *)
(*     outlives the task until a durable end is acknowledged.              *)
(*                                                                         *)
(* A store method is one SQLite transaction and one step here; so is an    *)
(* adapter method, which runs under the slot's lock.  A rejected           *)
(* transaction leaves everything as it is and ends the caller's run.       *)
(* The floor that assigns turns is RoomFloor; here a turn may be assigned  *)
(* whenever the session is free.                                           *)
(***************************************************************************)
EXTENDS Naturals, FiniteSets, FiniteSetsExt

CONSTANTS
    MaxTurns,      \* bound on turn generations
    MaxTasks,      \* bound on turn tasks, recovered ones included
    MaxRestarts,   \* bound on server crashes
    MaxRefusals,   \* bound on completions the room rejects
    MaxLate,       \* bound on claims that expire under a working owner
    StopAllowed,   \* whether agent.stop may be issued
    Duplicates     \* whether the reconciler may hand out an assigned turn
                   \* that a live task is about to prepare or has just prepared

ASSUME BoundsAssumption ==
    /\ MaxTurns \in Nat \ {0}
    /\ MaxTasks \in Nat \ {0}
    /\ MaxRestarts \in Nat
    /\ MaxRefusals \in Nat
    /\ MaxLate \in Nat
    /\ StopAllowed \in BOOLEAN
    /\ Duplicates \in BOOLEAN

VARIABLES
    turn,       \* the session's turn_generation; 0 before the first turn
    exec,       \* provider_turn_executions.phase by generation
    started,    \* whether start_dispatch_nonce is set, by generation
    effect,     \* the provider_turn_effects row by generation
    muted,      \* the participant's mute flag
    stopping,   \* whether the session row carries a stop intent
    runtime,    \* RuntimeState of the session's slot in the adapter
    bound,      \* whether a generation's custody is the present launch's
    slot,       \* the preparation held by the adapter; 0 when there is none
    prep,       \* what a preparation's holders share: phase, token, result
    task,       \* the turn tasks
    driver,     \* the room actor and the reconciler
    refusals,   \* completions rejected so far
    late,       \* claims expired under their owner so far
    restarts    \* crashes so far

durable  == <<turn, exec, started, effect, muted, stopping>>
adapter  == <<runtime, bound, slot, prep>>
counters == <<refusals, late, restarts>>
vars     == <<durable, adapter, task, driver, counters>>

Turns   == 1..MaxTurns
TaskIds == 1..MaxTasks
Drivers == {"actor", "recon"}

Terminal == {"completed", "failed", "interrupted"}
Open     == {"assigned", "start_dispatching", "running", "interrupt_pending",
             "quiescing", "interrupt_ambiguous", "recovery_required"}

Quiesced == {"not_started", "result_retained", "result_uncertain", "gone"}

Results == {"none", "completed", "failed", "interrupted", "uncertain", "stopped"}

NoEffect == [phase |-> "none", cause |-> "none", owner |-> "none",
             expired |-> FALSE, dispatched |-> FALSE]
NoPrep   == [gen |-> 0, phase |-> "none", cancelled |-> FALSE, result |-> "none"]
NoTask   == [pc |-> "none", gen |-> 0, prep |-> 0, result |-> "none",
             guarded |-> FALSE]
DoneTask == [NoTask EXCEPT !.pc = "done"]
NoSnap   == [exec |-> "none", effect |-> "none", dispatched |-> FALSE,
             started |-> FALSE]
Idle     == [pc |-> "idle", gen |-> 0, prep |-> 0, result |-> "none",
             snap |-> NoSnap]

------------------------
(* Shared conditions.                                                       *)

\* The session row carries an active turn exactly while its execution is open.
TurnOpen == turn > 0 /\ exec[turn] \in Open

\* An effect that start, completion and failure transactions must not pass.
EffectPending(g) == effect[g].phase \notin {"none", "finalized"}

\* recoverable_interrupt_pair, without start_ambiguous, which nothing writes.
RecoverablePair(g) ==
    CASE effect[g].phase = "prepared" ->
             exec[g] \in {"interrupt_pending", "recovery_required"}
      [] effect[g].phase \in {"claimed", "dispatching"} ->
             exec[g] = "interrupt_pending"
      [] effect[g].phase = "issued" -> exec[g] = "quiescing"
      [] effect[g].phase = "interrupt_ambiguous" ->
             exec[g] = "interrupt_ambiguous"
      [] effect[g].phase = "recovery_required" ->
             exec[g] = "recovery_required"
      [] OTHER -> FALSE

\* A claim that still holds when the owner's transaction commits.
LiveClaim(g, d) == effect[g].owner = d /\ ~effect[g].expired

\* The session's runtime runs, and is the one turn g was assigned to.
OwnRuntime(g) == runtime = "running" /\ bound[g]

\* owns_exact_turn: the slot, running or confirmed stopped, holds turn g.
OwnsTurn(g) ==
    runtime \in {"running", "stopped"} /\ slot # 0 /\ prep[slot].gen = g

\* interrupt_effect_owns_result: the interrupt, not the result, ends the turn.
EffectOwnsResult(g) ==
    effect[g].phase \in {"issued", "interrupt_ambiguous", "recovery_required",
                         "finalized"}

\* A driver's run ends; nothing else of the state is touched by that alone.
EndRun(d) == driver' = [driver EXCEPT ![d] = Idle]

Goto(d, pc) == driver' = [driver EXCEPT ![d].pc = pc]

SetPair(g, e, x) ==
    /\ effect' = [effect EXCEPT ![g].phase = e]
    /\ exec'   = [exec EXCEPT ![g] = x]

\* Mutant: the turn ends and its interrupt is left as it was.
SettleKeepsEffect(g, x) ==
    exec' = [exec EXCEPT ![g] = x] /\ UNCHANGED effect

Settle(g, x) ==
    /\ exec' = [exec EXCEPT ![g] = x]
    /\ effect' = IF effect[g].phase = "none" THEN effect
                 ELSE [effect EXCEPT ![g] = [@ EXCEPT !.phase = "finalized",
                                                      !.expired = FALSE]]

\* A preparation somebody can still reach; the others are freed memory.
Held(p) ==
    \/ slot = p
    \/ \E t \in TaskIds : task[t].prep = p
    \/ \E d \in Drivers : driver[d].prep = p

FreshTasks == {t \in TaskIds : task[t].pc = "none"}

Spawn(g, guarded) ==
    task' = [task EXCEPT ![Min(FreshTasks)] =
               [NoTask EXCEPT !.pc = "spawned", !.gen = g, !.guarded = guarded]]

------------------------
(* The turn task: provider_turn.rs, provider_turn_start.rs and the adapter. *)

\* A transaction of the floor assigns the next turn and the actor spawns it.
Assign ==
    /\ ~TurnOpen /\ ~muted /\ ~stopping
    /\ runtime = "running"
    /\ driver["actor"].pc = "idle"
    /\ turn < MaxTurns /\ FreshTasks # {}
    /\ turn' = turn + 1
    /\ exec' = [exec EXCEPT ![turn + 1] = "assigned"]
    /\ bound' = [bound EXCEPT ![turn + 1] = TRUE]
    /\ prep' = [t \in TaskIds |-> IF Held(t) THEN prep[t] ELSE NoPrep]
    /\ Spawn(turn + 1, FALSE)
    /\ UNCHANGED <<started, effect, muted, stopping, runtime, slot, driver,
                   counters>>

\* prepare_turn: an empty slot is taken, a preparing slot of the same turn is
\* shared, and anything else leaves the task without a turn.  (A task that
\* finds its turn entered waits for it to quiesce first, and ends the same.)
Prepare(t) ==
    /\ task[t].pc = "spawned"
    /\ \/ /\ OwnRuntime(task[t].gen) /\ slot = 0
          /\ ~\E u \in TaskIds : task[u].pc = "io"      \* the driver is free
          /\ slot' = t
          /\ prep' = [prep EXCEPT ![t] = [NoPrep EXCEPT !.gen = task[t].gen,
                                                        !.phase = "preparing"]]
          /\ task' = [task EXCEPT ![t] = [@ EXCEPT !.pc = "prepared",
                                                   !.prep = t,
                                                   !.guarded = FALSE]]
       \/ /\ OwnRuntime(task[t].gen) /\ slot # 0
          /\ prep[slot].gen = task[t].gen /\ prep[slot].phase = "preparing"
          /\ task' = [task EXCEPT ![t] = [@ EXCEPT !.pc = "prepared",
                                                   !.prep = slot,
                                                   !.guarded = FALSE]]
          /\ UNCHANGED <<slot, prep>>
       \/ /\ \/ ~OwnRuntime(task[t].gen)
             \/ slot # 0 /\ ~(/\ prep[slot].gen = task[t].gen
                              /\ prep[slot].phase = "preparing")
             \/ slot = 0 /\ \E u \in TaskIds : task[u].pc = "io"
          /\ task' = [task EXCEPT ![t] = DoneTask]
          /\ UNCHANGED <<slot, prep>>
    /\ UNCHANGED <<durable, runtime, bound, driver, counters>>

\* authorize_start_in: refused to a muted or changed turn, and to any turn
\* that has left "assigned" or carries an interrupt.
AuthorizeStart(t) ==
    /\ task[t].pc = "prepared"
    /\ LET g  == task[t].gen
           ok == turn = g /\ exec[g] = "assigned" /\ ~EffectPending(g) /\ ~muted
       IN  IF ok
           THEN /\ exec' = [exec EXCEPT ![g] = "start_dispatching"]
                /\ started' = [started EXCEPT ![g] = TRUE]
                /\ task' = [task EXCEPT ![t].pc = "authorized"]
           ELSE /\ task' = [task EXCEPT ![t].pc = "refused"]
                /\ UNCHANGED <<exec, started>>
    /\ UNCHANGED <<turn, effect, muted, stopping, adapter, driver, counters>>

\* A panic of the task takes the same clean-up as a refused start.
TaskPanics(t) ==
    /\ task[t].pc \in {"prepared", "authorized"}
    /\ task' = [task EXCEPT ![t].pc = "refused"]
    /\ UNCHANGED <<durable, adapter, driver, counters>>

\* retain_unstarted_turn: a slot still preparing becomes not-started proof.
RetainUnstarted(t) ==
    /\ task[t].pc = "refused"
    /\ task' = [task EXCEPT ![t] = DoneTask]
    /\ prep' = IF /\ runtime = "running" /\ slot = task[t].prep
                  /\ prep[slot].phase = "preparing"
               THEN [prep EXCEPT ![slot].phase = "not_started"]
               ELSE prep
    /\ UNCHANGED <<durable, runtime, bound, slot, driver, counters>>

\* The runtime's authority cannot be revalidated: an uncertain result, kept
\* in the slot if the slot is still this preparation.
AuthorityUnresolved(t) ==
    /\ task[t].pc = "authorized"
    /\ task' = [task EXCEPT ![t] = [@ EXCEPT !.pc = "reported",
                                             !.result = "uncertain"]]
    /\ prep' = IF runtime \in {"running", "stopped"} /\ slot = task[t].prep
               THEN [prep EXCEPT
                      ![slot] = [@ EXCEPT !.phase = "result_uncertain",
                                          !.result = "uncertain"]]
               ELSE prep
    /\ UNCHANGED <<durable, runtime, bound, slot, driver, counters>>

\* enter_prepared_turn: the only door to provider I/O.  It looks at the
\* preparation and its token, not at the slot's phase.
Enter(t) ==
    /\ task[t].pc = "authorized"
    /\ runtime = "running"
    /\ \/ /\ slot # task[t].prep                          \* stale_turn
          /\ task' = [task EXCEPT ![t] = [@ EXCEPT !.pc = "reported",
                                                   !.result = "failed"]]
          /\ UNCHANGED prep
       \/ /\ slot = task[t].prep /\ prep[slot].cancelled
          /\ prep' = [prep EXCEPT ![slot].phase = "not_started"]
          /\ task' = [task EXCEPT ![t] = [@ EXCEPT !.pc = "reported",
                                                   !.result = "interrupted"]]
       \/ /\ slot = task[t].prep /\ ~prep[slot].cancelled
          /\ prep' = [prep EXCEPT ![slot].phase = "entered"]
          /\ task' = [task EXCEPT ![t].pc = "io"]
    /\ UNCHANGED <<durable, runtime, bound, slot, driver, counters>>

\* run_owned_turn_task: the provider is done with the turn, one way or
\* another, and the slot keeps the result if it is still this preparation.
\* "stopped" is a failure after which the adapter stopped the runtime; that
\* result goes to whatever turn the runtime holds.
Finish(t, result) ==
    /\ task[t].pc = "io"
    /\ result = "interrupted" => prep[task[t].prep].cancelled
    /\ task' = [task EXCEPT ![t] = [@ EXCEPT !.pc = "reported",
                                             !.result = result]]
    /\ prep' = IF slot # 0 /\ (slot = task[t].prep \/ result = "stopped")
               THEN [prep EXCEPT ![slot] =
                       [@ EXCEPT !.phase = IF result \in {"uncertain", "stopped"}
                                           THEN "result_uncertain"
                                           ELSE "result_retained",
                                 !.result = result]]
               ELSE prep
    /\ runtime' = IF result = "stopped" THEN "stopped" ELSE runtime
    /\ UNCHANGED <<durable, bound, slot, driver, counters>>

TaskNext(t) ==
    \/ Prepare(t)
    \/ AuthorizeStart(t)
    \/ TaskPanics(t)
    \/ RetainUnstarted(t)
    \/ AuthorityUnresolved(t)
    \/ Enter(t)
    \/ \E r \in Results \ {"none"} : Finish(t, r)

------------------------
(* Committing a result: commit_exact_provider_result, run by the actor for *)
(* a task that reported and by the reconciler for a result in the slot.    *)

TakeResult(t) ==
    /\ driver["actor"].pc = "idle"
    /\ task[t].pc = "reported"
    /\ driver' = [driver EXCEPT !["actor"] =
                    [Idle EXCEPT !.pc = "commit", !.gen = task[t].gen,
                                 !.result = task[t].result]]
    /\ task' = [task EXCEPT ![t] = DoneTask]
    /\ UNCHANGED <<durable, adapter, counters>>

\* A result that cannot end the turn is dropped; the slot goes only when the
\* interrupt that owns the turn is already final.
Yielded(d, g, release) ==
    IF effect[g].phase = "finalized" THEN Goto(d, release) ELSE EndRun(d)

\* terminalize_ordinary_execution, and the session conditions of its callers.
OrdinaryEndAllowed(g) ==
    /\ turn = g
    /\ exec[g] \in {"start_dispatching", "running"}
    /\ ~EffectPending(g) /\ ~muted /\ ~stopping

\* Mutant: a result is committed only for a turn that never left "assigned".
CommitRunningFromAssigned(d) ==
    LET g == driver[d].gen IN
    /\ driver[d].pc = "commit" /\ driver[d].result = "completed"
    /\ IF exec[g] = "assigned"
       THEN /\ exec' = [exec EXCEPT ![g] = "running"]
            /\ Goto(d, "complete")
       ELSE /\ Yielded(d, g, "release")
            /\ UNCHANGED exec
    /\ UNCHANGED <<turn, started, effect, muted, stopping, adapter, task, counters>>

\* mark_provider_turn_running, the first of a completion's two transactions.
CommitRunning(d) ==
    LET g == driver[d].gen IN
    /\ driver[d].pc = "commit" /\ driver[d].result = "completed"
    /\ IF exec[g] = "start_dispatching"
       THEN /\ exec' = [exec EXCEPT ![g] = "running"]
            /\ Goto(d, "complete")
       ELSE /\ Yielded(d, g, "release")
            /\ UNCHANGED exec
    /\ UNCHANGED <<turn, started, effect, muted, stopping, adapter, task, counters>>

\* complete_agent_turn and its siblings.  The room may reject the outcome for
\* reasons of its own, such as another agent's full queue.
CommitCompletion(d) ==
    LET g == driver[d].gen IN
    /\ driver[d].pc = "complete"
    /\ \/ /\ OrdinaryEndAllowed(g)
          /\ exec' = [exec EXCEPT ![g] = "completed"]
          /\ Goto(d, "release")
          /\ UNCHANGED refusals
       \/ /\ ~OrdinaryEndAllowed(g)
          /\ Yielded(d, g, "release")
          /\ UNCHANGED <<exec, refusals>>
       \/ /\ OrdinaryEndAllowed(g) /\ refusals < MaxRefusals
          /\ refusals' = refusals + 1
          /\ EndRun(d)
          /\ UNCHANGED exec
    /\ UNCHANGED <<turn, started, effect, muted, stopping, adapter, task, late,
                   restarts>>

\* commit_provider_error for an error that is certain: fail_agent_turn.
CommitFailure(d) ==
    LET g       == driver[d].gen
        result  == driver[d].result
        release == IF result = "stopped" THEN "vacate" ELSE "release"
    IN
    /\ driver[d].pc = "commit" /\ result \in {"failed", "interrupted", "stopped"}
    /\ \/ /\ result # "failed" /\ EffectOwnsResult(g)
          /\ Yielded(d, g, release)
          /\ UNCHANGED exec
       \/ /\ result = "failed" \/ ~EffectOwnsResult(g)
          /\ IF OrdinaryEndAllowed(g)
             THEN /\ exec' = [exec EXCEPT ![g] = "failed"]
                  /\ Goto(d, release)
             ELSE /\ EndRun(d)
                  /\ UNCHANGED exec
    /\ UNCHANGED <<turn, started, effect, muted, stopping, adapter, task, counters>>

\* commit_provider_error for an uncertain effect: the turn is quarantined.
CommitUncertain(d) ==
    LET g == driver[d].gen IN
    /\ driver[d].pc = "commit" /\ driver[d].result = "uncertain"
    /\ exec' = IF turn = g /\ exec[g] \in {"start_dispatching", "running"}
               THEN [exec EXCEPT ![g] = "recovery_required"]
               ELSE exec
    /\ EndRun(d)
    /\ UNCHANGED <<turn, started, effect, muted, stopping, adapter, task, counters>>

\* Mutant: not-started proof is never released.
ReleaseResultsOnly(d) ==
    /\ driver[d].pc = "release"
    /\ slot' = IF /\ runtime = "running" /\ slot # 0
                  /\ prep[slot].gen = driver[d].gen
                  /\ prep[slot].phase \in Quiesced \ {"not_started"}
               THEN 0 ELSE slot
    /\ EndRun(d)
    /\ UNCHANGED <<durable, runtime, bound, prep, task, counters>>

\* release_terminal_turn.
Release(d) ==
    /\ driver[d].pc = "release"
    /\ slot' = IF /\ runtime = "running" /\ slot # 0
                  /\ prep[slot].gen = driver[d].gen
                  /\ prep[slot].phase \in Quiesced
               THEN 0 ELSE slot
    /\ EndRun(d)
    /\ UNCHANGED <<durable, runtime, bound, prep, task, counters>>

\* release_confirmed_stop, for the launch the caller's turn belongs to.
Vacate(d) ==
    LET g     == driver[d].gen
        exact == runtime = "stopped" /\ (g # 0 => bound[g])
    IN
    /\ driver[d].pc = "vacate"
    /\ runtime' = IF exact THEN "vacant" ELSE runtime
    /\ slot' = IF exact THEN 0 ELSE slot
    /\ EndRun(d)
    /\ UNCHANGED <<durable, bound, prep, task, counters>>

CommitNext(d) ==
    \/ CommitRunning(d)
    \/ CommitCompletion(d)
    \/ CommitFailure(d)
    \/ CommitUncertain(d)
    \/ Release(d)
    \/ Vacate(d)

------------------------
(* Interrupt commands of the actor: participant_mute.rs, agent_interrupt.rs. *)

\* The actor goes on to apply the interrupt it has just recorded.
Applying(g) == [Idle EXCEPT !.pc = "claim", !.gen = g]

PreparedEffect(cause) == [NoEffect EXCEPT !.phase = "prepared", !.cause = cause]

Interruptible == {"assigned", "start_dispatching", "running"}

\* prepare_interrupt_effect keeps an effect that is already there.
RecordInterrupt(cause) ==
    /\ effect' = IF effect[turn].phase = "none"
                 THEN [effect EXCEPT ![turn] = PreparedEffect(cause)]
                 ELSE effect
    /\ exec' = IF exec[turn] \in Interruptible
               THEN [exec EXCEPT ![turn] = "interrupt_pending"]
               ELSE exec
    /\ driver' = [driver EXCEPT !["actor"] = Applying(turn)]

\* A mute is rejected while an interrupt of another cause is unsettled.
Mute ==
    /\ driver["actor"].pc = "idle"
    /\ muted' = TRUE
    /\ \/ /\ TurnOpen /\ effect[turn].cause \in {"none", "mute"}
          /\ RecordInterrupt("mute")
       \/ /\ ~TurnOpen /\ ~muted
          /\ UNCHANGED <<exec, effect, driver>>
    /\ UNCHANGED <<turn, started, stopping, adapter, task, counters>>

Unmute ==
    /\ driver["actor"].pc = "idle" /\ muted
    /\ muted' = FALSE
    /\ UNCHANGED <<turn, exec, started, effect, stopping, adapter, task, driver,
                   counters>>

\* agent.interrupt asks the adapter first: require_retained_turn_interrupt.
AgentInterrupt ==
    /\ driver["actor"].pc = "idle"
    /\ TurnOpen /\ exec[turn] \in Interruptible /\ runtime = "running"
    /\ IF slot = 0 THEN exec[turn] = "assigned"
       ELSE /\ prep[slot].gen = turn
            /\ prep[slot].phase \in {"preparing", "entered"}
    /\ Goto("actor", "interrupt")
    /\ UNCHANGED <<durable, adapter, task, counters>>

AgentInterruptCommit ==
    /\ driver["actor"].pc = "interrupt"
    /\ IF /\ TurnOpen /\ exec[turn] \in Interruptible
          /\ effect[turn].phase = "none" /\ ~muted /\ ~stopping
       THEN RecordInterrupt("agent")
       ELSE EndRun("actor") /\ UNCHANGED <<exec, effect>>
    /\ UNCHANGED <<turn, started, muted, stopping, adapter, task, counters>>

------------------------
(* apply_exact_interrupt, run by the actor.                                 *)

ApplyClaim ==
    LET g == driver["actor"].gen IN
    /\ driver["actor"].pc = "claim"
    /\ IF \/ effect[g].phase = "prepared"
          \/ effect[g].phase = "claimed" /\ effect[g].expired
       THEN /\ effect' = [effect EXCEPT ![g] = [@ EXCEPT !.phase = "claimed",
                                                         !.owner = "actor",
                                                         !.expired = FALSE]]
            /\ Goto("actor", "begin")
       ELSE EndRun("actor") /\ UNCHANGED effect
    /\ UNCHANGED <<turn, exec, started, muted, stopping, adapter, task, counters>>

\* begin_exact_turn under the slot's lock: a preparing turn is cancelled.
BeginsAt(d, g, unstarted, entered, quiesced) ==
    /\ runtime = "running" /\ slot # 0 /\ prep[slot].gen = g
    /\ prep' = IF prep[slot].phase = "preparing"
               THEN [prep EXCEPT ![slot].cancelled = TRUE] ELSE prep
    /\ driver' = [driver EXCEPT ![d] =
         [@ EXCEPT !.prep = slot,
                   !.pc = CASE prep[slot].phase = "preparing" -> unstarted
                            [] prep[slot].phase = "entered"   -> entered
                            [] OTHER                          -> quiesced]]

CannotBegin(g) == ~(runtime = "running" /\ slot # 0 /\ prep[slot].gen = g)

ApplyBegin ==
    LET g == driver["actor"].gen IN
    /\ driver["actor"].pc = "begin"
    /\ \/ /\ BeginsAt("actor", g, "mark_waiting", "dispatch", "mark_waiting")
          /\ UNCHANGED <<exec, effect>>
       \/ /\ CannotBegin(g)              \* handoff_unissued_..._claim
          /\ IF /\ effect[g].phase = "claimed" /\ exec[g] = "interrupt_pending"
                /\ effect[g].owner = "actor"
             THEN /\ exec' = [exec EXCEPT ![g] = "recovery_required"]
                  /\ effect' = [effect EXCEPT
                                 ![g] = [@ EXCEPT !.phase = "recovery_required",
                                                  !.owner = "none",
                                                  !.expired = FALSE]]
             ELSE UNCHANGED <<exec, effect>>
          /\ EndRun("actor")
          /\ UNCHANGED prep
    /\ UNCHANGED <<turn, started, muted, stopping, runtime, bound, slot, task, counters>>

\* mark_unstarted_interrupt_waiting: no provider call is needed.
ApplyWaiting ==
    LET g == driver["actor"].gen IN
    /\ driver["actor"].pc = "mark_waiting"
    /\ IF effect[g].phase = "claimed" /\ LiveClaim(g, "actor")
          /\ exec[g] = "interrupt_pending"
       THEN SetPair(g, "issued", "quiescing") /\ Goto("actor", "wait")
       ELSE EndRun("actor") /\ UNCHANGED <<exec, effect>>
    /\ UNCHANGED <<turn, started, muted, stopping, adapter, task, counters>>

\* authorize_provider_interrupt_dispatch, then the signal to the turn's owner.
ApplyDispatch ==
    LET g == driver["actor"].gen IN
    /\ driver["actor"].pc = "dispatch"
    /\ IF effect[g].phase = "claimed" /\ LiveClaim(g, "actor")
       THEN /\ effect' = [effect EXCEPT ![g] = [@ EXCEPT !.phase = "dispatching",
                                                         !.dispatched = TRUE]]
            /\ prep' = [prep EXCEPT ![driver["actor"].prep].cancelled = TRUE]
            /\ Goto("actor", "issue")
       ELSE EndRun("actor") /\ UNCHANGED <<effect, prep>>
    /\ UNCHANGED <<turn, exec, started, muted, stopping, runtime, bound, slot, task,
                   counters>>

\* mark_provider_interrupt_issued; when it fails, ..._ambiguous.
ApplyIssued ==
    LET g == driver["actor"].gen IN
    /\ driver["actor"].pc = "issue"
    /\ IF effect[g].phase = "dispatching" /\ exec[g] = "interrupt_pending"
       THEN \/ SetPair(g, "issued", "quiescing") /\ Goto("actor", "wait")
            \/ /\ SetPair(g, "interrupt_ambiguous", "interrupt_ambiguous")
               /\ EndRun("actor")
       ELSE EndRun("actor") /\ UNCHANGED <<exec, effect>>
    /\ UNCHANGED <<turn, started, muted, stopping, adapter, task, counters>>

------------------------
(* wait_quiesced and finalize_exact_quiescence, of either driver.  The      *)
(* waiter holds the preparation's latch, whatever happens to the slot.      *)

QuiescedRetained(d) ==
    LET g == driver[d].gen IN
    /\ driver[d].pc = "wait"
    /\ prep[driver[d].prep].phase \in {"not_started", "result_retained"}
    /\ IF exec[g] = "quiescing" /\ effect[g].phase = "issued"
       THEN Settle(g, "interrupted") /\ Goto(d, "release")
       ELSE EndRun(d) /\ UNCHANGED <<exec, effect>>
    /\ UNCHANGED <<turn, started, muted, stopping, adapter, task, counters>>

\* The latch passes through "gone" before it shows a confirmed stop's result.
QuiescedGone(d) ==
    LET g == driver[d].gen
        p == prep[driver[d].prep]
    IN
    /\ driver[d].pc = "wait"
    /\ p.phase = "gone" \/ p.result = "stopped"
    /\ IF exec[g] \in Open /\ effect[g].phase = "issued"
       THEN Settle(g, "interrupted") /\ Goto(d, "vacate")
       ELSE EndRun(d) /\ UNCHANGED <<exec, effect>>
    /\ UNCHANGED <<turn, started, muted, stopping, adapter, task, counters>>

\* Mutant: the deadline counts as quiescence.
UnconfirmedSettles(d) ==
    LET g == driver[d].gen IN
    /\ driver[d].pc = "wait"
    /\ prep[driver[d].prep].phase \in {"preparing", "entered", "result_uncertain"}
    /\ IF exec[g] = "quiescing" /\ effect[g].phase = "issued"
       THEN Settle(g, "interrupted") /\ Goto(d, "release")
       ELSE EndRun(d) /\ UNCHANGED <<exec, effect>>
    /\ UNCHANGED <<turn, started, muted, stopping, adapter, task, counters>>

\* Mutant: the deadline leaves the rows as they are.
UnconfirmedRetries(d) ==
    /\ driver[d].pc = "wait"
    /\ prep[driver[d].prep].phase \in {"preparing", "entered", "result_uncertain"}
    /\ EndRun(d)
    /\ UNCHANGED <<durable, adapter, task, counters>>

\* A quiesced turn without proof that the runtime was kept, or the deadline:
\* mark_provider_interrupt_recovery_required, which asks for no claim.
Unconfirmed(d) ==
    LET g == driver[d].gen IN
    /\ driver[d].pc = "wait"
    /\ prep[driver[d].prep].phase \in {"preparing", "entered", "result_uncertain"}
    /\ IF exec[g] = "quiescing" /\ effect[g].phase = "issued"
       THEN SetPair(g, "recovery_required", "recovery_required")
       ELSE UNCHANGED <<exec, effect>>
    /\ EndRun(d)
    /\ UNCHANGED <<turn, started, muted, stopping, adapter, task, counters>>

ApplyNext ==
    \/ ApplyClaim
    \/ ApplyBegin
    \/ ApplyWaiting
    \/ ApplyDispatch
    \/ ApplyIssued

WaitNext(d) ==
    \/ QuiescedRetained(d)
    \/ QuiescedGone(d)
    \/ Unconfirmed(d)

------------------------
(* The reconciler: one candidate at a time, from a snapshot of its rows.    *)

LoadCandidate ==
    /\ driver["recon"].pc = "idle"
    /\ TurnOpen
    /\ driver' = [driver EXCEPT !["recon"] =
         [Idle EXCEPT !.gen = turn,
                      !.pc = IF effect[turn].phase = "none"
                             THEN "look" ELSE "recover_claim",
                      !.snap = [exec       |-> exec[turn],
                                effect     |-> effect[turn].phase,
                                dispatched |-> effect[turn].dispatched,
                                started    |-> started[turn]]]]
    /\ UNCHANGED <<durable, adapter, task, counters>>

\* resume_exact_interrupt up to its claim: claim_..._interrupt_recovery.
RecoverClaim ==
    LET g == driver["recon"].gen IN
    /\ driver["recon"].pc = "recover_claim"
    /\ \/ /\ ~OwnsTurn(g)
          /\ Goto("recon", "look")
          /\ UNCHANGED effect
       \/ /\ OwnsTurn(g)
          /\ \/ effect[g].dispatched # driver["recon"].snap.dispatched
             \/ ~RecoverablePair(g)
          /\ EndRun("recon")
          /\ UNCHANGED effect
       \/ /\ OwnsTurn(g) /\ RecoverablePair(g)
          /\ effect[g].dispatched = driver["recon"].snap.dispatched
          /\ IF effect[g].owner = "none" \/ effect[g].expired
             THEN /\ effect' = [effect EXCEPT ![g] = [@ EXCEPT !.owner = "recon",
                                                               !.expired = FALSE]]
                  /\ Goto("recon", "recover_begin")
             ELSE Goto("recon", "look") /\ UNCHANGED effect
    /\ UNCHANGED <<turn, exec, started, muted, stopping, adapter, task, counters>>

RecoverBegin ==
    LET g == driver["recon"].gen IN
    /\ driver["recon"].pc = "recover_begin"
    /\ \/ /\ BeginsAt("recon", g, "recover_signal", "recover_signal",
                      "recover_wait")
          /\ UNCHANGED effect
       \/ /\ CannotBegin(g)             \* release_..._recovery_claim
          /\ IF /\ effect[g].owner = "recon"
                /\ effect[g].dispatched = driver["recon"].snap.dispatched
             THEN /\ effect' = [effect EXCEPT ![g] = [@ EXCEPT !.owner = "none",
                                                               !.expired = FALSE]]
                  /\ Goto("recon", "look")
             ELSE EndRun("recon") /\ UNCHANGED effect
          /\ UNCHANGED prep
    /\ UNCHANGED <<turn, exec, started, muted, stopping, runtime, bound, slot, task,
                   counters>>

\* authorize_provider_interrupt_recovery_wait, then the signal if one is due.
RecoverWait ==
    LET g == driver["recon"].gen IN
    /\ driver["recon"].pc \in {"recover_signal", "recover_wait"}
    /\ IF /\ RecoverablePair(g) /\ LiveClaim(g, "recon")
          /\ effect[g].dispatched = driver["recon"].snap.dispatched
       THEN /\ SetPair(g, "issued", "quiescing")
            /\ prep' = IF driver["recon"].pc = "recover_signal"
                       THEN [prep EXCEPT
                               ![driver["recon"].prep].cancelled = TRUE]
                       ELSE prep
            /\ Goto("recon", "wait")
       ELSE EndRun("recon") /\ UNCHANGED <<exec, effect, prep>>
    /\ UNCHANGED <<turn, started, muted, stopping, runtime, bound, slot, task, counters>>

\* What reconcile_live_candidate reads in the adapter after that, in order.
Look ==
    LET g    == driver["recon"].gen
        snap == driver["recon"].snap
        held == OwnsTurn(g)
    IN
    /\ driver["recon"].pc = "look"
    /\ \/ held /\ snap.exec = "recovery_required" /\ EndRun("recon")
       \/ /\ held /\ snap.exec # "recovery_required"
          /\ prep[slot].phase \in {"result_retained", "result_uncertain"}
          /\ IF snap.started
             THEN driver' = [driver EXCEPT
                              !["recon"] = [@ EXCEPT !.pc = "commit",
                                                     !.result = prep[slot].result]]
             ELSE EndRun("recon")
       \/ /\ held /\ snap.exec # "recovery_required"
          /\ runtime = "running" /\ prep[slot].phase = "not_started"
          /\ Goto("recon", "not_started")
       \/ /\ held /\ snap.exec # "recovery_required"
          /\ prep[slot].phase \in {"preparing", "entered"}
          /\ EndRun("recon")
       \/ ~held /\ Goto("recon", "unowned")
    /\ UNCHANGED <<durable, adapter, task, counters>>

\* finalize_provider_turn_not_started.
FinalizeNotStarted ==
    LET g    == driver["recon"].gen
        snap == driver["recon"].snap
    IN
    /\ driver["recon"].pc = "not_started"
    /\ IF /\ snap.effect = "none" /\ effect[g].phase = "none"
          /\ snap.exec \in {"assigned", "start_dispatching"}
          /\ exec[g] = snap.exec
       THEN exec' = [exec EXCEPT ![g] = "failed"] /\ Goto("recon", "release")
       ELSE EndRun("recon") /\ UNCHANGED exec
    /\ UNCHANGED <<turn, started, effect, muted, stopping, adapter, task, counters>>

\* The runtime is positively gone: finalize_provider_turn_runtime_gone.  A
\* turn with an interrupt, or under a stop, was interrupted; another failed.
FinalizeGone ==
    LET g    == driver["recon"].gen
        snap == driver["recon"].snap
        same == /\ exec[g] = snap.exec /\ started[g] = snap.started
                /\ (effect[g].phase = "none") = (snap.effect = "none")
                /\ effect[g].dispatched = snap.dispatched
    IN
    /\ driver["recon"].pc = "unowned"
    /\ runtime \in {"stopped", "vacant", "lost"}
    /\ IF same
       THEN /\ Settle(g, IF effect[g].phase # "none" \/ stopping
                         THEN "interrupted" ELSE "failed")
            /\ Goto("recon", "vacate")
       ELSE EndRun("recon") /\ UNCHANGED <<exec, effect>>
    /\ UNCHANGED <<turn, started, muted, stopping, adapter, task, counters>>

\* A previous process's runtime that can be neither adopted nor declared gone.
Inconclusive ==
    /\ driver["recon"].pc = "unowned" /\ runtime = "lost"
    /\ EndRun("recon")
    /\ UNCHANGED <<durable, adapter, task, counters>>

\* The runtime runs without this turn.  An assigned turn is handed to the
\* actor again, unless its recovery is already queued; any other turn lost
\* its task.
RecoverAssigned ==
    LET g == driver["recon"].gen IN
    /\ driver["recon"].pc = "unowned" /\ runtime = "running"
    /\ driver["recon"].snap.exec = "assigned"
    /\ \/ /\ driver["recon"].snap.effect = "none"
          /\ exec[g] = "assigned" /\ effect[g].phase = "none" /\ ~muted
          /\ ~\E t \in TaskIds : task[t].gen = g /\ task[t].guarded
          /\ Duplicates \/ ~(OwnsTurn(g) \/ \E t \in TaskIds : task[t].gen = g)
          /\ driver["actor"].pc = "idle"
          /\ FreshTasks # {}
          /\ Spawn(g, TRUE)
       \/ UNCHANGED task
    /\ EndRun("recon")
    /\ UNCHANGED <<durable, adapter, counters>>

\* record_provider_turn_task_death: a dispatching interrupt is ambiguous.
\* Startup reconciliation does this for a runtime it cannot observe, too.
TaskDeath ==
    LET g == driver["recon"].gen IN
    /\ driver["recon"].pc = "unowned" /\ runtime \in {"running", "lost"}
    /\ driver["recon"].snap.exec \in
         {"start_dispatching", "running", "interrupt_pending", "quiescing"}
    /\ IF exec[g] \in {"start_dispatching", "running", "interrupt_pending",
                       "quiescing"}
       THEN IF effect[g].phase = "dispatching"
            THEN SetPair(g, "interrupt_ambiguous", "interrupt_ambiguous")
            ELSE /\ exec' = [exec EXCEPT ![g] = "recovery_required"]
                 /\ effect' = IF effect[g].phase \in
                                   {"prepared", "claimed", "issued"}
                              THEN [effect EXCEPT
                                      ![g].phase = "recovery_required"]
                              ELSE effect
       ELSE UNCHANGED <<exec, effect>>
    /\ EndRun("recon")
    /\ UNCHANGED <<turn, started, muted, stopping, adapter, task, counters>>

\* An ambiguous or quarantined turn of a running runtime stays for an operator.
LeaveQuarantined ==
    /\ driver["recon"].pc = "unowned" /\ runtime = "running"
    /\ driver["recon"].snap.exec \in {"interrupt_ambiguous", "recovery_required"}
    /\ EndRun("recon")
    /\ UNCHANGED <<durable, adapter, task, counters>>

ReconNext ==
    \/ LoadCandidate
    \/ RecoverClaim
    \/ RecoverBegin
    \/ RecoverWait
    \/ Look
    \/ FinalizeNotStarted
    \/ FinalizeGone
    \/ Inconclusive
    \/ RecoverAssigned
    \/ TaskDeath
    \/ LeaveQuarantined

------------------------
(* agent.stop and agent.start around a turn, the clock and the crash.       *)

AgentStop ==
    /\ StopAllowed /\ ~stopping
    /\ driver["actor"].pc = "idle" /\ runtime = "running"
    /\ stopping' = TRUE
    /\ Goto("actor", "stop")
    /\ UNCHANGED <<turn, exec, started, effect, muted, adapter, task, counters>>

\* stop_inner: the turn is cancelled, its driver taken back, and the slot
\* drops the turn after it has signalled that the runtime is gone.
StopRuntime ==
    /\ driver["actor"].pc = "stop"
    /\ \/ /\ runtime = "running"
          /\ runtime' = "stopped" /\ slot' = 0 /\ UNCHANGED bound
          /\ prep' = IF slot = 0 THEN prep
                     ELSE [prep EXCEPT ![slot].phase = "gone"]
          /\ \E result \in {"failed", "uncertain"} :
                task' = [t \in TaskIds |->
                           IF task[t].pc = "io"
                           THEN [task[t] EXCEPT !.pc = "reported",
                                                !.result = result]
                           ELSE task[t]]
       \/ /\ runtime # "running"
          /\ UNCHANGED <<adapter, task>>
    /\ Goto("actor", "stopped")
    /\ UNCHANGED <<durable, counters>>

\* record_agent_stop_effect and finalize_agent_stop.
RecordStop ==
    /\ driver["actor"].pc = "stopped"
    /\ IF TurnOpen THEN Settle(turn, "interrupted")
       ELSE UNCHANGED <<exec, effect>>
    /\ stopping' = FALSE
    /\ Goto("actor", "vacate")
    /\ UNCHANGED <<turn, started, muted, adapter, task, counters>>

\* agent.start of a session without a turn; a stop cut short is settled first.
StartRuntime ==
    /\ driver["actor"].pc = "idle"
    /\ runtime \in {"vacant", "lost"} /\ ~TurnOpen
    /\ turn < MaxTurns
    /\ runtime' = "running" /\ stopping' = FALSE
    /\ bound' = [g \in Turns |-> FALSE]
    /\ UNCHANGED <<turn, exec, started, effect, muted, slot, prep, task, driver,
                   counters>>

\* The claim's 30 seconds pass, usually long after its owner is gone.
Expire(g) ==
    /\ EffectPending(g) /\ effect[g].owner # "none" /\ ~effect[g].expired
    /\ effect' = [effect EXCEPT ![g].expired = TRUE]
    /\ IF driver[effect[g].owner].pc # "idle"
       THEN late < MaxLate /\ late' = late + 1
       ELSE UNCHANGED late
    /\ UNCHANGED <<turn, exec, started, muted, stopping, adapter, task, driver,
                   refusals, restarts>>

\* The server process dies; its successor has to observe what is left.
Restart ==
    /\ restarts < MaxRestarts
    /\ restarts' = restarts + 1
    /\ task' = [t \in TaskIds |-> IF task[t].pc = "none" THEN NoTask ELSE DoneTask]
    /\ driver' = [d \in Drivers |-> Idle]
    /\ prep' = [t \in TaskIds |-> NoPrep]
    /\ slot' = 0
    /\ runtime' = IF runtime = "vacant" THEN "vacant" ELSE "lost"
    /\ UNCHANGED <<durable, bound, refusals, late>>

------------------------

Init ==
    /\ turn = 0
    /\ exec = [g \in Turns |-> "none"]
    /\ started = [g \in Turns |-> FALSE]
    /\ effect = [g \in Turns |-> NoEffect]
    /\ muted = FALSE /\ stopping = FALSE
    /\ runtime = "running" /\ slot = 0
    /\ bound = [g \in Turns |-> FALSE]
    /\ prep = [t \in TaskIds |-> NoPrep]
    /\ task = [t \in TaskIds |-> NoTask]
    /\ driver = [d \in Drivers |-> Idle]
    /\ refusals = 0 /\ late = 0 /\ restarts = 0

ActorStep ==
    \/ AgentInterruptCommit \/ ApplyNext
    \/ CommitNext("actor") \/ WaitNext("actor")
    \/ StopRuntime \/ RecordStop

ReconStep == ReconNext \/ CommitNext("recon") \/ WaitNext("recon")

Command == Mute \/ Unmute \/ AgentInterrupt \/ AgentStop \/ StartRuntime

Next ==
    \/ Assign
    \/ \E t \in TaskIds : TaskNext(t) \/ TakeResult(t)
    \/ Command
    \/ ActorStep
    \/ ReconStep
    \/ \E g \in Turns : Expire(g)
    \/ Restart

Spec == Init /\ [][Next]_vars

\* The actor finishes what it has begun, the reconciler's tick never stops,
\* and clocks advance.  Nothing is assumed of the provider or of the tasks.
Fairness ==
    /\ WF_vars(ActorStep)
    /\ WF_vars(ReconStep)
    /\ \A g \in Turns : WF_vars(Expire(g))

FairSpec == Spec /\ Fairness

------------------------
(* Properties.                                                              *)

\* A mute of a turn already quarantined: apply_exact_interrupt claims the
\* interrupt without looking at the execution.
QuarantinedClaim(g) ==
    effect[g].phase = "claimed" /\ exec[g] = "recovery_required"

\* The execution row and the interrupt row are written by different
\* transactions of different processes.  But for the one pair above, an
\* unsettled interrupt sits beside an execution from which it can be claimed
\* again, an execution that waits for an interrupt has one, and a turn ends
\* together with its interrupt, never completed past one.
PairConsistent ==
    \A g \in Turns :
        /\ EffectPending(g) => RecoverablePair(g) \/ QuarantinedClaim(g)
        /\ exec[g] \in {"interrupt_pending", "quiescing", "interrupt_ambiguous"}
              => EffectPending(g)
        /\ effect[g].phase = "finalized" => exec[g] = "interrupted"
        /\ exec[g] = "completed" => effect[g].phase = "none"

\* The promise of TurnPromise is kept: turns of the session come one after the
\* other and end once, the provider acts on a turn only between its authorized
\* start and its end, and whoever ends a turn knew that the provider had not
\* started or had quiesced.
Promise ==
    INSTANCE TurnPromise WITH
        Gens       <- Turns,
        life       <- [g \in Turns |-> IF exec[g] \in Open THEN "open" ELSE exec[g]],
        authorized <- {g \in Turns : started[g]},
        acting     <- {task[t].gen : t \in {t \in TaskIds : task[t].pc = "io"}}

KeepsPromise == Promise!PromiseSpec

\* A slot held for a turn that has ended is about to be released: some task or
\* driver of that turn is still at work.  Otherwise it blocks every later
\* turn of the session, because the reconciler visits open turns only.
SlotServesOpenTurn ==
    slot # 0 /\ exec[prep[slot].gen] \in Terminal =>
        \/ \E t \in TaskIds : task[t].gen = prep[slot].gen
        \/ \E d \in Drivers : driver[d].gen = prep[slot].gen

\* An interrupt that was recorded is not forgotten: its turn ends, or stands
\* in quarantine where the session shows it.
InterruptSettles ==
    \A g \in Turns :
        effect[g].phase = "prepared" ~>
            exec[g] \in Terminal \cup {"recovery_required", "interrupt_ambiguous"}

\* A completed result in the slot is committed, or the turn is interrupted
\* or quarantined: the reconciler retries what the actor could not commit.
ResultSettles ==
    \A g \in Turns :
        (slot # 0 /\ prep[slot].gen = g /\ prep[slot].result = "completed") ~>
            exec[g] \in Terminal \cup {"recovery_required", "interrupt_ambiguous"}
=============================================================================
