---------------------------- MODULE AgentCustody ----------------------------
(***************************************************************************)
(* The durable custody of one server-owned Agent Session: the session row  *)
(* with its lifecycle intent, the pending command reservations, the row of *)
(* the removal clean-up, and the adapter's runtime slot, under the three   *)
(* owners that move them:                                                  *)
(*                                                                         *)
(*   actor   the room's mutation task: it runs one command at a time, each *)
(*           in several transactions with provider effects between them;   *)
(*   watch   the recovery task: clean-up page, then lifecycle page; before *)
(*           admission it runs the same passes over every row;             *)
(*   crash   a restart forgets the slots and bumps the store's generation, *)
(*           the guardians of the old server end its runtimes later.       *)
(*                                                                         *)
(* The process side of a launch is abstracted to the sets alive and lost;  *)
(* module RuntimeCustody models it.                                        *)
(***************************************************************************)
EXTENDS Naturals, FiniteSets

CONSTANTS
    Requests,    \* the room requests of this session
    Scripts,     \* the commands the requests may be, "none" for no command
    MaxLaunches, \* bound on launches
    MaxCrashes,  \* bound on server restarts
    MaxFaults,   \* bound on failed effects and failed store transactions
    MaxLost      \* bound on launches whose end can never be proved

LaunchActions == {"create", "start", "readd"}

ASSUME AgentCustodyAssumption ==
    /\ Scripts \subseteq [Requests -> LaunchActions \cup {"none", "list", "stop", "pause", "resume", "kick", "export"}]
    /\ "none" \notin Requests
    /\ {MaxLaunches, MaxCrashes, MaxFaults, MaxLost} \subseteq Nat

VARIABLES
    sess,    \* the durable Agent Session row
    part,    \* the status of its participant
    res,     \* each request: its command, reservation or terminal outcome
    cleanup, \* whether a removal clean-up row exists
    slot,    \* the adapter's slot of the session
    alive,   \* launches of which something may still run
    lost,    \* launches whose absence cannot be proved any more
    last,    \* the last launch token drawn
    gen,     \* the runtime generation of the store
    phase,   \* where the server is in its life
    pc,      \* the next step of each owner
    snap,    \* the session each owner has loaded
    fresh,   \* owners whose loaded session is still the stored one (the CAS)
    req,     \* the request the actor runs
    faults   \* faults so far

Owners == {"actor", "watch"}
rows   == <<sess, part, res, cleanup>>
procs  == <<pc, snap, fresh, req>>
world  == <<slot, alive, lost, last>>
agentCustody == <<rows, procs, world, gen, phase, faults>>

------------------------
(* The session row. *)

Active == {"starting", "idle", "paused", "stopping"}

NoSession == [st |-> "none", en |-> FALSE, run |-> "absent", act |-> FALSE, rec |-> FALSE,
              id |-> 0, op |-> "none", kind |-> "none", step |-> "none"]

ClearIntent(s) == [s EXCEPT !.op = "none", !.kind = "none", !.step = "none"]
Intent(s, r, k) == [s EXCEPT !.op = r, !.kind = k, !.step = "prepared"]

\* prepare_start of a created session, and prepare_launch_session, which keeps
\* the runtime status of a session that already runs.
PreparedLaunch(s, r) ==
    Intent([s EXCEPT !.st = "available", !.en = TRUE, !.rec = FALSE,
                     !.run = IF @ \in {"starting", "idle", "paused"} THEN @ ELSE "starting"],
           r, "start")

\* apply_runtime_started
Started(s, reused) ==
    ClearIntent([s EXCEPT !.st = "attached", !.en = TRUE, !.act = TRUE, !.rec = FALSE,
                          !.run = IF reused /\ @ \in {"idle", "paused"} THEN @ ELSE "idle"])

\* commit_agent_launch_failure; before the effect a session that names a
\* runtime keeps its state.
LaunchFailed(s, effect) ==
    LET failed == [s EXCEPT !.st = "unavailable", !.en = FALSE, !.run = "error", !.act = FALSE]
    IN  ClearIntent(IF effect THEN [failed EXCEPT !.id = 0]
                    ELSE IF s.id = 0 THEN failed ELSE s)

\* mark_agent_start_unconfirmed and mark_agent_stop_unconfirmed
Unconfirmed(s) ==
    [s EXCEPT !.st = "unavailable", !.en = FALSE, !.run = "disconnected", !.act = FALSE,
              !.rec = TRUE, !.step = "unconfirmed"]

\* detach_confirmed_session and finalize_recovered_stop
Finalized(s) ==
    ClearIntent([s EXCEPT !.st = "detached", !.en = FALSE, !.run = "stopped", !.act = FALSE,
                          !.rec = FALSE, !.id = 0])

\* reject_abandoned_in_transaction
Abandoned(s) ==
    LET kept == ClearIntent([s EXCEPT !.rec = FALSE])
    IN  IF s.kind = "start" /\ s.id = 0
        THEN [kept EXCEPT !.st = "unavailable", !.en = FALSE, !.run = "error", !.act = FALSE]
        ELSE kept

\* reject_recovered_start
RejectedStart(s) ==
    ClearIntent([s EXCEPT !.st = "unavailable", !.en = FALSE, !.run = "error", !.act = FALSE,
                          !.rec = FALSE, !.id = 0])

\* reconcile_confirmed_stop keeps the intent: the reply is still owed.
ConfirmedStop(s) ==
    [s EXCEPT !.st = "unavailable", !.en = FALSE, !.run = "stopping", !.act = FALSE, !.id = 0]

\* retain_uncertain_runtime
Retained(s) ==
    [s EXCEPT !.st = "unavailable", !.en = FALSE, !.run = "disconnected", !.act = FALSE,
              !.rec = TRUE, !.step = IF @ \in {"prepared", "inflight"} THEN "unconfirmed" ELSE @]

\* stop_after_confirmed_absence
ConfirmedAbsent(s) ==
    ClearIntent([s EXCEPT !.st = "unavailable", !.en = FALSE, !.run = "stopped", !.act = FALSE,
                          !.rec = FALSE, !.id = 0])

Open(s) == s.step \in {"prepared", "inflight", "unconfirmed"}

\* confirmed_stop_needs_reconciliation
StopOwed(s) == /\ s.kind = "stop" /\ s.step = "applied"
               /\ s.id # 0 \/ s.act \/ s.st # "unavailable"

\* needs_reconciliation: what the pass before admission visits.
NeedsReconciliation(s) ==
    IF s.kind = "stop" /\ s.step = "applied" THEN StopOwed(s)
    ELSE s.run \in Active \/ s.id # 0 \/ s.kind # "none"

\* reconcile_gone, with whether the participant is detached.
GoneRow(s) ==
    IF s.kind = "stop" /\ Open(s)
    THEN [s |-> ConfirmedStop([s EXCEPT !.step = "applied"]), detach |-> TRUE]
    ELSE IF s.kind = "start" /\ Open(s)
    THEN [s |-> [s EXCEPT !.id = 0, !.step = "prepared", !.run = "starting", !.act = FALSE],
          detach |-> FALSE]
    ELSE IF s.run \in Active \cup {"disconnected"}
    THEN [s |-> ConfirmedAbsent(s), detach |-> TRUE]
    ELSE [s |-> [s EXCEPT !.id = 0], detach |-> s.id # 0]

\* reconcile_observation
ObservedRow(s, o) ==
    IF StopOwed(s) THEN [s |-> ConfirmedStop(s), detach |-> TRUE]
    ELSE CASE o = "adopted" -> [s |-> [s EXCEPT !.act = FALSE], detach |-> FALSE]
           [] o = "gone"    -> GoneRow(s)
           [] OTHER         -> [s |-> Retained(s), detach |-> TRUE]

\* apply_reconciliation: the row, the outcome of its request, the participant.
ReconciledRow(s, o) ==
    IF s.step = "prepared" THEN [s |-> Abandoned(s), out |-> "rejected", detach |-> FALSE]
    ELSE IF s.kind = "stop" /\ (s.step = "applied" \/ (o = "gone" /\ Open(s)))
    THEN [s |-> Finalized(s), out |-> "done", detach |-> TRUE]
    ELSE IF o = "gone" /\ s.kind = "start" /\ Open(s)
    THEN [s |-> RejectedStart(s), out |-> "rejected", detach |-> FALSE]
    ELSE LET r == ObservedRow(s, o)
         IN  [s |-> IF o = "gone" /\ cleanup
                    THEN [r.s EXCEPT !.run = "stopped", !.rec = FALSE] ELSE r.s,
              out |-> "none", detach |-> r.detach]

------------------------
(* The adapter. *)

SlotIs(state, t) == slot = [state |-> state, tok |-> t]
SetSlot(state, t) == slot' = [state |-> state, tok |-> t]

\* observe: what the adapter may answer for a stored session.  A runtime that
\* is busy, unhealthy or no longer authorized is uncertain.
Observations(s) ==
    LET known == slot.state \notin {"absent", "vacant"} /\ slot.tok = s.id IN
    CASE slot.state = "absent" ->
            IF s.id = 0 THEN {IF s.kind = "start" /\ s.step = "prepared" THEN "gone" ELSE "ambiguous"}
            ELSE IF s.id \in lost THEN {"ambiguous"}
            ELSE {IF s.id \in alive THEN "uncertain" ELSE "gone"}
      [] slot.state = "vacant" -> {"gone"}
      [] known /\ slot.state \in {"reserved", "stopped"} -> {"gone"}
      [] known /\ slot.state = "launching" ->
            {IF slot.tok \in alive \cup lost THEN "uncertain" ELSE "gone"}
      [] known /\ slot.state \notin {"reserved", "stopped", "launching"} ->
            IF slot.tok \in alive THEN {"adopted", "uncertain"} ELSE {"uncertain"}
      [] OTHER -> {"ambiguous"}

\* stop: the exact running runtime, or one already confirmed.
MayStop(t) == slot.state \in {"running", "stopped"} /\ slot.tok = t /\ t # 0
StopEffect == /\ SetSlot("stopped", slot.tok)
              /\ alive' = alive \ {slot.tok}

\* release_checkpointed_start_absence and release_confirmed_stop
Release(s) ==
    slot' = IF /\ s.id # 0 /\ slot.tok = s.id
               /\ \/ slot.state = "stopped"
                  \/ s.kind = "start" /\ slot.state \in {"reserved", "launching"}
            THEN [state |-> "vacant", tok |-> 0] ELSE slot

------------------------
(* Common parts of the steps. *)

Up   == phase # "down"
At(p, l) == Up /\ pc[p] = l
Goto(p, l) == pc' = [pc EXCEPT ![p] = l]

\* A transaction that saves the session: every other loaded copy is stale.
Save(s) == sess' = s /\ fresh' = {}
Load(p) == snap' = [snap EXCEPT ![p] = sess] /\ fresh' = fresh \cup {p}

Detach == part' = IF part \in {"joined", "detached"} THEN "detached" ELSE part
Settle(r, out) == res' = [res EXCEPT ![r] = [@ EXCEPT !.status = out, !.gen = 0]]
Pending(r) == res[r].status = "pending"

\* The actor gives up the current request; what it left behind is recovered.
Return == Goto("actor", "idle") /\ req' = "none"

\* A pass of the watch before admission ends with the next phase.
Step(p, l) ==
    IF l # "idle" THEN Goto(p, l) /\ UNCHANGED <<req, phase>>
    ELSE /\ Goto(p, "idle")
         /\ req' = IF p = "actor" THEN "none" ELSE req
         /\ phase' = IF p = "actor" THEN phase
                     ELSE IF phase = "cleaning" THEN "startup" ELSE "open"

\* apply_reconciliation under the CAS of owner p; a stale copy ends the pass.
Apply(p, o, l) ==
    IF p \in fresh
    THEN LET r == ReconciledRow(sess, o)
         IN  /\ Save(r.s)
             /\ IF r.detach THEN Detach ELSE part' = part
             /\ IF r.out = "none" THEN res' = res ELSE Settle(sess.op, r.out)
             /\ Step(p, l)
    ELSE /\ UNCHANGED <<sess, part, res, fresh>>
         /\ Step(p, "idle")

\* reject_abandoned_lifecycle_before_effect under the CAS of owner p
Abandon(p, l) ==
    IF p \in fresh
    THEN Save(Abandoned(sess)) /\ Settle(sess.op, "rejected") /\ Step(p, l)
    ELSE UNCHANGED <<sess, fresh, res>> /\ Step(p, "idle")

\* The intent of the session belongs to request r and is at step l.
Mine(r, k, l) == sess.op = r /\ sess.kind = k /\ sess.step = l

------------------------
(* The actor: launch commands. *)

\* A reservation an earlier server made for the request.
Foreign(r) == Pending(r) /\ res[r].gen # gen

\* inspect and prepare_agent_create_start: the rows of the new session.
CreateRow(r) ==
    /\ res[r].action = "create"
    /\ sess.run = "absent"
    /\ Save(PreparedLaunch([NoSession EXCEPT !.st = "available", !.run = "stopped"], r))
    /\ part' = "detached"

\* require_readdable
Readdable == /\ ~sess.en /\ ~sess.rec /\ ~sess.act /\ sess.id = 0
             /\ sess.run \in {"stopped", "error"}
             /\ part \in {"detached", "kicked"}

\* prepare_agent_launch of an existing session without an intent.
LaunchRow(r) ==
    /\ res[r].action \in {"start", "readd", "resume"}
    /\ sess.run # "absent" /\ ~cleanup /\ sess.kind = "none"
    /\ part # "exported"
    /\ res[r].action = "readd" \/ part # "kicked"
    /\ res[r].action = "readd" => Readdable
    /\ res[r].action = "resume" => sess.run # "paused"
    /\ Save(PreparedLaunch(sess, r))
    /\ part' = part

\* The reservation is inserted by the transaction that prepares the intent.
Claim(r) == res' = [res EXCEPT ![r] = [@ EXCEPT !.status = "pending", !.gen = gen]]

\* Where the watch holds the exact request in the lifecycle command tracker.
Holding == {"abandon", "observe", "adopt", "retain", "reload", "stop", "commit", "release"}

\* The room takes a request unless recovery holds it.
Admit(r) ==
    /\ At("actor", "idle") /\ phase = "open" /\ req = "none"
    /\ ~(pc["watch"] \in Holding /\ snap["watch"].op = r)

PrepareLaunch(r) ==
    /\ Admit(r) /\ res[r].status = "none"
    /\ CreateRow(r) \/ LaunchRow(r)
    /\ Claim(r)
    /\ Goto("actor", "reserve") /\ req' = r
    /\ UNCHANGED <<cleanup, snap, world, gen, phase, faults>>

\* A retry of the request finds its own prepared intent.
RetryLaunch(r) ==
    /\ Admit(r) /\ Pending(r) /\ ~Foreign(r)
    /\ Mine(r, "start", "prepared")
    /\ res[r].action # "create" => ~cleanup
    /\ Goto("actor", "reserve") /\ req' = r
    /\ UNCHANGED <<rows, snap, fresh, world, gen, phase, faults>>

\* commit_readd_listing: re-added without a start.
ListAgain(r) ==
    /\ Admit(r) /\ res[r].status = "none"
    /\ res[r].action = "list"
    /\ sess.run # "absent" /\ ~cleanup /\ sess.kind = "none" /\ Readdable
    /\ Save([sess EXCEPT !.st = "available", !.run = "stopped"])
    /\ part' = "detached"
    /\ Settle(r, "done")
    /\ UNCHANGED <<cleanup, pc, snap, req, world, gen, phase, faults>>

\* reserve_start
ReserveStart ==
    /\ At("actor", "reserve")
    /\ \/ /\ slot.state \in {"absent", "vacant"} /\ sess.id = 0 /\ last < MaxLaunches
          /\ last' = last + 1
          /\ SetSlot("reserved", last + 1)
          /\ Goto("actor", "authorize")
       \/ /\ \/ slot.state = "reserved" /\ sess.id \in {0, slot.tok}
             \/ slot.state = "running" /\ sess.id = slot.tok
          /\ Goto("actor", "authorize")
          /\ UNCHANGED <<slot, last>>
       \/ /\ \/ slot.state \in {"absent", "vacant"} /\ sess.id # 0
             \/ slot.state \in {"launching", "stopped"}
             \/ slot.state \in {"reserved", "running"} /\ sess.id # slot.tok
             \/ slot.state \in {"absent", "vacant"} /\ last = MaxLaunches
          /\ slot' = IF slot.state = "absent" THEN [state |-> "vacant", tok |-> 0] ELSE slot
          /\ last' = last
          /\ Goto("actor", "prefail")
    /\ UNCHANGED <<rows, snap, fresh, req, alive, lost, gen, phase, faults>>

\* Mutant: the reservation is not made durable before the launch.
AuthorizeStart_unnamed ==
    /\ At("actor", "authorize")
    /\ Mine(req, "start", "prepared") /\ ~cleanup
    /\ Save([sess EXCEPT !.st = "available", !.en = TRUE, !.rec = FALSE, !.step = "inflight"])
    /\ Goto("actor", "launch")
    /\ UNCHANGED <<part, res, cleanup, snap, req, world, gen, phase, faults>>

\* authorize_agent_start_effect and authorize_agent_create_start_effect: the row
\* names the launch before it begins.
AuthorizeStart ==
    /\ At("actor", "authorize")
    /\ Mine(req, "start", "prepared") /\ ~cleanup /\ Pending(req) /\ ~Foreign(req)
    /\ sess.id \in {0, slot.tok} /\ slot.tok # 0
    /\ Save([sess EXCEPT !.id = slot.tok, !.st = "available", !.en = TRUE, !.rec = FALSE,
                         !.run = IF @ \in {"starting", "idle", "paused"} THEN @ ELSE "starting",
                         !.step = "inflight"])
    /\ Goto("actor", "launch")
    /\ UNCHANGED <<part, res, cleanup, snap, req, world, gen, phase, faults>>

\* A refused authorization cancels the reservation; an ended session is also
\* recorded as a failure before the effect.
AuthorizeRefused ==
    /\ At("actor", "authorize") /\ faults < MaxFaults
    /\ faults' = faults + 1
    /\ slot' = IF slot.state = "reserved" THEN [state |-> "vacant", tok |-> 0] ELSE slot
    /\ \/ Goto("actor", "prefail") /\ req' = req
       \/ Return
    /\ UNCHANGED <<rows, snap, fresh, alive, lost, last, gen, phase>>

\* fail_agent_start_before_effect
FailBeforeEffect ==
    /\ At("actor", "prefail")
    /\ IF Mine(req, "start", "prepared")
       THEN Save(LaunchFailed(sess, FALSE)) /\ Settle(req, "rejected")
       ELSE UNCHANGED <<sess, fresh, res>>
    /\ Return
    /\ UNCHANGED <<part, cleanup, snap, world, gen, phase, faults>>

\* start_reserved holds the slot over the whole launch: a new runtime, the
\* running one again, or a failure before or after the effect.
LaunchOk ==
    /\ At("actor", "launch")
    /\ \/ /\ slot.state = "reserved"
          /\ SetSlot("running", slot.tok)
          /\ alive' = alive \cup {slot.tok}
       \/ /\ slot.state = "running" /\ slot.tok \in alive
          /\ UNCHANGED <<slot, alive>>
    /\ Goto("actor", IF slot.state = "running" THEN "reused" ELSE "complete")
    /\ UNCHANGED <<rows, snap, fresh, req, lost, last, gen, phase, faults>>

LaunchFails ==
    /\ At("actor", "launch") /\ faults < MaxFaults
    /\ faults' = faults + 1
    /\ \/ /\ slot.state = "reserved"
          /\ SetSlot("stopped", slot.tok)
          /\ Goto("actor", "fail") /\ alive' = alive
       \/ /\ slot.state = "reserved"
          /\ SetSlot("launching", slot.tok)
          /\ Goto("actor", "unconfirmed") /\ alive' = alive \cup {slot.tok}
    /\ UNCHANGED <<rows, snap, fresh, req, lost, last, gen, phase>>

\* A recovery pass that ran between authorization and launch stopped or
\* released the reservation: the launch is refused without an effect.
LaunchRefused ==
    /\ At("actor", "launch") /\ slot.state \in {"stopped", "vacant"}
    /\ Goto("actor", "fail")
    /\ UNCHANGED <<rows, snap, fresh, req, world, gen, phase, faults>>

\* reuse_owned_runtime of a runtime that died is uncertain.
ReuseFails ==
    /\ At("actor", "launch")
    /\ slot.state = "running" /\ slot.tok \notin alive
    /\ Goto("actor", "unconfirmed")
    /\ UNCHANGED <<rows, snap, fresh, req, world, gen, phase, faults>>

\* complete_agent_launch and complete_agent_create_start
CompleteStart ==
    /\ \/ At("actor", "complete") \/ At("actor", "reused")
    /\ IF Mine(req, "start", "inflight") /\ ~cleanup /\ Pending(req)
       THEN /\ Save(Started(sess, pc["actor"] = "reused"))
            /\ part' = "joined"
            /\ Settle(req, "done")
       ELSE UNCHANGED <<sess, fresh, part, res>>
    /\ Return
    /\ UNCHANGED <<cleanup, snap, world, gen, phase, faults>>

\* fail_agent_launch, then release_checkpointed_start_absence
FailLaunch ==
    /\ At("actor", "fail")
    /\ IF Mine(req, "start", "inflight")
       THEN Save(LaunchFailed(sess, TRUE)) /\ Settle(req, "rejected") /\ Release(sess)
       ELSE UNCHANGED <<sess, fresh, res, slot>>
    /\ Return
    /\ UNCHANGED <<part, cleanup, snap, alive, lost, last, gen, phase, faults>>

MarkStartUnconfirmed ==
    /\ At("actor", "unconfirmed")
    /\ IF Mine(req, "start", "inflight") THEN Save(Unconfirmed(sess)) ELSE UNCHANGED <<sess, fresh>>
    /\ Return
    /\ UNCHANGED <<part, res, cleanup, snap, world, gen, phase, faults>>

\* A transaction of the actor fails: the request stays pending.
StoreFails ==
    /\ Up /\ pc["actor"] \in {"prefail", "complete", "reused", "fail", "unconfirmed",
                              "stop_auth", "record", "finalize", "stop_unconfirmed"}
    /\ faults < MaxFaults
    /\ faults' = faults + 1
    /\ Return
    /\ UNCHANGED <<rows, snap, fresh, world, gen, phase>>

Launching ==
    \/ \E r \in Requests : PrepareLaunch(r) \/ RetryLaunch(r) \/ ListAgain(r)
    \/ ReserveStart \/ AuthorizeStart \/ AuthorizeRefused \/ FailBeforeEffect
    \/ LaunchOk \/ LaunchFails \/ LaunchRefused \/ ReuseFails
    \/ CompleteStart \/ FailLaunch \/ MarkStartUnconfirmed \/ StoreFails

------------------------
(* The actor: stop commands. *)

\* prepare_agent_stop: nothing to stop, or a stop intent on a named runtime.
PrepareStop(r) ==
    /\ Admit(r) /\ res[r].status = "none"
    /\ res[r].action = "stop" /\ sess.run # "absent" /\ sess.kind = "none"
    /\ \/ /\ sess.run = "stopped" /\ sess.id = 0
          /\ Settle(r, "done")
          /\ UNCHANGED <<sess, fresh, pc, req>>
       \/ /\ sess.id # 0
          /\ Save(Intent(sess, r, "stop"))
          /\ Claim(r)
          /\ Goto("actor", "stop_auth") /\ req' = r
    /\ UNCHANGED <<part, cleanup, snap, world, gen, phase, faults>>

RetryStop(r) ==
    /\ Admit(r) /\ Pending(r) /\ ~Foreign(r)
    /\ res[r].action = "stop" /\ sess.op = r /\ sess.step \in {"prepared", "applied"}
    /\ Goto("actor", IF sess.step = "applied" THEN "finalize" ELSE "stop_auth") /\ req' = r
    /\ UNCHANGED <<rows, snap, fresh, world, gen, phase, faults>>

\* authorize_agent_stop_effect
AuthorizeStop ==
    /\ At("actor", "stop_auth")
    /\ IF Mine(req, "stop", "prepared") /\ Pending(req) /\ ~Foreign(req)
       THEN /\ Save([sess EXCEPT !.run = "stopping", !.en = FALSE, !.step = "inflight"])
            /\ snap' = [snap EXCEPT !["actor"] = sess']
            /\ Goto("actor", "stopping") /\ req' = req
       ELSE Return /\ UNCHANGED <<sess, fresh, snap>>
    /\ UNCHANGED <<part, res, cleanup, world, gen, phase, faults>>

\* The room session that asked has ended: fail_agent_stop_before_effect.
AuthorizeStopRefused ==
    /\ At("actor", "stop_auth") /\ faults < MaxFaults
    /\ Mine(req, "stop", "prepared")
    /\ faults' = faults + 1
    /\ Save(ClearIntent(sess)) /\ Settle(req, "rejected")
    /\ Return
    /\ UNCHANGED <<part, cleanup, snap, world, gen, phase>>

StopRuntime ==
    /\ At("actor", "stopping")
    /\ \/ /\ MayStop(snap["actor"].id) /\ StopEffect
          /\ Goto("actor", "record") /\ faults' = faults
       \/ /\ MayStop(snap["actor"].id) /\ slot.state = "running" /\ faults < MaxFaults
          /\ faults' = faults + 1
          /\ Goto("actor", "stop_unconfirmed") /\ UNCHANGED <<slot, alive>>
       \/ /\ ~MayStop(snap["actor"].id)
          /\ Goto("actor", "stop_unconfirmed") /\ UNCHANGED <<slot, alive, faults>>
    /\ UNCHANGED <<rows, snap, fresh, req, lost, last, gen, phase>>

\* record_agent_stop_effect, then release_confirmed_stop
RecordStop ==
    /\ At("actor", "record")
    /\ IF Mine(req, "stop", "inflight") \/ Mine(req, "stop", "applied")
       THEN Save([sess EXCEPT !.step = "applied"]) /\ Goto("actor", "release") /\ req' = req
       ELSE Return /\ UNCHANGED <<sess, fresh>>
    /\ UNCHANGED <<part, res, cleanup, snap, world, gen, phase, faults>>

ReleaseStop ==
    /\ At("actor", "release")
    /\ Release(snap["actor"])
    /\ Goto("actor", "finalize")
    /\ UNCHANGED <<rows, snap, fresh, req, alive, lost, last, gen, phase, faults>>

FinalizeStop ==
    /\ At("actor", "finalize")
    /\ IF Mine(req, "stop", "applied")
       THEN Save(Finalized(sess)) /\ Detach /\ Settle(req, "done")
       ELSE UNCHANGED <<sess, fresh, part, res>>
    /\ Return
    /\ UNCHANGED <<cleanup, snap, world, gen, phase, faults>>

MarkStopUnconfirmed ==
    /\ At("actor", "stop_unconfirmed")
    /\ IF Mine(req, "stop", "inflight")
       THEN Save(Unconfirmed(sess)) /\ Detach
       ELSE UNCHANGED <<sess, fresh, part>>
    /\ Return
    /\ UNCHANGED <<res, cleanup, snap, world, gen, phase, faults>>

Stopping ==
    \/ \E r \in Requests : PrepareStop(r) \/ RetryStop(r)
    \/ AuthorizeStop \/ AuthorizeStopRefused \/ StopRuntime \/ RecordStop \/ ReleaseStop
    \/ FinalizeStop \/ MarkStopUnconfirmed

------------------------
(* The actor: recovery of its own request, pause, resume, removal. *)

\* recover_exact_lifecycle_command: a retry finds its effect unresolved.
LiveLoad(r) ==
    /\ Admit(r) /\ Pending(r) /\ ~Foreign(r)
    /\ sess.op = r /\ sess.step \in {"inflight", "unconfirmed"}
    /\ cleanup => sess.kind = "stop" \/ res[r].action = "create"
    /\ Load("actor")
    /\ Goto("actor", "l_observe") /\ req' = r
    /\ UNCHANGED <<rows, world, gen, phase, faults>>

LiveObserve ==
    /\ At("actor", "l_observe")
    /\ \E o \in Observations(snap["actor"]) :
          CASE o = "gone" -> Goto("actor", "l_gone") /\ req' = req
            [] o = "adopted" /\ snap["actor"].kind = "start" -> Goto("actor", "l_adopt") /\ req' = req
            [] OTHER -> Return
    /\ UNCHANGED <<rows, snap, fresh, world, gen, phase, faults>>

\* apply_live_reconciliation: the original effect may be tried again.
LiveApply ==
    /\ Up /\ pc["actor"] \in {"l_gone", "l_adopt"}
    /\ IF "actor" \notin fresh
       THEN Return /\ UNCHANGED <<sess, fresh, part>>
       ELSE /\ req' = req
            /\ IF pc["actor"] = "l_gone"
               THEN /\ Save(GoneRow(sess).s)
                    /\ IF GoneRow(sess).detach THEN Detach ELSE part' = part
                    /\ Goto("actor", "l_release")
               ELSE /\ Save([sess EXCEPT !.st = "available", !.en = TRUE, !.run = "starting",
                                         !.act = FALSE, !.rec = FALSE, !.step = "prepared"])
                    /\ Goto("actor", "l_retry") /\ part' = part
    /\ UNCHANGED <<res, cleanup, snap, world, gen, phase, faults>>

LiveRelease ==
    /\ At("actor", "l_release")
    /\ Release(snap["actor"])
    /\ Goto("actor", "l_retry")
    /\ UNCHANGED <<rows, snap, fresh, req, alive, lost, last, gen, phase, faults>>

LiveRetry ==
    /\ At("actor", "l_retry")
    /\ CASE Mine(req, "start", "prepared") /\ (cleanup => res[req].action = "create") ->
                Goto("actor", "reserve") /\ req' = req
         [] Mine(req, "stop", "applied") -> Goto("actor", "finalize") /\ req' = req
         [] OTHER -> Return
    /\ UNCHANGED <<rows, snap, fresh, world, gen, phase, faults>>

\* require_resident_state
Resident(run, en) ==
    /\ part = "joined" /\ sess.st = "attached" /\ sess.act /\ ~sess.rec
    /\ sess.run = run /\ sess.en = en /\ sess.id # 0 /\ sess.kind = "none"

ResidentFor(r) == IF res[r].action = "pause" THEN Resident("idle", TRUE) ELSE Resident("paused", FALSE)

\* prepare_resident_action, then prove_resident_runtime
ProveResident(r) ==
    /\ Admit(r) /\ res[r].status = "none"
    /\ res[r].action \in {"pause", "resume"} /\ ResidentFor(r)
    /\ SlotIs("running", sess.id) /\ sess.id \in alive
    /\ Load("actor")
    /\ Goto("actor", "resident") /\ req' = r
    /\ UNCHANGED <<rows, world, gen, phase, faults>>

\* execute_agent_pause and resume_paused_agent check everything again.
CommitResident ==
    /\ At("actor", "resident")
    /\ IF ResidentFor(req) /\ sess.id = snap["actor"].id
       THEN /\ Save([sess EXCEPT !.en = ~@, !.run = IF @ = "idle" THEN "paused" ELSE "idle"])
            /\ Settle(req, "done")
       ELSE UNCHANGED <<sess, fresh, res>>
    /\ Return
    /\ UNCHANGED <<part, cleanup, snap, world, gen, phase, faults>>

\* execute_participant_removal; the actor then tries the clean-up itself.
Remove(r) ==
    /\ Admit(r) /\ res[r].status = "none"
    /\ res[r].action \in {"kick", "export"} /\ sess.run # "absent"
    /\ part # "exported"
    /\ part # IF res[r].action = "kick" THEN "kicked" ELSE "exported"
    /\ Save([sess EXCEPT !.en = FALSE, !.st = "detached"])
    /\ part' = IF res[r].action = "kick" THEN "kicked" ELSE "exported"
    /\ cleanup' = TRUE
    /\ Settle(r, "done")
    /\ Goto("actor", "c_try") /\ req' = r
    /\ UNCHANGED <<snap, world, gen, phase, faults>>

Residing ==
    \/ \E r \in Requests : LiveLoad(r) \/ ProveResident(r) \/ Remove(r)
    \/ LiveObserve \/ LiveApply \/ LiveRelease \/ LiveRetry \/ CommitResident

------------------------
(* Clean-up of a removed session, by either owner. *)

\* What finish_cleanup_in demands of the row.
Finishable == /\ sess.kind = "none" /\ sess.run \in {"stopped", "error"}
              /\ ~sess.rec /\ ~sess.act /\ sess.id = 0

FinishRow == /\ Save([sess EXCEPT !.st = IF part = "joined" THEN "available" ELSE "detached",
                                  !.run = "stopped", !.en = FALSE])
             /\ cleanup' = FALSE

\* attempt_cleanup: finish, or load the candidate.
CleanupTry(p) ==
    /\ At(p, "c_try")
    /\ IF ~cleanup \/ Finishable
       THEN /\ IF cleanup THEN FinishRow ELSE UNCHANGED <<sess, fresh, cleanup>>
            /\ Step(p, "idle") /\ snap' = snap
       ELSE /\ Load(p)
            /\ Step(p, CASE sess.step = "prepared" -> "c_abandon"
                         [] sess.step = "applied" -> "c_commit"
                         [] OTHER -> "c_observe")
            /\ UNCHANGED <<sess, cleanup>>
    /\ UNCHANGED <<part, res, world, gen, faults>>

CleanupAbandon(p) ==
    /\ At(p, "c_abandon")
    /\ Abandon(p, "c_finish")
    /\ UNCHANGED <<part, cleanup, snap, world, gen, faults>>

\* observe_then_stop
CleanupObserve(p) ==
    /\ At(p, "c_observe")
    /\ \E o \in Observations(snap[p]) :
          Step(p, CASE o = "gone" -> "c_commit" [] o = "ambiguous" -> "idle" [] OTHER -> "c_stop")
    /\ UNCHANGED <<rows, snap, fresh, world, gen, faults>>

\* Mutant: a failed stop counts as a stop.
CleanupStop_ignored(p) ==
    /\ At(p, "c_stop")
    /\ Step(p, "c_commit")
    /\ UNCHANGED <<rows, snap, fresh, world, gen, faults>>

CleanupStop(p) ==
    /\ At(p, "c_stop")
    /\ \/ /\ MayStop(snap[p].id) /\ StopEffect
          /\ Step(p, "c_commit") /\ faults' = faults
       \/ /\ MayStop(snap[p].id) /\ slot.state = "running" /\ faults < MaxFaults
          /\ faults' = faults + 1
          /\ Step(p, "idle") /\ UNCHANGED <<slot, alive>>
       \/ /\ ~MayStop(snap[p].id)
          /\ Step(p, "idle") /\ UNCHANGED <<slot, alive, faults>>
    /\ UNCHANGED <<rows, snap, fresh, lost, last, gen>>

CleanupCommit(p) ==
    /\ At(p, "c_commit")
    /\ Apply(p, "gone", "c_release")
    /\ UNCHANGED <<cleanup, snap, world, gen, faults>>

CleanupRelease(p) ==
    /\ At(p, "c_release")
    /\ Release(snap[p])
    /\ Step(p, "c_finish")
    /\ UNCHANGED <<rows, snap, fresh, alive, lost, last, gen, faults>>

CleanupFinish(p) ==
    /\ At(p, "c_finish")
    /\ IF cleanup /\ Finishable THEN FinishRow ELSE UNCHANGED <<sess, fresh, cleanup>>
    /\ Step(p, "idle")
    /\ UNCHANGED <<part, res, snap, world, gen, faults>>

CleanupStep(p) == \/ CleanupTry(p) \/ CleanupAbandon(p) \/ CleanupObserve(p) \/ CleanupStop(p)
                  \/ CleanupCommit(p) \/ CleanupRelease(p) \/ CleanupFinish(p)

------------------------
(* The watch: the passes before admission, then the periodic pages. *)

\* Mutant: clean-up rows are only visited before admission.
WatchCleanup_startup_only ==
    /\ At("watch", "idle") /\ phase = "cleaning"
    /\ Step("watch", IF cleanup THEN "c_try" ELSE "idle")
    /\ UNCHANGED <<rows, snap, fresh, world, gen, faults>>

\* reconcile_before_admission and the clean-up page
WatchCleanup ==
    /\ At("watch", "idle") /\ phase \in {"cleaning", "open"}
    /\ phase = "open" => cleanup
    /\ Step("watch", IF cleanup THEN "c_try" ELSE "idle")
    /\ UNCHANGED <<rows, snap, fresh, world, gen, faults>>

\* load_runtime_reconciliation_candidates before admission, then the pages of pending
\* reservations: neither takes a session that a clean-up owns.
WatchLoad ==
    /\ At("watch", "idle") /\ phase \in {"startup", "open"}
    /\ phase = "open" => sess.op # "none" /\ ~cleanup
    /\ IF phase = "startup" /\ (cleanup \/ ~NeedsReconciliation(sess))
       THEN Step("watch", "idle") /\ UNCHANGED <<snap, fresh>>
       ELSE Load("watch") /\ Step("watch", "claim")
    /\ UNCHANGED <<rows, world, gen, faults>>

\* claim_candidate fails while the actor runs the exact request.
WatchClaim ==
    /\ At("watch", "claim")
    /\ LET s == snap["watch"]
       IN  Step("watch", IF req = s.op /\ req # "none" THEN "idle"
                         ELSE CASE s.step = "prepared" -> "abandon"
                                [] s.step = "applied" -> "commit"
                                [] OTHER -> "observe")
    /\ UNCHANGED <<rows, snap, fresh, world, gen, faults>>

WatchAbandon ==
    /\ At("watch", "abandon")
    /\ Abandon("watch", "idle")
    /\ UNCHANGED <<part, cleanup, snap, world, gen, faults>>

\* An ambiguous runtime is only retained by the pass before admission.
WatchObserve ==
    /\ At("watch", "observe")
    /\ \E o \in Observations(snap["watch"]) :
          Step("watch", CASE o = "gone" -> "commit"
                          [] o = "adopted" -> "adopt"
                          [] o = "ambiguous" -> IF phase = "startup" THEN "ambiguous" ELSE "idle"
                          [] OTHER -> "retain")
    /\ UNCHANGED <<rows, snap, fresh, world, gen, faults>>

WatchRetain ==
    /\ Up /\ pc["watch"] \in {"adopt", "retain", "ambiguous"}
    /\ Apply("watch", CASE pc["watch"] = "adopt" -> "adopted"
                        [] pc["watch"] = "retain" -> "uncertain"
                        [] OTHER -> "ambiguous",
             IF pc["watch"] = "ambiguous" THEN "idle" ELSE "reload")
    /\ UNCHANGED <<cleanup, snap, world, gen, faults>>

WatchReload ==
    /\ At("watch", "reload")
    /\ IF NeedsReconciliation(sess)
       THEN Load("watch") /\ Step("watch", "stop")
       ELSE Step("watch", "idle") /\ UNCHANGED <<snap, fresh>>
    /\ UNCHANGED <<rows, world, gen, faults>>

WatchStop ==
    /\ At("watch", "stop")
    /\ \/ /\ MayStop(snap["watch"].id) /\ StopEffect
          /\ Step("watch", "commit") /\ faults' = faults
       \/ /\ MayStop(snap["watch"].id) /\ slot.state = "running" /\ faults < MaxFaults
          /\ faults' = faults + 1
          /\ Step("watch", "idle") /\ UNCHANGED <<slot, alive>>
       \/ /\ ~MayStop(snap["watch"].id)
          /\ Step("watch", "idle") /\ UNCHANGED <<slot, alive, faults>>
    /\ UNCHANGED <<rows, snap, fresh, lost, last, gen>>

WatchCommit ==
    /\ At("watch", "commit")
    /\ Apply("watch", "gone", "release")
    /\ UNCHANGED <<cleanup, snap, world, gen, faults>>

WatchRelease ==
    /\ At("watch", "release")
    /\ Release(snap["watch"])
    /\ Step("watch", "idle")
    /\ UNCHANGED <<rows, snap, fresh, alive, lost, last, gen, faults>>

Watching == \/ WatchCleanup \/ WatchLoad \/ WatchClaim \/ WatchAbandon \/ WatchObserve
            \/ WatchRetain \/ WatchReload \/ WatchStop \/ WatchCommit \/ WatchRelease

------------------------
(* Runtimes and restarts. *)

RuntimeDies ==
    /\ slot.state = "running" /\ slot.tok \in alive
    /\ alive' = alive \ {slot.tok}
    /\ UNCHANGED <<rows, procs, slot, lost, last, gen, phase, faults>>

\* A guardian ends what an earlier server, or a failed launch, left behind ...
OrphanEnds ==
    /\ \E t \in alive : ~SlotIs("running", t) /\ alive' = alive \ {t}
    /\ UNCHANGED <<rows, procs, slot, lost, last, gen, phase, faults>>

\* ... or is killed before its receipt: the absence can never be proved.
OrphanLost ==
    /\ Cardinality(lost) < MaxLost
    /\ \E t \in alive : /\ ~SlotIs("running", t)
                        /\ alive' = alive \ {t} /\ lost' = lost \cup {t}
    /\ UNCHANGED <<rows, procs, slot, last, gen, phase, faults>>

\* record_idle_runtime_failure of a runtime that ended between turns.
IdleFailure ==
    /\ phase = "open"
    /\ SlotIs("running", sess.id) /\ sess.id \notin alive
    /\ sess.kind = "none" /\ ~sess.rec
    /\ Save(Retained(sess)) /\ Detach
    /\ UNCHANGED <<res, cleanup, pc, snap, req, world, gen, phase, faults>>

Forget == /\ slot' = [state |-> "absent", tok |-> 0]
          /\ pc' = [p \in Owners |-> "idle"] /\ snap' = [p \in Owners |-> NoSession]
          /\ fresh' = {} /\ req' = "none" /\ phase' = "down" /\ gen' = gen + 1

Crash ==
    /\ Up /\ gen < MaxCrashes
    /\ Forget
    /\ UNCHANGED <<rows, alive, lost, last, faults>>

\* A graceful shutdown stops the running slot and checkpoints its absence.
Shutdown ==
    /\ phase = "open" /\ gen < MaxCrashes
    /\ pc = [p \in Owners |-> "idle"]
    /\ SlotIs("running", sess.id)
    /\ alive' = alive \ {slot.tok}
    /\ LET r == ReconciledRow(sess, "gone")
       IN  /\ sess' = r.s
           /\ IF r.detach THEN Detach ELSE part' = part
           /\ IF r.out = "none" THEN res' = res ELSE Settle(sess.op, r.out)
    /\ Forget
    /\ UNCHANGED <<cleanup, lost, last, faults>>

Boot == /\ phase = "down"
        /\ phase' = "cleaning"
        /\ UNCHANGED <<rows, procs, world, gen, faults>>

Faulting == RuntimeDies \/ OrphanEnds \/ OrphanLost \/ IdleFailure \/ Crash \/ Shutdown \/ Boot

------------------------
AgentCustodyInit ==
    /\ sess = NoSession /\ part = "none" /\ cleanup = FALSE
    /\ \E script \in Scripts :
           res = [r \in Requests |-> [action |-> script[r], status |-> "none", gen |-> 0]]
    /\ slot = [state |-> "absent", tok |-> 0] /\ alive = {} /\ lost = {} /\ last = 0
    /\ gen = 0 /\ phase = "open" /\ faults = 0
    /\ pc = [p \in Owners |-> "idle"] /\ snap = [p \in Owners |-> NoSession]
    /\ fresh = {} /\ req = "none"

AgentCustodyNext ==
    \/ Launching \/ Stopping \/ Residing
    \/ \E p \in Owners : CleanupStep(p)
    \/ Watching \/ Faulting

AgentCustodySpec == AgentCustodyInit /\ [][AgentCustodyNext]_agentCustody

\* The steps of an owner that runs are taken, the watch ticks, the server is
\* started again, and guardians end what they own.  Requests need not come, and
\* a client that repeats one does not hold it at every tick of the watch.
ActorRuns ==
    \/ ReserveStart \/ AuthorizeStart \/ FailBeforeEffect \/ LaunchOk \/ LaunchRefused \/ ReuseFails
    \/ CompleteStart \/ FailLaunch \/ MarkStartUnconfirmed
    \/ AuthorizeStop \/ StopRuntime \/ RecordStop \/ ReleaseStop \/ FinalizeStop
    \/ MarkStopUnconfirmed \/ LiveObserve \/ LiveApply \/ LiveRelease \/ LiveRetry
    \/ CommitResident \/ CleanupStep("actor")
FairAgentCustodySpec ==
    /\ AgentCustodySpec
    /\ WF_agentCustody(ActorRuns)
    /\ SF_agentCustody(WatchCleanup)
    /\ SF_agentCustody(WatchLoad /\ req = "none")
    /\ SF_agentCustody(WatchClaim /\ req # snap["watch"].op)
    /\ WF_agentCustody(CleanupStep("watch") \/ (Watching /\ pc["watch"] # "idle"))
    /\ WF_agentCustody(OrphanEnds)
    /\ WF_agentCustody(Boot)

------------------------
(* Properties. *)

\* validate_candidate_authority refuses any other row, for ever: the intent of
\* the session and the one pending reservation belong together, over every
\* interleaving of commands, recovery, clean-up and restarts.  And no runtime of
\* this server runs that the durable session does not name: a launch is made
\* durable before its effect and forgotten only after its end.
AuthorityHolds ==
    /\ (sess.op = "none") = (sess.kind = "none") /\ (sess.kind = "none") = (sess.step = "none")
    /\ \A r \in Requests : Pending(r) = (sess.op = r)
    /\ sess.step = "applied" => sess.kind = "stop"
    /\ slot.state # "absent" /\ slot.tok \in alive => sess.id = slot.tok

\* The clean-up row of a removed agent goes only when nothing of its runtime is
\* left in the slot, and an exported agent is never run again.
RemovalEndsRuntime ==
    [][/\ cleanup /\ ~cleanup' => slot.tok \notin alive
       /\ part = "exported" /\ ~cleanup => slot'.tok \notin alive']_agentCustody

\* Every admitted request is settled and every removal cleaned up, by the actor,
\* the watch or the pass after a restart, unless the end of a launch became
\* unprovable; a removal also not when the row keeps a recovery fence with no
\* identity left to observe.
LifecycleResolves ==
    /\ \A r \in Requests : Pending(r) ~> (~Pending(r) \/ lost # {})
    /\ cleanup ~> (~cleanup \/ lost # {} \/ (sess.rec /\ sess.id = 0))

\* The reconciliation owner clears the recovery fence before it erases the
\* identity the fence is about, so a later removal need not observe it again.
ErasedIdentityUnfenced ==
    sess.kind = "none" /\ sess.id = 0 => ~sess.rec

=============================================================================
