--------------------------- MODULE RuntimeCustody ---------------------------
(***************************************************************************)
(* Custody of the process tree of one agent session's provider (Linux).    *)
(* The server never owns the provider directly: it spawns a guardian,      *)
(* which spawns an anchor (the leader of the provider's process group and  *)
(* holder of the lease file's lock) and, in the anchor's group, the        *)
(* provider.  Two files carry the custody over a crash of the server:      *)
(*                                                                         *)
(*   lease     a marker that names the launch and how far it went; the     *)
(*             anchor keeps it locked while it lives;                      *)
(*   lifetime  shared-locked by the server until the guardian has taken    *)
(*             over, by the guardian until it cleans up, and by every      *)
(*             process of the provider that keeps the inherited descriptor.*)
(*                                                                         *)
(* The server may only forget a launch when it can prove that nothing of   *)
(* it still runs: by a confirmed stop, by the guardian's receipt, or by    *)
(* what the two files show after a restart.                                *)
(***************************************************************************)
EXTENDS Naturals, FiniteSets

CONSTANTS
    MaxLaunches,   \* bound on launches of the session
    MaxCrashes,    \* bound on server crashes
    MaxBoots,      \* bound on reboots of the host
    MaxKills,      \* bound on guardians killed from outside
    Escapes        \* whether a provider may leave a descendant out of its group

ASSUME CustodyAssumption ==
    /\ MaxLaunches \in Nat \ {0}
    /\ {MaxCrashes, MaxBoots, MaxKills} \subseteq Nat
    /\ Escapes \in BOOLEAN

VARIABLES
    up,       \* whether the server runs
    slot,     \* the adapter's RuntimeSlot of the session, in server memory
    pipe,     \* the launch whose guardian input the server holds open; 0: none
    wait,     \* what the server awaits of the guardian
    ident,    \* the durable runtime identity of the session row; 0: empty
    marker,   \* the lease file
    lifetime, \* the launch named in the lifetime file; 0: no file
    tree,     \* the processes of every launch
    last,     \* the last launch token drawn
    gone,     \* how the absence of a launch was established
    boot,     \* the current boot
    crashes,  \* server crashes so far
    kills     \* guardians killed so far

files   == <<marker, lifetime>>
server  == <<up, slot, pipe, wait>>
custody == <<server, ident, files, tree, last, gone, boot, crashes, kills>>

Launches == 1..MaxLaunches

NoTree == [guardian |-> "none", holds |-> FALSE, anchor |-> "none",
           provider |-> "none", child |-> "none", frozen |-> FALSE, boot |-> 0]

Ended == {"ok", "failed", "killed"}
At(t, phase) == tree[t].guardian = phase
Vacant == [state |-> "vacant", tok |-> 0]
Absent == [state |-> "absent", tok |-> 0]
Slot(s, t) == slot = [state |-> s, tok |-> t]

------------------------
(* What can be seen of a launch. *)

\* Some process of the anchor's group is left.
GroupExists(t) == tree[t].anchor \in {"spawned", "active"}
                  \/ tree[t].provider \in {"stopped", "running"}

\* The anchor has the lease file locked.
Locked == \E t \in Launches : tree[t].anchor = "active"

\* Someone holds the lifetime lock of launch t.
Holds(t) ==
    \/ tree[t].holds
    \/ tree[t].provider \in {"stopped", "running"}
    \/ tree[t].child = "held"
    \/ Slot("launching", t) /\ wait \in {"spawn", "handoff"}

\* A process that carries the launch token in its environment.
Tagged(t) == \/ tree[t].anchor \in {"spawned", "active"}
             \/ tree[t].provider = "running"
             \/ tree[t].child = "held"

\* Anything of the launch that could still act for the agent.
Alive(t) == GroupExists(t) \/ tree[t].child # "none"

\* Mutant: an unlocked unix marker with no visible process counts as gone.
LeaseObservation_unix_gone ==
    LET t == marker.tok
    IN  IF marker.kind = "missing" THEN "missing"
        ELSE IF Locked THEN "active"
        ELSE IF (lifetime = t /\ Holds(t)) \/ Tagged(t) \/ GroupExists(t) THEN "active"
        ELSE "generation_gone"

\* observe_runtime_lease: what the lease file shows to a process that tries its
\* lock and reads its marker.
LeaseObservation ==
    LET t == marker.tok
    IN  IF marker.kind = "missing" THEN "missing"
        ELSE IF Locked THEN "active"
        ELSE IF marker.kind = "gone" THEN "generation_gone"
        ELSE IF marker.kind = "unix" /\ marker.boot # boot THEN "previous_boot"
        ELSE IF \/ lifetime = t /\ Holds(t)
                \/ Tagged(t)
                \/ marker.kind = "unix" /\ GroupExists(t) THEN "active"
        ELSE IF marker.kind # "unix" /\ lifetime = t THEN "generation_gone"
        ELSE "unknown"

\* observation_proves_gone: the proof must name the durable launch, and only a
\* cold restart may use the evidence of an earlier boot.  A missing lease proves
\* the launch of an earlier boot gone, since its handle names that boot.
ProvesGone(t, cold) ==
    \/ LeaseObservation = "generation_gone" /\ marker.tok = t
    \/ cold /\ LeaseObservation = "previous_boot" /\ marker.tok = t
    \/ cold /\ LeaseObservation = "missing" /\ tree[t].boot # boot

\* unix_cleanup_receipt_is_present: the guardian wrote that nothing is left.
Receipt(t) == ~Locked /\ marker.kind = "gone" /\ marker.tok = t

\* remove_files: each file goes if it can be locked and still names the launch.
RemoveFiles(t) ==
    /\ marker' = IF ~Locked /\ marker.tok = t
                 THEN [kind |-> "missing", tok |-> 0, boot |-> 0] ELSE marker
    /\ lifetime' = IF lifetime = t /\ ~Holds(t) THEN 0 ELSE lifetime

SetTree(t, r) == tree' = [tree EXCEPT ![t] = r]

------------------------
(* The server: reserve, authorize, launch. *)

\* reserve_start of a vacant slot for a session with no durable runtime draws a
\* launch token; it needs both files unlocked.
ReserveStart ==
    /\ up
    /\ slot.state \in {"absent", "vacant"}
    /\ ident = 0
    /\ last < MaxLaunches
    /\ ~Locked
    /\ lifetime # 0 => ~Holds(lifetime)
    /\ last' = last + 1
    /\ slot' = [state |-> "reserved", tok |-> last + 1]
    /\ marker' = [kind |-> "pending", tok |-> last + 1, boot |-> boot]
    /\ lifetime' = last + 1
    /\ tree' = [tree EXCEPT ![last + 1].boot = boot]
    /\ UNCHANGED <<up, pipe, wait, ident, gone, boot, crashes, kills>>

\* reserve_start of a session whose durable runtime this server does not own
\* is refused, and leaves a vacant slot behind.
ReserveRefused ==
    /\ up
    /\ slot = Absent
    /\ ident # 0
    /\ slot' = Vacant
    /\ UNCHANGED <<up, pipe, wait, ident, files, tree, last, gone, boot, crashes, kills>>

\* authorize_start_effect makes the reserved launch the session's identity.
AuthorizeStart ==
    /\ up
    /\ slot.state = "reserved"
    /\ ident = 0
    /\ ident' = slot.tok
    /\ UNCHANGED <<server, files, tree, last, gone, boot, crashes, kills>>

\* cancel_start_reservation after a refused authorization.
CancelReservation ==
    /\ up
    /\ slot.state = "reserved"
    /\ ident # slot.tok
    /\ slot' = Vacant
    /\ RemoveFiles(slot.tok)
    /\ UNCHANGED <<up, pipe, wait, ident, tree, last, gone, boot, crashes, kills>>

\* begin_launch_effect: the server takes the lifetime lock and marks the lease.
BeginLaunchEffect ==
    /\ up
    /\ slot.state = "reserved"
    /\ ident = slot.tok
    /\ lifetime = slot.tok
    /\ marker.kind = "pending" /\ marker.tok = slot.tok /\ ~Locked
    /\ slot' = [slot EXCEPT !.state = "launching"]
    /\ marker' = [marker EXCEPT !.kind = "launching"]
    /\ wait' = "spawn"
    /\ UNCHANGED <<up, pipe, ident, lifetime, tree, last, gone, boot, crashes, kills>>

\* establish_guardian_lifetime_custody spawns the guardian ...
SpawnGuardian ==
    /\ up
    /\ wait = "spawn"
    /\ SetTree(slot.tok, [tree[slot.tok] EXCEPT !.guardian = "spawned"])
    /\ pipe' = slot.tok
    /\ wait' = "handoff"
    /\ UNCHANGED <<up, slot, ident, files, last, gone, boot, crashes, kills>>

\* ... or fails to, which is a safe launch failure: the slot confirms the stop.
SpawnFails ==
    /\ up
    /\ wait = "spawn"
    /\ slot' = [slot EXCEPT !.state = "stopped"]
    /\ wait' = "none"
    /\ gone' = [gone EXCEPT ![slot.tok] = "proof"]
    /\ UNCHANGED <<up, pipe, ident, files, tree, last, boot, crashes, kills>>

\* The guardian reports that it holds the lifetime: the server lets its own lock
\* go and tells it to continue.
Handoff ==
    /\ up
    /\ wait = "handoff"
    /\ At(slot.tok, "handoff")
    /\ wait' = "ready"
    /\ SetTree(slot.tok, [tree[slot.tok] EXCEPT !.guardian = "anchoring",
                                                !.anchor = "spawned"])
    /\ UNCHANGED <<up, slot, pipe, ident, files, last, gone, boot, crashes, kills>>

\* abort_unacknowledged_guardian: no report in time.  The server closes the
\* guardian's input, kills it if need be, and knows that it started nothing.
AbortHandoff ==
    /\ up
    /\ wait = "handoff"
    /\ SetTree(slot.tok, [tree[slot.tok] EXCEPT !.guardian = "killed", !.holds = FALSE])
    /\ slot' = [slot EXCEPT !.state = "stopped"]
    /\ pipe' = 0
    /\ wait' = "none"
    /\ gone' = [gone EXCEPT ![slot.tok] = "proof"]
    /\ UNCHANGED <<up, ident, files, last, boot, crashes, kills>>

\* The guardian reports the provider ready and the server sees the provider
\* hold its lifetime: the slot runs.
LaunchReady ==
    /\ up
    /\ wait = "ready"
    /\ At(slot.tok, "serving")
    /\ Holds(slot.tok)
    /\ slot' = [slot EXCEPT !.state = "running"]
    /\ wait' = "none"
    /\ UNCHANGED <<up, pipe, ident, files, tree, last, gone, boot, crashes, kills>>

\* failed_started_guardian: no readiness in time, or the provider is not where
\* it should be.  The input is closed and the guardian gets a while to clean up.
LaunchFails ==
    /\ up
    /\ wait = "ready"
    /\ pipe' = 0
    /\ wait' = "cleanup"
    /\ UNCHANGED <<up, slot, ident, files, tree, last, gone, boot, crashes, kills>>

\* The guardian ended: with its receipt the failure is safe, without one the
\* slot stays launching and the effect uncertain.
CleanupEnds ==
    /\ up
    /\ wait = "cleanup"
    /\ tree[slot.tok].guardian \in Ended
    /\ wait' = "none"
    /\ IF Receipt(slot.tok)
       THEN /\ slot' = [slot EXCEPT !.state = "stopped"]
            /\ gone' = [gone EXCEPT ![slot.tok] = "proof"]
       ELSE UNCHANGED <<slot, gone>>
    /\ UNCHANGED <<up, pipe, ident, files, tree, last, boot, crashes, kills>>

\* The guardian did not end in time: it is killed and the effect is uncertain.
CleanupTimesOut ==
    /\ up
    /\ wait = "cleanup"
    /\ tree[slot.tok].guardian \notin Ended
    /\ kills < MaxKills
    /\ kills' = kills + 1
    /\ SetTree(slot.tok, [tree[slot.tok] EXCEPT !.guardian = "killed", !.holds = FALSE])
    /\ wait' = "none"
    /\ UNCHANGED <<up, slot, pipe, ident, files, last, gone, boot, crashes>>

\* begin_launch_effect and the launch as a whole, without its waits.
Launch == \/ BeginLaunchEffect \/ SpawnGuardian \/ SpawnFails
          \/ Handoff \/ AbortHandoff
          \/ LaunchReady \/ LaunchFails \/ CleanupEnds \/ CleanupTimesOut

------------------------
(* The server: stop, observe, release. *)

\* stop_inner of the running slot: the driver closes the guardian's input ...
RequestStop ==
    /\ up
    /\ slot.state = "running"
    /\ wait = "none"
    /\ pipe' = 0
    /\ wait' = "stop"
    /\ UNCHANGED <<up, slot, ident, files, tree, last, gone, boot, crashes, kills>>

\* ... and the stop is confirmed by a good exit of the guardian and by finding
\* neither its group, nor a tagged process, nor a held lifetime.
StopEnds ==
    /\ up
    /\ wait = "stop"
    /\ tree[slot.tok].guardian \in Ended
    /\ wait' = "none"
    /\ IF At(slot.tok, "ok") /\ ~GroupExists(slot.tok) /\ ~Tagged(slot.tok) /\ ~Holds(slot.tok)
       THEN /\ slot' = [slot EXCEPT !.state = "stopped"]
            /\ gone' = [gone EXCEPT ![slot.tok] = "proof"]
       ELSE UNCHANGED <<slot, gone>>
    /\ UNCHANGED <<up, pipe, ident, files, tree, last, boot, crashes, kills>>

\* observe of a launching slot: the receipt or the lease may show that nothing
\* is left of the launch; the absence becomes durable.
ObserveLaunching ==
    /\ up
    /\ slot.state = "launching"
    /\ wait = "none"
    /\ ident = slot.tok
    /\ Receipt(slot.tok) \/ ProvesGone(slot.tok, FALSE)
    /\ gone' = [gone EXCEPT ![slot.tok] = "proof"]
    /\ ident' = 0
    /\ UNCHANGED <<server, files, tree, last, boot, crashes, kills>>

\* shutdown_launching_runtime: a reservation without effect, or a launch shown
\* to be gone, becomes a confirmed stop.
ShutdownLaunching ==
    /\ up
    /\ wait = "none"
    /\ \/ slot.state = "reserved"
       \/ slot.state = "launching" /\ (Receipt(slot.tok) \/ ProvesGone(slot.tok, FALSE))
    /\ slot' = [slot EXCEPT !.state = "stopped"]
    /\ gone' = [gone EXCEPT ![slot.tok] = "proof"]
    /\ UNCHANGED <<up, pipe, wait, ident, files, tree, last, boot, crashes, kills>>

\* observe after a restart: no slot, so the files of the previous server speak.
ObserveCold ==
    /\ up
    /\ slot = Absent
    /\ ident # 0
    /\ ProvesGone(ident, TRUE)
    /\ gone' = [gone EXCEPT ![ident] = "proof"]
    /\ ident' = 0
    /\ UNCHANGED <<server, files, tree, last, boot, crashes, kills>>

\* observe of a slot that holds no runtime answers Gone without a proof.
ObserveVacant ==
    /\ up
    /\ slot = Vacant
    /\ ident # 0
    /\ gone' = [gone EXCEPT ![ident] = IF @ = "no" THEN "vacant" ELSE @]
    /\ ident' = 0
    /\ UNCHANGED <<server, files, tree, last, boot, crashes, kills>>

\* The absence is durable, then release_confirmed_stop or
\* release_checkpointed_start_absence removes the files and vacates the slot.
CheckpointStop ==
    /\ up
    /\ slot.state = "stopped"
    /\ ident = slot.tok
    /\ ident' = 0
    /\ UNCHANGED <<server, files, tree, last, gone, boot, crashes, kills>>

ReleaseStop ==
    /\ up
    /\ \/ slot.state = "stopped"
       \/ slot.state = "launching" /\ wait = "none" /\ gone[slot.tok] # "no"
    /\ ident # slot.tok
    /\ RemoveFiles(slot.tok)
    /\ slot' = Vacant
    /\ UNCHANGED <<up, pipe, wait, ident, tree, last, gone, boot, crashes, kills>>

Settle == \/ RequestStop \/ StopEnds \/ ObserveLaunching \/ ShutdownLaunching
          \/ ObserveCold \/ ObserveVacant \/ CheckpointStop \/ ReleaseStop

------------------------
(* The guardian, its anchor and the provider of launch t. *)

\* The members of the anchor's group die together.
KillGroup(r) == [r EXCEPT !.anchor = IF @ = "none" THEN @ ELSE "dead",
                          !.provider = IF @ = "none" THEN @ ELSE "exited"]

\* accept_handoff opens the lifetime file, which must still name the launch ...
GuardianOpens(t) ==
    /\ At(t, "spawned")
    /\ SetTree(t, IF lifetime = t THEN [tree[t] EXCEPT !.guardian = "handoff", !.holds = TRUE]
                                  ELSE [tree[t] EXCEPT !.guardian = "failed"])
    /\ UNCHANGED <<server, ident, files, last, gone, boot, crashes, kills>>

\* ... and ends when the server's end of the pipe closes before the hand-off.
GuardianUnacknowledged(t) ==
    /\ At(t, "handoff")
    /\ pipe # t
    /\ SetTree(t, [tree[t] EXCEPT !.guardian = "failed", !.holds = FALSE])
    /\ UNCHANGED <<server, ident, files, last, gone, boot, crashes, kills>>

\* run_anchor: activate_unix_runtime_lease locks the lease and names the group
\* in it, if the marker still is that of the launch.
AnchorActivates(t) ==
    /\ tree[t].anchor = "spawned"
    /\ IF ~Locked /\ marker.kind = "launching" /\ marker.tok = t
       THEN /\ marker' = [kind |-> "unix", tok |-> t, boot |-> boot]
            /\ SetTree(t, [tree[t] EXCEPT !.anchor = "active"])
       ELSE /\ SetTree(t, [tree[t] EXCEPT !.anchor = "dead"])
            /\ UNCHANGED marker
    /\ UNCHANGED <<server, ident, lifetime, last, gone, boot, crashes, kills>>

\* The guardian starts the launcher in the anchor's group; the launcher inherits
\* the lifetime and stops itself.
LauncherStops(t) ==
    /\ At(t, "anchoring")
    /\ tree[t].anchor = "active"
    /\ lifetime = t
    /\ SetTree(t, [tree[t] EXCEPT !.guardian = "launching", !.provider = "stopped"])
    /\ UNCHANGED <<server, ident, files, last, gone, boot, crashes, kills>>

\* The guardian continues the launcher, which becomes the provider, and serves.
ProviderResumes(t) ==
    /\ At(t, "launching")
    /\ tree[t].provider = "stopped"
    /\ SetTree(t, [tree[t] EXCEPT !.guardian = "serving", !.provider = "running"])
    /\ UNCHANGED <<server, ident, files, last, gone, boot, crashes, kills>>

\* The anchor died before it was ready, or the launcher could not be started:
\* the guardian goes on to its clean-up and drops its hold on the lifetime.
AnchorLost(t) ==
    /\ \/ At(t, "anchoring") /\ tree[t].anchor = "dead"
       \/ At(t, "launching")
    /\ SetTree(t, [tree[t] EXCEPT !.guardian = "unanchored", !.holds = FALSE])
    /\ UNCHANGED <<server, ident, files, last, gone, boot, crashes, kills>>

\* terminate_anchor and the receipt of a guardian that has no provider.
CleanUnanchored(t) ==
    /\ At(t, "unanchored")
    /\ SetTree(t, [KillGroup(tree[t]) EXCEPT !.guardian = "failed"])
    /\ marker' = IF marker.kind = "unix" /\ marker.tok = t
                 THEN [marker EXCEPT !.kind = "gone"] ELSE marker
    /\ UNCHANGED <<server, ident, lifetime, last, gone, boot, crashes, kills>>

\* serve returns when the server closes the pipe or dies; launch_lifetime drops.
GuardianEof(t) ==
    /\ At(t, "serving")
    /\ pipe # t
    /\ SetTree(t, [tree[t] EXCEPT !.guardian = "freezing", !.holds = FALSE])
    /\ UNCHANGED <<server, ident, files, last, gone, boot, crashes, kills>>

\* CapturedRuntimeProcesses::freeze stops the group and every descendant that
\* left it, found by its token, its lifetime lock or its ancestry.
Freeze(t) ==
    /\ At(t, "freezing")
    /\ GroupExists(t)
    /\ SetTree(t, [tree[t] EXCEPT !.guardian = "killing", !.frozen = TRUE])
    /\ UNCHANGED <<server, ident, files, last, gone, boot, crashes, kills>>

\* The capture fails or does not stabilize: only the group is killed.
FreezeFails(t) ==
    /\ At(t, "freezing")
    /\ SetTree(t, [KillGroup(tree[t]) EXCEPT !.guardian = "failed"])
    /\ UNCHANGED <<server, ident, files, last, gone, boot, crashes, kills>>

\* terminate_anchor kills the group, kill the captured processes.
KillCaptured(t) ==
    /\ At(t, "killing")
    /\ SetTree(t, [KillGroup(tree[t]) EXCEPT !.guardian = "confirming", !.child = "none"])
    /\ UNCHANGED <<server, ident, files, last, gone, boot, crashes, kills>>

\* confirm_gone finds nothing left and mark_unix_runtime_gone writes the
\* receipt; otherwise the guardian exits with a failure code.
ConfirmGone(t) ==
    /\ At(t, "confirming")
    /\ IF /\ ~GroupExists(t) /\ ~Tagged(t) /\ lifetime = t /\ ~Holds(t)
          /\ ~Locked /\ marker.kind = "unix" /\ marker.tok = t
       THEN /\ marker' = [marker EXCEPT !.kind = "gone"]
            /\ SetTree(t, [tree[t] EXCEPT !.guardian = "ok"])
       ELSE /\ SetTree(t, [tree[t] EXCEPT !.guardian = "failed"])
            /\ UNCHANGED marker
    /\ UNCHANGED <<server, ident, lifetime, last, gone, boot, crashes, kills>>

\* Mutant: the anchor ends itself and not its group.
AnchorSelfKills_alone(t) ==
    /\ tree[t].guardian \in Ended
    /\ tree[t].anchor = "active"
    /\ ~tree[t].frozen
    /\ SetTree(t, [tree[t] EXCEPT !.anchor = "dead"])
    /\ UNCHANGED <<server, ident, files, last, gone, boot, crashes, kills>>

\* The guardian is gone: the anchor's input closes and it kills its own group.
AnchorSelfKills(t) ==
    /\ tree[t].guardian \in Ended
    /\ tree[t].anchor = "active"
    /\ ~tree[t].frozen
    /\ SetTree(t, KillGroup(tree[t]))
    /\ UNCHANGED <<server, ident, files, last, gone, boot, crashes, kills>>

GuardianStep(t) ==
    \/ GuardianOpens(t) \/ GuardianUnacknowledged(t) \/ AnchorActivates(t)
    \/ LauncherStops(t) \/ ProviderResumes(t) \/ AnchorLost(t) \/ CleanUnanchored(t)
    \/ GuardianEof(t) \/ Freeze(t) \/ FreezeFails(t) \/ KillCaptured(t)
    \/ ConfirmGone(t) \/ AnchorSelfKills(t)

------------------------
(* What the provider and the host may do. *)

ProviderExits(t) ==
    /\ tree[t].provider = "running" /\ ~tree[t].frozen
    /\ SetTree(t, [tree[t] EXCEPT !.provider = "exited"])
    /\ UNCHANGED <<server, ident, files, last, gone, boot, crashes, kills>>

\* The provider forks a descendant that leaves the group; it may go on to close
\* the inherited descriptor and clear its environment, and it may end.
ChildForks(t) ==
    /\ Escapes
    /\ tree[t].provider = "running" /\ tree[t].child = "none" /\ ~tree[t].frozen
    /\ SetTree(t, [tree[t] EXCEPT !.child = "held"])
    /\ UNCHANGED <<server, ident, files, last, gone, boot, crashes, kills>>

ChildSheds(t) ==
    /\ tree[t].child = "held" /\ ~tree[t].frozen
    /\ SetTree(t, [tree[t] EXCEPT !.child = "bare"])
    /\ UNCHANGED <<server, ident, files, last, gone, boot, crashes, kills>>

ChildExits(t) ==
    /\ tree[t].child # "none" /\ ~tree[t].frozen
    /\ SetTree(t, [tree[t] EXCEPT !.child = "none"])
    /\ UNCHANGED <<server, ident, files, last, gone, boot, crashes, kills>>

GuardianKilled(t) ==
    /\ tree[t].guardian \notin Ended \cup {"none"}
    /\ kills < MaxKills
    /\ kills' = kills + 1
    /\ SetTree(t, [tree[t] EXCEPT !.guardian = "killed", !.holds = FALSE])
    /\ UNCHANGED <<server, ident, files, last, gone, boot, crashes>>

\* The server dies: its memory, its locks and its ends of the pipes go with it.
ServerCrash ==
    /\ up
    /\ crashes < MaxCrashes
    /\ crashes' = crashes + 1
    /\ up' = FALSE
    /\ slot' = Absent
    /\ pipe' = 0
    /\ wait' = "none"
    /\ UNCHANGED <<ident, files, tree, last, gone, boot, kills>>

\* The host reboots: no process survives, the files and the store do.
Reboot ==
    /\ boot < MaxBoots
    /\ boot' = boot + 1
    /\ up' = FALSE
    /\ slot' = Absent
    /\ pipe' = 0
    /\ wait' = "none"
    /\ tree' = [t \in Launches |->
                  [NoTree EXCEPT !.boot = tree[t].boot,
                                 !.guardian = IF tree[t].guardian = "none" THEN @ ELSE "killed"]]
    /\ UNCHANGED <<ident, files, last, gone, crashes, kills>>

ServerRestart ==
    /\ ~up
    /\ up' = TRUE
    /\ UNCHANGED <<slot, pipe, wait, ident, files, tree, last, gone, boot, crashes, kills>>

HostStep(t) == \/ ProviderExits(t) \/ ChildForks(t) \/ ChildSheds(t) \/ ChildExits(t)
               \/ GuardianKilled(t)

------------------------
CustodyInit ==
    /\ up = TRUE
    /\ slot = Absent
    /\ pipe = 0
    /\ wait = "none"
    /\ ident = 0
    /\ marker = [kind |-> "missing", tok |-> 0, boot |-> 0]
    /\ lifetime = 0
    /\ tree = [t \in Launches |-> NoTree]
    /\ last = 0
    /\ gone = [t \in Launches |-> "no"]
    /\ boot = 0
    /\ crashes = 0
    /\ kills = 0

CustodyNext ==
    \/ ReserveStart \/ ReserveRefused \/ AuthorizeStart \/ CancelReservation
    \/ Launch
    \/ Settle
    \/ \E t \in Launches : GuardianStep(t) \/ HostStep(t)
    \/ ServerCrash \/ Reboot \/ ServerRestart

CustodySpec == CustodyInit /\ [][CustodyNext]_custody

------------------------

\* Once the absence of a launch was proved (a confirmed stop, a receipt, the
\* lease after a restart), no process of it is alive, then or ever after,
\* whoever was killed in between and whatever the provider left behind.
ProvenGoneIsFinal == \A t \in Launches : gone[t] = "proof" => ~Alive(t)

\* The locks of the two files keep the launches apart: no two of them have
\* processes that hold their custody, even when the store forgot one of them.
OneHeldRuntime ==
    Cardinality({t \in Launches :
        \/ tree[t].anchor = "active"
        \/ tree[t].provider \in {"stopped", "running"}
        \/ tree[t].child = "held"}) <= 1

\* Custody of a provider process holds: a launch that was proved absent stays
\* absent (so its slot may be given away), and two launches never hold it at once.
CustodyHolds == ProvenGoneIsFinal /\ OneHeldRuntime

\* A provider whose server let go of it (by a stop, a failed launch or a crash)
\* does not outlive its guardian's clean-up: its group ends, unless the guardian
\* is killed from outside just when it has frozen the group.
OrphansEnd ==
    \A t \in Launches :
        (pipe # t /\ GroupExists(t)) ~>
            (~GroupExists(t) \/ (At(t, "killed") /\ tree[t].frozen))
=============================================================================
