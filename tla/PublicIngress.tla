----------------------------- MODULE PublicIngress -----------------------------
(***************************************************************************)
(* The managed public ingress: a tunnel generation that the operator       *)
(* starts and stops, the trust it gives to one public origin, and the      *)
(* stable entry, a key of a remote store that names the current origin.    *)
(* Runtimes that share a state root take the stable entry over from each   *)
(* other through an owner file and a file lock.                            *)
(***************************************************************************)
EXTENDS Naturals, FiniteSetsExt

CONSTANTS Runtimes, Origins, Controls, Attempts

\* 0 stands for no runtime and for no origin; controls are numbered.
ASSUME IngressConstants ==
    /\ 0 \notin Runtimes
    /\ \A r \in Runtimes : DOMAIN Controls[r] \subseteq Nat \ {0} /\ 0 \notin Origins[r]

VARIABLES
    ctl,     \* ManagedLifecycle and ManagedProjection of a runtime
    tun,     \* its ActiveGeneration
    pbl,     \* its StablePublication and the pending target
    stb,     \* its StableProjection
    opn,     \* the stable-entry operation that holds the operation mutex
    kv,      \* the remote key: an origin, or 0
    ownerOf, \* owner.json
    flock,   \* who holds owner.lock
    ghost,   \* puts and deletes of publishers nobody could kill
    escaped  \* history: there was such a publisher

ingressVars == <<ctl, tun, pbl, stb, opn, kv, ownerOf, flock, ghost, escaped>>

NoTunnel == [kind |-> "none", gen |-> 0, at |-> "none", cancelled |-> FALSE, bad |-> FALSE, error |-> FALSE]
NoPublication == [target |-> 0, cancelled |-> FALSE, done |-> FALSE, next |-> 0]
NoOperation == [who |-> "none", target |-> 0, try |-> 0]

\* applied is the set of control numbers that took effect; it is history.
Fresh == [up |-> FALSE, life |-> "free", closed |-> FALSE, applied |-> {}, latest |-> 0, gen |-> 0,
          phase |-> "stopped", trust |-> 0, dirty |-> FALSE, clean |-> FALSE]

Unpublished == [phase |-> "pending", target |-> 0, dirty |-> FALSE]

IngressInit ==
    /\ ctl = [r \in Runtimes |-> Fresh]
    /\ tun = [r \in Runtimes |-> NoTunnel]
    /\ pbl = [r \in Runtimes |-> NoPublication]
    /\ stb = [r \in Runtimes |-> Unpublished]
    /\ opn = [r \in Runtimes |-> NoOperation]
    /\ kv = 0 /\ ownerOf = 0 /\ flock = 0 /\ ghost = {} /\ escaped = FALSE

Kind(r, n) == Controls[r][n]

------------------------
\* StableEntry::new and StableOwnership::claim
Claim(r) ==
    /\ ~ctl[r].up /\ ~ctl[r].closed /\ flock = 0
    /\ ownerOf' = r
    /\ ctl' = [ctl EXCEPT ![r].up = TRUE]
    /\ UNCHANGED <<tun, pbl, stb, opn, kv, flock, ghost, escaped>>

\* accept_control: tickets number the controls, older ones are ignored.
AcceptControl(c, n) == n > c.latest

Accepted(r, n) == [ctl[r] EXCEPT !.latest = n, !.applied = @ \cup {n}]

CanControl(r, n) ==
    /\ ctl[r].up /\ ctl[r].life = "free" /\ ~ctl[r].closed
    /\ n \in DOMAIN Controls[r] /\ AcceptControl(ctl[r], n)

Finished(r) == tun[r].at = "done"

\* PublicIngress::start: begin_start and begin_generation, unless a generation
\* runs or the last one left something behind.
StartTunnel(r, n) ==
    /\ CanControl(r, n) /\ Kind(r, n) = "start"
    /\ LET c == Accepted(r, n)
           fresh == tun[r].kind = "none" \/ Finished(r)
       IN IF fresh /\ ~c.dirty
          THEN /\ ctl' = [ctl EXCEPT ![r] = [c EXCEPT !.gen = @ + 1, !.phase = "starting", !.trust = 0]]
               /\ tun' = [tun EXCEPT ![r] = [NoTunnel EXCEPT !.kind = "tunnel", !.gen = c.gen + 1,
                                                             !.at = "spawn"]]
               /\ stb' = IF stb[r].dirty THEN stb ELSE [stb EXCEPT ![r] = Unpublished]
          ELSE /\ ctl' = [ctl EXCEPT ![r] = c]
               /\ tun' = IF fresh THEN [tun EXCEPT ![r] = NoTunnel] ELSE tun
               /\ stb' = stb
    /\ UNCHANGED <<pbl, opn, kv, ownerOf, flock, ghost, escaped>>

\* stop_active: no generation gets a task that only clears the stable entry.
StopActive(r, c, life) ==
    IF tun[r].kind = "none"
    THEN /\ ctl' = [ctl EXCEPT ![r] = [c EXCEPT !.life = life, !.trust = IF c.phase = "error" THEN @ ELSE 0,
                                                !.phase = IF @ = "error" THEN @ ELSE "stopped"]]
         /\ tun' = [tun EXCEPT ![r] = [NoTunnel EXCEPT !.kind = "clear", !.gen = c.gen, !.at = "clear"]]
    ELSE IF Finished(r)
    THEN ctl' = [ctl EXCEPT ![r] = [c EXCEPT !.life = life]] /\ tun' = tun
    ELSE /\ ctl' = [ctl EXCEPT ![r] =
                IF c.phase \in {"starting", "running"}
                THEN [c EXCEPT !.life = life, !.phase = "stopping", !.trust = 0]
                ELSE [c EXCEPT !.life = life]]
         /\ tun' = [tun EXCEPT ![r].cancelled = TRUE]

StopTunnel(r, n) ==
    /\ CanControl(r, n) /\ Kind(r, n) = "stop"
    /\ StopActive(r, Accepted(r, n), "stopping")
    /\ UNCHANGED <<pbl, stb, opn, kv, ownerOf, flock, ghost, escaped>>

Shutdown(r) ==
    /\ ctl[r].up /\ ctl[r].life = "free" /\ ~ctl[r].closed
    /\ StopActive(r, [ctl[r] EXCEPT !.closed = TRUE], "shutting")
    /\ UNCHANGED <<pbl, stb, opn, kv, ownerOf, flock, ghost, escaped>>

\* join_active ends the stop; shutdown then reports cleanup_result.
JoinActive(r) ==
    /\ ctl[r].life \in {"stopping", "shutting"} /\ Finished(r)
    /\ ctl' = [ctl EXCEPT ![r] =
                [@ EXCEPT !.life = "free", !.up = ctl[r].up /\ ctl[r].life = "stopping",
                          !.clean = ctl[r].life = "shutting" /\ ~ctl[r].dirty]]
    /\ tun' = [tun EXCEPT ![r] = NoTunnel]
    /\ UNCHANGED <<pbl, stb, opn, kv, ownerOf, flock, ghost, escaped>>

------------------------
\* run_generation

Spawned(r) ==
    /\ tun[r].at = "spawn"
    /\ tun' = [tun EXCEPT ![r].at = "observe"]
    /\ UNCHANGED <<ctl, pbl, stb, opn, kv, ownerOf, flock, ghost, escaped>>
SpawnFails(r) ==
    /\ tun[r].at = "spawn"
    /\ tun' = [tun EXCEPT ![r] = [@ EXCEPT !.at = "clear", !.error = TRUE]]
    /\ UNCHANGED <<ctl, pbl, stb, opn, kv, ownerOf, flock, ghost, escaped>>

\* queue_publication: the newest target waits for the running one to end.
Queued(p, o) ==
    IF p.target # 0 THEN [p EXCEPT !.next = o, !.cancelled = TRUE]
    ELSE [NoPublication EXCEPT !.target = o]

\* ready_managed on an origin line of cloudflared
OriginSeen(r, o) ==
    /\ tun[r].at = "observe" /\ ~tun[r].cancelled
    /\ ctl[r].gen = tun[r].gen /\ ctl[r].phase \in {"starting", "running"} /\ ctl[r].trust # o
    /\ ctl' = [ctl EXCEPT ![r] = [@ EXCEPT !.phase = "running", !.trust = o]]
    /\ pbl' = [pbl EXCEPT ![r] = Queued(@, o)]
    /\ UNCHANGED <<tun, stb, opn, kv, ownerOf, flock, ghost, escaped>>

\* wait_for_publication and start_pending_publication
PublicationEnds(r) ==
    /\ tun[r].at = "observe" /\ pbl[r].done
    /\ pbl' = [pbl EXCEPT ![r] = [NoPublication EXCEPT !.target = pbl[r].next]]
    /\ UNCHANGED <<ctl, tun, stb, opn, kv, ownerOf, flock, ghost, escaped>>

\* The observation ends: trust is revoked, the publication cancelled, the
\* child and its readers joined (bad: one of them could not be).
Break(r, error, bad) ==
    /\ tun' = [tun EXCEPT ![r] = [@ EXCEPT !.at = "join", !.error = error, !.bad = bad]]
    /\ pbl' = [pbl EXCEPT ![r] = [@ EXCEPT !.cancelled = TRUE, !.next = 0]]
    /\ ctl' = [ctl EXCEPT ![r].trust = 0]
    /\ UNCHANGED <<stb, opn, kv, ownerOf, flock, ghost, escaped>>

TunnelStops(r) == tun[r].at = "observe" /\ tun[r].cancelled /\ \E bad \in BOOLEAN : Break(r, FALSE, bad)
TunnelFails(r) == tun[r].at = "observe" /\ \E bad \in BOOLEAN : Break(r, TRUE, bad)

\* join_publication
PublicationJoined(r) ==
    /\ tun[r].at = "join" /\ (pbl[r].target = 0 \/ pbl[r].done)
    /\ pbl' = [pbl EXCEPT ![r] = NoPublication]
    /\ tun' = [tun EXCEPT ![r].at = "clear"]
    /\ UNCHANGED <<ctl, stb, opn, kv, ownerOf, flock, ghost, escaped>>

\* finish, or cleanup_failed of the task that only clears
Settled(r, ok) ==
    LET dirty == tun[r].bad \/ ~ok
        error == tun[r].error \/ dirty
    IN /\ tun' = [tun EXCEPT ![r].at = "done"]
       /\ ctl' = [ctl EXCEPT ![r] =
            IF ctl[r].gen # tun[r].gen THEN @
            ELSE IF tun[r].kind = "tunnel"
            THEN [@ EXCEPT !.trust = 0, !.dirty = dirty, !.phase = IF error THEN "error" ELSE "stopped"]
            ELSE IF dirty THEN [@ EXCEPT !.trust = 0, !.dirty = TRUE, !.phase = "error"] ELSE @]

------------------------
\* StableEntry::apply, for the publication and for the clearing.

\* Mutant: any confirmed operation counts as the clearing.
ClearConfirmed_any(r) == stb[r].phase = "ready"

\* clear_confirmed
ClearConfirmed(r) == stb[r].phase = "ready" /\ stb[r].target = 0

AlreadyClear(r) ==
    /\ tun[r].at = "clear" /\ opn[r].who = "none" /\ ClearConfirmed(r)
    /\ Settled(r, TRUE)
    /\ UNCHANGED <<pbl, stb, opn, kv, ownerOf, flock, ghost, escaped>>

\* The operation mutex is taken; an entry that could not be cleaned stays failed.
Begin(r, who, target) ==
    /\ opn[r].who = "none" /\ ~stb[r].dirty
    /\ opn' = [opn EXCEPT ![r] = [who |-> who, target |-> target, try |-> 1]]
    /\ stb' = [stb EXCEPT ![r] = Unpublished]
    /\ UNCHANGED <<ctl, tun, pbl, kv, ownerOf, flock, ghost, escaped>>

BeginPublish(r) == pbl[r].target # 0 /\ ~pbl[r].done /\ Begin(r, "publish", pbl[r].target)
BeginClear(r) == tun[r].at = "clear" /\ ~ClearConfirmed(r) /\ Begin(r, "clear", 0)

Refused(r) ==
    /\ opn[r].who = "none" /\ stb[r].dirty
    /\ \/ /\ pbl[r].target # 0 /\ ~pbl[r].done
          /\ pbl' = [pbl EXCEPT ![r].done = TRUE] /\ UNCHANGED <<ctl, tun>>
       \/ tun[r].at = "clear" /\ ~ClearConfirmed(r) /\ Settled(r, FALSE) /\ pbl' = pbl
    /\ UNCHANGED <<stb, opn, kv, ownerOf, flock, ghost, escaped>>

\* The caller of the operation goes on.
Returned(r, s, ok) ==
    /\ stb' = [stb EXCEPT ![r] = s]
    /\ opn' = [opn EXCEPT ![r] = NoOperation]
    /\ IF opn[r].who = "publish"
       THEN pbl' = [pbl EXCEPT ![r].done = TRUE] /\ UNCHANGED <<ctl, tun>>
       ELSE Settled(r, ok) /\ pbl' = pbl

FailedSafe == [phase |-> "failed", target |-> 0, dirty |-> FALSE]
FailedDirty == [phase |-> "failed", target |-> 0, dirty |-> TRUE]

Cancelled(r) == opn[r].who = "publish" /\ pbl[r].cancelled

OperationCancelled(r) ==
    /\ opn[r].who # "none" /\ flock # r /\ Cancelled(r)
    /\ Returned(r, FailedSafe, FALSE)
    /\ UNCHANGED <<kv, ownerOf, flock, ghost, escaped>>

IsCurrent(r) == ownerOf = r

\* lock_if_current
LockCurrent(r) ==
    /\ opn[r].who # "none" /\ ~Cancelled(r) /\ flock = 0 /\ IsCurrent(r)
    /\ flock' = r
    /\ UNCHANGED <<ctl, tun, pbl, stb, opn, kv, ownerOf, ghost, escaped>>
Superseded(r) ==
    /\ opn[r].who # "none" /\ ~Cancelled(r) /\ flock = 0 /\ ~IsCurrent(r)
    /\ Returned(r, FailedSafe, TRUE)
    /\ UNCHANGED <<kv, ownerOf, flock, ghost, escaped>>
LockTimeout(r) ==
    /\ opn[r].who # "none" /\ ~Cancelled(r) /\ flock \notin {0, r}
    /\ Returned(r, IF opn[r].target = 0 THEN FailedDirty ELSE FailedSafe, FALSE)
    /\ UNCHANGED <<kv, ownerOf, flock, ghost, escaped>>

\* run_owned_command: the publisher put or deleted the key, or failed with or
\* without the effect, or was killed; a try may be left.
CommandApplied(r) ==
    /\ flock = r /\ flock' = 0 /\ kv' = opn[r].target
    /\ Returned(r, [phase |-> "ready", target |-> opn[r].target, dirty |-> FALSE], TRUE)
    /\ UNCHANGED <<ownerOf, ghost, escaped>>
CommandFails(r) ==
    /\ flock = r /\ flock' = 0 /\ kv' \in {kv, opn[r].target}
    /\ IF opn[r].try < Attempts /\ ~Cancelled(r)
       THEN opn' = [opn EXCEPT ![r].try = @ + 1] /\ UNCHANGED <<ctl, tun, pbl, stb>>
       ELSE Returned(r, FailedSafe, FALSE)
    /\ UNCHANGED <<ownerOf, ghost, escaped>>
\* It could not be killed: its effect may come at any time.
CommandEscapes(r) ==
    /\ flock = r /\ flock' = 0
    /\ ghost' = ghost \cup {opn[r].target} /\ escaped' = TRUE
    /\ Returned(r, FailedDirty, FALSE)
    /\ UNCHANGED <<kv, ownerOf>>
GhostLands(t) ==
    /\ t \in ghost /\ kv' = t /\ ghost' = ghost \ {t}
    /\ UNCHANGED <<ctl, tun, pbl, stb, opn, ownerOf, flock, escaped>>

------------------------
\* The runtime dies: the lock is released, the projection is forgotten.
RuntimeDies(r) ==
    /\ ctl[r].up
    /\ ctl' = [ctl EXCEPT ![r] = [Fresh EXCEPT !.closed = TRUE]]
    /\ tun' = [tun EXCEPT ![r] = NoTunnel] /\ pbl' = [pbl EXCEPT ![r] = NoPublication]
    /\ stb' = [stb EXCEPT ![r] = Unpublished] /\ opn' = [opn EXCEPT ![r] = NoOperation]
    /\ flock' = IF flock = r THEN 0 ELSE flock
    /\ ghost' = IF flock = r THEN ghost \cup {opn[r].target} ELSE ghost
    /\ escaped' = (escaped \/ flock = r)
    /\ UNCHANGED <<kv, ownerOf>>

TunnelTask(r) ==
    \/ Spawned(r) \/ SpawnFails(r) \/ PublicationEnds(r) \/ TunnelStops(r)
    \/ PublicationJoined(r) \/ AlreadyClear(r) \/ JoinActive(r)
EntryTask(r) ==
    \/ BeginPublish(r) \/ BeginClear(r) \/ Refused(r) \/ OperationCancelled(r)
    \/ LockCurrent(r) \/ Superseded(r) \/ LockTimeout(r)
    \/ CommandApplied(r) \/ CommandFails(r) \/ CommandEscapes(r)

IngressNext ==
    \/ \E r \in Runtimes :
        \/ Claim(r) \/ Shutdown(r) \/ RuntimeDies(r) \/ TunnelTask(r) \/ EntryTask(r) \/ TunnelFails(r)
        \/ \E n \in DOMAIN Controls[r] : StartTunnel(r, n) \/ StopTunnel(r, n)
        \/ \E o \in Origins[r] : OriginSeen(r, o)
    \/ \E t \in ghost : GhostLands(t)

IngressSpec == IngressInit /\ [][IngressNext]_ingressVars

------------------------

\* A public origin is trusted only while the newest control that took effect is
\* a start, the runtime is not shutting down and its generation still watches
\* the tunnel: a start that arrives after a newer stop opens nothing.
TrustFollowsControl ==
    \A r \in Runtimes : ctl[r].trust # 0 =>
        /\ ctl[r].applied # {} /\ Kind(r, Max(ctl[r].applied)) = "start"
        /\ ~ctl[r].closed /\ ctl[r].up
        /\ tun[r].at = "observe" /\ tun[r].gen = ctl[r].gen

\* What a runtime shows as its stable entry is what the remote key holds, as
\* long as it owns the entry and no publisher escaped; and a shutdown that
\* reports success has taken its origin out of the key.
StableEntryIsTrue ==
    ~escaped => \A r \in Runtimes : ownerOf = r =>
        /\ stb[r].phase = "ready" => kv = stb[r].target
        /\ ctl[r].clean => kv = 0

\* What the runtime trusts, and what it says the world reaches it by, is what is
\* so: the newest control decides the first, the remote key the second.
IngressIsTrue == TrustFollowsControl /\ StableEntryIsTrue
===============================================================================
