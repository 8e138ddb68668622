---------------------------- MODULE CustodyProofs ----------------------------
(***************************************************************************)
(* Proofs about what the server runs or admits and answers for: the        *)
(* provider processes (RuntimeCustody), the external attendee (Attendee),  *)
(* the one it runs in another host's room (LocalAttendee) and the          *)
(* conversations of a connector (Connector), each under its own            *)
(* specification.                                                          *)
(*                                                                         *)
(* RuntimeCustody: a step moves one launch's processes (TreeStep), or the  *)
(* server's slot and files, and every action states which fields of which  *)
(* launch it writes before anything is concluded from them.                *)
(*                                                                         *)
(* Attendee: most steps leave the turn to the client and the client its    *)
(* turn: they are instances of AtFrame.  The others (a turn assigned,      *)
(* entered, published or rolled, an interrupt taken) have a proof of their *)
(* own.                                                                    *)
(***************************************************************************)
EXTENDS RuntimeCustody, Attendee, LocalAttendee, Connector, FiniteSetTheorems, TLAPS

------------------------
(* RuntimeCustody: the files, the slot and the processes of every launch. *)

Phases == {"none", "spawned", "handoff", "anchoring", "launching", "serving", "unanchored",
           "freezing", "killing", "confirming"} \cup Ended
Trees == [guardian : Phases, holds : BOOLEAN, anchor : {"none", "spawned", "active", "dead"},
          provider : {"none", "stopped", "running", "exited"}, child : {"none", "held", "bare"},
          frozen : BOOLEAN, boot : Nat]
Markers == [kind : {"missing", "pending", "launching", "unix", "gone"}, tok : 0..MaxLaunches,
            boot : Nat]
Slots == [state : {"absent", "vacant", "reserved", "launching", "running", "stopped"},
          tok : 0..MaxLaunches]

(* Both files name the newest launch or nothing, and what the server awaits belongs to  *)
(* the launch in its slot.                                                              *)
FilesAndSlot ==
    /\ tree \in [Launches -> Trees] /\ marker \in Markers /\ slot \in Slots
    /\ gone \in [Launches -> {"no", "proof", "vacant"}]
    /\ last \in 0..MaxLaunches /\ ident \in 0..last /\ boot \in Nat
    /\ marker.tok \in {0, last} /\ lifetime \in {0, last}
    /\ (marker.tok = 0) = (marker.kind = "missing")
    /\ slot.tok \in 0..last /\ (slot.tok = 0) = (slot.state \in {"absent", "vacant"})
    /\ wait \in {"none", "spawn", "handoff", "ready", "cleanup", "stop"}
    /\ wait \in {"spawn", "handoff", "ready", "cleanup"} => slot.state = "launching"
    /\ wait = "stop" => slot.state = "running"

(* A tree grows from its guardian: nobody escapes from a provider that never ran, and   *)
(* once the captured processes are killed nothing of them is left.                      *)
Grown(r) ==
    /\ r.guardian = "none" => r.anchor = "none" /\ ~r.holds
    /\ r.guardian \in {"spawned", "handoff"} => r.anchor = "none"
    /\ r.anchor = "none" => r.provider = "none"
    /\ r.provider \in {"none", "stopped"} => r.child = "none"
    /\ r.guardian \in {"anchoring", "launching", "unanchored"} => r.provider \in {"none", "stopped"}
    /\ r.guardian \in {"killing", "confirming", "ok"} => r.frozen
    /\ r.guardian \in {"confirming", "ok"} => r.child = "none"

(* Nothing of the launch is alive and the server is not about to give it anything.      *)
Over(t) ==
    /\ ~Alive(t)
    /\ slot.tok = t => slot.state # "reserved" /\ wait \notin {"spawn", "handoff"}

(* What the files and the slot say of a launch.                                         *)
LaunchHolds(t) ==
    /\ Grown(tree[t])
    /\ tree[t].guardian \notin Ended \cup {"none"} \/ Alive(t) => tree[t].boot = boot
    /\ t > last => tree[t].guardian = "none" /\ gone[t] = "no"
    /\ tree[t].anchor = "active" => marker.kind = "unix" /\ marker.tok = t
    /\ Holds(t) => lifetime = t
    /\ marker.tok = t /\ marker.kind \in {"pending", "launching"} => tree[t].provider = "none"
    /\ marker.tok = t /\ marker.kind = "unix" => marker.boot = tree[t].boot
    /\ marker.tok = t /\ marker.kind = "gone" => Over(t)
    /\ gone[t] = "proof" => Over(t)
    /\ slot.tok = t /\ (slot.state = "reserved" \/ wait = "spawn") => tree[t].guardian = "none"
    /\ slot.tok = t /\ wait = "handoff" =>
          tree[t].anchor = "none" /\ tree[t].guardian \in {"spawned", "handoff", "failed", "killed"}
    /\ slot.tok = t /\ slot.state \in {"reserved", "launching"} => tree[t].boot = boot

CustodyInv == FilesAndSlot /\ \A t \in Launches : LaunchHolds(t)

(* What a launch shows when nothing is taken for granted.                               *)
LEMMA CustodyFacts ==
    ASSUME CustodyInv
    PROVE  /\ FilesAndSlot /\ MaxLaunches \in Nat
           /\ \A t \in Launches :
                 /\ LaunchHolds(t) /\ Grown(tree[t])
                 /\ tree[t] \in Trees /\ tree[t].boot \in Nat
                 /\ t \in Nat /\ t # 0
           /\ slot \in Slots /\ slot.tok \in Nat /\ last \in Nat
           /\ slot.tok # 0 => slot.tok \in Launches
           /\ slot.state \notin {"absent", "vacant"} => slot.tok \in Launches
BY CustodyAssumption DEF CustodyInv, FilesAndSlot, Launches, LaunchHolds, Trees

(* A step of the processes of one launch takes nothing from the others: it changes the  *)
(* lease file only where that launch is named in it.                                    *)
LEMMA TreeStep ==
    ASSUME CustodyInv, NEW t \in Launches, NEW r \in Trees, tree' = [tree EXCEPT ![t] = r],
           UNCHANGED <<slot, wait, ident, lifetime, last, gone, boot>>,
           \/ marker' = marker
           \/ marker' \in Markers /\ marker.tok = t /\ marker'.tok = t /\ marker'.kind # "missing",
           LaunchHolds(t)'
    PROVE  CustodyInv'
<1> USE CustodyFacts
<1>1. tree' \in [Launches -> Trees] /\ \A u \in Launches \ {t} : tree'[u] = tree[u] BY DEF FilesAndSlot
<1>2. FilesAndSlot' BY <1>1 DEF FilesAndSlot
<1>3. ASSUME NEW u \in Launches, u # t PROVE LaunchHolds(u)'
  BY <1>1, <1>3 DEF Holds, Alive, GroupExists, Over, Slot, LaunchHolds
<1> QED BY <1>2, <1>3 DEF CustodyInv

(* KillGroup: the group is gone, and a part that never was is not invented.             *)
LEMMA GroupKilled ==
    ASSUME NEW r \in Trees
    PROVE  /\ KillGroup(r) \in Trees
           /\ KillGroup(r).anchor \in {"none", "dead"} /\ KillGroup(r).provider \in {"none", "exited"}
           /\ (KillGroup(r).anchor = "none") = (r.anchor = "none")
           /\ (KillGroup(r).provider = "none") = (r.provider = "none")
           /\ KillGroup(r).guardian = r.guardian /\ KillGroup(r).holds = r.holds
           /\ KillGroup(r).child = r.child /\ KillGroup(r).frozen = r.frozen
           /\ KillGroup(r).boot = r.boot
<1> DEFINE a == IF r.anchor = "none" THEN r.anchor ELSE "dead"
           p == IF r.provider = "none" THEN r.provider ELSE "exited"
<1>1. /\ a \in {"none", "dead"} /\ (a = "none") = (r.anchor = "none")
      /\ p \in {"none", "exited"} /\ (p = "none") = (r.provider = "none")
  OBVIOUS
<1>2. KillGroup(r) = [r EXCEPT !.anchor = a, !.provider = p] BY DEF KillGroup
<1> HIDE DEF a, p
<1>3. [r EXCEPT !.anchor = a, !.provider = p] \in Trees BY <1>1 DEF Trees
<1> QED BY <1>1, <1>2, <1>3 DEF Trees

(* The guardian takes the lifetime over while the file names its launch. *)
LEMMA CustodyOpens ==
    ASSUME CustodyInv, NEW t \in Launches, GuardianOpens(t) PROVE CustodyInv'
<1> USE CustodyFacts
<1>1. CASE lifetime = t
  <2> DEFINE r == [tree[t] EXCEPT !.guardian = "handoff", !.holds = TRUE]
  <2>1. /\ tree' = [tree EXCEPT ![t] = r]
        /\ marker' = marker
        /\ UNCHANGED <<slot, wait, ident, lifetime, last, gone, boot>>
        /\ tree[t].guardian = "spawned"
    BY <1>1 DEF GuardianOpens, SetTree, At, Ended, server, files
  <2>2. /\ r \in Trees
        /\ r.guardian = "handoff" /\ r.holds = TRUE /\ r.anchor = tree[t].anchor
        /\ r.provider = tree[t].provider /\ r.child = tree[t].child /\ r.frozen = tree[t].frozen /\ r.boot = tree[t].boot
    BY DEF Trees, Phases, Ended
  <2> HIDE DEF r
  <2>5. LaunchHolds(t)'
    BY <2>1, <2>2, <1>1 DEF LaunchHolds, Grown, Over, Alive, GroupExists, Holds, Slot, Ended, FilesAndSlot
  <2> QED BY <2>1, <2>2, <2>5, TreeStep
<1>2. CASE lifetime # t
  <2> DEFINE r == [tree[t] EXCEPT !.guardian = "failed"]
  <2>1. /\ tree' = [tree EXCEPT ![t] = r]
        /\ marker' = marker
        /\ UNCHANGED <<slot, wait, ident, lifetime, last, gone, boot>>
        /\ tree[t].guardian = "spawned"
    BY <1>2 DEF GuardianOpens, SetTree, At, Ended, server, files
  <2>2. /\ r \in Trees
        /\ r.guardian = "failed" /\ r.holds = tree[t].holds /\ r.anchor = tree[t].anchor
        /\ r.provider = tree[t].provider /\ r.child = tree[t].child /\ r.frozen = tree[t].frozen /\ r.boot = tree[t].boot
    BY DEF Trees, Phases, Ended
  <2> HIDE DEF r
  <2>5. LaunchHolds(t)'
    BY <2>1, <2>2, <1>2 DEF LaunchHolds, Grown, Over, Alive, GroupExists, Holds, Slot, Ended, FilesAndSlot
  <2> QED BY <2>1, <2>2, <2>5, TreeStep
<1> QED BY <1>1, <1>2


(* A guardian that is not told to go on ends. *)
LEMMA CustodyUnacknowledged ==
    ASSUME CustodyInv, NEW t \in Launches, GuardianUnacknowledged(t) PROVE CustodyInv'
<1> USE CustodyFacts
<1> DEFINE r == [tree[t] EXCEPT !.guardian = "failed", !.holds = FALSE]
<1>1. /\ tree' = [tree EXCEPT ![t] = r]
      /\ marker' = marker
      /\ UNCHANGED <<slot, wait, ident, lifetime, last, gone, boot>>
      /\ tree[t].guardian = "handoff"
  BY DEF GuardianUnacknowledged, SetTree, At, Ended, server, files
<1>2. /\ r \in Trees
      /\ r.guardian = "failed" /\ r.holds = FALSE /\ r.anchor = tree[t].anchor
      /\ r.provider = tree[t].provider /\ r.child = tree[t].child /\ r.frozen = tree[t].frozen /\ r.boot = tree[t].boot
  BY DEF Trees, Phases, Ended
<1> HIDE DEF r
<1>4. tree'[t] = r BY <1>1 DEF FilesAndSlot
<1>5. LaunchHolds(t)' BY <1>1, <1>2, <1>4 DEF LaunchHolds, Grown, Over, Alive, GroupExists, Holds, Slot, Ended
<1> QED BY <1>1, <1>2, <1>5, TreeStep


(* The anchor locks the lease that names its launch, or ends. *)
LEMMA CustodyActivates ==
    ASSUME CustodyInv, NEW t \in Launches, AnchorActivates(t) PROVE CustodyInv'
<1> USE CustodyFacts
<1> DEFINE c == ~Locked /\ marker.kind = "launching" /\ marker.tok = t
<1>1. CASE c
  <2> DEFINE r == [tree[t] EXCEPT !.anchor = "active"]
  <2> DEFINE m == [kind |-> "unix", tok |-> t, boot |-> boot]
  <2>1. /\ tree' = [tree EXCEPT ![t] = r]
        /\ marker' = m
        /\ UNCHANGED <<slot, wait, ident, lifetime, last, gone, boot>>
        /\ tree[t].anchor = "spawned"
        /\ marker.tok = t
    BY <1>1 DEF AnchorActivates, SetTree, At, Ended, server, files
  <2>2. /\ r \in Trees
        /\ r.guardian = tree[t].guardian /\ r.holds = tree[t].holds /\ r.anchor = "active"
        /\ r.provider = tree[t].provider /\ r.child = tree[t].child /\ r.frozen = tree[t].frozen /\ r.boot = tree[t].boot
    BY DEF Trees, Phases, Ended
  <2>3. m \in Markers /\ m.kind = "unix" /\ m.tok = t /\ m.boot = boot BY DEF Launches, FilesAndSlot, Markers
  <2> HIDE DEF r, m
  <2>5. LaunchHolds(t)'
    BY <2>1, <2>2, <2>3, <1>1 DEF LaunchHolds, Grown, Over, Alive, GroupExists, Holds, Slot, Ended, FilesAndSlot
  <2> QED BY <2>1, <2>2, <2>3, <2>5, TreeStep
<1>2. CASE ~c
  <2> DEFINE r == [tree[t] EXCEPT !.anchor = "dead"]
  <2>1. /\ tree' = [tree EXCEPT ![t] = r]
        /\ marker' = marker
        /\ UNCHANGED <<slot, wait, ident, lifetime, last, gone, boot>>
        /\ tree[t].anchor = "spawned"
    BY <1>2 DEF AnchorActivates, SetTree, At, Ended, server, files
  <2>2. /\ r \in Trees
        /\ r.guardian = tree[t].guardian /\ r.holds = tree[t].holds /\ r.anchor = "dead"
        /\ r.provider = tree[t].provider /\ r.child = tree[t].child /\ r.frozen = tree[t].frozen /\ r.boot = tree[t].boot
    BY DEF Trees, Phases, Ended
  <2> HIDE DEF r
  <2>5. LaunchHolds(t)'
    BY <2>1, <2>2, <1>2 DEF LaunchHolds, Grown, Over, Alive, GroupExists, Holds, Slot, Ended, FilesAndSlot
  <2> QED BY <2>1, <2>2, <2>5, TreeStep
<1> QED BY <1>1, <1>2


(* The launcher inherits the lifetime that names its launch. *)
LEMMA CustodyLauncher ==
    ASSUME CustodyInv, NEW t \in Launches, LauncherStops(t) PROVE CustodyInv'
<1> USE CustodyFacts
<1> DEFINE r == [tree[t] EXCEPT !.guardian = "launching", !.provider = "stopped"]
<1>1. /\ tree' = [tree EXCEPT ![t] = r]
      /\ marker' = marker
      /\ UNCHANGED <<slot, wait, ident, lifetime, last, gone, boot>>
      /\ tree[t].guardian = "anchoring"
      /\ tree[t].anchor = "active"
      /\ lifetime = t
  BY DEF LauncherStops, SetTree, At, Ended, server, files
<1>2. /\ r \in Trees
      /\ r.guardian = "launching" /\ r.holds = tree[t].holds /\ r.anchor = tree[t].anchor
      /\ r.provider = "stopped" /\ r.child = tree[t].child /\ r.frozen = tree[t].frozen /\ r.boot = tree[t].boot
  BY DEF Trees, Phases, Ended
<1> HIDE DEF r
<1>4. tree'[t] = r BY <1>1 DEF FilesAndSlot
<1>5. LaunchHolds(t)' BY <1>1, <1>2, <1>4 DEF LaunchHolds, Grown, Over, Alive, GroupExists, Holds, Slot, Ended
<1> QED BY <1>1, <1>2, <1>5, TreeStep


(* The launcher becomes the provider. *)
LEMMA CustodyResumes ==
    ASSUME CustodyInv, NEW t \in Launches, ProviderResumes(t) PROVE CustodyInv'
<1> USE CustodyFacts
<1> DEFINE r == [tree[t] EXCEPT !.guardian = "serving", !.provider = "running"]
<1>1. /\ tree' = [tree EXCEPT ![t] = r]
      /\ marker' = marker
      /\ UNCHANGED <<slot, wait, ident, lifetime, last, gone, boot>>
      /\ tree[t].guardian = "launching"
      /\ tree[t].provider = "stopped"
  BY DEF ProviderResumes, SetTree, At, Ended, server, files
<1>2. /\ r \in Trees
      /\ r.guardian = "serving" /\ r.holds = tree[t].holds /\ r.anchor = tree[t].anchor
      /\ r.provider = "running" /\ r.child = tree[t].child /\ r.frozen = tree[t].frozen /\ r.boot = tree[t].boot
  BY DEF Trees, Phases, Ended
<1> HIDE DEF r
<1>4. tree'[t] = r BY <1>1 DEF FilesAndSlot
<1>5. LaunchHolds(t)' BY <1>1, <1>2, <1>4 DEF LaunchHolds, Grown, Over, Alive, GroupExists, Holds, Slot, Ended
<1> QED BY <1>1, <1>2, <1>5, TreeStep


(* A guardian without a provider goes on to clean up. *)
LEMMA CustodyAnchorLost ==
    ASSUME CustodyInv, NEW t \in Launches, AnchorLost(t) PROVE CustodyInv'
<1> USE CustodyFacts
<1> DEFINE r == [tree[t] EXCEPT !.guardian = "unanchored", !.holds = FALSE]
<1>1. /\ tree' = [tree EXCEPT ![t] = r]
      /\ marker' = marker
      /\ UNCHANGED <<slot, wait, ident, lifetime, last, gone, boot>>
      /\ tree[t].guardian \in {"anchoring", "launching"}
  BY DEF AnchorLost, SetTree, At, Ended, server, files
<1>2. /\ r \in Trees
      /\ r.guardian = "unanchored" /\ r.holds = FALSE /\ r.anchor = tree[t].anchor
      /\ r.provider = tree[t].provider /\ r.child = tree[t].child /\ r.frozen = tree[t].frozen /\ r.boot = tree[t].boot
  BY DEF Trees, Phases, Ended
<1> HIDE DEF r
<1>4. tree'[t] = r BY <1>1 DEF FilesAndSlot
<1>5. LaunchHolds(t)' BY <1>1, <1>2, <1>4 DEF LaunchHolds, Grown, Over, Alive, GroupExists, Holds, Slot, Ended
<1> QED BY <1>1, <1>2, <1>5, TreeStep


(* The receipt of a guardian whose provider never ran. *)
LEMMA CustodyCleansUnanchored ==
    ASSUME CustodyInv, NEW t \in Launches, CleanUnanchored(t) PROVE CustodyInv'
<1> USE CustodyFacts
<1> DEFINE c == marker.kind = "unix" /\ marker.tok = t
<1>1. CASE c
  <2> DEFINE k == KillGroup(tree[t])
  <2> DEFINE r == [k EXCEPT !.guardian = "failed"]
  <2> DEFINE m == [marker EXCEPT !.kind = "gone"]
  <2>1. /\ tree' = [tree EXCEPT ![t] = r]
        /\ marker' = m
        /\ UNCHANGED <<slot, wait, ident, lifetime, last, gone, boot>>
        /\ tree[t].guardian = "unanchored"
        /\ marker.tok = t
    BY <1>1 DEF CleanUnanchored, SetTree, At, Ended, server, files
  <2>k. /\ k \in Trees
        /\ k.anchor \in {"none", "dead"} /\ (k.anchor = "none") = (tree[t].anchor = "none")
        /\ k.provider \in {"none", "exited"} /\ (k.provider = "none") = (tree[t].provider = "none")
        /\ k.guardian = tree[t].guardian /\ k.holds = tree[t].holds /\ k.child = tree[t].child
        /\ k.frozen = tree[t].frozen /\ k.boot = tree[t].boot
    BY GroupKilled
  <2> HIDE DEF k
  <2>2. /\ r \in Trees
        /\ r.anchor \in {"none", "dead"} /\ (r.anchor = "none") = (tree[t].anchor = "none")
        /\ r.provider \in {"none", "exited"} /\ (r.provider = "none") = (tree[t].provider = "none")
        /\ r.guardian = "failed" /\ r.holds = tree[t].holds /\ r.child = tree[t].child /\ r.frozen = tree[t].frozen /\ r.boot = tree[t].boot
    BY <2>k DEF Trees, Phases, Ended
  <2>3. m \in Markers /\ m.kind = "gone" /\ m.tok = t /\ m.boot = marker.boot BY <2>1, <1>1 DEF FilesAndSlot, Markers
  <2> HIDE DEF r, m
  <2>5. LaunchHolds(t)'
    BY <2>1, <2>2, <2>3, <1>1 DEF LaunchHolds, Grown, Over, Alive, GroupExists, Holds, Slot, Ended, FilesAndSlot
  <2> QED BY <2>1, <2>2, <2>3, <2>5, TreeStep
<1>2. CASE ~c
  <2> DEFINE k == KillGroup(tree[t])
  <2> DEFINE r == [k EXCEPT !.guardian = "failed"]
  <2>1. /\ tree' = [tree EXCEPT ![t] = r]
        /\ marker' = marker
        /\ UNCHANGED <<slot, wait, ident, lifetime, last, gone, boot>>
        /\ tree[t].guardian = "unanchored"
    BY <1>2 DEF CleanUnanchored, SetTree, At, Ended, server, files
  <2>k. /\ k \in Trees
        /\ k.anchor \in {"none", "dead"} /\ (k.anchor = "none") = (tree[t].anchor = "none")
        /\ k.provider \in {"none", "exited"} /\ (k.provider = "none") = (tree[t].provider = "none")
        /\ k.guardian = tree[t].guardian /\ k.holds = tree[t].holds /\ k.child = tree[t].child
        /\ k.frozen = tree[t].frozen /\ k.boot = tree[t].boot
    BY GroupKilled
  <2> HIDE DEF k
  <2>2. /\ r \in Trees
        /\ r.anchor \in {"none", "dead"} /\ (r.anchor = "none") = (tree[t].anchor = "none")
        /\ r.provider \in {"none", "exited"} /\ (r.provider = "none") = (tree[t].provider = "none")
        /\ r.guardian = "failed" /\ r.holds = tree[t].holds /\ r.child = tree[t].child /\ r.frozen = tree[t].frozen /\ r.boot = tree[t].boot
    BY <2>k DEF Trees, Phases, Ended
  <2> HIDE DEF r
  <2>5. LaunchHolds(t)'
    BY <2>1, <2>2, <1>2 DEF LaunchHolds, Grown, Over, Alive, GroupExists, Holds, Slot, Ended, FilesAndSlot
  <2> QED BY <2>1, <2>2, <2>5, TreeStep
<1> QED BY <1>1, <1>2


(* The guardian sees its input close. *)
LEMMA CustodyEof ==
    ASSUME CustodyInv, NEW t \in Launches, GuardianEof(t) PROVE CustodyInv'
<1> USE CustodyFacts
<1> DEFINE r == [tree[t] EXCEPT !.guardian = "freezing", !.holds = FALSE]
<1>1. /\ tree' = [tree EXCEPT ![t] = r]
      /\ marker' = marker
      /\ UNCHANGED <<slot, wait, ident, lifetime, last, gone, boot>>
      /\ tree[t].guardian = "serving"
  BY DEF GuardianEof, SetTree, At, Ended, server, files
<1>2. /\ r \in Trees
      /\ r.guardian = "freezing" /\ r.holds = FALSE /\ r.anchor = tree[t].anchor
      /\ r.provider = tree[t].provider /\ r.child = tree[t].child /\ r.frozen = tree[t].frozen /\ r.boot = tree[t].boot
  BY DEF Trees, Phases, Ended
<1> HIDE DEF r
<1>4. tree'[t] = r BY <1>1 DEF FilesAndSlot
<1>5. LaunchHolds(t)' BY <1>1, <1>2, <1>4 DEF LaunchHolds, Grown, Over, Alive, GroupExists, Holds, Slot, Ended
<1> QED BY <1>1, <1>2, <1>5, TreeStep


(* The processes of the launch are captured. *)
LEMMA CustodyFreezes ==
    ASSUME CustodyInv, NEW t \in Launches, Freeze(t) PROVE CustodyInv'
<1> USE CustodyFacts
<1> DEFINE r == [tree[t] EXCEPT !.guardian = "killing", !.frozen = TRUE]
<1>1. /\ tree' = [tree EXCEPT ![t] = r]
      /\ marker' = marker
      /\ UNCHANGED <<slot, wait, ident, lifetime, last, gone, boot>>
      /\ tree[t].guardian = "freezing"
  BY DEF Freeze, SetTree, At, Ended, server, files
<1>2. /\ r \in Trees
      /\ r.guardian = "killing" /\ r.holds = tree[t].holds /\ r.anchor = tree[t].anchor
      /\ r.provider = tree[t].provider /\ r.child = tree[t].child /\ r.frozen = TRUE /\ r.boot = tree[t].boot
  BY DEF Trees, Phases, Ended
<1> HIDE DEF r
<1>4. tree'[t] = r BY <1>1 DEF FilesAndSlot
<1>5. LaunchHolds(t)' BY <1>1, <1>2, <1>4 DEF LaunchHolds, Grown, Over, Alive, GroupExists, Holds, Slot, Ended
<1> QED BY <1>1, <1>2, <1>5, TreeStep


(* Only the group is killed, and no receipt is written. *)
LEMMA CustodyFreezeFails ==
    ASSUME CustodyInv, NEW t \in Launches, FreezeFails(t) PROVE CustodyInv'
<1> USE CustodyFacts
<1> DEFINE k == KillGroup(tree[t])
<1> DEFINE r == [k EXCEPT !.guardian = "failed"]
<1>1. /\ tree' = [tree EXCEPT ![t] = r]
      /\ marker' = marker
      /\ UNCHANGED <<slot, wait, ident, lifetime, last, gone, boot>>
      /\ tree[t].guardian = "freezing"
  BY DEF FreezeFails, SetTree, At, Ended, server, files
<1>k. /\ k \in Trees
      /\ k.anchor \in {"none", "dead"} /\ (k.anchor = "none") = (tree[t].anchor = "none")
      /\ k.provider \in {"none", "exited"} /\ (k.provider = "none") = (tree[t].provider = "none")
      /\ k.guardian = tree[t].guardian /\ k.holds = tree[t].holds /\ k.child = tree[t].child
      /\ k.frozen = tree[t].frozen /\ k.boot = tree[t].boot
  BY GroupKilled
<1> HIDE DEF k
<1>2. /\ r \in Trees
      /\ r.anchor \in {"none", "dead"} /\ (r.anchor = "none") = (tree[t].anchor = "none")
      /\ r.provider \in {"none", "exited"} /\ (r.provider = "none") = (tree[t].provider = "none")
      /\ r.guardian = "failed" /\ r.holds = tree[t].holds /\ r.child = tree[t].child /\ r.frozen = tree[t].frozen /\ r.boot = tree[t].boot
  BY <1>k DEF Trees, Phases, Ended
<1> HIDE DEF r
<1>4. tree'[t] = r BY <1>1 DEF FilesAndSlot
<1>5. LaunchHolds(t)' BY <1>1, <1>2, <1>4 DEF LaunchHolds, Grown, Over, Alive, GroupExists, Holds, Slot, Ended
<1> QED BY <1>1, <1>2, <1>5, TreeStep


(* The group and what was captured beside it are killed. *)
LEMMA CustodyKills ==
    ASSUME CustodyInv, NEW t \in Launches, KillCaptured(t) PROVE CustodyInv'
<1> USE CustodyFacts
<1> DEFINE k == KillGroup(tree[t])
<1> DEFINE r == [k EXCEPT !.guardian = "confirming", !.child = "none"]
<1>1. /\ tree' = [tree EXCEPT ![t] = r]
      /\ marker' = marker
      /\ UNCHANGED <<slot, wait, ident, lifetime, last, gone, boot>>
      /\ tree[t].guardian = "killing"
  BY DEF KillCaptured, SetTree, At, Ended, server, files
<1>k. /\ k \in Trees
      /\ k.anchor \in {"none", "dead"} /\ (k.anchor = "none") = (tree[t].anchor = "none")
      /\ k.provider \in {"none", "exited"} /\ (k.provider = "none") = (tree[t].provider = "none")
      /\ k.guardian = tree[t].guardian /\ k.holds = tree[t].holds /\ k.child = tree[t].child
      /\ k.frozen = tree[t].frozen /\ k.boot = tree[t].boot
  BY GroupKilled
<1> HIDE DEF k
<1>2. /\ r \in Trees
      /\ r.anchor \in {"none", "dead"} /\ (r.anchor = "none") = (tree[t].anchor = "none")
      /\ r.provider \in {"none", "exited"} /\ (r.provider = "none") = (tree[t].provider = "none")
      /\ r.guardian = "confirming" /\ r.holds = tree[t].holds /\ r.child = "none" /\ r.frozen = tree[t].frozen /\ r.boot = tree[t].boot
  BY <1>k, ZenonT(60) DEF Trees, Phases, Ended
<1> HIDE DEF r
<1>4. tree'[t] = r BY <1>1 DEF FilesAndSlot
<1>5. LaunchHolds(t)' BY <1>1, <1>2, <1>4 DEF LaunchHolds, Grown, Over, Alive, GroupExists, Holds, Slot, Ended
<1> QED BY <1>1, <1>2, <1>5, TreeStep


(* The receipt is written when nothing of the launch is left. *)
LEMMA CustodyConfirms ==
    ASSUME CustodyInv, NEW t \in Launches, ConfirmGone(t) PROVE CustodyInv'
<1> USE CustodyFacts
<1> DEFINE c == /\ ~GroupExists(t) /\ ~Tagged(t) /\ lifetime = t /\ ~Holds(t)
                /\ ~Locked /\ marker.kind = "unix" /\ marker.tok = t
<1>1. CASE c
  <2> DEFINE r == [tree[t] EXCEPT !.guardian = "ok"]
  <2> DEFINE m == [marker EXCEPT !.kind = "gone"]
  <2>1. /\ tree' = [tree EXCEPT ![t] = r]
        /\ marker' = m
        /\ UNCHANGED <<slot, wait, ident, lifetime, last, gone, boot>>
        /\ tree[t].guardian = "confirming"
        /\ marker.tok = t
        /\ ~GroupExists(t)
    BY <1>1 DEF ConfirmGone, SetTree, At, Ended, server, files
  <2>2. /\ r \in Trees
        /\ r.guardian = "ok" /\ r.holds = tree[t].holds /\ r.anchor = tree[t].anchor
        /\ r.provider = tree[t].provider /\ r.child = tree[t].child /\ r.frozen = tree[t].frozen /\ r.boot = tree[t].boot
    BY DEF Trees, Phases, Ended
  <2>3. m \in Markers /\ m.kind = "gone" /\ m.tok = t /\ m.boot = marker.boot BY <2>1, <1>1 DEF FilesAndSlot, Markers
  <2> HIDE DEF r, m
  <2>5. LaunchHolds(t)'
    BY <2>1, <2>2, <2>3, <1>1 DEF LaunchHolds, Grown, Over, Alive, GroupExists, Holds, Slot, Ended, FilesAndSlot
  <2> QED BY <2>1, <2>2, <2>3, <2>5, TreeStep
<1>2. CASE ~c
  <2> DEFINE r == [tree[t] EXCEPT !.guardian = "failed"]
  <2>1. /\ tree' = [tree EXCEPT ![t] = r]
        /\ marker' = marker
        /\ UNCHANGED <<slot, wait, ident, lifetime, last, gone, boot>>
        /\ tree[t].guardian = "confirming"
    BY <1>2 DEF ConfirmGone, SetTree, At, Ended, server, files
  <2>2. /\ r \in Trees
        /\ r.guardian = "failed" /\ r.holds = tree[t].holds /\ r.anchor = tree[t].anchor
        /\ r.provider = tree[t].provider /\ r.child = tree[t].child /\ r.frozen = tree[t].frozen /\ r.boot = tree[t].boot
    BY DEF Trees, Phases, Ended
  <2> HIDE DEF r
  <2>5. LaunchHolds(t)'
    BY <2>1, <2>2, <1>2 DEF LaunchHolds, Grown, Over, Alive, GroupExists, Holds, Slot, Ended, FilesAndSlot
  <2> QED BY <2>1, <2>2, <2>5, TreeStep
<1> QED BY <1>1, <1>2


(* The anchor of a guardian that ended kills its own group. *)
LEMMA CustodySelfKills ==
    ASSUME CustodyInv, NEW t \in Launches, AnchorSelfKills(t) PROVE CustodyInv'
<1> USE CustodyFacts
<1> DEFINE k == KillGroup(tree[t])
<1> DEFINE r == k
<1>1. /\ tree' = [tree EXCEPT ![t] = r]
      /\ marker' = marker
      /\ UNCHANGED <<slot, wait, ident, lifetime, last, gone, boot>>
      /\ tree[t].guardian \in Ended
  BY DEF AnchorSelfKills, SetTree, At, Ended, server, files
<1>k. /\ k \in Trees
      /\ k.anchor \in {"none", "dead"} /\ (k.anchor = "none") = (tree[t].anchor = "none")
      /\ k.provider \in {"none", "exited"} /\ (k.provider = "none") = (tree[t].provider = "none")
      /\ k.guardian = tree[t].guardian /\ k.holds = tree[t].holds /\ k.child = tree[t].child
      /\ k.frozen = tree[t].frozen /\ k.boot = tree[t].boot
  BY GroupKilled
<1> HIDE DEF k
<1>2. /\ r \in Trees
      /\ r.anchor \in {"none", "dead"} /\ (r.anchor = "none") = (tree[t].anchor = "none")
      /\ r.provider \in {"none", "exited"} /\ (r.provider = "none") = (tree[t].provider = "none")
      /\ r.guardian = tree[t].guardian /\ r.holds = tree[t].holds /\ r.child = tree[t].child /\ r.frozen = tree[t].frozen /\ r.boot = tree[t].boot
  BY <1>k DEF Trees, Phases, Ended
<1> HIDE DEF r
<1>4. tree'[t] = r BY <1>1 DEF FilesAndSlot
<1>5. LaunchHolds(t)' BY <1>1, <1>2, <1>4 DEF LaunchHolds, Grown, Over, Alive, GroupExists, Holds, Slot, Ended
<1> QED BY <1>1, <1>2, <1>5, TreeStep


(* The provider may exit. *)
LEMMA CustodyProviderExits ==
    ASSUME CustodyInv, NEW t \in Launches, ProviderExits(t) PROVE CustodyInv'
<1> USE CustodyFacts
<1> DEFINE r == [tree[t] EXCEPT !.provider = "exited"]
<1>1. /\ tree' = [tree EXCEPT ![t] = r]
      /\ marker' = marker
      /\ UNCHANGED <<slot, wait, ident, lifetime, last, gone, boot>>
      /\ tree[t].provider = "running"
      /\ ~tree[t].frozen
  BY DEF ProviderExits, SetTree, At, Ended, server, files
<1>2. /\ r \in Trees
      /\ r.guardian = tree[t].guardian /\ r.holds = tree[t].holds /\ r.anchor = tree[t].anchor
      /\ r.provider = "exited" /\ r.child = tree[t].child /\ r.frozen = tree[t].frozen /\ r.boot = tree[t].boot
  BY DEF Trees, Phases, Ended
<1> HIDE DEF r
<1>4. tree'[t] = r BY <1>1 DEF FilesAndSlot
<1>5. LaunchHolds(t)' BY <1>1, <1>2, <1>4 DEF LaunchHolds, Grown, Over, Alive, GroupExists, Holds, Slot, Ended
<1> QED BY <1>1, <1>2, <1>5, TreeStep


(* A provider may leave a descendant outside its group. *)
LEMMA CustodyForks ==
    ASSUME CustodyInv, NEW t \in Launches, ChildForks(t) PROVE CustodyInv'
<1> USE CustodyFacts
<1> DEFINE r == [tree[t] EXCEPT !.child = "held"]
<1>1. /\ tree' = [tree EXCEPT ![t] = r]
      /\ marker' = marker
      /\ UNCHANGED <<slot, wait, ident, lifetime, last, gone, boot>>
      /\ tree[t].provider = "running"
      /\ ~tree[t].frozen
  BY DEF ChildForks, SetTree, At, Ended, server, files
<1>2. /\ r \in Trees
      /\ r.guardian = tree[t].guardian /\ r.holds = tree[t].holds /\ r.anchor = tree[t].anchor
      /\ r.provider = tree[t].provider /\ r.child = "held" /\ r.frozen = tree[t].frozen /\ r.boot = tree[t].boot
  BY DEF Trees, Phases, Ended
<1> HIDE DEF r
<1>4. tree'[t] = r BY <1>1 DEF FilesAndSlot
<1>5. LaunchHolds(t)' BY <1>1, <1>2, <1>4 DEF LaunchHolds, Grown, Over, Alive, GroupExists, Holds, Slot, Ended
<1> QED BY <1>1, <1>2, <1>5, TreeStep


(* A descendant may let go of what shows it. *)
LEMMA CustodySheds ==
    ASSUME CustodyInv, NEW t \in Launches, ChildSheds(t) PROVE CustodyInv'
<1> USE CustodyFacts
<1> DEFINE r == [tree[t] EXCEPT !.child = "bare"]
<1>1. /\ tree' = [tree EXCEPT ![t] = r]
      /\ marker' = marker
      /\ UNCHANGED <<slot, wait, ident, lifetime, last, gone, boot>>
      /\ tree[t].child = "held"
      /\ ~tree[t].frozen
  BY DEF ChildSheds, SetTree, At, Ended, server, files
<1>2. /\ r \in Trees
      /\ r.guardian = tree[t].guardian /\ r.holds = tree[t].holds /\ r.anchor = tree[t].anchor
      /\ r.provider = tree[t].provider /\ r.child = "bare" /\ r.frozen = tree[t].frozen /\ r.boot = tree[t].boot
  BY DEF Trees, Phases, Ended
<1> HIDE DEF r
<1>4. tree'[t] = r BY <1>1 DEF FilesAndSlot
<1>5. LaunchHolds(t)' BY <1>1, <1>2, <1>4 DEF LaunchHolds, Grown, Over, Alive, GroupExists, Holds, Slot, Ended
<1> QED BY <1>1, <1>2, <1>5, TreeStep


(* A descendant may end. *)
LEMMA CustodyChildExits ==
    ASSUME CustodyInv, NEW t \in Launches, ChildExits(t) PROVE CustodyInv'
<1> USE CustodyFacts
<1> DEFINE r == [tree[t] EXCEPT !.child = "none"]
<1>1. /\ tree' = [tree EXCEPT ![t] = r]
      /\ marker' = marker
      /\ UNCHANGED <<slot, wait, ident, lifetime, last, gone, boot>>
      /\ tree[t].child # "none"
      /\ ~tree[t].frozen
  BY DEF ChildExits, SetTree, At, Ended, server, files
<1>2. /\ r \in Trees
      /\ r.guardian = tree[t].guardian /\ r.holds = tree[t].holds /\ r.anchor = tree[t].anchor
      /\ r.provider = tree[t].provider /\ r.child = "none" /\ r.frozen = tree[t].frozen /\ r.boot = tree[t].boot
  BY DEF Trees, Phases, Ended
<1> HIDE DEF r
<1>4. tree'[t] = r BY <1>1 DEF FilesAndSlot
<1>5. LaunchHolds(t)' BY <1>1, <1>2, <1>4 DEF LaunchHolds, Grown, Over, Alive, GroupExists, Holds, Slot, Ended
<1> QED BY <1>1, <1>2, <1>5, TreeStep


(* A guardian may be killed at any place. *)
LEMMA CustodyGuardianKilled ==
    ASSUME CustodyInv, NEW t \in Launches, GuardianKilled(t) PROVE CustodyInv'
<1> USE CustodyFacts
<1> DEFINE r == [tree[t] EXCEPT !.guardian = "killed", !.holds = FALSE]
<1>1. /\ tree' = [tree EXCEPT ![t] = r]
      /\ marker' = marker
      /\ UNCHANGED <<slot, wait, ident, lifetime, last, gone, boot>>
      /\ tree[t].guardian \notin Ended \cup {"none"}
  BY DEF GuardianKilled, SetTree, At, Ended, server, files
<1>2. /\ r \in Trees
      /\ r.guardian = "killed" /\ r.holds = FALSE /\ r.anchor = tree[t].anchor
      /\ r.provider = tree[t].provider /\ r.child = tree[t].child /\ r.frozen = tree[t].frozen /\ r.boot = tree[t].boot
  BY DEF Trees, Phases, Ended
<1> HIDE DEF r
<1>4. tree'[t] = r BY <1>1 DEF FilesAndSlot
<1>5. LaunchHolds(t)' BY <1>1, <1>2, <1>4 DEF LaunchHolds, Grown, Over, Alive, GroupExists, Holds, Slot, Ended
<1> QED BY <1>1, <1>2, <1>5, TreeStep


(* The reserved launch becomes durable. *)
LEMMA CustodyAuthorizes ==
    ASSUME CustodyInv, AuthorizeStart PROVE CustodyInv'
<1> USE CustodyFacts
<1> DEFINE s == slot.tok
<1>1. /\ slot' = slot
      /\ wait' = wait
      /\ tree' = tree
      /\ gone' = gone
      /\ ident' = slot.tok
      /\ marker' = marker
      /\ lifetime' = lifetime
      /\ UNCHANGED <<last, boot>>
      /\ slot.state = "reserved"
  BY DEF AuthorizeStart, SetTree, At, server, files
<1>5. FilesAndSlot' BY <1>1 DEF FilesAndSlot, Launches
<1>6. ASSUME NEW u \in Launches PROVE LaunchHolds(u)'
  BY <1>1, <1>5 DEF FilesAndSlot, Slot, Slots, LaunchHolds, Grown, Over, Alive, GroupExists, Holds, Ended
<1> QED BY <1>5, <1>6 DEF CustodyInv

(* The effect of a launch begins over its own two files. *)
LEMMA CustodyBegins ==
    ASSUME CustodyInv, BeginLaunchEffect PROVE CustodyInv'
<1> USE CustodyFacts
<1> DEFINE s == slot.tok
           o == [slot EXCEPT !.state = "launching"]
           m == [marker EXCEPT !.kind = "launching"]
<1>1. /\ slot' = o
      /\ wait' = "spawn"
      /\ tree' = tree
      /\ gone' = gone
      /\ ident' = ident
      /\ marker' = m
      /\ lifetime' = lifetime
      /\ UNCHANGED <<last, boot>>
      /\ slot.state = "reserved"
      /\ lifetime = slot.tok
      /\ marker.kind = "pending"
      /\ marker.tok = slot.tok
  BY DEF BeginLaunchEffect, SetTree, At, server, files
<1>2. o \in Slots /\ o.tok = slot.tok /\ o.state = "launching" BY DEF Slots, Vacant, Absent
<1>4. m \in Markers /\ m.kind = "launching" /\ m.tok = marker.tok /\ m.boot = marker.boot BY DEF FilesAndSlot, Markers
<1> HIDE DEF o, m
<1>5. FilesAndSlot' BY <1>1, <1>2, <1>4 DEF FilesAndSlot, Launches
<1>6. ASSUME NEW u \in Launches PROVE LaunchHolds(u)'
  BY <1>1, <1>2, <1>4, <1>5 DEF FilesAndSlot, Slot, Slots, LaunchHolds, Grown, Over, Alive, GroupExists, Holds,
     Ended
<1> QED BY <1>5, <1>6 DEF CustodyInv

(* The guardian is spawned. *)
LEMMA CustodySpawns ==
    ASSUME CustodyInv, SpawnGuardian PROVE CustodyInv'
<1> USE CustodyFacts
<1> DEFINE s == slot.tok
           r == [tree[s] EXCEPT !.guardian = "spawned"]
<1>1. /\ slot' = slot
      /\ wait' = "handoff"
      /\ tree' = [tree EXCEPT ![s] = r]
      /\ gone' = gone
      /\ ident' = ident
      /\ marker' = marker
      /\ lifetime' = lifetime
      /\ UNCHANGED <<last, boot>>
      /\ wait = "spawn"
      /\ slot.state = "launching"
  BY DEF SpawnGuardian, SetTree, At, server, files, FilesAndSlot
<1>3. /\ r \in Trees /\ r.guardian = "spawned" /\ r.holds = tree[s].holds /\ r.anchor = tree[s].anchor
      /\ r.provider = tree[s].provider /\ r.child = tree[s].child /\ r.frozen = tree[s].frozen /\ r.boot = tree[s].boot
  BY <1>1 DEF Trees, Phases, Ended
<1> HIDE DEF r
<1>5. FilesAndSlot' BY <1>1, <1>3 DEF FilesAndSlot, Launches
<1>6. ASSUME NEW u \in Launches PROVE LaunchHolds(u)'
  BY <1>1, <1>3, <1>5 DEF FilesAndSlot, Slot, Slots, LaunchHolds, Grown, Over, Alive, GroupExists, Holds, Ended
<1> QED BY <1>5, <1>6 DEF CustodyInv

(* A guardian that could not be spawned left nothing. *)
LEMMA CustodySpawnFails ==
    ASSUME CustodyInv, SpawnFails PROVE CustodyInv'
<1> USE CustodyFacts
<1> DEFINE s == slot.tok
           o == [slot EXCEPT !.state = "stopped"]
<1>1. /\ slot' = o
      /\ wait' = "none"
      /\ tree' = tree
      /\ gone' = [gone EXCEPT ![s] = "proof"]
      /\ ident' = ident
      /\ marker' = marker
      /\ lifetime' = lifetime
      /\ UNCHANGED <<last, boot>>
      /\ wait = "spawn"
      /\ slot.state = "launching"
  BY DEF SpawnFails, SetTree, At, server, files, FilesAndSlot
<1>2. o \in Slots /\ o.tok = slot.tok /\ o.state = "stopped" BY DEF Slots, Vacant, Absent
<1> HIDE DEF o
<1>5. FilesAndSlot' BY <1>1, <1>2 DEF FilesAndSlot, Launches
<1>6. ASSUME NEW u \in Launches PROVE LaunchHolds(u)'
  BY <1>1, <1>2, <1>5 DEF FilesAndSlot, Slot, Slots, LaunchHolds, Grown, Over, Alive, GroupExists, Holds, Ended
<1> QED BY <1>5, <1>6 DEF CustodyInv

(* The guardian that holds the lifetime starts the anchor. *)
LEMMA CustodyHandsOff ==
    ASSUME CustodyInv, Handoff PROVE CustodyInv'
<1> USE CustodyFacts
<1> DEFINE s == slot.tok
           r == [tree[s] EXCEPT !.guardian = "anchoring", !.anchor = "spawned"]
<1>1. /\ slot' = slot
      /\ wait' = "ready"
      /\ tree' = [tree EXCEPT ![s] = r]
      /\ gone' = gone
      /\ ident' = ident
      /\ marker' = marker
      /\ lifetime' = lifetime
      /\ UNCHANGED <<last, boot>>
      /\ wait = "handoff"
      /\ slot.state = "launching"
      /\ tree[s].guardian = "handoff"
  BY DEF Handoff, SetTree, At, server, files, FilesAndSlot
<1>3. /\ r \in Trees /\ r.guardian = "anchoring" /\ r.holds = tree[s].holds /\ r.anchor = "spawned"
      /\ r.provider = tree[s].provider /\ r.child = tree[s].child /\ r.frozen = tree[s].frozen /\ r.boot = tree[s].boot
  BY <1>1, ZenonT(60) DEF Trees, Phases, Ended
<1> HIDE DEF r
<1>5. FilesAndSlot' BY <1>1, <1>3 DEF FilesAndSlot, Launches
<1>6. ASSUME NEW u \in Launches PROVE LaunchHolds(u)'
  BY <1>1, <1>3, <1>5 DEF FilesAndSlot, Slot, Slots, LaunchHolds, Grown, Over, Alive, GroupExists, Holds, Ended
<1> QED BY <1>5, <1>6 DEF CustodyInv

(* A guardian that did not report started nothing. *)
LEMMA CustodyAborts ==
    ASSUME CustodyInv, AbortHandoff PROVE CustodyInv'
<1> USE CustodyFacts
<1> DEFINE s == slot.tok
           o == [slot EXCEPT !.state = "stopped"]
           r == [tree[s] EXCEPT !.guardian = "killed", !.holds = FALSE]
<1>1. /\ slot' = o
      /\ wait' = "none"
      /\ tree' = [tree EXCEPT ![s] = r]
      /\ gone' = [gone EXCEPT ![s] = "proof"]
      /\ ident' = ident
      /\ marker' = marker
      /\ lifetime' = lifetime
      /\ UNCHANGED <<last, boot>>
      /\ wait = "handoff"
      /\ slot.state = "launching"
  BY DEF AbortHandoff, SetTree, At, server, files, FilesAndSlot
<1>2. o \in Slots /\ o.tok = slot.tok /\ o.state = "stopped" BY DEF Slots, Vacant, Absent
<1>3. /\ r \in Trees /\ r.guardian = "killed" /\ r.holds = FALSE /\ r.anchor = tree[s].anchor
      /\ r.provider = tree[s].provider /\ r.child = tree[s].child /\ r.frozen = tree[s].frozen /\ r.boot = tree[s].boot
  BY <1>1 DEF Trees, Phases, Ended
<1> HIDE DEF o, r
<1>5. FilesAndSlot' BY <1>1, <1>2, <1>3 DEF FilesAndSlot, Launches
<1>6. ASSUME NEW u \in Launches PROVE LaunchHolds(u)'
  BY <1>1, <1>2, <1>3, <1>5 DEF FilesAndSlot, Slot, Slots, LaunchHolds, Grown, Over, Alive, GroupExists, Holds,
     Ended
<1> QED BY <1>5, <1>6 DEF CustodyInv

(* The slot runs. *)
LEMMA CustodyRuns ==
    ASSUME CustodyInv, LaunchReady PROVE CustodyInv'
<1> USE CustodyFacts
<1> DEFINE s == slot.tok
           o == [slot EXCEPT !.state = "running"]
<1>1. /\ slot' = o
      /\ wait' = "none"
      /\ tree' = tree
      /\ gone' = gone
      /\ ident' = ident
      /\ marker' = marker
      /\ lifetime' = lifetime
      /\ UNCHANGED <<last, boot>>
      /\ wait = "ready"
      /\ slot.state = "launching"
  BY DEF LaunchReady, SetTree, At, server, files, FilesAndSlot
<1>2. o \in Slots /\ o.tok = slot.tok /\ o.state = "running" BY DEF Slots, Vacant, Absent
<1> HIDE DEF o
<1>5. FilesAndSlot' BY <1>1, <1>2 DEF FilesAndSlot, Launches
<1>6. ASSUME NEW u \in Launches PROVE LaunchHolds(u)'
  BY <1>1, <1>2, <1>5 DEF FilesAndSlot, Slot, Slots, LaunchHolds, Grown, Over, Alive, GroupExists, Holds, Ended
<1> QED BY <1>5, <1>6 DEF CustodyInv

(* A guardian that does not end in time is killed. *)
LEMMA CustodyTimesOut ==
    ASSUME CustodyInv, CleanupTimesOut PROVE CustodyInv'
<1> USE CustodyFacts
<1> DEFINE s == slot.tok
           r == [tree[s] EXCEPT !.guardian = "killed", !.holds = FALSE]
<1>1. /\ slot' = slot
      /\ wait' = "none"
      /\ tree' = [tree EXCEPT ![s] = r]
      /\ gone' = gone
      /\ ident' = ident
      /\ marker' = marker
      /\ lifetime' = lifetime
      /\ UNCHANGED <<last, boot>>
      /\ wait = "cleanup"
      /\ slot.state = "launching"
  BY DEF CleanupTimesOut, SetTree, At, server, files, FilesAndSlot
<1>3. /\ r \in Trees /\ r.guardian = "killed" /\ r.holds = FALSE /\ r.anchor = tree[s].anchor
      /\ r.provider = tree[s].provider /\ r.child = tree[s].child /\ r.frozen = tree[s].frozen /\ r.boot = tree[s].boot
  BY <1>1 DEF Trees, Phases, Ended
<1> HIDE DEF r
<1>5. FilesAndSlot' BY <1>1, <1>3 DEF FilesAndSlot, Launches
<1>6. ASSUME NEW u \in Launches PROVE LaunchHolds(u)'
  BY <1>1, <1>3, <1>5 DEF FilesAndSlot, Slot, Slots, LaunchHolds, Grown, Over, Alive, GroupExists, Holds, Ended
<1> QED BY <1>5, <1>6 DEF CustodyInv

(* A slot that holds nothing.                                                          *)
LEMMA NoSlot ==
    ASSUME MaxLaunches \in Nat
    PROVE  Absent \in Slots /\ Absent.tok = 0 /\ Absent.state = "absent"
<1> QED BY DEF Absent, Slots

(* What proves a launch gone: the receipt, or what the files show, of this boot or of    *)
(* an earlier one.                                                                      *)
LEMMA ReceiptIsTrue ==
    ASSUME CustodyInv, NEW t \in Launches, Receipt(t) PROVE ~Alive(t)
<1> QED BY CustodyFacts DEF Receipt, LaunchHolds, Over

(* observe_runtime_lease proves only what is so.                                        *)
LEMMA GoneIsTrue ==
    ASSUME CustodyInv, NEW t \in Launches, NEW cold \in BOOLEAN, ProvesGone(t, cold)
    PROVE  ~Alive(t)
<1> USE CustodyFacts
<1>1. LaunchHolds(t) /\ Grown(tree[t]) /\ tree[t] \in Trees /\ marker \in Markers BY DEF FilesAndSlot
<1>2. CASE marker.kind = "gone" /\ marker.tok = t BY <1>1, <1>2 DEF LaunchHolds, Over
<1>3. CASE tree[t].boot # boot BY <1>1, <1>3 DEF LaunchHolds
<1>4. CASE marker.kind = "unix" /\ marker.tok = t /\ marker.boot # boot BY <1>1, <1>3, <1>4 DEF LaunchHolds
<1>5. CASE /\ marker.kind \in {"pending", "launching"} /\ marker.tok = t
           /\ ~Tagged(t)
  BY <1>1, <1>5 DEF LaunchHolds, Grown, Alive, GroupExists, Tagged
<1>6. \/ LeaseObservation = "generation_gone" /\ marker.tok = t
      \/ LeaseObservation = "previous_boot" /\ marker.tok = t
      \/ tree[t].boot # boot
  BY DEF ProvesGone
<1>7. ASSUME LeaseObservation = "generation_gone", marker.tok = t
      PROVE  marker.kind = "gone" \/ (marker.kind \in {"pending", "launching"} /\ ~Tagged(t))
  BY <1>1, <1>7 DEF LeaseObservation, Markers
<1>8. ASSUME LeaseObservation = "previous_boot", marker.tok = t
      PROVE  marker.kind = "unix" /\ marker.boot # boot
  BY <1>8 DEF LeaseObservation
<1> QED BY <1>2, <1>3, <1>4, <1>5, <1>6, <1>7, <1>8

(* A refused reservation leaves a vacant slot. *)
LEMMA CustodyRefused ==
    ASSUME CustodyInv, ReserveRefused PROVE CustodyInv'
<1> USE CustodyFacts
<1> DEFINE s == slot.tok
           o == Vacant
<1>1. /\ slot' = o
      /\ wait' = wait
      /\ tree' = tree
      /\ gone' = gone
      /\ ident' = ident
      /\ marker' = marker
      /\ lifetime' = lifetime
      /\ UNCHANGED <<last, boot>>
      /\ slot.state = "absent"
  BY DEF ReserveRefused, SetTree, At, server, files, Absent
<1>2. o \in Slots /\ o.tok = 0 /\ o.state = "vacant" BY DEF Slots, Vacant, Absent
<1> HIDE DEF o
<1>5. FilesAndSlot' BY <1>1, <1>2 DEF FilesAndSlot, Launches
<1>6. ASSUME NEW u \in Launches PROVE LaunchHolds(u)'
  BY <1>1, <1>2, <1>5 DEF FilesAndSlot, Slot, Slots, LaunchHolds, Grown, Over, Alive, GroupExists, Holds, Ended
<1> QED BY <1>5, <1>6 DEF CustodyInv

(* A launch that fails closes the input of the guardian. *)
LEMMA CustodyLaunchFails ==
    ASSUME CustodyInv, LaunchFails PROVE CustodyInv'
<1> USE CustodyFacts
<1> DEFINE s == slot.tok
<1>1. /\ slot' = slot
      /\ wait' = "cleanup"
      /\ tree' = tree
      /\ gone' = gone
      /\ ident' = ident
      /\ marker' = marker
      /\ lifetime' = lifetime
      /\ UNCHANGED <<last, boot>>
      /\ slot.state = "launching"
  BY DEF LaunchFails, SetTree, At, server, files, FilesAndSlot
<1>5. FilesAndSlot' BY <1>1 DEF FilesAndSlot, Launches
<1>6. ASSUME NEW u \in Launches PROVE LaunchHolds(u)'
  BY <1>1, <1>5 DEF FilesAndSlot, Slot, Slots, LaunchHolds, Grown, Over, Alive, GroupExists, Holds, Ended
<1> QED BY <1>5, <1>6 DEF CustodyInv

(* A stop closes the input of the guardian. *)
LEMMA CustodyRequestsStop ==
    ASSUME CustodyInv, RequestStop PROVE CustodyInv'
<1> USE CustodyFacts
<1> DEFINE s == slot.tok
<1>1. /\ slot' = slot
      /\ wait' = "stop"
      /\ tree' = tree
      /\ gone' = gone
      /\ ident' = ident
      /\ marker' = marker
      /\ lifetime' = lifetime
      /\ UNCHANGED <<last, boot>>
      /\ slot.state = "running"
      /\ wait = "none"
  BY DEF RequestStop, SetTree, At, server, files
<1>5. FilesAndSlot' BY <1>1 DEF FilesAndSlot, Launches
<1>6. ASSUME NEW u \in Launches PROVE LaunchHolds(u)'
  BY <1>1, <1>5 DEF FilesAndSlot, Slot, Slots, LaunchHolds, Grown, Over, Alive, GroupExists, Holds, Ended
<1> QED BY <1>5, <1>6 DEF CustodyInv

(* A failed launch is safe with the receipt of its guardian. *)
LEMMA CustodyCleanedUp ==
    ASSUME CustodyInv, CleanupEnds, Receipt(slot.tok) PROVE CustodyInv'
<1> USE CustodyFacts
<1> DEFINE s == slot.tok
           o == [slot EXCEPT !.state = "stopped"]
<1>1. /\ slot' = o
      /\ wait' = "none"
      /\ tree' = tree
      /\ gone' = [gone EXCEPT ![s] = "proof"]
      /\ ident' = ident
      /\ marker' = marker
      /\ lifetime' = lifetime
      /\ UNCHANGED <<last, boot>>
      /\ slot.state = "launching"
      /\ Receipt(s)
  BY DEF CleanupEnds, SetTree, At, server, files, FilesAndSlot
<1>2. o \in Slots /\ o.tok = slot.tok /\ o.state = "stopped" BY DEF Slots, Vacant, Absent
<1> HIDE DEF o
<1>g. ~Alive(s) /\ slot.tok \in Launches BY <1>1, ReceiptIsTrue
<1>5. FilesAndSlot' BY <1>1, <1>2, <1>g DEF FilesAndSlot, Launches
<1>6. ASSUME NEW u \in Launches PROVE LaunchHolds(u)'
  BY <1>1, <1>2, <1>5, <1>g DEF FilesAndSlot, Slot, Slots, LaunchHolds, Grown, Over, Alive, GroupExists, Holds,
     Ended
<1> QED BY <1>5, <1>6 DEF CustodyInv

(* Without a receipt the launch stays uncertain. *)
LEMMA CustodyNotCleanedUp ==
    ASSUME CustodyInv, CleanupEnds, ~Receipt(slot.tok) PROVE CustodyInv'
<1> USE CustodyFacts
<1> DEFINE s == slot.tok
<1>1. /\ slot' = slot
      /\ wait' = "none"
      /\ tree' = tree
      /\ gone' = gone
      /\ ident' = ident
      /\ marker' = marker
      /\ lifetime' = lifetime
      /\ UNCHANGED <<last, boot>>
      /\ slot.state = "launching"
  BY DEF CleanupEnds, SetTree, At, server, files, FilesAndSlot
<1>5. FilesAndSlot' BY <1>1 DEF FilesAndSlot, Launches
<1>6. ASSUME NEW u \in Launches PROVE LaunchHolds(u)'
  BY <1>1, <1>5 DEF FilesAndSlot, Slot, Slots, LaunchHolds, Grown, Over, Alive, GroupExists, Holds, Ended
<1> QED BY <1>5, <1>6 DEF CustodyInv

(* A stop is confirmed when the guardian left nothing, its captives included. *)
LEMMA CustodyStopped ==
    ASSUME CustodyInv, StopEnds, At(slot.tok, "ok"),
           ~GroupExists(slot.tok),
           ~Tagged(slot.tok),
           ~Holds(slot.tok) PROVE CustodyInv'
<1> USE CustodyFacts
<1> DEFINE s == slot.tok
           o == [slot EXCEPT !.state = "stopped"]
<1>1. /\ slot' = o
      /\ wait' = "none"
      /\ tree' = tree
      /\ gone' = [gone EXCEPT ![s] = "proof"]
      /\ ident' = ident
      /\ marker' = marker
      /\ lifetime' = lifetime
      /\ UNCHANGED <<last, boot>>
      /\ slot.state = "running"
      /\ tree[s].guardian = "ok"
      /\ ~GroupExists(s)
  BY DEF StopEnds, SetTree, At, server, files, FilesAndSlot
<1>2. o \in Slots /\ o.tok = slot.tok /\ o.state = "stopped" BY DEF Slots, Vacant, Absent
<1> HIDE DEF o
<1>g. ~Alive(s) /\ slot.tok \in Launches BY <1>1 DEF Alive, Grown
<1>5. FilesAndSlot' BY <1>1, <1>2, <1>g DEF FilesAndSlot, Launches
<1>6. ASSUME NEW u \in Launches PROVE LaunchHolds(u)'
  BY <1>1, <1>2, <1>5, <1>g DEF FilesAndSlot, Slot, Slots, LaunchHolds, Grown, Over, Alive, GroupExists, Holds,
     Ended
<1> QED BY <1>5, <1>6 DEF CustodyInv

(* A stop that is not confirmed leaves the slot running. *)
LEMMA CustodyNotStopped ==
    ASSUME CustodyInv, StopEnds,
           ~(At(slot.tok, "ok") /\ ~GroupExists(slot.tok) /\ ~Tagged(slot.tok) /\ ~Holds(slot.tok)) PROVE CustodyInv'
<1> USE CustodyFacts
<1> DEFINE s == slot.tok
<1>1. /\ slot' = slot
      /\ wait' = "none"
      /\ tree' = tree
      /\ gone' = gone
      /\ ident' = ident
      /\ marker' = marker
      /\ lifetime' = lifetime
      /\ UNCHANGED <<last, boot>>
      /\ slot.state = "running"
  BY DEF StopEnds, SetTree, At, server, files, FilesAndSlot
<1>5. FilesAndSlot' BY <1>1 DEF FilesAndSlot, Launches
<1>6. ASSUME NEW u \in Launches PROVE LaunchHolds(u)'
  BY <1>1, <1>5 DEF FilesAndSlot, Slot, Slots, LaunchHolds, Grown, Over, Alive, GroupExists, Holds, Ended
<1> QED BY <1>5, <1>6 DEF CustodyInv

(* The absence of an uncertain launch becomes durable. *)
LEMMA CustodyObserves ==
    ASSUME CustodyInv, ObserveLaunching PROVE CustodyInv'
<1> USE CustodyFacts
<1> DEFINE s == slot.tok
<1>1. /\ slot' = slot
      /\ wait' = wait
      /\ tree' = tree
      /\ gone' = [gone EXCEPT ![s] = "proof"]
      /\ ident' = 0
      /\ marker' = marker
      /\ lifetime' = lifetime
      /\ UNCHANGED <<last, boot>>
      /\ slot.state = "launching"
      /\ wait = "none"
      /\ Receipt(s) \/ ProvesGone(s, FALSE)
  BY DEF ObserveLaunching, SetTree, At, server, files
<1>g. ~Alive(s) /\ slot.tok \in Launches BY <1>1, ReceiptIsTrue, GoneIsTrue
<1>5. FilesAndSlot' BY <1>1, <1>g DEF FilesAndSlot, Launches
<1>6. ASSUME NEW u \in Launches PROVE LaunchHolds(u)'
  BY <1>1, <1>5, <1>g DEF FilesAndSlot, Slot, Slots, LaunchHolds, Grown, Over, Alive, GroupExists, Holds, Ended
<1> QED BY <1>5, <1>6 DEF CustodyInv

(* A reservation, or a launch shown to be gone, becomes a confirmed stop. *)
LEMMA CustodyShutsDown ==
    ASSUME CustodyInv, ShutdownLaunching PROVE CustodyInv'
<1> USE CustodyFacts
<1> DEFINE s == slot.tok
           o == [slot EXCEPT !.state = "stopped"]
<1>1. /\ slot' = o
      /\ wait' = wait
      /\ tree' = tree
      /\ gone' = [gone EXCEPT ![s] = "proof"]
      /\ ident' = ident
      /\ marker' = marker
      /\ lifetime' = lifetime
      /\ UNCHANGED <<last, boot>>
      /\ wait = "none"
      /\ slot.state = "reserved" \/ (slot.state = "launching" /\ (Receipt(s) \/ ProvesGone(s, FALSE)))
  BY DEF ShutdownLaunching, SetTree, At, server, files
<1>2. o \in Slots /\ o.tok = slot.tok /\ o.state = "stopped" BY DEF Slots, Vacant, Absent
<1> HIDE DEF o
<1>g. ~Alive(s) /\ slot.tok \in Launches BY ReceiptIsTrue, GoneIsTrue, <1>1 DEF LaunchHolds, Grown, Alive, GroupExists
<1>5. FilesAndSlot' BY <1>1, <1>2, <1>g DEF FilesAndSlot, Launches
<1>6. ASSUME NEW u \in Launches PROVE LaunchHolds(u)'
  BY <1>1, <1>2, <1>5, <1>g DEF FilesAndSlot, Slot, Slots, LaunchHolds, Grown, Over, Alive, GroupExists, Holds,
     Ended
<1> QED BY <1>5, <1>6 DEF CustodyInv

(* The absence of a stopped launch becomes durable. *)
LEMMA CustodyCheckpoints ==
    ASSUME CustodyInv, CheckpointStop PROVE CustodyInv'
<1> USE CustodyFacts
<1> DEFINE s == slot.tok
<1>1. /\ slot' = slot
      /\ wait' = wait
      /\ tree' = tree
      /\ gone' = gone
      /\ ident' = 0
      /\ marker' = marker
      /\ lifetime' = lifetime
      /\ UNCHANGED <<last, boot>>
  BY DEF CheckpointStop, SetTree, At, server, files
<1>5. FilesAndSlot' BY <1>1 DEF FilesAndSlot, Launches
<1>6. ASSUME NEW u \in Launches PROVE LaunchHolds(u)'
  BY <1>1, <1>5 DEF FilesAndSlot, Slot, Slots, LaunchHolds, Grown, Over, Alive, GroupExists, Holds, Ended
<1> QED BY <1>5, <1>6 DEF CustodyInv

(* What is proved after a restart, or answered for a vacant slot, is written down.       *)
LEMMA CustodyForgets ==
    ASSUME CustodyInv, ObserveCold \/ ObserveVacant PROVE CustodyInv'
<1> USE CustodyFacts
<1>1. /\ UNCHANGED <<slot, wait, marker, lifetime, tree, last, boot>> /\ ident' = 0
      /\ slot.state \in {"absent", "vacant"}
      /\ \/ ProvesGone(ident, TRUE) /\ gone' = [gone EXCEPT ![ident] = "proof"]
         \/ gone' = [gone EXCEPT ![ident] = IF gone[ident] = "no" THEN "vacant" ELSE gone[ident]]
      /\ ident # 0
  <2>1. CASE ObserveCold BY <2>1 DEF ObserveCold, server, files, Absent
  <2>2. CASE ObserveVacant BY <2>2 DEF ObserveVacant, server, files, Vacant
  <2> QED BY <2>1, <2>2
<1>2. ident \in Launches /\ ident <= last BY <1>1 DEF FilesAndSlot, Launches
<1>3. FilesAndSlot' BY <1>1, <1>2 DEF FilesAndSlot
<1>4. ASSUME NEW t \in Launches PROVE LaunchHolds(t)'
  <2>1. LaunchHolds(t) /\ slot.tok # t BY <1>1 DEF FilesAndSlot
  <2>2. \/ gone'[t] = gone[t]
        \/ t = ident /\ (gone'[t] = "vacant" \/ (gone'[t] = "proof" /\ ~Alive(t)))
    BY <1>1, <1>2, GoneIsTrue, ZenonT(60) DEF FilesAndSlot
  <2>3. Holds(t)' = Holds(t) /\ Alive(t)' = Alive(t) /\ Over(t)' = Over(t)
    BY <1>1 DEF Holds, Alive, GroupExists, Over, Slot
  <2>4. ~Alive(t) => Over(t) BY <2>1 DEF Over
  <2> QED BY <1>1, <1>2, <2>1, <2>2, <2>3, <2>4 DEF LaunchHolds, Launches, FilesAndSlot
<1> QED BY <1>3, <1>4 DEF CustodyInv

(* The files of a launch go only where nobody holds them.                               *)
LEMMA CustodyReleases ==
    ASSUME CustodyInv, CancelReservation \/ ReleaseStop PROVE CustodyInv'
<1> USE CustodyFacts
<1> DEFINE s == slot.tok
           m == [kind |-> "missing", tok |-> 0, boot |-> 0]
<1>1. /\ slot' = Vacant /\ UNCHANGED <<wait, ident, tree, last, gone, boot>>
      /\ marker' = (IF ~Locked /\ marker.tok = s THEN m ELSE marker)
      /\ lifetime' = (IF lifetime = s /\ ~Holds(s) THEN 0 ELSE lifetime)
      /\ slot.state \notin {"absent", "vacant"} /\ wait = "none"
  BY DEF CancelReservation, ReleaseStop, RemoveFiles, FilesAndSlot
<1>2. /\ slot' \in Slots /\ slot'.tok = 0 /\ slot'.state = "vacant"
      /\ m \in Markers /\ m.kind = "missing" /\ m.tok = 0
  BY <1>1 DEF Vacant, Slots, Markers
<1> HIDE DEF m
<1>3. FilesAndSlot' BY <1>1, <1>2 DEF FilesAndSlot
<1>4. ASSUME NEW t \in Launches PROVE LaunchHolds(t)'
  BY <1>1, <1>2 DEF Slot, Slots, Holds, Alive, GroupExists, Locked, LaunchHolds, Over
<1> QED BY <1>3, <1>4 DEF CustodyInv

(* A launch is reserved when both files are free: nothing of an older one holds them.   *)
LEMMA CustodyReserves ==
    ASSUME CustodyInv, ReserveStart PROVE CustodyInv'
<1> USE CustodyFacts
<1>a. last + 1 \in Launches BY DEF ReserveStart, Launches, FilesAndSlot
<1>n. PICK n \in Launches : n = last + 1 BY <1>a
<1>0. n \in Nat /\ n # 0 /\ n \in 0..MaxLaunches /\ n > last BY <1>n DEF Launches
<1> DEFINE r == [tree[n] EXCEPT !.boot = boot]
           o == [state |-> "reserved", tok |-> n]
           m == [kind |-> "pending", tok |-> n, boot |-> boot]
<1>1. /\ tree' = [tree EXCEPT ![n] = r] /\ slot' = o /\ marker' = m /\ lifetime' = n /\ last' = n
      /\ UNCHANGED <<wait, gone, boot>> /\ ident = 0 /\ ident' = 0
      /\ slot.state \in {"absent", "vacant"} /\ ~Locked /\ (lifetime # 0 => ~Holds(lifetime))
  BY <1>n DEF ReserveStart
<1>3. /\ r \in Trees /\ r.boot = boot /\ r.guardian = tree[n].guardian /\ r.holds = tree[n].holds
      /\ r.anchor = tree[n].anchor /\ r.provider = tree[n].provider /\ r.child = tree[n].child
      /\ r.frozen = tree[n].frozen
      /\ o \in Slots /\ o.state = "reserved" /\ o.tok = n
      /\ m \in Markers /\ m.kind = "pending" /\ m.tok = n
  BY <1>0 DEF FilesAndSlot, Trees, Slots, Markers
<1> HIDE DEF r, o, m
<1>5. wait = "none" BY <1>1 DEF FilesAndSlot
<1>6. FilesAndSlot' BY <1>0, <1>1, <1>3, <1>5 DEF FilesAndSlot, Launches
<1>7. LaunchHolds(n)'
  BY <1>0, <1>1, <1>3, <1>5 DEF FilesAndSlot, Slot, Slots, LaunchHolds, Grown, Holds, Alive, GroupExists
<1>8. ASSUME NEW t \in Launches, t # n PROVE LaunchHolds(t)'
  BY <1>0, <1>1, <1>8, <1>3 DEF FilesAndSlot, Locked, Slot, Slots, Holds, Alive, GroupExists, LaunchHolds,
     Launches, Over
<1> QED BY <1>6, <1>7, <1>8 DEF CustodyInv

(* The memory of the server goes with it; the processes and the files stay.             *)
LEMMA CustodyCrashes ==
    ASSUME CustodyInv, ServerCrash PROVE CustodyInv'
<1> USE CustodyFacts
<1>1. /\ slot' = Absent /\ wait' = "none"
      /\ UNCHANGED <<ident, marker, lifetime, tree, last, gone, boot>>
  BY DEF ServerCrash, files
<1>2. slot' \in Slots /\ slot'.tok = 0 /\ slot'.state = "absent" BY <1>1, NoSlot
<1>3. FilesAndSlot' BY <1>1, <1>2 DEF FilesAndSlot
<1>4. ASSUME NEW t \in Launches PROVE LaunchHolds(t)'
  BY <1>1, <1>2 DEF Slot, Slots, Holds, Alive, GroupExists, LaunchHolds, Over
<1> QED BY <1>3, <1>4 DEF CustodyInv

(* No process survives a reboot of the host.                                            *)
LEMMA CustodyReboots ==
    ASSUME CustodyInv, Reboot PROVE CustodyInv'
<1> USE CustodyFacts
<1> DEFINE b == boot + 1
           g(t) == IF tree[t].guardian = "none" THEN "none" ELSE "killed"
           r(t) == [NoTree EXCEPT !.boot = tree[t].boot, !.guardian = g(t)]
<1>0. b \in Nat /\ b # boot BY DEF FilesAndSlot
<1>1. /\ slot' = Absent /\ wait' = "none" /\ boot' = b
      /\ UNCHANGED <<ident, marker, lifetime, last, gone>>
      /\ DOMAIN tree' = Launches /\ tree' = [t \in Launches |-> tree'[t]]
      /\ \A t \in Launches : tree'[t] = r(t)
  BY DEF Reboot, files, NoTree
<1> HIDE DEF b
<1>2. slot' \in Slots /\ slot'.tok = 0 /\ slot'.state = "absent" BY <1>1, NoSlot
<1>3. ASSUME NEW t \in Launches
      PROVE  /\ r(t) \in Trees /\ r(t).guardian = g(t) /\ ~r(t).holds /\ r(t).anchor = "none"
             /\ r(t).provider = "none" /\ r(t).child = "none" /\ r(t).boot = tree[t].boot
  BY DEF Phases, Ended, NoTree, Trees
<1>4. \A t \in Launches : g(t) \in {"none", "killed"} /\ (g(t) = "none") = (tree[t].guardian = "none") OBVIOUS
<1> HIDE DEF r, g
<1>5. FilesAndSlot' BY <1>1, <1>3, <1>0, <1>2 DEF FilesAndSlot
<1>6. ASSUME NEW t \in Launches PROVE LaunchHolds(t)'
  BY <1>1, <1>2, <1>3, <1>4 DEF Slot, Slots, Holds, Alive, GroupExists, LaunchHolds, Over, Grown, Ended
<1> QED BY <1>5, <1>6 DEF CustodyInv

(* A step of the processes or the host.                                                 *)
LEMMA CustodyTrees ==
    ASSUME CustodyInv, NEW t \in Launches, GuardianStep(t) \/ HostStep(t) PROVE CustodyInv'
<1>1. CASE GuardianStep(t)
  BY <1>1, CustodyOpens, CustodyUnacknowledged, CustodyActivates, CustodyLauncher, CustodyResumes,
     CustodyAnchorLost, CustodyCleansUnanchored, CustodyEof, CustodyFreezes, CustodyFreezeFails,
     CustodyKills, CustodyConfirms, CustodySelfKills DEF GuardianStep
<1>2. CASE HostStep(t) BY <1>2, CustodyProviderExits, CustodyForks, CustodySheds, CustodyChildExits,
     CustodyGuardianKilled DEF HostStep
<1> QED BY <1>1, <1>2

(* The inductive invariant of the custody of one session's processes.                   *)
THEOREM CustodyInvariant == CustodySpec => []CustodyInv
<1>1. CustodyInit => CustodyInv
  BY CustodyAssumption DEF CustodyInit, Absent, Slots, Markers, NoTree, Trees, Phases, FilesAndSlot, Slot,
     Launches, Holds, Alive, GroupExists, LaunchHolds, Grown, Over, CustodyInv
<1>2. CustodyInv /\ [CustodyNext]_custody => CustodyInv'
  <2> SUFFICES ASSUME CustodyInv, [CustodyNext]_custody PROVE CustodyInv'
    OBVIOUS
  <2>1. CASE ReserveStart \/ ReserveRefused \/ AuthorizeStart \/ CancelReservation
    BY <2>1, CustodyReserves, CustodyRefused, CustodyAuthorizes, CustodyReleases
  <2>2. CASE Launch BY <2>2, CustodyBegins, CustodySpawns, CustodySpawnFails, CustodyHandsOff, CustodyAborts,
       CustodyRuns, CustodyLaunchFails, CustodyCleanedUp, CustodyNotCleanedUp, CustodyTimesOut
       DEF Launch
  <2>3. CASE Settle BY <2>3, CustodyRequestsStop, CustodyStopped, CustodyNotStopped, CustodyObserves,
       CustodyShutsDown, CustodyForgets, CustodyCheckpoints, CustodyReleases DEF Settle
  <2>4. CASE \E t \in Launches : GuardianStep(t) \/ HostStep(t) BY <2>4, CustodyTrees
  <2>5. CASE ServerCrash \/ Reboot BY <2>5, CustodyCrashes, CustodyReboots
  <2>6. CASE ServerRestart \/ UNCHANGED custody
    BY <2>6 DEF ServerRestart, custody, server, files, CustodyInv, FilesAndSlot, LaunchHolds, Over, Alive,
       GroupExists, Holds, Slot
  <2> QED BY <2>1, <2>2, <2>3, <2>4, <2>5, <2>6 DEF CustodyNext
<1> QED BY <1>1, <1>2, PTL DEF CustodySpec

(* A launch that was proved absent is absent for good, and the two files leave custody of *)
(* processes to the newest launch alone.                                                  *)
THEOREM CustodyIsHeld == CustodySpec => []CustodyHolds
<1>1. CustodyInv => CustodyHolds
  <2> SUFFICES ASSUME CustodyInv PROVE CustodyHolds
    OBVIOUS
  <2>1. ProvenGoneIsFinal BY CustodyFacts DEF ProvenGoneIsFinal, LaunchHolds, Over
  <2> DEFINE held == {t \in Launches : \/ tree[t].anchor = "active"
                                       \/ tree[t].provider \in {"stopped", "running"}
                                       \/ tree[t].child = "held"}
  <2>3. held = {} \/ held = {last} BY CustodyFacts DEF LaunchHolds, Holds, FilesAndSlot
  <2> HIDE DEF held
  <2>4. Cardinality(held) <= 1
    <3>1. CASE held = {} BY <3>1, FS_EmptySet
    <3>2. CASE held = {last} BY FS_Singleton, <3>2
    <3> QED BY <2>3, <3>1, <3>2
  <2> QED BY <2>1, <2>4 DEF CustodyHolds, OneHeldRuntime, held
<1> QED BY <1>1, CustodyInvariant, PTL

------------------------
(* Attendee: what is under way between the room and the client. *)

Asks == [op : {"none", "ready", "started", "report"}, gen : 0..AtTurns]
Frames == [kind : {"turn", "interrupt", "stop", "ack", "nack"}, gen : 0..AtTurns, old : BOOLEAN]
Receipts == [op : {"join", "interrupt", "leave", "cleanup", "random", "report"}, gen : 0..AtTurns]
Members == [used : BOOLEAN, member : {"none", "joined", "detached", "left"}, bound : BOOLEAN,
            conn : 0..AtConns, net : {"none", "connected", "ready", "disconnected"},
            gen : 0..AtTurns, phase : {"none", "assigned", "dispatching", "running"},
            effect : {"none", "prepared", "dispatching"}, stop : BOOLEAN, cleanup : BOOLEAN,
            receipts : SUBSET Receipts, orders : Nat]
SocketTasks == [up : BOOLEAN, at : {"wait", "turn"}, ready : BOOLEAN, turn : 0..AtTurns,
                intr : 0..AtTurns]
Clients == [ph : {"join", "start", "offline", "online", "checking", "stopping", "leaving",
                  "asking", "reporting", "ended", "failed"},
            prov : {"none", "up", "down"}, sock : 0..AtConns, claims : 0..AtConns, ask : Asks,
            sent : BOOLEAN, live : BOOLEAN, gen : 0..AtTurns,
            exec : {"none", "running", "done", "ended"},
            intr : {"none", "asked", "retained", "gone"}, tool : {"none", "used"},
            remote : BOOLEAN, left : BOOLEAN]

(* The shape of the room's rows, the tasks, the queues and the client.                  *)
AtTypes ==
    /\ atRoom \in Members /\ atCl \in Clients /\ atTask \in [Links -> SocketTasks]
    /\ atUp \in [Links -> Seq(Asks)] /\ atDown \in [Links -> Seq(Frames)]
    /\ atRuns \in [AtGens -> {0, 1}] /\ atDone \in [AtGens -> {0, 1}]
    /\ atRolls \in [AtGens -> {0, 1}]

(* A request is made by a started runtime; a report is of a turn the provider was       *)
(* given and is not working on.                                                         *)
GoodAsks == {a \in Asks :
    /\ a.op # "none" => atCl.prov # "none"
    /\ a.op \in {"started", "report"} =>
          /\ a.gen \in AtGens /\ atRuns[a.gen] = 1 /\ a.gen <= atCl.gen
          /\ a.gen = atCl.gen => atCl.exec # "running"}

(* A turn under way that the client has not seen is the one the room holds open.        *)
GoodFrames == {f \in Frames :
    f.kind = "turn" =>
        /\ f.gen \in AtGens
        /\ f.gen > atCl.gen => f.gen = atRoom.gen /\ TurnOpen}

(* The client works on the open turn, and what it says of its runtime is so.            *)
ClientHolds ==
    /\ atCl.exec # "none" => atCl.gen \in AtGens /\ atRuns[atCl.gen] = 1
    /\ atCl.exec = "running" =>
          /\ TurnOpen /\ atRoom.gen = atCl.gen /\ atCl.intr \in {"none", "asked"}
          /\ atCl.ph \in {"online", "checking", "offline", "stopping", "failed"}
    /\ atCl.ph \in {"join", "start"} => atCl.prov = "none"
    /\ atCl.intr = "gone" => atCl.prov = "down"
    /\ atCl.ph \in {"leaving", "asking", "reporting", "ended"} => atCl.prov # "up"
    /\ atCl.prov = "none" =>
          /\ atCl.ph \notin {"online", "offline", "checking"} /\ ~atRoom.bound
          /\ atCl.intr = "none"
    /\ atCl.ask \in GoodAsks
    /\ atCl.ask.op \in {"started", "report"} =>
          /\ atCl.ask.gen = atCl.gen
          /\ atCl.exec = "done" \/ atCl.ph \notin {"online", "offline", "checking"}
    /\ atCl.sock <= atCl.claims /\ (atCl.ph = "online" => atCl.sock # 0)

(* What is under way, on every connection; one that was not claimed yet carries nothing. *)
QueuesHold ==
    /\ \A k \in Links : atUp[k] \in Seq(GoodAsks)
    /\ \A k \in Links : k > atCl.claims => ~atTask[k].up /\ atDown[k] = <<>>
    /\ atCl.ph = "online" => atDown[atCl.sock] \in Seq(GoodFrames)

(* A turn was given, published and rolled at most once, in that order.                  *)
CountsHold ==
    /\ TurnOpen => atRoom.gen \in AtGens
    /\ \A g \in AtGens :
        /\ atRuns[g] = 1 => g <= atCl.gen
        /\ atDone[g] = 1 => /\ atRuns[g] = 1
                            /\ g < atRoom.gen \/ (g = atRoom.gen /\ ~TurnOpen)
        /\ atRolls[g] = 1 => atRuns[g] = 1 /\ [op |-> "random", gen |-> g] \in atRoom.receipts

AtInv == AtTypes /\ ClientHolds /\ QueuesHold /\ CountsHold

(* What holds of sequences over a set, whatever the set is made of.                     *)
LEMMA EmptySeq == \A S : <<>> \in Seq(S)
  OBVIOUS

(* More may be in a larger set.                                                         *)
LEMMA SeqGrows ==
    ASSUME NEW S, NEW T, S \subseteq T, NEW q \in Seq(S)
    PROVE  q \in Seq(T)
OBVIOUS

(* Taking the first leaves a queue over the same set.                                   *)
LEMMA SeqTaken ==
    ASSUME NEW S, NEW q \in Seq(S), q # <<>>
    PROVE  Head(q) \in S /\ Tail(q) \in Seq(S)
  OBVIOUS

(* What joins the queue is of the set.                                                  *)
LEMMA SeqJoined ==
    ASSUME NEW S, NEW q \in Seq(S), NEW e \in S
    PROVE  Append(q, e) \in Seq(S) /\ q \o <<e>> \in Seq(S)
  OBVIOUS

(* The parts of the state, one by one.                                                  *)
LEMMA AtFacts ==
    ASSUME AtInv
    PROVE  /\ AtTypes /\ ClientHolds /\ QueuesHold /\ CountsHold
           /\ AtTurns \in Nat /\ AtConns \in Nat
           /\ atRoom \in Members /\ atCl \in Clients /\ atTask \in [Links -> SocketTasks]
           /\ atUp \in [Links -> Seq(GoodAsks)] /\ atDown \in [Links -> Seq(Frames)]
           /\ atRuns \in [AtGens -> {0, 1}] /\ atDone \in [AtGens -> {0, 1}]
           /\ atRolls \in [AtGens -> {0, 1}]
           /\ atRoom.gen \in 0..AtTurns /\ atCl.gen \in 0..AtTurns /\ atRoom.bound \in BOOLEAN
           /\ atRoom.receipts \in SUBSET Receipts
           /\ atCl.sock \in 0..AtConns /\ atCl.claims \in 0..AtConns /\ atCl.ask \in Asks
           /\ atCl.ph = "online" => atCl.sock \in Links
<1>1. AtTypes /\ ClientHolds /\ QueuesHold /\ CountsHold /\ AtTurns \in Nat /\ AtConns \in Nat
  BY AtConstants DEF AtInv
<1>2. /\ atRoom \in Members /\ atCl \in Clients /\ atTask \in [Links -> SocketTasks]
      /\ atUp \in [Links -> Seq(Asks)] /\ atDown \in [Links -> Seq(Frames)]
      /\ atRuns \in [AtGens -> {0, 1}] /\ atDone \in [AtGens -> {0, 1}]
      /\ atRolls \in [AtGens -> {0, 1}]
  BY <1>1 DEF AtTypes
<1>3. atRoom.gen \in 0..AtTurns /\ atRoom.bound \in BOOLEAN /\ atRoom.receipts \in SUBSET Receipts BY <1>2 DEF Members
<1>4. atCl.gen \in 0..AtTurns /\ atCl.sock \in 0..AtConns /\ atCl.claims \in 0..AtConns
      /\ atCl.ask \in Asks
  BY <1>2 DEF Clients
<1>5. atUp \in [Links -> Seq(GoodAsks)] BY <1>1, <1>2 DEF QueuesHold
<1>6. atCl.ph = "online" => atCl.sock \in Links BY <1>1, <1>4 DEF ClientHolds, Links
<1> QED BY <1>1, <1>2, <1>3, <1>4, <1>5, <1>6

(* A step that gives the client no newer turn, publishes nothing and rolls nothing.      *)
LEMMA AtFrame ==
    ASSUME AtInv, atRoom' \in Members, atCl' \in Clients, atTask' \in [Links -> SocketTasks],
           atDown' \in [Links -> Seq(Frames)], atUp' \in [Links -> Seq(GoodAsks)],
           UNCHANGED <<atRuns, atDone, atRolls>>, ClientHolds',
           atCl'.gen = atCl.gen, atRoom'.gen = atRoom.gen,
           atRoom.receipts \subseteq atRoom'.receipts, atCl'.claims >= atCl.claims,
           atCl.prov # "none" => atCl'.prov # "none",
           atCl'.exec = "running" => atCl.exec = "running",
           \/ atRoom'.phase = "none" <=> atRoom.phase = "none"
           \/ atRoom'.phase = "none" /\ (atCl'.ph # "online" \/ atRoom.gen <= atCl.gen),
           \A k \in Links : k > atCl'.claims => ~atTask'[k].up /\ atDown'[k] = atDown[k],
           atCl'.ph = "online" => atDown'[atCl'.sock] \in Seq(GoodFrames)
    PROVE  AtInv'
<1> USE AtFacts
<1>2. \A k \in Links : atUp'[k] \in Seq(GoodAsks)' /\ atUp'[k] \in Seq(Asks) BY SeqGrows DEF GoodAsks
<1>3. AtTypes' BY <1>2 DEF AtTypes
<1>6. \A k \in Links : k > atCl'.claims => atDown[k] = <<>> BY DEF Clients, Links, QueuesHold
<1>7. QueuesHold' BY <1>2, SeqGrows, <1>6 DEF QueuesHold, GoodFrames, TurnOpen, AtGens
<1>8. CountsHold' BY DEF CountsHold, TurnOpen, AtGens
<1> QED BY <1>3, <1>7, <1>8 DEF AtInv

(* A step of the room and its tasks that leaves the turn as open as it was.              *)
LEMMA AtRoomSide ==
    ASSUME AtInv, UNCHANGED <<atCl, atRuns, atDone, atRolls>>,
           atRoom' \in Members, atRoom'.gen = atRoom.gen, atRoom'.receipts = atRoom.receipts,
           atRoom'.phase = "none" <=> atRoom.phase = "none",
           atRoom'.bound => atRoom.bound \/ atCl.prov # "none",
           atTask' \in [Links -> SocketTasks], atUp' \in [Links -> Seq(GoodAsks)],
           atDown' \in [Links -> Seq(Frames)],
           \A k \in Links : ~atTask[k].up => ~atTask'[k].up /\ atDown'[k] = atDown[k],
           \A k \in Links : atDown[k] \in Seq(GoodFrames) => atDown'[k] \in Seq(GoodFrames)
    PROVE  AtInv'
<1> USE AtFacts
<1>1. ClientHolds' BY DEF ClientHolds, GoodAsks, TurnOpen
<1>2. atCl.ph = "online" => atDown'[atCl.sock] \in Seq(GoodFrames) BY DEF QueuesHold
<1>3. \A k \in Links : k > atCl.claims => ~atTask[k].up BY DEF QueuesHold
<1> QED BY <1>1, <1>2, <1>3, AtFrame

(* What a task sends to its client.                                                      *)
LEMMA AtSends ==
    ASSUME AtInv, NEW k \in Links, NEW f \in GoodFrames, Sends(k, <<f>>)
    PROVE  /\ atDown' \in [Links -> Seq(Frames)]
           /\ \A j \in Links \ {k} : atDown'[j] = atDown[j]
           /\ \A j \in Links : atDown[j] \in Seq(GoodFrames) => atDown'[j] \in Seq(GoodFrames)
<1> USE AtFacts
<1> DEFINE q == atDown[k] \o <<f>>
<1>1. atDown' = [atDown EXCEPT ![k] = q] BY Zenon DEF Sends
<1>3. q \in Seq(Frames) /\ (atDown[k] \in Seq(GoodFrames) => q \in Seq(GoodFrames)) BY SeqJoined DEF GoodFrames
<1> HIDE DEF q
<1> QED BY <1>1, <1>3

(* The rows a task leaves when it ends.                                                  *)
LEMMA AtDisconnected ==
    ASSUME AtInv, NEW k \in Links
    PROVE  /\ Disconnected(k) \in Members /\ Disconnected(k).gen = atRoom.gen
           /\ Disconnected(k).receipts = atRoom.receipts /\ Disconnected(k).phase = atRoom.phase
           /\ Disconnected(k).bound = atRoom.bound
<1> USE AtFacts
<1> DEFINE r == [atRoom EXCEPT !.net = "disconnected"]
<1>1. /\ r \in Members /\ r.gen = atRoom.gen /\ r.receipts = atRoom.receipts
      /\ r.phase = atRoom.phase /\ r.bound = atRoom.bound
  BY DEF Members
<1>2. Disconnected(k) \in {r, atRoom} BY DEF Disconnected
<1> HIDE DEF r
<1> QED BY <1>1, <1>2

(* A queue of one connection is changed.                                                 *)
LEMMA AtUpSet ==
    ASSUME AtInv, NEW k \in Links, NEW q \in Seq(GoodAsks), atUp' = [atUp EXCEPT ![k] = q]
    PROVE  atUp' \in [Links -> Seq(GoodAsks)]
<1> QED BY AtFacts

(* A task that is idle again.                                                            *)
LEMMA AtTaskIdle ==
    ASSUME AtInv, NEW k \in Links, atTask' = [atTask EXCEPT ![k] = IdleTask]
    PROVE  /\ atTask' \in [Links -> SocketTasks]
           /\ \A j \in Links : atTask'[j].up => atTask[j].up
<1> USE AtFacts
<1>1. IdleTask \in SocketTasks /\ ~IdleTask.up BY DEF IdleTask, SocketTasks
<1> QED BY <1>1

(* A task that ends tells its client once.                                               *)
LEMMA AtEnds ==
    ASSUME AtInv, NEW k \in Links, atTask[k].up, NEW f \in GoodFrames, Ends(k, <<f>>),
           UNCHANGED <<atCl, atRuns, atDone, atRolls>>
    PROVE  AtInv'
<1> USE AtFacts
<1>1. /\ atTask' = [atTask EXCEPT ![k] = IdleTask] /\ atRoom' = Disconnected(k)
      /\ Sends(k, <<f>>) \/ atDown' = atDown
      /\ atUp' = [atUp EXCEPT ![k] = <<>>]
  BY Zenon DEF Ends
<1>2. atUp' \in [Links -> Seq(GoodAsks)] BY <1>1, EmptySeq, AtUpSet, Zenon
<1>3. /\ atDown' \in [Links -> Seq(Frames)]
      /\ \A j \in Links \ {k} : atDown'[j] = atDown[j]
      /\ \A j \in Links : atDown[j] \in Seq(GoodFrames) => atDown'[j] \in Seq(GoodFrames)
  BY AtSends, <1>1
<1>4. atTask' \in [Links -> SocketTasks] /\ \A j \in Links : atTask'[j].up => atTask[j].up BY <1>1, AtTaskIdle, Zenon
<1>5. /\ atRoom' \in Members /\ atRoom'.gen = atRoom.gen /\ atRoom'.receipts = atRoom.receipts
      /\ atRoom'.phase = atRoom.phase /\ atRoom'.bound = atRoom.bound
  BY <1>1, AtDisconnected, Zenon
<1> QED BY <1>2, <1>3, <1>4, <1>5, AtRoomSide

(* What a command of the room asks is counted.                                           *)
LEMMA AtOrdered ==
    ASSUME AtInv, NEW r \in Members, Ordered(r)
    PROVE  /\ atRoom' \in Members /\ atRoom'.gen = r.gen /\ atRoom'.phase = r.phase
           /\ atRoom'.receipts = r.receipts /\ atRoom'.bound = r.bound
<1> DEFINE n == r.orders + 1
<1>1. n \in Nat BY DEF Members
<1>2. atRoom' = [r EXCEPT !.orders = n] BY DEF Ordered
<1> HIDE DEF n
<1> QED BY <1>1, <1>2 DEF Members

(* Interrupts, stops and removals leave the turn to the client.                          *)
LEMMA AtCommands ==
    ASSUME AtInv, PrepareInterrupt \/ StopAttendee \/ RemoveAttendee \/ HostCleanup
    PROVE  AtInv'
<1> USE AtFacts
<1> DEFINE Kept(r) == /\ r \in Members /\ r.gen = atRoom.gen /\ r.phase = atRoom.phase
                      /\ r.receipts = atRoom.receipts /\ r.bound = atRoom.bound
           r1 == [atRoom EXCEPT !.effect = "prepared"]
           r2 == [atRoom EXCEPT !.stop = TRUE, !.cleanup = TRUE]
           r3 == [atRoom EXCEPT !.member = "left", !.cleanup = TRUE]
           r4 == [atRoom EXCEPT !.cleanup = FALSE]
<1>1. Kept(r1) /\ Kept(r2) /\ Kept(r3) /\ Kept(r4) BY DEF Members
<1>2. /\ UNCHANGED <<atTask, atUp, atDown, atCl, atRuns, atDone, atRolls>>
      /\ Ordered(r1) \/ Ordered(r2) \/ Ordered(r3) \/ atRoom' = r4
  BY DEF PrepareInterrupt, StopAttendee, RemoveAttendee, HostCleanup
<1> HIDE DEF r1, r2, r3, r4
<1>3. Kept(atRoom') BY <1>1, <1>2, AtOrdered
<1> QED BY <1>2, <1>3, AtRoomSide

(* A turn is assigned when none is open: none is under way to the client then.           *)
LEMMA AtAssigns ==
    ASSUME AtInv, AssignTurn PROVE AtInv'
<1> USE AtFacts
<1> DEFINE n == atRoom.gen + 1
           r == [atRoom EXCEPT !.gen = n, !.phase = "assigned"]
<1>1. n \in 0..AtTurns /\ n > atRoom.gen BY DEF AssignTurn
<1>2. /\ atRoom' = r /\ atRoom.phase = "none"
      /\ UNCHANGED <<atTask, atUp, atDown, atCl, atRuns, atDone, atRolls>>
  BY DEF AssignTurn, TurnOpen
<1> HIDE DEF n
<1>3. /\ r \in Members /\ r.gen = n /\ r.phase = "assigned" /\ r.receipts = atRoom.receipts
      /\ r.bound = atRoom.bound
  BY <1>1 DEF Members
<1> HIDE DEF r
<1>4. AtTypes' BY <1>2, <1>3 DEF AtTypes
<1>5. ClientHolds' BY <1>1, <1>2, <1>3 DEF ClientHolds, GoodAsks, TurnOpen
<1>6. QueuesHold' BY <1>1, <1>2, <1>3, SeqGrows DEF GoodFrames, TurnOpen, GoodAsks, QueuesHold
<1>7. CountsHold'
  <2>1. n \in AtGens /\ \A g \in AtGens : (g < atRoom.gen \/ g = atRoom.gen) => g < n BY <1>1 DEF AtGens
  <2> QED BY <1>2, <1>3, <2>1 DEF CountsHold, TurnOpen
<1> QED BY <1>4, <1>5, <1>6, <1>7 DEF AtInv

(* A due stop.                                                                           *)
LEMMA AtDeliversStop ==
    ASSUME AtInv, NEW k \in Links, DeliverStop(k) PROVE AtInv'
<1>1. Frame("stop", 0) \in GoodFrames BY AtFacts DEF Frame, Frames, GoodFrames
<1>2. /\ atTask[k].up /\ Ends(k, <<Frame("stop", 0)>>)
      /\ UNCHANGED <<atCl, atRuns, atDone, atRolls>>
  BY Zenon DEF DeliverStop, TaskRunning
<1> QED BY <1>1, <1>2, AtEnds, Zenon

(* A prepared interrupt.                                                                 *)
LEMMA AtDeliversInterrupt ==
    ASSUME AtInv, NEW k \in Links, DeliverInterrupt(k) PROVE AtInv'
<1> USE AtFacts
<1> DEFINE r == [atRoom EXCEPT !.effect = "dispatching"]
           t == [atTask[k] EXCEPT !.intr = atRoom.gen]
<1>1. /\ atTask[k].up /\ atRoom' = r /\ atTask' = [atTask EXCEPT ![k] = t]
      /\ Sends(k, <<Frame("interrupt", atRoom.gen)>>)
      /\ UNCHANGED <<atUp, atCl, atRuns, atDone, atRolls>>
  BY Zenon DEF DeliverInterrupt, TaskRunning
<1>2. /\ r \in Members /\ r.gen = atRoom.gen /\ r.phase = atRoom.phase
      /\ r.receipts = atRoom.receipts /\ r.bound = atRoom.bound
  BY DEF Members
<1>3. t \in SocketTasks BY ZenonT(60) DEF SocketTasks
<1>5. /\ atDown' \in [Links -> Seq(Frames)]
      /\ \A j \in Links \ {k} : atDown'[j] = atDown[j]
      /\ \A j \in Links : atDown[j] \in Seq(GoodFrames) => atDown'[j] \in Seq(GoodFrames)
  BY <1>1, AtSends DEF Frame, Frames, GoodFrames
<1> HIDE DEF r, t
<1>6. /\ atTask' \in [Links -> SocketTasks]
      /\ \A j \in Links : ~atTask[j].up => ~atTask'[j].up /\ atDown'[j] = atDown[j]
  BY <1>1, <1>3, <1>5
<1> QED BY <1>1, <1>2, <1>5, <1>6, AtRoomSide

(* The look for a turn.                                                                  *)
LEMMA AtLooks ==
    ASSUME AtInv, NEW k \in Links, LookForTurn(k) PROVE AtInv'
<1> USE AtFacts
<1> DEFINE t == [atTask[k] EXCEPT !.at = "turn"]
<1>1. /\ atTask[k].up /\ atTask' = [atTask EXCEPT ![k] = t]
      /\ UNCHANGED <<atRoom, atUp, atDown, atCl, atRuns, atDone, atRolls>>
  BY DEF LookForTurn, TaskRunning
<1>2. t \in SocketTasks BY ZenonT(60) DEF SocketTasks
<1> HIDE DEF t
<1> QED BY <1>1, <1>2, AtRoomSide

(* An open turn is sent as the room holds it.                                            *)
LEMMA AtDeliversTurn ==
    ASSUME AtInv, NEW k \in Links, DeliverTurn(k) PROVE AtInv'
<1> USE AtFacts
<1> DEFINE p == IF atRoom.phase = "assigned" THEN "dispatching" ELSE atRoom.phase
           r == [atRoom EXCEPT !.phase = p]
           t == [atTask[k] EXCEPT !.at = "wait"]
           u == [atTask[k] EXCEPT !.at = "wait", !.turn = atRoom.gen]
           f == [kind |-> "turn", gen |-> atRoom.gen, old |-> atRoom.phase = "running"]
<1>1. /\ atTask[k].up /\ UNCHANGED <<atCl, atRuns, atDone, atRolls>>
      /\ \/ Ends(k, <<Frame("nack", 0)>>)
         \/ atTask' = [atTask EXCEPT ![k] = t] /\ UNCHANGED <<atRoom, atUp, atDown>>
         \/ /\ TurnOpen /\ atRoom' = r /\ atTask' = [atTask EXCEPT ![k] = u]
            /\ Sends(k, <<f>>) /\ UNCHANGED atUp
  BY Zenon DEF DeliverTurn, TaskRunning
<1>2. CASE Ends(k, <<Frame("nack", 0)>>)
  <2>1. Frame("nack", 0) \in GoodFrames BY DEF Frame, Frames, GoodFrames
  <2> QED BY <1>1, <1>2, <2>1, AtEnds, Zenon
<1>3. CASE atTask' = [atTask EXCEPT ![k] = t] /\ UNCHANGED <<atRoom, atUp, atDown>>
  <2>1. t \in SocketTasks BY ZenonT(60) DEF SocketTasks
  <2> HIDE DEF t
  <2> QED BY <1>1, <1>3, <2>1, AtRoomSide
<1>4. CASE /\ TurnOpen /\ atRoom' = r /\ atTask' = [atTask EXCEPT ![k] = u]
           /\ Sends(k, <<f>>) /\ UNCHANGED atUp
  <2>1. p \in {"dispatching", "running"} BY <1>4 DEF TurnOpen, Members
  <2> HIDE DEF p
  <2>2. /\ r \in Members /\ r.gen = atRoom.gen /\ r.phase = p
        /\ r.receipts = atRoom.receipts /\ r.bound = atRoom.bound
    BY <2>1 DEF Members
  <2>3. u \in SocketTasks BY ZenonT(60) DEF SocketTasks
  <2>4. f \in GoodFrames
    <3> DEFINE b == atRoom.phase = "running"
    <3>2. b \in BOOLEAN OBVIOUS
    <3> HIDE DEF b
    <3>3. [kind |-> "turn", gen |-> atRoom.gen, old |-> b] \in GoodFrames
      BY <1>4, <3>2 DEF Frames, GoodFrames, CountsHold
    <3> QED BY <3>3 DEF b
  <2> HIDE DEF f
  <2>5. /\ atDown' \in [Links -> Seq(Frames)]
        /\ \A j \in Links \ {k} : atDown'[j] = atDown[j]
        /\ \A j \in Links : atDown[j] \in Seq(GoodFrames) => atDown'[j] \in Seq(GoodFrames)
    BY <1>4, <2>4, AtSends, Zenon
  <2> HIDE DEF r, u
  <2>6. /\ atTask' \in [Links -> SocketTasks]
        /\ \A j \in Links : ~atTask[j].up => ~atTask'[j].up /\ atDown'[j] = atDown[j]
    BY <1>1, <1>4, <2>3, <2>5
  <2> QED BY <1>1, <1>4, <2>1, <2>2, <2>5, <2>6, AtRoomSide DEF TurnOpen
<1> QED BY <1>1, <1>2, <1>3, <1>4

(* A request accepted or refused, but for the publication of a result.                   *)
LEMMA AtAnswers ==
    ASSUME AtInv, NEW k \in Links, atTask[k].up, NEW q \in Seq(GoodAsks),
           atUp' = [atUp EXCEPT ![k] = q], NEW g \in 0..AtTurns, NEW kind \in {"ack", "nack"},
           Sends(k, <<[kind |-> kind, gen |-> g, old |-> FALSE]>>), NEW b \in BOOLEAN,
           atTask' = [atTask EXCEPT ![k].ready = atTask[k].ready \/ b],
           atRoom' \in Members, atRoom'.gen = atRoom.gen, atRoom'.receipts = atRoom.receipts,
           atRoom'.phase = "none" <=> atRoom.phase = "none",
           atRoom'.bound => atRoom.bound \/ atCl.prov # "none",
           UNCHANGED <<atCl, atRuns, atDone, atRolls>>
    PROVE  AtInv'
<1> USE AtFacts
<1> DEFINE c == atTask[k].ready \/ b
           t == [atTask[k] EXCEPT !.ready = c]
           f == [kind |-> kind, gen |-> g, old |-> FALSE]
<1>1. c \in BOOLEAN /\ atTask' = [atTask EXCEPT ![k] = t] OBVIOUS
<1> HIDE DEF c
<1>2. t \in SocketTasks BY <1>1, ZenonT(60) DEF SocketTasks
<1>4. /\ atDown' \in [Links -> Seq(Frames)]
      /\ \A j \in Links \ {k} : atDown'[j] = atDown[j]
      /\ \A j \in Links : atDown[j] \in Seq(GoodFrames) => atDown'[j] \in Seq(GoodFrames)
  BY AtSends DEF Frames, GoodFrames
<1>5. atUp' \in [Links -> Seq(GoodAsks)] BY AtUpSet, Zenon
<1> HIDE DEF t
<1>6. /\ atTask' \in [Links -> SocketTasks]
      /\ \A j \in Links : ~atTask[j].up => ~atTask'[j].up /\ atDown'[j] = atDown[j]
  BY <1>1, <1>2, <1>4
<1> QED BY <1>4, <1>5, <1>6, AtRoomSide

(* The result of a turn is published while the room holds that turn open, and once.      *)
LEMMA AtPublishes ==
    ASSUME AtInv, NEW k \in Links, atTask[k].up, NEW q \in Seq(GoodAsks),
           atUp' = [atUp EXCEPT ![k] = q], NEW req \in GoodAsks, req.op = "report",
           Sends(k, <<[kind |-> "ack", gen |-> req.gen, old |-> FALSE]>>),
           atTask' = [atTask EXCEPT ![k].ready = atTask[k].ready \/ FALSE], ReportOK(req.gen),
           atRoom' = [AtClosed(atRoom) EXCEPT !.receipts = @ \cup {req}],
           atDone' = [atDone EXCEPT ![req.gen] = @ + 1],
           UNCHANGED <<atCl, atRuns, atRolls>>
    PROVE  AtInv'
<1> USE AtFacts
<1> DEFINE g == req.gen
           e == AtClosed(atRoom)
           r == [e EXCEPT !.receipts = e.receipts \cup {req}]
           c == atTask[k].ready \/ FALSE
           t == [atTask[k] EXCEPT !.ready = c]
           f == [kind |-> "ack", gen |-> g, old |-> FALSE]
<1>1. /\ g \in AtGens /\ atRuns[g] = 1 /\ g <= atCl.gen /\ atCl.prov # "none"
      /\ g = atCl.gen => atCl.exec # "running"
      /\ req \in Receipts /\ g \in 0..AtTurns
  BY DEF GoodAsks, Asks, Receipts
<1>2. g = atRoom.gen /\ atRoom.phase # "none" BY DEF ReportOK, StartedOK
<1>3. atRoom' = r /\ c \in BOOLEAN /\ atTask' = [atTask EXCEPT ![k] = t] OBVIOUS
<1> HIDE DEF c
<1>4. e \in Members /\ e.gen = atRoom.gen /\ e.phase = "none" /\ e.receipts = atRoom.receipts
      /\ e.bound = atRoom.bound
  BY DEF Members, AtClosed
<1> HIDE DEF e
<1>5. /\ r \in Members /\ r.gen = atRoom.gen /\ r.phase = "none"
      /\ r.receipts = atRoom.receipts \cup {req} /\ r.bound = atRoom.bound
  BY <1>1, <1>4 DEF Members
<1> HIDE DEF r
<1>6. t \in SocketTasks /\ t.up = atTask[k].up
  <2>1. c \in BOOLEAN /\ atTask[k] \in SocketTasks BY <1>3
  <2> QED BY <2>1 DEF SocketTasks
<1> HIDE DEF t
<1>7. f \in GoodFrames BY <1>1 DEF Frames, GoodFrames
<1>8. /\ atDown' \in [Links -> Seq(Frames)]
      /\ \A j \in Links \ {k} : atDown'[j] = atDown[j]
      /\ \A j \in Links : atDown[j] \in Seq(GoodFrames) => atDown'[j] \in Seq(GoodFrames)
  BY <1>7, AtSends, Zenon
<1>9. atUp' \in [Links -> Seq(GoodAsks)] BY AtUpSet, Zenon
<1> HIDE DEF g, f
<1>10. /\ atDone[g] = 0 /\ atDone' \in [AtGens -> {0, 1}]
       /\ \A h \in AtGens \ {g} : atDone'[h] = atDone[h]
  <2>1. atDone[g] = 0
    <3>1. atDone[g] \in {0, 1} /\ (atDone[g] = 1 => g < atRoom.gen \/ (g = atRoom.gen /\ ~TurnOpen))
      BY <1>1 DEF CountsHold
    <3> QED BY <1>1, <1>2, <3>1 DEF TurnOpen
  <2>2. atDone' = [atDone EXCEPT ![g] = 1] BY <1>1, <2>1 DEF g
  <2> QED BY <2>1, <2>2
<1>11. GoodAsks' = GoodAsks /\ GoodFrames \subseteq GoodFrames'
  BY <1>1, <1>2, <1>3, <1>5 DEF GoodAsks, GoodFrames, TurnOpen, AtGens
<1>12. \A j \in Links : atUp'[j] \in Seq(GoodAsks)' /\ atUp'[j] \in Seq(Asks) BY <1>9, <1>11, SeqGrows DEF GoodAsks
<1>13. AtTypes'
  <2>1. atUp' \in [Links -> Seq(Asks)] BY <1>9, <1>12
  <2>2. atTask' \in [Links -> SocketTasks] /\ atRoom' \in Members BY <1>3, <1>5, <1>6, ZenonT(60)
  <2> QED BY <1>8, <1>10, <2>1, <2>2 DEF AtTypes
<1>15. ClientHolds' BY <1>3, <1>5, <1>11, <1>1, <1>2 DEF ClientHolds
<1>16. QueuesHold' BY <1>8, <1>11, SeqGrows, <1>3, <1>6, <1>12 DEF QueuesHold
<1>17. CountsHold' BY <1>1, <1>2, <1>3, <1>5, <1>10, ZenonT(60) DEF CountsHold, TurnOpen
<1> QED BY <1>13, <1>15, <1>16, <1>17 DEF AtInv

(* One request is read, applied and answered.                                            *)
LEMMA AtReceives ==
    ASSUME AtInv, NEW k \in Links, ReceiveRequest(k) PROVE AtInv'
<1> USE AtFacts
<1> DEFINE req == Head(atUp[k])
           q == IF CurrentLink(k) THEN Tail(atUp[k]) ELSE <<>>
           Answer(r, kind, ready) ==
               /\ atRoom' = r
               /\ Sends(k, <<[kind |-> kind, gen |-> req.gen, old |-> FALSE]>>)
               /\ atTask' = [atTask EXCEPT ![k].ready = @ \/ ready]
           r1 == [atRoom EXCEPT !.net = "ready", !.bound = TRUE]
           r2 == [atRoom EXCEPT !.phase = "running"]
<1>1. /\ atTask[k].up /\ atUp[k] # <<>> /\ atUp' = [atUp EXCEPT ![k] = q]
      /\ UNCHANGED <<atCl, atRuns, atRolls>>
  BY Zenon DEF ReceiveRequest, TaskRunning
<1>2. \/ /\ atTask' = [atTask EXCEPT ![k] = IdleTask] /\ atRoom' = Disconnected(k)
         /\ UNCHANGED <<atDown, atDone>>
      \/ req.op = "ready" /\ Answer(r1, "ack", TRUE) /\ UNCHANGED atDone
      \/ StartedOK(req.gen) /\ Answer(r2, "ack", FALSE) /\ UNCHANGED atDone
      \/ \E kind \in {"ack", "nack"} : Answer(atRoom, kind, FALSE) /\ UNCHANGED atDone
      \/ /\ req.op = "report" /\ ReportOK(req.gen)
         /\ Answer([AtClosed(atRoom) EXCEPT !.receipts = @ \cup {req}], "ack", FALSE)
         /\ atDone' = [atDone EXCEPT ![req.gen] = @ + 1]
  BY Zenon DEF ReceiveRequest
<1>3. req \in GoodAsks /\ q \in Seq(GoodAsks) BY <1>1, SeqTaken, EmptySeq
<1> HIDE DEF req, q
<1>4. req.gen \in 0..AtTurns /\ req.op \in {"none", "ready", "started", "report"}
      /\ (req.op # "none" => atCl.prov # "none")
  BY <1>3 DEF GoodAsks, Asks
<1>5. CASE /\ atTask' = [atTask EXCEPT ![k] = IdleTask] /\ atRoom' = Disconnected(k)
           /\ UNCHANGED <<atDown, atDone>>
  BY <1>5, AtTaskIdle, <1>1, <1>3, AtUpSet, AtDisconnected, AtRoomSide
<1>6. CASE req.op = "ready" /\ Answer(r1, "ack", TRUE) /\ UNCHANGED atDone
  <2>1. r1 \in Members /\ r1.gen = atRoom.gen /\ r1.receipts = atRoom.receipts
        /\ r1.phase = atRoom.phase
    BY DEF Members
  <2> HIDE DEF r1
  <2> QED BY <1>1, <1>3, <1>4, <1>6, <2>1, AtAnswers
<1>7. CASE StartedOK(req.gen) /\ Answer(r2, "ack", FALSE) /\ UNCHANGED atDone
  <2>1. r2 \in Members /\ r2.gen = atRoom.gen /\ r2.receipts = atRoom.receipts
        /\ r2.phase = "running" /\ r2.bound = atRoom.bound /\ atRoom.phase # "none"
    BY <1>7 DEF Members, StartedOK
  <2> HIDE DEF r2
  <2> QED BY <1>1, <1>3, <1>4, <1>7, <2>1, AtAnswers
<1>8. CASE \E kind \in {"ack", "nack"} : Answer(atRoom, kind, FALSE) /\ UNCHANGED atDone
  BY <1>1, <1>3, <1>4, <1>8, AtAnswers, ZenonT(60)
<1>9. CASE /\ req.op = "report" /\ ReportOK(req.gen)
           /\ Answer([AtClosed(atRoom) EXCEPT !.receipts = @ \cup {req}], "ack", FALSE)
           /\ atDone' = [atDone EXCEPT ![req.gen] = @ + 1]
  BY <1>1, <1>3, <1>9, AtPublishes
<1> QED BY <1>2, <1>5, <1>6, <1>7, <1>8, <1>9

(* A task that ends, and the host's restart.                                             *)
LEMMA AtTasksEnd ==
    ASSUME AtInv, RestartHost \/ \E k \in Links : AtTaskEnds(k) PROVE AtInv'
<1> USE AtFacts
<1>1. CASE RestartHost
  <2> DEFINE n == IF atRoom.net = "none" THEN atRoom.net ELSE "disconnected"
             r == [atRoom EXCEPT !.net = n]
  <2>1. /\ atTask' = [k \in Links |-> IdleTask] /\ atUp' = [k \in Links |-> <<>>]
        /\ atRoom' = r /\ UNCHANGED <<atDown, atCl, atRuns, atDone, atRolls>>
    BY <1>1, Zenon DEF RestartHost
  <2>2. n \in {"none", "disconnected"} OBVIOUS
  <2> HIDE DEF n
  <2>3. /\ r \in Members /\ r.gen = atRoom.gen /\ r.receipts = atRoom.receipts
        /\ r.phase = atRoom.phase /\ r.bound = atRoom.bound
    BY <2>2 DEF Members
  <2>5. atUp' \in [Links -> Seq(GoodAsks)] BY EmptySeq, <2>1
  <2>6. atTask' \in [Links -> SocketTasks] /\ \A k \in Links : ~atTask'[k].up BY <2>1 DEF IdleTask, SocketTasks
  <2>7. atRoom' = r /\ UNCHANGED <<atDown, atCl, atRuns, atDone, atRolls>> BY <2>1, Zenon
  <2> HIDE DEF r
  <2> QED BY <2>3, <2>5, <2>6, <2>7, AtRoomSide
<1>2. ASSUME NEW k \in Links, AtTaskEnds(k) PROVE AtInv'
  BY <1>2, AtTaskIdle, AtDisconnected, AtRoomSide DEF AtTaskEnds
<1> QED BY <1>1, <1>2

(* A step of the client that keeps its turn: queues may be dropped, or a request added.  *)
LEMMA AtClientSide ==
    ASSUME AtInv, UNCHANGED <<atRoom, atTask, atRuns, atDone, atRolls>>,
           atCl' \in Clients, atCl'.gen = atCl.gen, atCl'.claims = atCl.claims,
           atCl.prov # "none" => atCl'.prov # "none",
           atCl'.exec = "running" => atCl.exec = "running", ClientHolds',
           atUp' \in [Links -> Seq(GoodAsks)], atDown' \in [Links -> Seq(Frames)],
           \A k \in Links : atDown'[k] \in {atDown[k], <<>>},
           atCl'.ph = "online" => atDown'[atCl'.sock] \in Seq(GoodFrames)
    PROVE  AtInv'
<1> USE AtFacts
<1>2. \A k \in Links : k > atCl'.claims => ~atTask'[k].up /\ atDown'[k] = atDown[k] BY DEF QueuesHold
<1> QED BY <1>2, AtFrame

(* What the client may ask after a step that keeps its turn.                             *)
LEMMA AtAsksStay ==
    ASSUME AtInv, NEW a \in GoodAsks, atRuns' = atRuns, atCl'.gen = atCl.gen,
           atCl.prov # "none" => atCl'.prov # "none",
           atCl'.exec = "running" => atCl.exec = "running"
    PROVE  a \in GoodAsks'
  BY DEF GoodAsks

(* A step that only moves the client on.                                                 *)
LEMMA AtMoves ==
    ASSUME AtInv, UNCHANGED <<atRoom, atTask, atUp, atDown, atRuns, atDone, atRolls>>,
           atCl' \in Clients, atCl'.gen = atCl.gen, atCl'.claims = atCl.claims,
           atCl.prov # "none" => atCl'.prov # "none",
           atCl'.exec = "running" => atCl.exec = "running", ClientHolds',
           atCl'.ph = "online" => atCl.ph = "online" /\ atCl'.sock = atCl.sock
    PROVE  AtInv'
<1> USE AtFacts
<1>1. atCl'.ph = "online" => atDown'[atCl'.sock] \in Seq(GoodFrames) BY Zenon DEF QueuesHold
<1> QED BY <1>1, AtClientSide

(* The start of the runtime.                                                             *)
LEMMA AtStarts ==
    ASSUME AtInv, StartRuntime PROVE AtInv'
<1> USE AtFacts
<1> DEFINE c1 == [atCl EXCEPT !.ph = "offline", !.prov = "up", !.ask = AskReady]
           c2 == [atCl EXCEPT !.ph = "stopping"]
<1>1. /\ atCl.ph = "start" /\ atCl' \in {c1, c2}
      /\ UNCHANGED <<atRoom, atTask, atUp, atDown, atRuns, atDone, atRolls>>
  BY DEF StartRuntime
<1>2. AskReady \in Asks /\ AskReady.op = "ready" BY DEF AskReady, Asks
<1>3. /\ c1 \in Clients /\ c1.ph = "offline" /\ c1.prov = "up" /\ c1.ask = AskReady
      /\ c2 \in Clients /\ c2.ph = "stopping" /\ c2.prov = atCl.prov /\ c2.ask = atCl.ask
      /\ \A c \in {c1, c2} : /\ c.sock = atCl.sock /\ c.claims = atCl.claims /\ c.gen = atCl.gen
                             /\ c.exec = atCl.exec /\ c.intr = atCl.intr
  BY <1>2, ZenonT(60) DEF Clients
<1> HIDE DEF c1, c2
<1>4. CASE atCl' = c1 BY <1>1, <1>2, <1>3, <1>4, AtMoves DEF ClientHolds, GoodAsks, TurnOpen
<1>5. CASE atCl' = c2 BY <1>1, <1>2, <1>3, <1>5, AtMoves DEF ClientHolds, GoodAsks, TurnOpen
<1> QED BY <1>1, <1>4, <1>5

(* The phase of the client changes, and with it at most its socket and what it knows.    *)
LEMMA AtPhase ==
    ASSUME AtInv, atCl' \in Clients, UNCHANGED atRuns, atRoom'.bound => atRoom.bound,
           atCl.exec = "running" => atRoom'.gen = atRoom.gen /\ atRoom'.phase = atRoom.phase,
           atCl'.gen = atCl.gen, atCl'.claims = atCl.claims, atCl'.prov = atCl.prov,
           atCl'.ask = atCl.ask, atCl'.exec = atCl.exec, atCl'.intr = atCl.intr,
           \/ atCl'.ph \in {"stopping", "failed"}
           \/ atCl.ph \in {"online", "checking"} /\ atCl'.ph \in {"checking", "offline"}
           \/ /\ atCl.ph \in {"leaving", "asking", "reporting"}
              /\ atCl'.ph \in {"asking", "reporting", "ended"}
           \/ atCl.ph = "join" /\ atCl'.ph = "start"
           \/ atCl'.ph = atCl.ph,
           atCl'.sock = 0 \/ atCl'.sock = atCl.sock, atCl'.ph # "online" \/ atCl'.sock = atCl.sock
    PROVE  ClientHolds'
<1> USE AtFacts
<1>1. atCl'.ph = "online" => atCl'.sock # 0 BY DEF ClientHolds
<1>2. atCl.ask \in GoodAsks' BY AtAsksStay DEF ClientHolds
<1>3. atCl'.sock <= atCl'.claims BY DEF ClientHolds
<1> QED BY <1>1, <1>2, <1>3 DEF ClientHolds, TurnOpen

(* The client without its socket.                                                        *)
LEMMA AtNoSocket ==
    ASSUME AtConns \in Nat, NEW cl \in Clients, NEW ph \in {"checking", "failed"}
    PROVE  LET c == [cl EXCEPT !.ph = ph, !.sock = 0] IN
           /\ c \in Clients /\ c.gen = cl.gen /\ c.claims = cl.claims /\ c.prov = cl.prov
           /\ c.ask = cl.ask /\ c.exec = cl.exec /\ c.intr = cl.intr /\ c.ph = ph /\ c.sock = 0
<1>1. 0 \in 0..AtConns OBVIOUS
<1> QED BY <1>1 DEF Clients

(* The client that was shut down.                                                        *)
LEMMA AtShutdown ==
    ASSUME AtConns \in Nat, AtTurns \in Nat, atCl \in Clients, NEW p \in {"none", "down"}
    PROVE  /\ Shutdown(p) \in Clients /\ Shutdown(p).gen = atCl.gen
           /\ Shutdown(p).claims = atCl.claims /\ Shutdown(p).prov = p
           /\ Shutdown(p).ask = NoAsk /\ Shutdown(p).exec = "none" /\ Shutdown(p).intr = "none"
           /\ Shutdown(p).ph \in {"reporting", "leaving"} /\ Shutdown(p).sock = 0
<1> DEFINE ph == IF atCl.remote THEN "reporting" ELSE "leaving"
           c == [atCl EXCEPT !.ph = ph, !.prov = p, !.exec = "none", !.intr = "none",
                             !.tool = "none", !.ask = NoAsk, !.sent = FALSE, !.live = FALSE,
                             !.sock = 0]
<1>1. 0 \in 0..AtConns /\ NoAsk \in Asks /\ ph \in {"reporting", "leaving"} BY DEF NoAsk, Asks
<1>2. Shutdown(p) = c BY DEF Shutdown
<1> HIDE DEF ph
<1>3. /\ c \in Clients /\ c.gen = atCl.gen /\ c.claims = atCl.claims /\ c.prov = p
      /\ c.ask = NoAsk /\ c.exec = "none" /\ c.intr = "none" /\ c.ph = ph /\ c.sock = 0
  BY <1>1, ZenonT(60) DEF Clients
<1> HIDE DEF c
<1> QED BY <1>1, <1>2, <1>3

(* The client meets an end: of its connection, of its session or of its patience.        *)
LEMMA AtMeetsEnd ==
    ASSUME AtInv, CheckCleanup \/ ConnectRefused \/ SeesClose \/ GiveUp \/ AskCleanup
    PROVE  AtInv'
<1> USE AtFacts
<1> DEFINE Moved(c) ==
        /\ c \in Clients /\ c.gen = atCl.gen /\ c.claims = atCl.claims /\ c.prov = atCl.prov
        /\ c.ask = atCl.ask /\ c.exec = atCl.exec /\ c.intr = atCl.intr
           c1 == [atCl EXCEPT !.ph = "stopping", !.remote = TRUE]
           c2 == [atCl EXCEPT !.ph = "offline"]
           c3 == [atCl EXCEPT !.ph = "stopping"]
           c4 == [atCl EXCEPT !.ph = "checking", !.sock = 0]
           c5 == [atCl EXCEPT !.ph = "failed"]
           c6 == [atCl EXCEPT !.ph = "reporting"]
           c7 == [atCl EXCEPT !.ph = "ended"]
<1>1. /\ UNCHANGED <<atRoom, atTask, atUp, atDown, atRuns, atDone, atRolls>>
      /\ \/ atCl.ph = "checking" /\ atCl' \in {c1, c2}
         \/ atCl' \in {c3, c5}
         \/ atCl.ph = "online" /\ atCl' = c4
         \/ atCl.ph = "asking" /\ atCl' \in {c6, c7}
  BY DEF CheckCleanup, ConnectRefused, SeesClose, GiveUp, AskCleanup, Became, Offline
<1>2. /\ Moved(c1) /\ c1.ph = "stopping" /\ c1.sock = atCl.sock
      /\ Moved(c2) /\ c2.ph = "offline" /\ c2.sock = atCl.sock
      /\ Moved(c3) /\ c3.ph = "stopping" /\ c3.sock = atCl.sock
  BY DEF Clients
<1>9. Moved(c4) /\ c4.ph = "checking" /\ c4.sock = 0 BY AtNoSocket
<1>3. /\ Moved(c5) /\ c5.ph = "failed" /\ c5.sock = atCl.sock
      /\ Moved(c6) /\ c6.ph = "reporting" /\ c6.sock = atCl.sock
      /\ Moved(c7) /\ c7.ph = "ended" /\ c7.sock = atCl.sock
  BY DEF Clients
<1> HIDE DEF c1, c2, c3, c4, c5, c6, c7
<1>4. /\ Moved(atCl') /\ atCl'.ph # "online" /\ atCl'.sock \in {0, atCl.sock}
      /\ \/ atCl'.ph \in {"stopping", "failed"}
         \/ atCl.ph \in {"online", "checking"} /\ atCl'.ph \in {"checking", "offline"}
         \/ atCl.ph = "asking" /\ atCl'.ph \in {"reporting", "ended"}
  BY <1>9, <1>1, <1>2, <1>3
<1>5. ClientHolds' BY <1>1, <1>4, AtPhase
<1> QED BY <1>1, <1>4, <1>5, AtMoves

(* The frames of the socket are dropped.                                                 *)
LEMMA AtDrops ==
    ASSUME AtInv, NEW s, atDown' = [atDown EXCEPT ![s] = <<>>]
    PROVE  /\ atDown' \in [Links -> Seq(Frames)]
           /\ \A k \in Links : atDown'[k] \in {atDown[k], <<>>}
BY AtFacts, EmptySeq

(* The socket breaks.                                                                    *)
LEMMA AtBreaks ==
    ASSUME AtInv, SocketBreaks PROVE AtInv'
<1> USE AtFacts
<1> DEFINE c == [atCl EXCEPT !.ph = "checking", !.sock = 0]
<1>1. /\ atCl.ph = "online" /\ atCl' = c /\ atDown' = [atDown EXCEPT ![atCl.sock] = <<>>]
      /\ UNCHANGED <<atRoom, atTask, atUp, atRuns, atDone, atRolls>>
  BY Zenon DEF SocketBreaks, Offline
<1>2. /\ c \in Clients /\ c.gen = atCl.gen /\ c.claims = atCl.claims /\ c.prov = atCl.prov
      /\ c.ask = atCl.ask /\ c.exec = atCl.exec /\ c.intr = atCl.intr
      /\ c.ph = "checking" /\ c.sock = 0
  BY AtNoSocket
<1>3. /\ atDown' \in [Links -> Seq(Frames)]
      /\ \A k \in Links : atDown'[k] \in {atDown[k], <<>>}
  BY <1>1, AtDrops, Zenon
<1>4. UNCHANGED <<atRoom, atTask, atUp, atRuns, atDone, atRolls>> BY <1>1, Zenon
<1> HIDE DEF c
<1>5. ClientHolds' BY <1>1, <1>2, <1>4, AtPhase
<1>6. atUp' \in [Links -> Seq(GoodAsks)] BY <1>4, Zenon
<1> QED BY <1>1, <1>2, <1>3, <1>4, <1>5, <1>6, AtClientSide

(* The runtime is stopped: nothing is under way to the client any more.                  *)
LEMMA AtStops ==
    ASSUME AtInv, AtStopRuntime PROVE AtInv'
<1> USE AtFacts
<1> DEFINE p == IF atCl.prov = "up" THEN "down" ELSE atCl.prov
           c1 == Shutdown(p)
           c2 == [atCl EXCEPT !.ph = "failed", !.sock = 0]
<1>1. /\ atCl' = c1 \/ atCl' = c2
      /\ atDown' = [k \in Links |-> <<>>]
      /\ UNCHANGED <<atRoom, atTask, atUp, atRuns, atDone, atRolls>>
  BY Zenon DEF AtStopRuntime
<1>3. p \in {"none", "down"} /\ (p = "none" <=> atCl.prov = "none") BY DEF Clients
<1> HIDE DEF p
<1>4. /\ c1 \in Clients /\ c1.gen = atCl.gen /\ c1.claims = atCl.claims /\ c1.prov = p
      /\ c1.ask = NoAsk /\ c1.exec = "none" /\ c1.intr = "none"
      /\ c1.ph \in {"reporting", "leaving"} /\ c1.sock = 0
  BY <1>3, AtShutdown
<1>5. /\ c2 \in Clients /\ c2.gen = atCl.gen /\ c2.claims = atCl.claims /\ c2.prov = atCl.prov
      /\ c2.ask = atCl.ask /\ c2.exec = atCl.exec /\ c2.intr = atCl.intr
      /\ c2.ph = "failed" /\ c2.sock = 0
  BY AtNoSocket
<1>6. /\ atDown' \in [Links -> Seq(Frames)]
      /\ \A k \in Links : atDown'[k] \in {atDown[k], <<>>}
  BY EmptySeq, <1>1
<1>7. UNCHANGED <<atRoom, atTask, atUp, atRuns, atDone, atRolls>> /\ (atCl' = c1 \/ atCl' = c2)
      /\ atUp' \in [Links -> Seq(GoodAsks)]
  BY <1>1, Zenon
<1> HIDE DEF c1, c2
<1>8. CASE atCl' = c1 BY <1>3, <1>4, <1>7, <1>8, <1>6, AtClientSide DEF GoodAsks, ClientHolds, TurnOpen, NoAsk, Asks
<1>9. CASE atCl' = c2 BY <1>5, <1>7, <1>9, AtPhase, <1>6, AtClientSide
<1> QED BY <1>7, <1>8, <1>9

(* A request is sent.                                                                    *)
LEMMA AtAsksOut ==
    ASSUME AtInv, SendAsk PROVE AtInv'
<1> USE AtFacts
<1> DEFINE c == [atCl EXCEPT !.sent = TRUE]
           q == Append(atUp[atCl.sock], atCl.ask)
<1>1. /\ atCl.ph = "online" /\ atCl' = c /\ atUp' = [atUp EXCEPT ![atCl.sock] = q]
      /\ UNCHANGED <<atRoom, atTask, atDown, atRuns, atDone, atRolls>>
  BY Zenon DEF SendAsk
<1>2. /\ c \in Clients /\ c.gen = atCl.gen /\ c.claims = atCl.claims /\ c.prov = atCl.prov
      /\ c.ask = atCl.ask /\ c.exec = atCl.exec /\ c.intr = atCl.intr
      /\ c.ph = atCl.ph /\ c.sock = atCl.sock
  BY DEF Clients
<1>5. atUp' \in [Links -> Seq(GoodAsks)] BY <1>1, SeqJoined, AtUpSet DEF ClientHolds
<1>6. UNCHANGED <<atRoom, atTask, atDown, atRuns, atDone, atRolls>> /\ atCl' = c BY <1>1, Zenon
<1> HIDE DEF c, q
<1>7. ClientHolds' BY <1>2, <1>6, AtPhase
<1>8. \A k \in Links : atDown'[k] \in {atDown[k], <<>>} BY <1>6, Zenon
<1>9. atDown' \in [Links -> Seq(Frames)] /\ atDown'[atCl.sock] \in Seq(GoodFrames) BY <1>1, <1>6, Zenon DEF QueuesHold
<1> QED BY <1>1, <1>2, <1>5, <1>6, <1>7, <1>8, <1>9, AtClientSide

(* The interrupt task ends with a retained or a gone runtime, or proves nothing.         *)
LEMMA AtQuiesces ==
    ASSUME AtInv, Quiesce PROVE AtInv'
<1> USE AtFacts
<1> DEFINE e == IF atCl.exec = "running" THEN "ended" ELSE atCl.exec
           c1 == [atCl EXCEPT !.intr = "retained", !.exec = e]
           c2 == [atCl EXCEPT !.intr = "gone", !.prov = "down", !.exec = e]
           c3 == [atCl EXCEPT !.ph = "stopping"]
<1>1. /\ atCl.intr = "asked" /\ atCl' \in {c1, c2, c3}
      /\ UNCHANGED <<atRoom, atTask, atUp, atDown, atRuns, atDone, atRolls>>
  BY DEF Quiesce, Became
<1>2. e \in {"none", "done", "ended"} /\ (atCl.exec # "running" => e = atCl.exec)
      /\ (atCl.exec = "running" => e = "ended")
  BY DEF Clients
<1> HIDE DEF e
<1>3. /\ c1 \in Clients /\ c1.intr = "retained" /\ c1.prov = atCl.prov
      /\ c2 \in Clients /\ c2.intr = "gone" /\ c2.prov = "down"
      /\ \A c \in {c1, c2} : /\ c.gen = atCl.gen /\ c.claims = atCl.claims /\ c.exec = e
                             /\ c.ask = atCl.ask /\ c.ph = atCl.ph /\ c.sock = atCl.sock
  BY <1>2, ZenonT(60) DEF Clients
<1>4. /\ c3 \in Clients /\ c3.gen = atCl.gen /\ c3.claims = atCl.claims /\ c3.prov = atCl.prov
      /\ c3.ask = atCl.ask /\ c3.exec = atCl.exec /\ c3.intr = atCl.intr
      /\ c3.ph = "stopping" /\ c3.sock = atCl.sock
  BY DEF Clients
<1> HIDE DEF c1, c2, c3
<1>5. CASE atCl' \in {c1, c2} BY <1>1, <1>2, <1>3, <1>5, AtAsksStay, AtMoves DEF ClientHolds, TurnOpen
<1>6. CASE atCl' = c3 BY <1>1, <1>4, <1>6, AtPhase, AtMoves
<1> QED BY <1>1, <1>5, <1>6

(* The result of the turn is collected and reported.                                     *)
LEMMA AtCollects ==
    ASSUME AtInv, Collect PROVE AtInv'
<1> USE AtFacts
<1> DEFINE s == [op |-> "started", gen |-> atCl.gen]
           c1 == [atCl EXCEPT !.exec = "done"]
           c2 == [atCl EXCEPT !.exec = "done", !.ask = s, !.sent = FALSE]
           c3 == [atCl EXCEPT !.ph = "stopping"]
<1>1. /\ atCl.ph = "online" /\ atCl.exec = "running" /\ atCl.intr = "none"
      /\ UNCHANGED <<atRoom, atTask, atUp, atDown, atRuns, atDone, atRolls>>
  BY DEF Collect
<1>2. atCl' \in {c1, c2, c3} BY DEF Clients, NextReport, Collect, Became
<1>3. s \in Asks /\ s.op = "started" /\ s.gen = atCl.gen BY DEF Asks
<1> HIDE DEF s
<1>4. /\ c1 \in Clients /\ c1.ask = atCl.ask /\ c2 \in Clients /\ c2.ask = s
      /\ \A c \in {c1, c2} : /\ c.gen = atCl.gen /\ c.claims = atCl.claims /\ c.exec = "done"
                             /\ c.ph = atCl.ph /\ c.sock = atCl.sock /\ c.intr = atCl.intr
                             /\ c.prov = atCl.prov
  BY <1>3, ZenonT(60) DEF Clients
<1>5. /\ c3 \in Clients /\ c3.gen = atCl.gen /\ c3.claims = atCl.claims /\ c3.prov = atCl.prov
      /\ c3.ask = atCl.ask /\ c3.exec = atCl.exec /\ c3.intr = atCl.intr
      /\ c3.ph = "stopping" /\ c3.sock = atCl.sock
  BY DEF Clients
<1> HIDE DEF c1, c2, c3
<1>6. CASE atCl' \in {c1, c2} BY <1>1, <1>4, <1>6, AtAsksStay, <1>3, AtMoves DEF ClientHolds, GoodAsks, TurnOpen
<1>7. CASE atCl' = c3 BY <1>1, <1>5, <1>7, AtPhase, AtMoves
<1> QED BY <1>2, <1>6, <1>7

(* What a new connection asks first.                                                     *)
LEMMA AtFirstAsk ==
    ASSUME AtInv, atCl.ph = "offline"
    PROVE  /\ FirstAsk \in GoodAsks
           /\ FirstAsk.op \in {"started", "report"} => FirstAsk.gen = atCl.gen /\ atCl.exec = "done"
<1> USE AtFacts
<1> DEFINE s == [op |-> "started", gen |-> atCl.gen]
           y == [op |-> "ready", gen |-> 0]
<1>1. FirstAsk = atCl.ask \/ (FirstAsk = s /\ atCl.exec = "done") \/ FirstAsk = y
  BY DEF FirstAsk, NextReport, AskReady
<1>2. s \in Asks /\ s.op = "started" /\ s.gen = atCl.gen /\ y \in Asks /\ y.op = "ready" BY DEF Asks
<1> HIDE DEF s, y
<1>4. y \in GoodAsks /\ (atCl.exec = "done" => s \in GoodAsks) BY <1>2 DEF GoodAsks, ClientHolds
<1> QED BY <1>1, <1>2, <1>4 DEF ClientHolds

(* A fresh connection is claimed: nothing is under way on it.                            *)
LEMMA AtConnects ==
    ASSUME AtInv, AtConnect PROVE AtInv'
<1> USE AtFacts
<1>1. PICK k \in 0..AtConns : k = atCl.claims + 1 BY DEF AtConnect
<1> DEFINE r == [atRoom EXCEPT !.conn = k, !.net = "connected"]
           t == [IdleTask EXCEPT !.up = TRUE]
           c1 == [atCl EXCEPT !.ph = "online", !.sock = k, !.claims = k, !.ask = FirstAsk,
                              !.sent = FALSE, !.live = FALSE]
           c2 == [atCl EXCEPT !.claims = k]
<1>2. /\ atCl.ph = "offline" /\ atRoom' = r /\ atTask' = [atTask EXCEPT ![k] = t]
      /\ atCl' \in {c1, c2} /\ UNCHANGED <<atUp, atDown, atRuns, atDone, atRolls>>
  BY <1>1 DEF AtConnect
<1>3. /\ FirstAsk \in GoodAsks /\ FirstAsk \in Asks
      /\ FirstAsk.op \in {"started", "report"} => FirstAsk.gen = atCl.gen /\ atCl.exec = "done"
  BY <1>2, AtFirstAsk DEF GoodAsks
<1>4. /\ r \in Members /\ r.gen = atRoom.gen /\ r.receipts = atRoom.receipts
      /\ r.phase = atRoom.phase /\ r.bound = atRoom.bound
  BY DEF Members
<1>5. t \in SocketTasks
  <2>1. IdleTask \in SocketTasks BY DEF IdleTask, SocketTasks
  <2> QED BY <2>1 DEF SocketTasks
<1>6. /\ c1 \in Clients /\ c1.ph = "online" /\ c1.sock = k /\ c1.ask = FirstAsk
      /\ c2 \in Clients /\ c2.ph = "offline" /\ c2.sock = atCl.sock /\ c2.ask = atCl.ask
      /\ \A c \in {c1, c2} : /\ c.gen = atCl.gen /\ c.claims = k /\ c.exec = atCl.exec
                             /\ c.intr = atCl.intr /\ c.prov = atCl.prov
  BY <1>2, <1>3, ZenonT(60) DEF Clients
<1> HIDE DEF r, t, c1, c2
<1>7. k \in Links /\ k > atCl.claims BY <1>1 DEF Links
<1>10. \A j \in Links : j > k => ~atTask'[j].up
  <2>1. \A j \in Links : j > k => ~atTask[j].up BY <1>7 DEF QueuesHold, Links
  <2>2. \A j \in Links : j > k => j # k BY DEF Links
  <2> QED BY <1>2, <2>1, <2>2
<1>11. atTask' \in [Links -> SocketTasks] BY <1>2, <1>5
<1>12. ClientHolds' BY <1>2, <1>3, <1>6, AtAsksStay, <1>1, <1>4 DEF ClientHolds, TurnOpen
<1>13. /\ atRoom' \in Members /\ atRoom'.gen = atRoom.gen
       /\ atRoom'.receipts = atRoom.receipts /\ atRoom'.phase = atRoom.phase
  BY <1>2, <1>4
<1>14. /\ atCl' \in Clients /\ atCl'.gen = atCl.gen /\ atCl'.claims = k
       /\ atCl'.prov = atCl.prov /\ atCl'.exec = atCl.exec
       /\ atCl'.ph = "online" => atCl'.sock = k
  BY <1>2, <1>6
<1>15. atCl'.claims >= atCl.claims BY <1>7, <1>14 DEF Links, Clients
<1>16. \A j \in Links : j > atCl'.claims => ~atTask'[j].up /\ atDown'[j] = atDown[j] BY <1>2, <1>10, <1>14
<1>17. atCl'.ph = "online" => atDown'[atCl'.sock] \in Seq(GoodFrames) BY <1>2, <1>7, EmptySeq, <1>14 DEF QueuesHold
<1> QED BY <1>2, <1>11, <1>12, <1>13, <1>14, <1>15, <1>16, <1>17, AtFrame

(* No turn newer than the client's was given to the provider.                            *)
LEMMA AtGiven ==
    ASSUME AtInv
    PROVE  \A h \in AtGens : h \in Nat /\ atRuns[h] \in {0, 1} /\ (atRuns[h] = 1 => h <= atCl.gen)
<1>1. \A h \in AtGens : h \in Nat BY AtConstants DEF AtGens
<1>2. \A h \in AtGens : atRuns[h] = 1 => h <= atCl.gen BY AtFacts, Zenon DEF CountsHold
<1>3. \A h \in AtGens : atRuns[h] \in {0, 1} BY AtFacts
<1> QED BY <1>1, <1>2, <1>3, Zenon

(* A step by which the client takes a turn, or the interrupt of one, as its own.         *)
LEMMA AtNewer ==
    ASSUME AtInv, UNCHANGED <<atRoom, atTask, atUp, atDone, atRolls>>, ClientHolds',
           atCl' \in Clients, atCl'.gen >= atCl.gen, atCl'.claims = atCl.claims,
           atCl'.prov = atCl.prov, atCl'.sock = atCl.sock, atCl.ph = "online",
           atCl'.exec = "running" => atCl'.gen > atCl.gen \/ atCl.exec = "running",
           NEW q \in Seq(GoodFrames), atDown' = [atDown EXCEPT ![atCl.sock] = q],
           atRuns' \in [AtGens -> {0, 1}],
           \A g \in AtGens : /\ atRuns[g] = 1 => atRuns'[g] = 1
                             /\ atRuns'[g] = 1 => g <= atCl'.gen
    PROVE  AtInv'
<1> USE AtFacts
<1>1. atCl'.gen \in 0..AtTurns BY DEF Clients
<1>2. GoodAsks \subseteq GoodAsks' /\ GoodAsks \subseteq Asks BY <1>1 DEF GoodAsks, AtGens
<1>3. GoodFrames \subseteq GoodFrames' /\ GoodFrames \subseteq Frames BY <1>1 DEF GoodFrames, AtGens, TurnOpen
<1>4. q \in Seq(GoodFrames)' /\ q \in Seq(Frames) BY <1>3, SeqGrows
<1>5. \A k \in Links : atUp'[k] \in Seq(GoodAsks)' /\ atUp'[k] \in Seq(Asks) BY <1>2, SeqGrows
<1>7. /\ atDown' \in [Links -> Seq(Frames)] /\ atDown'[atCl.sock] = q
      /\ \A k \in Links : k # atCl.sock => atDown'[k] = atDown[k]
  BY <1>4
<1>9. AtTypes' BY <1>5, <1>7 DEF AtTypes
<1>10. QueuesHold' BY <1>4, <1>5, <1>7 DEF QueuesHold, ClientHolds, Links
<1>11. CountsHold' BY DEF CountsHold, TurnOpen, AtGens
<1> QED BY <1>9, <1>10, <1>11 DEF AtInv

(* What follows an acknowledgement.                                                      *)
LEMMA AtAcknowledged ==
    ASSUME AtInv, atCl.ph = "online", atCl.ask # NoAsk, atCl' = Acknowledged,
           UNCHANGED <<atRoom, atRuns>>
    PROVE  /\ atCl' \in Clients /\ atCl'.gen = atCl.gen /\ atCl'.claims = atCl.claims
           /\ atCl'.prov = atCl.prov /\ atCl'.sock = atCl.sock /\ atCl'.ph = atCl.ph
           /\ atCl'.exec \in {"none", atCl.exec} /\ ClientHolds'
<1> USE AtFacts
<1> DEFINE s == [op |-> "started", gen |-> atCl.gen]
           p == [op |-> "report", gen |-> atCl.gen]
           y == [op |-> "ready", gen |-> 0]
           a1 == IF atCl.live THEN NoAsk ELSE AskReady
           a3 == NextReport(atCl)
           c1 == [atCl EXCEPT !.exec = "none", !.tool = "none", !.sent = FALSE, !.ask = a1]
           c2 == [atCl EXCEPT !.sent = FALSE, !.ask = p]
           c3 == [atCl EXCEPT !.sent = FALSE, !.live = TRUE, !.ask = a3]
<1>1. \/ atCl' = c1 \/ (atCl.ask.op = "started" /\ atCl' = c2) \/ atCl' = c3 BY DEF Acknowledged
<1>2. /\ a1 \in {NoAsk, y} /\ a3 \in {NoAsk, s} /\ (a3 = s => atCl.exec = "done" \/ s = NoAsk)
      /\ NoAsk \in Asks /\ NoAsk.op = "none" /\ s \in Asks /\ s.op = "started"
      /\ s.gen = atCl.gen /\ p \in Asks /\ p.op = "report" /\ p.gen = atCl.gen
      /\ y \in Asks /\ y.op = "ready" /\ s # NoAsk
  BY DEF NextReport, AskReady, NoAsk, Asks
<1>3. atCl.prov # "none" BY DEF ClientHolds
<1>4. /\ y \in GoodAsks /\ NoAsk \in GoodAsks /\ (atCl.exec = "done" => s \in GoodAsks /\ p \in GoodAsks)
  <2> HIDE DEF s, p, y
  <2> QED BY <1>2, <1>3 DEF GoodAsks, ClientHolds
<1>5. atCl.ask.op = "started" => atCl.exec = "done" BY DEF ClientHolds
<1> HIDE DEF s, p, y, a1, a3
<1>6. /\ c1 \in Clients /\ c1.ask = a1 /\ c1.exec = "none"
      /\ c2 \in Clients /\ c2.ask = p /\ c2.exec = atCl.exec
      /\ c3 \in Clients /\ c3.ask = a3 /\ c3.exec = atCl.exec
  BY <1>2, ZenonT(60) DEF Clients
<1>7. \A c \in {c1, c2, c3} : /\ c.gen = atCl.gen /\ c.claims = atCl.claims
                              /\ c.ph = atCl.ph /\ c.sock = atCl.sock /\ c.intr = atCl.intr
                              /\ c.prov = atCl.prov
  BY ZenonT(60) DEF Clients
<1> HIDE DEF c1, c2, c3
<1>8. atCl'.ask \in GoodAsks BY <1>1, <1>2, <1>4, <1>5, <1>6
<1>10. atCl'.ask.op \in {"started", "report"} => atCl'.ask.gen = atCl.gen /\ atCl'.exec = "done"
  BY <1>1, <1>2, <1>5, <1>6
<1>11. ClientHolds' BY <1>1, <1>6, <1>7, <1>8, AtAsksStay, <1>10 DEF ClientHolds, TurnOpen
<1> QED BY <1>1, <1>6, <1>7, <1>11

(* A turn enters the provider: it is the open one, and was not given to it before.       *)
LEMMA AtEnters ==
    ASSUME AtInv, atCl.ph = "online", NEW f \in GoodFrames, f.kind = "turn",
           atCl.exec = "none", atCl.intr = "none", Enters(f),
           atCl' = [atCl EXCEPT !.exec = "running", !.gen = f.gen],
           atRuns' = [atRuns EXCEPT ![f.gen] = @ + 1],
           UNCHANGED <<atRoom, atTask, atUp, atDone, atRolls>>,
           NEW q \in Seq(GoodFrames), atDown' = [atDown EXCEPT ![atCl.sock] = q]
    PROVE  AtInv'
<1> USE AtFacts
<1> DEFINE g == f.gen
           c == [atCl EXCEPT !.exec = "running", !.gen = g]
<1>1. g \in AtGens /\ g > atCl.gen /\ g = atRoom.gen /\ TurnOpen /\ g \in 0..AtTurns BY DEF GoodFrames, Enters, AtGens
<1>0. \A h \in AtGens : h \in Nat /\ atRuns[h] \in {0, 1} /\ (atRuns[h] = 1 => h <= atCl.gen) BY AtGiven
<1>2. atRuns[g] = 0 BY <1>0, <1>1
<1>3. atRuns' = [atRuns EXCEPT ![g] = 1] BY <1>1, <1>2
<1>4. atCl' = c OBVIOUS
<1> HIDE DEF g
<1>5. /\ c \in Clients /\ c.gen = g /\ c.claims = atCl.claims /\ c.prov = atCl.prov
      /\ c.ask = atCl.ask /\ c.exec = "running" /\ c.intr = atCl.intr
      /\ c.ph = atCl.ph /\ c.sock = atCl.sock
  BY <1>1 DEF Clients
<1> HIDE DEF c
<1>6. /\ atRuns' \in [AtGens -> {0, 1}] /\ atRuns'[g] = 1
      /\ \A h \in AtGens : h # g => atRuns'[h] = atRuns[h]
  BY <1>1, <1>3
<1>7. \A h \in AtGens : /\ atRuns[h] = 1 => atRuns'[h] = 1
                        /\ atRuns'[h] = 1 => h <= g
  BY <1>0, <1>1, <1>6
<1>9. ClientHolds' BY <1>1, <1>4, <1>5, <1>6, <1>7 DEF ClientHolds, TurnOpen, GoodAsks, AtGens
<1>10. /\ atCl' \in Clients /\ atCl'.gen >= atCl.gen /\ atCl'.gen > atCl.gen
       /\ atCl'.claims = atCl.claims /\ atCl'.prov = atCl.prov /\ atCl'.sock = atCl.sock
       /\ atCl'.gen = g
  <2>1. g >= atCl.gen /\ g > atCl.gen BY <1>1
  <2>2. /\ atCl' \in Clients /\ atCl'.claims = atCl.claims /\ atCl'.prov = atCl.prov
        /\ atCl'.sock = atCl.sock /\ atCl'.gen = g
    BY <1>4, <1>5, Zenon
  <2> QED BY <2>1, <2>2, Zenon
<1>11. \A h \in AtGens : atRuns'[h] = 1 => h <= atCl'.gen BY <1>7, <1>10, Zenon
<1> QED BY <1>6, <1>7, <1>9, <1>10, <1>11, AtNewer

(* An interrupt is taken: of the turn the client owns, or of one it will not run.        *)
LEMMA AtTakesInterrupt ==
    ASSUME AtInv, atCl.ph = "online", NEW f \in GoodFrames, atCl.intr = "none",
           IF atCl.exec # "none" THEN f.gen = atCl.gen ELSE f.gen > atCl.gen,
           atCl' = [atCl EXCEPT !.intr = "asked", !.gen = f.gen],
           UNCHANGED <<atRoom, atTask, atUp, atRuns, atDone, atRolls>>,
           NEW q \in Seq(GoodFrames), atDown' = [atDown EXCEPT ![atCl.sock] = q]
    PROVE  AtInv'
<1> USE AtFacts
<1> DEFINE g == f.gen
           c == [atCl EXCEPT !.intr = "asked", !.gen = g]
<1>1. g \in 0..AtTurns /\ g >= atCl.gen /\ (atCl.exec # "none" => g = atCl.gen) /\ atCl' = c BY DEF GoodFrames, Frames
<1> HIDE DEF g
<1>2. /\ c \in Clients /\ c.gen = g /\ c.claims = atCl.claims /\ c.prov = atCl.prov
      /\ c.ask = atCl.ask /\ c.exec = atCl.exec /\ c.intr = "asked"
      /\ c.ph = atCl.ph /\ c.sock = atCl.sock
  BY <1>1 DEF Clients
<1> HIDE DEF c
<1>3. \A h \in AtGens : atRuns[h] = 1 => h <= g BY <1>1, AtGiven
<1>5. ClientHolds' BY <1>1, <1>2 DEF ClientHolds, TurnOpen, GoodAsks, AtGens
<1> QED BY <1>1, <1>2, <1>3, <1>5, AtNewer

(* One frame of the socket, whatever it is.                                              *)
LEMMA AtReceivesFrame ==
    ASSUME AtInv, ReceiveFrame PROVE AtInv'
<1> USE AtFacts
<1> DEFINE f == Head(atDown[atCl.sock])
           q == Tail(atDown[atCl.sock])
           c1 == [atCl EXCEPT !.ph = "stopping"]
           c2 == [atCl EXCEPT !.ph = "stopping", !.remote = TRUE]
<1>1. /\ atCl.ph = "online" /\ atDown[atCl.sock] # <<>>
      /\ atDown' = [atDown EXCEPT ![atCl.sock] = q]
      /\ UNCHANGED <<atRoom, atTask, atUp, atDone, atRolls>>
  BY Zenon DEF ReceiveFrame
<1>2. \/ /\ atCl.ask # NoAsk /\ atCl' = Acknowledged /\ UNCHANGED atRuns
      \/ atCl' \in {atCl, c1, c2} /\ UNCHANGED atRuns
      \/ /\ f.kind = "turn" /\ atCl.exec = "none" /\ atCl.intr = "none" /\ Enters(f)
         /\ atCl' = [atCl EXCEPT !.exec = "running", !.gen = f.gen]
         /\ atRuns' = [atRuns EXCEPT ![f.gen] = @ + 1]
      \/ /\ atCl.intr = "none"
         /\ IF atCl.exec # "none" THEN f.gen = atCl.gen ELSE f.gen > atCl.gen
         /\ atCl' = [atCl EXCEPT !.intr = "asked", !.gen = f.gen]
         /\ UNCHANGED atRuns
  <2> HIDE DEF f
  <2>1. \/ f.kind = "ack"
           /\ atCl' = (IF atCl.ask # NoAsk /\ atCl.sent /\ f.gen = atCl.ask.gen THEN Acknowledged ELSE c1)
           /\ UNCHANGED atRuns
        \/ f.kind = "nack" /\ atCl' = c1 /\ UNCHANGED atRuns
        \/ f.kind = "stop" /\ atCl' = c2 /\ UNCHANGED atRuns
        \/ atCl' \in {atCl, c1} /\ UNCHANGED atRuns
        \/ /\ f.kind = "turn" /\ atCl.exec = "none" /\ atCl.intr = "none"
           /\ IF Enters(f)
              THEN /\ atCl' = [atCl EXCEPT !.exec = "running", !.gen = f.gen]
                   /\ atRuns' = [atRuns EXCEPT ![f.gen] = @ + 1]
              ELSE atCl' = c1 /\ UNCHANGED atRuns
        \/ /\ atCl' = (IF atCl.intr # "none" /\ f.gen = atCl.gen THEN atCl
                       ELSE IF /\ atCl.intr = "none"
                               /\ IF atCl.exec # "none" THEN f.gen = atCl.gen ELSE f.gen > atCl.gen
                       THEN [atCl EXCEPT !.intr = "asked", !.gen = f.gen]
                       ELSE c1)
           /\ UNCHANGED atRuns
    BY Zenon DEF ReceiveFrame, Became, f
  <2> HIDE DEF c1, c2
  <2> QED BY <2>1, Zenon
<1>3. f \in GoodFrames /\ q \in Seq(GoodFrames) BY <1>1, SeqTaken DEF QueuesHold
<1> HIDE DEF f, q
<1>4. /\ atDown' \in [Links -> Seq(Frames)] /\ atDown'[atCl.sock] = q
      /\ \A k \in Links : k # atCl.sock => atDown'[k] = atDown[k]
  BY <1>3, SeqGrows, <1>1 DEF GoodFrames
<1>5. \A k \in Links : k > atCl.claims => ~atTask'[k].up /\ atDown'[k] = atDown[k]
  BY <1>1, <1>4 DEF ClientHolds, Links, QueuesHold
<1>6. CASE atCl.ask # NoAsk /\ atCl' = Acknowledged /\ UNCHANGED atRuns
  BY <1>1, <1>6, AtAcknowledged, <1>3, <1>4, <1>5, AtFrame
<1>7. CASE atCl' \in {atCl, c1, c2} /\ UNCHANGED atRuns
  <2>1. \A c \in {c1, c2} : /\ c \in Clients /\ c.gen = atCl.gen /\ c.claims = atCl.claims
                            /\ c.prov = atCl.prov /\ c.ask = atCl.ask /\ c.exec = atCl.exec
                            /\ c.intr = atCl.intr /\ c.ph = "stopping" /\ c.sock = atCl.sock
    BY ZenonT(60) DEF Clients
  <2> HIDE DEF c1, c2
  <2>2. /\ atCl' \in Clients /\ atCl'.gen = atCl.gen /\ atCl'.claims = atCl.claims
        /\ atCl'.prov = atCl.prov /\ atCl'.ask = atCl.ask /\ atCl'.exec = atCl.exec
        /\ atCl'.intr = atCl.intr /\ atCl'.ph \in {"stopping", atCl.ph} /\ atCl'.sock = atCl.sock
    BY <1>7, <2>1
  <2>3. ClientHolds' BY <1>1, <1>7, <2>2, AtPhase
  <2> QED BY <1>1, <1>3, <1>4, <1>5, <1>7, <2>2, <2>3, AtFrame
<1>8. CASE /\ f.kind = "turn" /\ atCl.exec = "none" /\ atCl.intr = "none" /\ Enters(f)
           /\ atCl' = [atCl EXCEPT !.exec = "running", !.gen = f.gen]
           /\ atRuns' = [atRuns EXCEPT ![f.gen] = @ + 1]
  BY <1>1, <1>3, <1>8, AtEnters, Zenon
<1>9. CASE /\ atCl.intr = "none"
           /\ IF atCl.exec # "none" THEN f.gen = atCl.gen ELSE f.gen > atCl.gen
           /\ atCl' = [atCl EXCEPT !.intr = "asked", !.gen = f.gen]
           /\ UNCHANGED atRuns
  BY <1>1, <1>3, <1>9, AtTakesInterrupt, Zenon
<1> QED BY <1>2, <1>6, <1>7, <1>8, <1>9

(* A random tool is rolled for a running turn that has no receipt of one.                *)
LEMMA AtRollsOnce ==
    ASSUME AtInv, ToolCall PROVE AtInv'
<1> USE AtFacts
<1> DEFINE g == atCl.gen
           s == [op |-> "random", gen |-> g]
           r == [atRoom EXCEPT !.receipts = atRoom.receipts \cup {s}]
           c1 == [atCl EXCEPT !.tool = "used"]
           c2 == [atCl EXCEPT !.ph = "checking", !.sock = 0]
<1>1. /\ atCl.ph = "online" /\ atCl.exec = "running"
      /\ UNCHANGED <<atTask, atUp, atRuns, atDone>>
      /\ \/ atCl' = c1 /\ UNCHANGED atDown
         \/ atCl' = c2 /\ atDown' = [atDown EXCEPT ![atCl.sock] = <<>>]
      /\ \/ /\ s \notin atRoom.receipts /\ atRoom' = r
            /\ atRolls' = [atRolls EXCEPT ![g] = @ + 1]
         \/ UNCHANGED <<atRoom, atRolls>>
  BY Zenon DEF ToolCall, RollReplayed, Roll, Offline
<1>2. g \in AtGens /\ atRuns[g] = 1 /\ TurnOpen /\ atRoom.gen = g BY <1>1 DEF ClientHolds
<1>3. s \in Receipts BY DEF Receipts
<1> HIDE DEF g
<1>4. /\ r \in Members /\ r.gen = atRoom.gen /\ r.phase = atRoom.phase /\ r.bound = atRoom.bound
      /\ r.receipts = atRoom.receipts \cup {s}
  BY <1>3 DEF Members
<1> HIDE DEF r
<1>5. /\ atRoom' \in Members /\ atRoom'.gen = atRoom.gen /\ atRoom'.phase = atRoom.phase
      /\ atRoom'.bound = atRoom.bound /\ atRoom.receipts \subseteq atRoom'.receipts
  BY <1>1, <1>4
<1>6. /\ c1 \in Clients /\ c1.ph = "online" /\ c1.sock = atCl.sock /\ c1.ask = atCl.ask
      /\ c1.gen = atCl.gen /\ c1.claims = atCl.claims /\ c1.exec = atCl.exec
      /\ c1.intr = atCl.intr /\ c1.prov = atCl.prov
  BY <1>1 DEF Clients
<1>7. /\ c2 \in Clients /\ c2.ph = "checking" /\ c2.sock = 0 /\ c2.ask = atCl.ask
      /\ c2.gen = atCl.gen /\ c2.claims = atCl.claims /\ c2.exec = atCl.exec
      /\ c2.intr = atCl.intr /\ c2.prov = atCl.prov
  BY AtNoSocket
<1> HIDE DEF c1, c2
<1>8. /\ atCl' \in Clients /\ atCl'.ph \in {"online", "checking"} /\ atCl'.sock \in {0, atCl.sock}
      /\ atCl'.ph = "online" => atCl'.sock = atCl.sock
      /\ atCl'.gen = atCl.gen /\ atCl'.claims = atCl.claims /\ atCl'.exec = atCl.exec
      /\ atCl'.intr = atCl.intr /\ atCl'.prov = atCl.prov /\ atCl'.ask = atCl.ask
  BY <1>1, <1>6, <1>7
<1>9. ClientHolds' BY <1>1, <1>5, <1>8, AtPhase
<1>10. /\ atDown' \in [Links -> Seq(Frames)]
       /\ \A k \in Links : atDown'[k] \in {atDown[k], <<>>}
       /\ atCl'.ph = "online" => atDown' = atDown
  BY <1>7, AtDrops, <1>1
<1>11. /\ atCl'.ph = "online" => atDown'[atCl'.sock] \in Seq(GoodFrames)
       /\ \A k \in Links : k > atCl.claims => ~atTask'[k].up /\ atDown'[k] = <<>>
  BY <1>1, <1>8, <1>10, Zenon DEF QueuesHold
<1>12. CASE UNCHANGED <<atRoom, atRolls>> BY <1>11, <1>1, <1>5, <1>8, <1>9, <1>10, <1>12, AtFrame DEF QueuesHold
<1>13. CASE s \notin atRoom.receipts /\ atRoom' = r /\ atRolls' = [atRolls EXCEPT ![g] = @ + 1]
  <2>1. atRolls[g] = 0 BY <1>2, <1>13 DEF CountsHold
  <2>3. /\ atRolls' \in [AtGens -> {0, 1}]
        /\ \A h \in AtGens : h # g => atRolls'[h] = atRolls[h]
    BY <1>2, <1>13, <2>1
  <2>5. AtTypes' BY <1>1, <1>5, <1>8, <1>10, <2>3 DEF AtTypes
  <2>6. QueuesHold' BY <1>1, <1>8, <1>11, <1>5 DEF QueuesHold, GoodAsks, GoodFrames, TurnOpen
  <2>7. CountsHold' BY <1>1, <1>2, <1>4, <1>5, <1>8, <1>13, <2>3 DEF CountsHold, TurnOpen
  <2> QED BY <1>9, <2>5, <2>6, <2>7 DEF AtInv
<1> QED BY <1>1, <1>12, <1>13

(* The post that the client owes, by its phase.                                          *)
LEMMA AtOwed ==
    ASSUME Owed # NoPost
    PROVE  \/ atCl.ph = "join" /\ Owed = AtPost("join", "none")
           \/ /\ atCl.ph = "online" /\ atCl.intr \in {"retained", "gone"}
              /\ Owed = AtPost("interrupt", atCl.intr)
           \/ atCl.ph = "leaving" /\ Owed = AtPost("leave", "none")
           \/ atCl.ph = "reporting" /\ Owed = AtPost("cleanup", "none")
  BY Zenon DEF Owed

(* The rows a post leaves before its receipt is added.                                   *)
LEMMA AtApplied ==
    ASSUME AtInv, Owed # NoPost, Accepts1(Owed)
    PROVE  /\ Applied(Owed) \in Members /\ Applied(Owed).gen = atRoom.gen
           /\ Applied(Owed).receipts = atRoom.receipts
           /\ Applied(Owed).bound => atRoom.bound
           /\ atRoom.bound /\ ~Applied(Owed).bound => atCl.prov = "down"
           /\ \/ Applied(Owed).phase = atRoom.phase
              \/ /\ Applied(Owed).phase = "none" /\ atCl.exec # "running"
                 /\ atCl.ph # "online" \/ atRoom.gen = atCl.gen
<1> USE AtFacts
<1> DEFINE m == IF atRoom.member = "joined" THEN "detached" ELSE atRoom.member
           r1 == [atRoom EXCEPT !.used = TRUE, !.member = "joined"]
           r2 == [atRoom EXCEPT !.cleanup = TRUE, !.member = "left"]
           r3 == [atRoom EXCEPT !.phase = "none", !.effect = "none"]
           r4 == [r3 EXCEPT !.bound = FALSE, !.stop = FALSE, !.member = m]
           r5 == [r4 EXCEPT !.cleanup = FALSE]
<1>1. /\ r1 \in Members /\ r1.gen = atRoom.gen /\ r1.receipts = atRoom.receipts
      /\ r1.phase = atRoom.phase /\ r1.bound = atRoom.bound
      /\ r2 \in Members /\ r2.gen = atRoom.gen /\ r2.receipts = atRoom.receipts
      /\ r2.phase = atRoom.phase /\ r2.bound = atRoom.bound
  BY DEF Members
<1>2. /\ r3 \in Members /\ r3.gen = atRoom.gen /\ r3.receipts = atRoom.receipts
      /\ r3.phase = "none" /\ r3.bound = atRoom.bound /\ r3.member = atRoom.member
  BY DEF Members
<1>3. AtClosed(atRoom) = r3 /\ AtAbsent(atRoom) = r4 /\ AtCleanedUp = r5
  <2>1. AtClosed(atRoom) = r3 BY DEF AtClosed
  <2>2. AtAbsent(atRoom) = r4
    <3>1. AtAbsent(atRoom) = [r3 EXCEPT !.bound = FALSE, !.stop = FALSE,
                                 !.member = IF @ = "joined" THEN "detached" ELSE @]
      BY <2>1, Zenon DEF AtAbsent
    <3> HIDE DEF r3
    <3> QED BY <1>2, <3>1
  <2>3. AtCleanedUp = [r4 EXCEPT !.cleanup = FALSE] BY <2>2, Zenon DEF AtCleanedUp
  <2> QED BY <2>1, <2>2, <2>3, Zenon
<1>4. m \in {"none", "joined", "detached", "left"} BY DEF Members
<1> HIDE DEF m, r1, r2, r3
<1>5. /\ r4 \in Members /\ r4.gen = atRoom.gen /\ r4.receipts = atRoom.receipts
      /\ r4.phase = "none" /\ r4.bound = FALSE
  BY <1>2, <1>4, ZenonT(60) DEF Members
<1> HIDE DEF r4
<1>6. /\ r5 \in Members /\ r5.gen = atRoom.gen /\ r5.receipts = atRoom.receipts
      /\ r5.phase = "none" /\ r5.bound = FALSE
  BY <1>5 DEF Members
<1> HIDE DEF r5
<1>7. CASE atCl.ph = "join" /\ Owed = AtPost("join", "none") BY <1>7, <1>1 DEF Applied, AtPost, r1
<1>8. CASE atCl.ph = "leaving" /\ Owed = AtPost("leave", "none") BY <1>8, <1>1 DEF Applied, AtPost, r2
<1>9. CASE atCl.ph = "reporting" /\ Owed = AtPost("cleanup", "none")
  BY <1>3, <1>9, <1>6 DEF Applied, AtPost, ClientHolds, Clients
<1>10. CASE /\ atCl.ph = "online" /\ atCl.intr \in {"retained", "gone"}
            /\ Owed = AtPost("interrupt", atCl.intr)
  BY <1>3, <1>10, <1>2, <1>5 DEF Applied, AtPost, Accepts1, ClientHolds
<1> QED BY <1>7, <1>8, <1>9, <1>10, AtOwed

(* The rows a post leaves, arrived or lost.                                              *)
LEMMA AtPosted ==
    ASSUME AtInv, Owed # NoPost, NEW r \in {atRoom, RoomAfter(Owed)}
    PROVE  /\ r \in Members /\ r.gen = atRoom.gen /\ atRoom.receipts \subseteq r.receipts
           /\ r.bound => atRoom.bound
           /\ atRoom.bound /\ ~r.bound => atCl.prov = "down"
           /\ \/ r.phase = atRoom.phase
              \/ /\ r.phase = "none" /\ atCl.exec # "running"
                 /\ atCl.ph # "online" \/ atRoom.gen = atCl.gen
<1> USE AtFacts
<1>1. CASE r = atRoom BY <1>1
<1>2. CASE r # atRoom
  <2> DEFINE e == Applied(Owed)
             x == AtReceipt(Owed)
  <2>1. Accepts1(Owed) /\ r = [e EXCEPT !.receipts = @ \cup {x}] BY <1>2, Zenon DEF RoomAfter
  <2>2. x \in Receipts BY AtOwed DEF AtPost, x, AtReceipt, Receipts
  <2>3. /\ e \in Members /\ e.gen = atRoom.gen /\ e.receipts = atRoom.receipts
        /\ e.bound => atRoom.bound
        /\ atRoom.bound /\ ~e.bound => atCl.prov = "down"
        /\ \/ e.phase = atRoom.phase
           \/ /\ e.phase = "none" /\ atCl.exec # "running"
              /\ atCl.ph # "online" \/ atRoom.gen = atCl.gen
    BY <2>1, AtApplied
  <2> HIDE DEF e, x
  <2>4. /\ r \in Members /\ r.gen = e.gen /\ r.phase = e.phase /\ r.bound = e.bound
        /\ r.receipts = e.receipts \cup {x}
    BY <2>1, <2>2, <2>3 DEF Members
  <2> QED BY <2>3, <2>4
<1> QED BY <1>1, <1>2

(* A post and its answer leave the client as it was, or on its way.                      *)
LEMMA AtPostSide ==
    ASSUME AtInv, Owed # NoPost, atRoom' \in {atRoom, RoomAfter(Owed)},
           UNCHANGED <<atTask, atUp, atRuns, atDone, atRolls>>, ClientHolds',
           atCl' \in Clients, atCl'.gen = atCl.gen, atCl'.claims = atCl.claims,
           atCl'.prov = atCl.prov, atCl'.exec = "running" => atCl.exec = "running",
           atCl'.ph = "online" => /\ atCl.ph = "online" /\ atCl'.sock = atCl.sock
                                  /\ atDown' = atDown,
           atDown' = atDown \/ atDown' = [atDown EXCEPT ![atCl.sock] = <<>>]
    PROVE  AtInv'
<1> USE AtFacts
<1>1. /\ atRoom' \in Members /\ atRoom'.gen = atRoom.gen
      /\ atRoom.receipts \subseteq atRoom'.receipts
      /\ \/ atRoom'.phase = atRoom.phase
         \/ /\ atRoom'.phase = "none" /\ atCl.exec # "running"
            /\ atCl.ph # "online" \/ atRoom.gen = atCl.gen
  BY AtPosted
<1>2. /\ atDown' \in [Links -> Seq(Frames)]
      /\ \A k \in Links : atDown'[k] \in {atDown[k], <<>>}
  BY AtDrops
<1>3. /\ \A k \in Links : k > atCl.claims => ~atTask[k].up /\ atDown'[k] = atDown[k]
      /\ atCl'.ph = "online" => atDown'[atCl'.sock] \in Seq(GoodFrames)
  BY <1>2, Zenon DEF QueuesHold
<1>4. atUp' \in [Links -> Seq(GoodAsks)] /\ atTask' = atTask BY Zenon
<1> QED BY <1>1, <1>2, <1>3, <1>4, AtFrame

(* A post that is answered.                                                              *)
LEMMA AtServes ==
    ASSUME AtInv, ServePost PROVE AtInv'
<1> USE AtFacts
<1> DEFINE y == [op |-> "ready", gen |-> 0]
           c0 == [atCl EXCEPT !.ph = "stopping"]
           c1 == [atCl EXCEPT !.ph = "start"]
           c2 == [atCl EXCEPT !.ph = "failed"]
           c3 == [atCl EXCEPT !.ph = "asking", !.left = TRUE]
           c4 == [atCl EXCEPT !.ph = "asking", !.left = FALSE]
           c5 == [atCl EXCEPT !.ph = "ended"]
           c6 == [atCl EXCEPT !.ph = "stopping", !.intr = "none", !.exec = "none"]
           c7 == [atCl EXCEPT !.intr = "none", !.exec = "none", !.tool = "none", !.ask = y,
                              !.sent = FALSE]
           Kept(c) ==
              /\ c \in Clients /\ c.gen = atCl.gen /\ c.claims = atCl.claims
              /\ c.prov = atCl.prov /\ c.sock = atCl.sock
           Same(c) == Kept(c) /\ c.ask = atCl.ask /\ c.exec = atCl.exec /\ c.intr = atCl.intr
<1>1. /\ Owed # NoPost /\ atRoom' = RoomAfter(Owed)
      /\ UNCHANGED <<atTask, atUp, atDown, atRuns, atDone, atRolls>>
  BY Zenon DEF ServePost
<1>2. \/ atCl.ph = "join" /\ atCl' \in {c1, c2}
      \/ atCl.ph = "leaving" /\ atCl' \in {c3, c4}
      \/ atCl.ph = "reporting" /\ atCl' \in {c5, c2}
      \/ atCl.ph = "online" /\ atCl' = c0
      \/ atCl.ph = "online" /\ atCl' \in {c6, c7}
  <2> DEFINE ok == Committed(Owed)
  <2>1. atCl' = AtAnswered(Owed, ok) BY Zenon DEF ServePost
  <2>2. ok \in BOOLEAN BY AtOwed DEF Committed, Repeats, Accepts1, AtPost, Authorized, StopDue, CurrentLink, Members
  <2> HIDE DEF ok
  <2>3. CASE atCl.ph = "join" /\ Owed = AtPost("join", "none") BY <2>3, <2>1, <2>2 DEF AtPost, AtAnswered
  <2>4. CASE atCl.ph = "leaving" /\ Owed = AtPost("leave", "none") BY <2>4, <2>1, <2>2 DEF AtPost, AtAnswered
  <2>5. CASE atCl.ph = "reporting" /\ Owed = AtPost("cleanup", "none") BY <2>5, <2>1, <2>2 DEF AtPost, AtAnswered
  <2>6. CASE /\ atCl.ph = "online" /\ atCl.intr \in {"retained", "gone"}
             /\ Owed = AtPost("interrupt", atCl.intr)
    BY <2>1, <2>2, <2>6 DEF AtAnswered, AtPost, AskReady
  <2> QED BY <1>1, <2>3, <2>4, <2>5, <2>6, AtOwed
<1>3. y \in Asks /\ y.op = "ready" BY DEF Asks
<1> HIDE DEF y
<1>4. /\ Same(c0) /\ c0.ph = "stopping" /\ Same(c1) /\ c1.ph = "start"
      /\ Same(c2) /\ c2.ph = "failed" /\ Same(c3) /\ c3.ph = "asking"
      /\ Same(c4) /\ c4.ph = "asking" /\ Same(c5) /\ c5.ph = "ended"
  BY ZenonT(60) DEF Clients
<1>5. /\ Kept(c6) /\ c6.ph = "stopping" /\ c6.exec = "none" /\ c6.intr = "none"
      /\ c6.ask = atCl.ask
      /\ Kept(c7) /\ c7.ph = atCl.ph /\ c7.exec = "none" /\ c7.intr = "none" /\ c7.ask = y
  BY <1>3, ZenonT(60) DEF Clients
<1> HIDE DEF c0, c1, c2, c3, c4, c5, c6, c7
<1>6. /\ atRoom' \in Members /\ atRoom'.gen = atRoom.gen /\ (atRoom'.bound => atRoom.bound)
      /\ atCl.exec = "running" => atRoom'.phase = atRoom.phase
      /\ atRoom'.bound \in BOOLEAN
  BY <1>1, AtPosted DEF Members
<1>7. CASE \/ atCl.ph = "join" /\ atCl' \in {c1, c2}
           \/ atCl.ph = "leaving" /\ atCl' \in {c3, c4}
           \/ atCl.ph = "reporting" /\ atCl' \in {c5, c2}
           \/ atCl.ph = "online" /\ atCl' = c0
  BY <1>4, <1>7, <1>1, <1>6, AtPhase, AtPostSide
<1>8. CASE atCl.ph = "online" /\ atCl' \in {c6, c7}
  BY <1>5, <1>8, <1>3, <1>1, AtAsksStay, <1>6, AtPostSide DEF GoodAsks, ClientHolds
<1> QED BY <1>2, <1>7, <1>8, Zenon

(* A post that is lost, before or after the room had it.                                 *)
LEMMA AtLoses ==
    ASSUME AtInv, LosePost PROVE AtInv'
<1> USE AtFacts
<1> DEFINE c == [atCl EXCEPT !.ph = "checking", !.sock = 0]
<1>1. /\ Owed # NoPost /\ atRoom' \in {atRoom, RoomAfter(Owed)}
      /\ UNCHANGED <<atTask, atUp, atRuns, atDone, atRolls>>
      /\ \/ Owed.op # "interrupt" /\ UNCHANGED <<atCl, atDown>>
         \/ /\ Owed.op = "interrupt" /\ atCl' = c
            /\ atDown' = [atDown EXCEPT ![atCl.sock] = <<>>]
  BY Zenon DEF LosePost, Offline
<1>2. /\ c \in Clients /\ c.gen = atCl.gen /\ c.claims = atCl.claims /\ c.prov = atCl.prov
      /\ c.ask = atCl.ask /\ c.exec = atCl.exec /\ c.intr = atCl.intr
      /\ c.ph = "checking" /\ c.sock = 0
  BY AtNoSocket
<1> HIDE DEF c
<1>4. /\ atRoom' \in Members /\ atRoom'.gen = atRoom.gen /\ (atRoom'.bound => atRoom.bound)
      /\ atCl.exec = "running" => atRoom'.phase = atRoom.phase
  BY <1>1, AtPosted
<1>5. CASE Owed.op # "interrupt" /\ UNCHANGED <<atCl, atDown>> BY <1>1, <1>4, <1>5, AtPhase, AtPostSide
<1>6. CASE /\ Owed.op = "interrupt" /\ atCl' = c
           /\ atDown' = [atDown EXCEPT ![atCl.sock] = <<>>]
  BY <1>1, <1>2, AtOwed, <1>4, <1>6, AtPhase, AtPostSide DEF AtPost
<1> QED BY <1>1, <1>5, <1>6

(* Nothing happened yet.                                                                 *)
LEMMA AtInitially ==
    ASSUME AtInit PROVE AtInv
<1> USE AtConstants
<1> DEFINE r == [used |-> FALSE, member |-> "none", bound |-> FALSE, conn |-> 0, net |-> "none",
                 gen |-> 0, phase |-> "none", effect |-> "none", stop |-> FALSE,
                 cleanup |-> FALSE, receipts |-> {}, orders |-> 0]
           c == [ph |-> "join", prov |-> "none", sock |-> 0, claims |-> 0, ask |-> NoAsk,
                 sent |-> FALSE, live |-> FALSE, gen |-> 0, exec |-> "none", intr |-> "none",
                 tool |-> "none", remote |-> FALSE, left |-> FALSE]
           z == [g \in AtGens |-> 0]
<1>1. /\ atRoom = r /\ atCl = c /\ atTask = [k \in Links |-> IdleTask]
      /\ atUp = [k \in Links |-> <<>>] /\ atDown = [k \in Links |-> <<>>]
      /\ atRuns = z /\ atDone = z /\ atRolls = z
  BY Zenon DEF AtInit
<1>2. NoAsk \in Asks /\ NoAsk.op = "none" /\ 0 \in 0..AtTurns /\ 0 \in 0..AtConns BY DEF NoAsk, Asks
<1>3. r \in Members /\ r.phase = "none" /\ ~r.bound BY <1>2 DEF Members
<1>4. c \in Clients /\ c.ph = "join" /\ c.prov = "none" /\ c.exec = "none" /\ c.intr = "none"
      /\ c.ask = NoAsk /\ c.sock = 0 /\ c.claims = 0
  BY <1>2 DEF Clients
<1> HIDE DEF r, c
<1>5. z \in [AtGens -> {0, 1}] /\ \A g \in AtGens : z[g] = 0 OBVIOUS
<1> HIDE DEF z
<1>7. /\ atUp \in [Links -> Seq(Asks)] /\ atDown \in [Links -> Seq(Frames)]
      /\ \A k \in Links : atUp[k] = <<>> /\ atDown[k] = <<>>
  BY EmptySeq, <1>1
<1>8. atTask \in [Links -> SocketTasks] /\ \A k \in Links : ~atTask[k].up BY <1>1 DEF IdleTask, SocketTasks
<1>9. AtTypes BY <1>1, <1>3, <1>4, <1>5, <1>7, <1>8 DEF AtTypes
<1>10. ClientHolds BY <1>1, <1>2, <1>3, <1>4 DEF GoodAsks, ClientHolds
<1>11. QueuesHold BY <1>7, EmptySeq, <1>1, <1>4, <1>8 DEF QueuesHold
<1>12. CountsHold BY <1>1, <1>5, <1>3 DEF CountsHold, TurnOpen
<1> QED BY <1>9, <1>10, <1>11, <1>12 DEF AtInv

(* Every step of the room, its tasks and the client keeps the invariant.                 *)
LEMMA AtStep ==
    ASSUME AtInv, AtNext PROVE AtInv'
BY AtDeliversStop, AtDeliversInterrupt, AtLooks, AtDeliversTurn, AtReceives, AtTasksEnd, AtStarts, AtConnects,
   AtMeetsEnd, AtAsksOut, AtReceivesFrame, AtCollects, AtStops, AtAssigns, AtCommands, AtServes, AtQuiesces,
   AtRollsOnce, AtBreaks, AtLoses DEF TaskStep, ClientStep, AtNext

(* What the room, the tasks, the queues and the client hold together, in every state: a  *)
(* turn under way that the client has not seen is the open one, what it works on is the  *)
(* turn the room holds open, and reports under way are of turns it is done with          *)
(* (AttendeeRuntime::execute, deliver, record_attendee_turn_report).                     *)
THEOREM AtInvariant == AtSpec => []AtInv
<1>1. AtInv /\ UNCHANGED atVars => AtInv'
  BY DEF atVars, GoodAsks, GoodFrames, TurnOpen, AtInv, AtTypes, ClientHolds, QueuesHold, CountsHold
<1> QED BY <1>1, AtInitially, AtStep, PTL DEF AtSpec

(* However often the socket breaks and whatever answer is lost, every turn enters the    *)
(* provider once, is published once and rolls its tool once, and the turn a provider     *)
(* works on is the one the room holds open.                                              *)
THEOREM AtEachTurnOnce == AtSpec => []EachTurnOnce
<1>1. AtInv => EachTurnOnce
  <2> SUFFICES ASSUME AtInv PROVE EachTurnOnce
    OBVIOUS
  <2> USE AtFacts
  <2>1. \A g \in AtGens : /\ atRuns[g] \in {0, 1} /\ atDone[g] \in {0, 1} /\ atRolls[g] \in {0, 1}
                          /\ (atDone[g] = 1 => atRuns[g] = 1) /\ (atRolls[g] = 1 => atRuns[g] = 1)
    BY DEF CountsHold
  <2>2. atCl.exec = "running" => TurnOpen /\ atRoom.gen = atCl.gen BY Zenon DEF ClientHolds
  <2>3. \A g \in AtGens : /\ atRuns[g] <= 1 /\ atDone[g] <= 1 /\ atRolls[g] <= 1
                          /\ atDone[g] <= atRuns[g] /\ atRolls[g] <= atRuns[g]
    <3> TAKE g \in AtGens
    <3>1. \A x, y, z \in {0, 1} : (y = 1 => x = 1) /\ (z = 1 => x = 1)
              => x <= 1 /\ y <= 1 /\ z <= 1 /\ y <= x /\ z <= x
      OBVIOUS
    <3> QED BY <2>1, <3>1, Zenon
  <2> QED BY <2>2, <2>3, Zenon DEF EachTurnOnce
<1> QED BY <1>1, AtInvariant, PTL

(* Only a post takes the runtime off the room's rows.                                    *)
LEMMA AtUnbinds ==
    ASSUME AtInv, AtNext, atRoom.bound, ~atRoom'.bound
    PROVE  Owed # NoPost /\ atRoom' \in {atRoom, RoomAfter(Owed)}
<1> USE AtFacts
<1> DEFINE Keeps(r) == r.bound = TRUE
<1>1. ASSUME NEW r \in Members, r.bound, Ordered(r) PROVE FALSE BY <1>1, AtOrdered
<1>2. ASSUME NEW r, Keeps(r), atRoom' = r PROVE FALSE BY <1>2
<1>3. ASSUME NEW k \in Links, atRoom' = Disconnected(k) PROVE FALSE BY <1>3, AtDisconnected
<1>4. ~PrepareInterrupt /\ ~StopAttendee /\ ~RemoveAttendee
  <2> DEFINE r1 == [atRoom EXCEPT !.effect = "prepared"]
             r2 == [atRoom EXCEPT !.stop = TRUE, !.cleanup = TRUE]
             r3 == [atRoom EXCEPT !.member = "left", !.cleanup = TRUE]
  <2>1. r1 \in Members /\ r1.bound /\ r2 \in Members /\ r2.bound /\ r3 \in Members /\ r3.bound BY DEF Members
  <2>2. /\ PrepareInterrupt => Ordered(r1)
        /\ StopAttendee => Ordered(r2)
        /\ RemoveAttendee => Ordered(r3)
    BY DEF PrepareInterrupt, StopAttendee, RemoveAttendee
  <2> HIDE DEF r1, r2, r3
  <2> QED BY <1>1, <2>1, <2>2
<1>5. ~AssignTurn /\ ~HostCleanup
  <2> DEFINE r1 == [atRoom EXCEPT !.gen = atRoom.gen + 1, !.phase = "assigned"]
             r2 == [atRoom EXCEPT !.cleanup = FALSE]
  <2>1. Keeps(r1) /\ Keeps(r2) BY DEF Members
  <2>2. (AssignTurn => atRoom' = r1) /\ (HostCleanup => atRoom' = r2) BY Zenon DEF AssignTurn, HostCleanup
  <2> QED BY <1>2, <2>1, <2>2, Zenon
<1>6. ASSUME NEW k \in Links, TaskStep(k) PROVE FALSE
  <2> DEFINE r1 == [atRoom EXCEPT !.effect = "dispatching"]
             r2 == [atRoom EXCEPT !.phase = IF @ = "assigned" THEN "dispatching" ELSE @]
             r3 == [atRoom EXCEPT !.net = "ready", !.bound = TRUE]
             r4 == [atRoom EXCEPT !.phase = "running"]
             r5 == [AtClosed(atRoom) EXCEPT !.receipts = @ \cup {Head(atUp[k])}]
  <2>1. Keeps(r1) /\ Keeps(r2) /\ Keeps(r3) /\ Keeps(r4) BY DEF Members
  <2>2. Keeps(r5)
    <3> DEFINE e == AtClosed(atRoom)
               x == Head(atUp[k])
    <3>1. e \in Members /\ e.bound = TRUE BY DEF AtClosed, Members
    <3> HIDE DEF e, x
    <3>2. [e EXCEPT !.receipts = e.receipts \cup {x}].bound = TRUE BY <3>1 DEF Members
    <3> QED BY <3>2 DEF e, x
  <2> HIDE DEF r1, r2, r3, r4, r5
  <2>7. atRoom' \in {Disconnected(k), atRoom, r1, r2, r3, r4, r5}
    BY <1>6 DEF TaskStep, ReceiveRequest, r3, r4, r5, AtTaskEnds, DeliverStop, DeliverTurn, Ends, r2,
       DeliverInterrupt, LookForTurn, r1
  <2> QED BY <1>2, <1>3, <2>1, <2>2, <2>7
<1>7. ~ClientStep
  <2> DEFINE r(k) == [atRoom EXCEPT !.conn = k, !.net = "connected"]
  <2>1. \A k : Keeps(r(k)) BY DEF Members
  <2>2. AtConnect => atRoom' = r(atCl.claims + 1) BY Zenon DEF AtConnect
  <2>3. ClientStep => AtConnect \/ atRoom' = atRoom
    BY Zenon DEF ClientStep, StartRuntime, ConnectRefused, SeesClose, CheckCleanup, SendAsk,
       ReceiveFrame, Collect, AtStopRuntime, AskCleanup
  <2> QED BY <1>2, <2>1, <2>2, <2>3, Zenon
<1>8. ~Quiesce /\ ~SocketBreaks /\ ~GiveUp /\ ~ToolCall /\ ~RestartHost
  <2> DEFINE r1 == [atRoom EXCEPT !.receipts = @ \cup {Roll}]
             r2 == [atRoom EXCEPT !.net = IF @ = "none" THEN @ ELSE "disconnected"]
  <2>1. Keeps(r1) /\ Keeps(r2) BY DEF Members
  <2>2. /\ Quiesce \/ SocketBreaks \/ GiveUp => atRoom' = atRoom
        /\ ToolCall => atRoom' \in {atRoom, r1}
        /\ RestartHost => atRoom' = r2
    BY Zenon DEF Quiesce, SocketBreaks, GiveUp, ToolCall, RestartHost
  <2> QED BY <1>2, <2>1, <2>2, Zenon
<1>9. ServePost \/ LosePost => Owed # NoPost /\ atRoom' \in {atRoom, RoomAfter(Owed)} BY Zenon DEF ServePost, LosePost
<1> QED BY <1>4, <1>5, <1>6, <1>7, <1>8, <1>9, Zenon DEF AtNext

(* The room records the runtime as absent only when the client has stopped it.           *)
THEOREM AtAbsence == AtSpec => AbsenceIsTrue
<1>1. AtInv /\ [AtNext]_atVars => [atRoom.bound /\ ~atRoom'.bound => atCl.prov = "down"]_atVars BY AtUnbinds, AtPosted
<1> QED BY <1>1, AtInvariant, PTL DEF AtSpec, AbsenceIsTrue

------------------------
(* LocalAttendee: what a settled status says. *)

Places == {"none", "admit", "unresolved", "prepare", "hold", "start", "run", "stop", "end"}
LaShown == {"none", "admitting", "admission_unresolved", "admitted", "starting", "running", "stopping"}
           \cup Terminal
Operations == [inv : LaInvites \cup {"none"}, at : Places, phase : LaShown, unsure : BOOLEAN,
               cancel : BOOLEAN, start : BOOLEAN, cmd : {"none", "retry", "start"}, failed : BOOLEAN]
Memberships == [used : LaRequests \cup {"none", "revoked"}, joined : BOOLEAN]

(* The shape of the service's state. *)
AttendeeTypes ==
    /\ laOps \in [LaRequests -> Operations]
    /\ laStored \in [LaRequests -> LaInvites \cup {"none"}]
    /\ laRoom \in [LaInvites -> Memberships]
    /\ laRun \in [LaRequests -> BOOLEAN]

LaAbsent(r) == \A i \in LaInvites : laRoom[i].used = r => ~laRoom[i].joined

(* An operation works on the invitation of its receipt, no runtime runs before its     *)
(* start, a first attempt to join has not used the invitation, and only the end of an  *)
(* operation that left nothing behind says stopped or failed.                          *)
OperationIsTrue(o, r) ==
    /\ (o.at = "none") = (o.phase = "none")
    /\ o.at # "none" => o.inv = laStored[r] /\ laStored[r] # "none"
    /\ laStored[r] = "none" => ~laRun[r]
    /\ o.at \in {"admit", "unresolved", "prepare", "hold", "start"} => ~laRun[r]
    /\ o.at = "unresolved" => o.unsure
    /\ (o.at = "admit" /\ ~o.unsure) => \A i \in LaInvites : laRoom[i].used # r
    /\ o.at # "end" => o.phase \notin {"stopped", "failed"}
    /\ o.phase \in {"stopped", "failed"} => ~laRun[r] /\ LaAbsent(r)
    /\ \A i \in LaInvites : laRoom[i].used = r => laStored[r] = i

AttendeeInv == AttendeeTypes /\ \A r \in LaRequests : OperationIsTrue(laOps[r], r)

(* A step of one operation takes nothing from the others. *)
Alone(r) ==
    \A q \in LaRequests \ {r} :
        /\ laOps'[q] = laOps[q] /\ laStored'[q] = laStored[q] /\ laRun'[q] = laRun[q]
        /\ \A i \in LaInvites :
              laRoom'[i].used = q => laRoom[i].used = q /\ (laRoom'[i].joined => laRoom[i].joined)

(* Hence a step that keeps the invariant of its own operation keeps it. *)
LEMMA AttendeeFrame ==
    ASSUME AttendeeInv, NEW r \in LaRequests, AttendeeTypes', Alone(r),
           OperationIsTrue(laOps[r], r)'
    PROVE  AttendeeInv'
BY DEF Alone, AttendeeInv, OperationIsTrue, LaAbsent

(* What the invariant says of one operation. *)
RequestHolds(r) ==
    /\ AttendeeTypes /\ r \in LaRequests
    /\ laOps \in [LaRequests -> Operations] /\ laOps[r] \in Operations
    /\ laStored \in [LaRequests -> LaInvites \cup {"none"}]
    /\ laRoom \in [LaInvites -> Memberships] /\ laRun \in [LaRequests -> BOOLEAN]
    /\ laOps[r].at # "none" => laOps[r].inv \in LaInvites
    /\ OperationIsTrue(laOps[r], r)

(* The invariant says all of that of every operation. *)
LEMMA RequestFacts ==
    ASSUME AttendeeInv, NEW r \in LaRequests
    PROVE  RequestHolds(r)
BY DEF AttendeeInv, AttendeeTypes, OperationIsTrue, RequestHolds

(* create keeps the invariant: nobody used the invitation before its receipt. *)
LEMMA AttendeeCreate ==
    ASSUME AttendeeInv, NEW r \in LaRequests, NEW i \in LaInvites, CreateLocal(r, i)
    PROVE  AttendeeInv'
<1>0. RequestHolds(r) BY RequestFacts
<1> USE DEF RequestHolds
<1>1. PICK start \in BOOLEAN :
         Op(r, [NoOp EXCEPT !.inv = i, !.at = "admit", !.phase = "admitting", !.start = start])
  BY DEF CreateLocal
<1> DEFINE o2 == [NoOp EXCEPT !.inv = i, !.at = "admit", !.phase = "admitting", !.start = start]
<1>2. /\ laOps' = [laOps EXCEPT ![r] = o2]
      /\ laRun' = laRun
      /\ laRoom' = laRoom
      /\ laStored' = [laStored EXCEPT ![r] = i]
      /\ laStored[r] = "none"
  BY <1>1 DEF CreateLocal, Unowned, Op, AtPlace
<1>3. /\ o2 \in Operations
      /\ o2.inv = i /\ o2.at = "admit" /\ o2.phase = "admitting"
      /\ o2.unsure = FALSE /\ o2.cancel = FALSE /\ o2.start = start
      /\ o2.cmd = "none" /\ o2.failed = FALSE
  BY DEF Operations, Places, LaShown, Terminal, NoOp
<1> HIDE DEF o2
<1>4. laOps'[r] = o2 /\ AttendeeTypes' /\ Alone(r) BY <1>0, <1>2, <1>3 DEF AttendeeTypes, Alone, Memberships
<1>5. OperationIsTrue(laOps[r], r)' BY <1>0, <1>2, <1>3, <1>4, LaNames DEF OperationIsTrue, LaAbsent, Memberships
<1> QED BY <1>4, <1>5, AttendeeFrame

(* admit keeps it: a refusal after an attempt without an answer is not a failure. *)
LEMMA AttendeeAdmit ==
    ASSUME AttendeeInv, NEW r \in LaRequests, AdmitLocal(r)
    PROVE  AttendeeInv'
<1>0. RequestHolds(r) BY RequestFacts
<1> USE DEF RequestHolds
<1>1. CASE laOps[r].cancel /\ ~laOps[r].unsure /\ laRoom' = laRoom /\ Op(r, [laOps[r] EXCEPT !.at = "end", !.phase = "stopped"])
  <2> DEFINE o2 == [laOps[r] EXCEPT !.at = "end", !.phase = "stopped"]
  <2>1. /\ laOps' = [laOps EXCEPT ![r] = o2]
        /\ laStored' = laStored
        /\ laRun' = laRun
        /\ laRoom' = laRoom
        /\ laOps[r].at = "admit"
    BY <1>1 DEF AdmitLocal, Op, AtPlace
  <2>2. /\ o2 \in Operations
        /\ o2.inv = laOps[r].inv /\ o2.at = "end" /\ o2.phase = "stopped"
        /\ o2.unsure = laOps[r].unsure /\ o2.cancel = laOps[r].cancel /\ o2.start = laOps[r].start
        /\ o2.cmd = laOps[r].cmd /\ o2.failed = laOps[r].failed
    BY <1>0, <2>1, <1>1 DEF Operations, Places, LaShown, Terminal
  <2> HIDE DEF o2
  <2>3. laOps'[r] = o2 /\ AttendeeTypes' /\ Alone(r) BY <1>0, <2>1, <2>2, <1>1 DEF AttendeeTypes, Alone, Memberships
  <2>4. OperationIsTrue(laOps[r], r)'
    BY <1>0, <2>1, <2>2, <2>3, <1>1, LaNames DEF OperationIsTrue, LaAbsent, Memberships
  <2> QED BY <2>3, <2>4, AttendeeFrame
<1>2. CASE Joins(r) /\ JoinedRoom(r) /\ Op(r, [laOps[r] EXCEPT !.at = "prepare"])
  <2> DEFINE o2 == [laOps[r] EXCEPT !.at = "prepare"]
  <2>1. /\ laOps' = [laOps EXCEPT ![r] = o2]
        /\ laStored' = laStored
        /\ laRun' = laRun
        /\ laRoom' = [laRoom EXCEPT ![laOps[r].inv] = [used |-> r, joined |-> TRUE]]
        /\ laOps[r].at = "admit"
    BY <1>2 DEF AdmitLocal, Joins, JoinedRoom, Op, AtPlace
  <2>2. /\ o2 \in Operations
        /\ o2.inv = laOps[r].inv /\ o2.at = "prepare" /\ o2.phase = laOps[r].phase
        /\ o2.unsure = laOps[r].unsure /\ o2.cancel = laOps[r].cancel /\ o2.start = laOps[r].start
        /\ o2.cmd = laOps[r].cmd /\ o2.failed = laOps[r].failed
    BY <1>0, <2>1, <1>2 DEF Operations, Places, LaShown, Terminal
  <2> HIDE DEF o2
  <2>3. laOps'[r] = o2 /\ AttendeeTypes' /\ Alone(r) BY <1>0, <2>1, <2>2, <1>2 DEF AttendeeTypes, Alone, Memberships
  <2>4. OperationIsTrue(laOps[r], r)'
    BY <1>0, <2>1, <2>2, <2>3, <1>2, LaNames DEF OperationIsTrue, LaAbsent, Memberships
  <2> QED BY <2>3, <2>4, AttendeeFrame
<1>3. CASE laOps[r].unsure /\ Op(r, Refused(r)) /\ laRoom' = laRoom
  <2> DEFINE o2 == [laOps[r] EXCEPT !.at = "end", !.phase = "cleanup_unconfirmed"]
  <2>1. /\ laOps' = [laOps EXCEPT ![r] = o2]
        /\ laStored' = laStored
        /\ laRun' = laRun
        /\ laRoom' = laRoom
        /\ laOps[r].at = "admit"
    BY <1>3 DEF AdmitLocal, Refused, Op, AtPlace
  <2>2. /\ o2 \in Operations
        /\ o2.inv = laOps[r].inv /\ o2.at = "end" /\ o2.phase = "cleanup_unconfirmed"
        /\ o2.unsure = laOps[r].unsure /\ o2.cancel = laOps[r].cancel /\ o2.start = laOps[r].start
        /\ o2.cmd = laOps[r].cmd /\ o2.failed = laOps[r].failed
    BY <1>0, <2>1, <1>3 DEF Operations, Places, LaShown, Terminal
  <2> HIDE DEF o2
  <2>3. laOps'[r] = o2 /\ AttendeeTypes' /\ Alone(r) BY <1>0, <2>1, <2>2, <1>3 DEF AttendeeTypes, Alone, Memberships
  <2>4. OperationIsTrue(laOps[r], r)'
    BY <1>0, <2>1, <2>2, <2>3, <1>3, LaNames DEF OperationIsTrue, LaAbsent, Memberships
  <2> QED BY <2>3, <2>4, AttendeeFrame
<1>4. CASE ~laOps[r].unsure /\ Op(r, Refused(r)) /\ laRoom' = laRoom
  <2> DEFINE o2 == [laOps[r] EXCEPT !.at = "end", !.phase = "failed"]
  <2>1. /\ laOps' = [laOps EXCEPT ![r] = o2]
        /\ laStored' = laStored
        /\ laRun' = laRun
        /\ laRoom' = laRoom
        /\ laOps[r].at = "admit"
    BY <1>4 DEF AdmitLocal, Refused, Op, AtPlace
  <2>2. /\ o2 \in Operations
        /\ o2.inv = laOps[r].inv /\ o2.at = "end" /\ o2.phase = "failed"
        /\ o2.unsure = laOps[r].unsure /\ o2.cancel = laOps[r].cancel /\ o2.start = laOps[r].start
        /\ o2.cmd = laOps[r].cmd /\ o2.failed = laOps[r].failed
    BY <1>0, <2>1, <1>4 DEF Operations, Places, LaShown, Terminal
  <2> HIDE DEF o2
  <2>3. laOps'[r] = o2 /\ AttendeeTypes' /\ Alone(r) BY <1>0, <2>1, <2>2, <1>4 DEF AttendeeTypes, Alone, Memberships
  <2>4. OperationIsTrue(laOps[r], r)'
    BY <1>0, <2>1, <2>2, <2>3, <1>4, LaNames DEF OperationIsTrue, LaAbsent, Memberships
  <2> QED BY <2>3, <2>4, AttendeeFrame
<1>5. CASE Op(r, [laOps[r] EXCEPT !.at = "unresolved", !.phase = "admission_unresolved", !.unsure = TRUE])
            /\ laRoom' = laRoom
  <2> DEFINE o2 == [laOps[r] EXCEPT !.at = "unresolved", !.phase = "admission_unresolved", !.unsure = TRUE]
  <2>1. /\ laOps' = [laOps EXCEPT ![r] = o2]
        /\ laStored' = laStored
        /\ laRun' = laRun
        /\ laRoom' = laRoom
        /\ laOps[r].at = "admit"
    BY <1>5 DEF AdmitLocal, Op, AtPlace
  <2>2. /\ o2 \in Operations
        /\ o2.inv = laOps[r].inv /\ o2.at = "unresolved" /\ o2.phase = "admission_unresolved"
        /\ o2.unsure = TRUE /\ o2.cancel = laOps[r].cancel /\ o2.start = laOps[r].start
        /\ o2.cmd = laOps[r].cmd /\ o2.failed = laOps[r].failed
    BY <1>0, <2>1, <1>5 DEF Operations, Places, LaShown, Terminal
  <2> HIDE DEF o2
  <2>3. laOps'[r] = o2 /\ AttendeeTypes' /\ Alone(r) BY <1>0, <2>1, <2>2, <1>5 DEF AttendeeTypes, Alone, Memberships
  <2>4. OperationIsTrue(laOps[r], r)'
    BY <1>0, <2>1, <2>2, <2>3, <1>5, LaNames DEF OperationIsTrue, LaAbsent, Memberships
  <2> QED BY <2>3, <2>4, AttendeeFrame
<1>6. CASE Op(r, [laOps[r] EXCEPT !.at = "unresolved", !.phase = "admission_unresolved", !.unsure = TRUE])
            /\ Joins(r) /\ JoinedRoom(r)
  <2> DEFINE o2 == [laOps[r] EXCEPT !.at = "unresolved", !.phase = "admission_unresolved", !.unsure = TRUE]
  <2>1. /\ laOps' = [laOps EXCEPT ![r] = o2]
        /\ laStored' = laStored
        /\ laRun' = laRun
        /\ laRoom' = [laRoom EXCEPT ![laOps[r].inv] = [used |-> r, joined |-> TRUE]]
        /\ laOps[r].at = "admit"
    BY <1>6 DEF AdmitLocal, Joins, JoinedRoom, Op, AtPlace
  <2>2. /\ o2 \in Operations
        /\ o2.inv = laOps[r].inv /\ o2.at = "unresolved" /\ o2.phase = "admission_unresolved"
        /\ o2.unsure = TRUE /\ o2.cancel = laOps[r].cancel /\ o2.start = laOps[r].start
        /\ o2.cmd = laOps[r].cmd /\ o2.failed = laOps[r].failed
    BY <1>0, <2>1, <1>6 DEF Operations, Places, LaShown, Terminal
  <2> HIDE DEF o2
  <2>3. laOps'[r] = o2 /\ AttendeeTypes' /\ Alone(r) BY <1>0, <2>1, <2>2, <1>6 DEF AttendeeTypes, Alone, Memberships
  <2>4. OperationIsTrue(laOps[r], r)'
    BY <1>0, <2>1, <2>2, <2>3, <1>6, LaNames DEF OperationIsTrue, LaAbsent, Memberships
  <2> QED BY <2>3, <2>4, AttendeeFrame
<1> QED BY <1>1, <1>2, <1>3, <1>4, <1>5, <1>6 DEF AdmitLocal

(* A retry keeps the uncertainty of the earlier attempt. *)
LEMMA AttendeeResolve ==
    ASSUME AttendeeInv, NEW r \in LaRequests, ResolveAdmission(r)
    PROVE  AttendeeInv'
<1>0. RequestHolds(r) BY RequestFacts
<1> USE DEF RequestHolds
<1>1. CASE Op(r, [laOps[r] EXCEPT !.at = "admit", !.phase = "admitting", !.cmd = "none"]) /\ laRoom' = laRoom
  <2> DEFINE o2 == [laOps[r] EXCEPT !.at = "admit", !.phase = "admitting", !.cmd = "none"]
  <2>1. /\ laOps' = [laOps EXCEPT ![r] = o2]
        /\ laStored' = laStored
        /\ laRun' = laRun
        /\ laRoom' = laRoom
        /\ laOps[r].at = "unresolved"
    BY <1>1 DEF ResolveAdmission, Op, AtPlace
  <2>2. /\ o2 \in Operations
        /\ o2.inv = laOps[r].inv /\ o2.at = "admit" /\ o2.phase = "admitting"
        /\ o2.unsure = laOps[r].unsure /\ o2.cancel = laOps[r].cancel /\ o2.start = laOps[r].start
        /\ o2.cmd = "none" /\ o2.failed = laOps[r].failed
    BY <1>0, <2>1, <1>1 DEF Operations, Places, LaShown, Terminal
  <2> HIDE DEF o2
  <2>3. laOps'[r] = o2 /\ AttendeeTypes' /\ Alone(r) BY <1>0, <2>1, <2>2, <1>1 DEF AttendeeTypes, Alone, Memberships
  <2>4. OperationIsTrue(laOps[r], r)'
    BY <1>0, <2>1, <2>2, <2>3, <1>1, LaNames DEF OperationIsTrue, LaAbsent, Memberships
  <2> QED BY <2>3, <2>4, AttendeeFrame
<1>2. CASE Joins(r) /\ JoinedRoom(r) /\ Op(r, [laOps[r] EXCEPT !.at = "prepare"])
  <2> DEFINE o2 == [laOps[r] EXCEPT !.at = "prepare"]
  <2>1. /\ laOps' = [laOps EXCEPT ![r] = o2]
        /\ laStored' = laStored
        /\ laRun' = laRun
        /\ laRoom' = [laRoom EXCEPT ![laOps[r].inv] = [used |-> r, joined |-> TRUE]]
        /\ laOps[r].at = "unresolved"
    BY <1>2 DEF ResolveAdmission, Joins, JoinedRoom, Op, AtPlace
  <2>2. /\ o2 \in Operations
        /\ o2.inv = laOps[r].inv /\ o2.at = "prepare" /\ o2.phase = laOps[r].phase
        /\ o2.unsure = laOps[r].unsure /\ o2.cancel = laOps[r].cancel /\ o2.start = laOps[r].start
        /\ o2.cmd = laOps[r].cmd /\ o2.failed = laOps[r].failed
    BY <1>0, <2>1, <1>2 DEF Operations, Places, LaShown, Terminal
  <2> HIDE DEF o2
  <2>3. laOps'[r] = o2 /\ AttendeeTypes' /\ Alone(r) BY <1>0, <2>1, <2>2, <1>2 DEF AttendeeTypes, Alone, Memberships
  <2>4. OperationIsTrue(laOps[r], r)'
    BY <1>0, <2>1, <2>2, <2>3, <1>2, LaNames DEF OperationIsTrue, LaAbsent, Memberships
  <2> QED BY <2>3, <2>4, AttendeeFrame
<1>3. CASE Op(r, [laOps[r] EXCEPT !.at = "end", !.phase = "cleanup_unconfirmed"]) /\ laRoom' = laRoom
  <2> DEFINE o2 == [laOps[r] EXCEPT !.at = "end", !.phase = "cleanup_unconfirmed"]
  <2>1. /\ laOps' = [laOps EXCEPT ![r] = o2]
        /\ laStored' = laStored
        /\ laRun' = laRun
        /\ laRoom' = laRoom
        /\ laOps[r].at = "unresolved"
    BY <1>3 DEF ResolveAdmission, Op, AtPlace
  <2>2. /\ o2 \in Operations
        /\ o2.inv = laOps[r].inv /\ o2.at = "end" /\ o2.phase = "cleanup_unconfirmed"
        /\ o2.unsure = laOps[r].unsure /\ o2.cancel = laOps[r].cancel /\ o2.start = laOps[r].start
        /\ o2.cmd = laOps[r].cmd /\ o2.failed = laOps[r].failed
    BY <1>0, <2>1, <1>3 DEF Operations, Places, LaShown, Terminal
  <2> HIDE DEF o2
  <2>3. laOps'[r] = o2 /\ AttendeeTypes' /\ Alone(r) BY <1>0, <2>1, <2>2, <1>3 DEF AttendeeTypes, Alone, Memberships
  <2>4. OperationIsTrue(laOps[r], r)'
    BY <1>0, <2>1, <2>2, <2>3, <1>3, LaNames DEF OperationIsTrue, LaAbsent, Memberships
  <2> QED BY <2>3, <2>4, AttendeeFrame
<1> QED BY <1>1, <1>2, <1>3 DEF ResolveAdmission

(* prepare keeps it. *)
LEMMA AttendeePrepare ==
    ASSUME AttendeeInv, NEW r \in LaRequests, PrepareLocal(r)
    PROVE  AttendeeInv'
<1>0. RequestHolds(r) BY RequestFacts
<1> USE DEF RequestHolds
<1>1. CASE laOps[r].cancel
  <2> DEFINE o2 == [laOps[r] EXCEPT !.at = "stop", !.phase = "stopping"]
  <2>1. /\ laOps' = [laOps EXCEPT ![r] = o2]
        /\ laStored' = laStored
        /\ laRun' = laRun
        /\ laRoom' = laRoom
        /\ laOps[r].at = "prepare"
    BY <1>1 DEF PrepareLocal, Op, AtPlace
  <2>2. /\ o2 \in Operations
        /\ o2.inv = laOps[r].inv /\ o2.at = "stop" /\ o2.phase = "stopping"
        /\ o2.unsure = laOps[r].unsure /\ o2.cancel = laOps[r].cancel /\ o2.start = laOps[r].start
        /\ o2.cmd = laOps[r].cmd /\ o2.failed = laOps[r].failed
    BY <1>0, <2>1, <1>1 DEF Operations, Places, LaShown, Terminal
  <2> HIDE DEF o2
  <2>3. laOps'[r] = o2 /\ AttendeeTypes' /\ Alone(r) BY <1>0, <2>1, <2>2, <1>1 DEF AttendeeTypes, Alone, Memberships
  <2>4. OperationIsTrue(laOps[r], r)'
    BY <1>0, <2>1, <2>2, <2>3, <1>1, LaNames DEF OperationIsTrue, LaAbsent, Memberships
  <2> QED BY <2>3, <2>4, AttendeeFrame
<1>2. CASE ~laOps[r].cancel /\ laOps[r].start
  <2> DEFINE o2 == [laOps[r] EXCEPT !.at = "start", !.phase = "starting"]
  <2>1. /\ laOps' = [laOps EXCEPT ![r] = o2]
        /\ laStored' = laStored
        /\ laRun' = laRun
        /\ laRoom' = laRoom
        /\ laOps[r].at = "prepare"
    BY <1>2 DEF PrepareLocal, Op, AtPlace
  <2>2. /\ o2 \in Operations
        /\ o2.inv = laOps[r].inv /\ o2.at = "start" /\ o2.phase = "starting"
        /\ o2.unsure = laOps[r].unsure /\ o2.cancel = laOps[r].cancel /\ o2.start = laOps[r].start
        /\ o2.cmd = laOps[r].cmd /\ o2.failed = laOps[r].failed
    BY <1>0, <2>1, <1>2 DEF Operations, Places, LaShown, Terminal
  <2> HIDE DEF o2
  <2>3. laOps'[r] = o2 /\ AttendeeTypes' /\ Alone(r) BY <1>0, <2>1, <2>2, <1>2 DEF AttendeeTypes, Alone, Memberships
  <2>4. OperationIsTrue(laOps[r], r)'
    BY <1>0, <2>1, <2>2, <2>3, <1>2, LaNames DEF OperationIsTrue, LaAbsent, Memberships
  <2> QED BY <2>3, <2>4, AttendeeFrame
<1>3. CASE ~laOps[r].cancel /\ ~laOps[r].start
  <2> DEFINE o2 == [laOps[r] EXCEPT !.at = "hold", !.phase = "admitted"]
  <2>1. /\ laOps' = [laOps EXCEPT ![r] = o2]
        /\ laStored' = laStored
        /\ laRun' = laRun
        /\ laRoom' = laRoom
        /\ laOps[r].at = "prepare"
    BY <1>3 DEF PrepareLocal, Op, AtPlace
  <2>2. /\ o2 \in Operations
        /\ o2.inv = laOps[r].inv /\ o2.at = "hold" /\ o2.phase = "admitted"
        /\ o2.unsure = laOps[r].unsure /\ o2.cancel = laOps[r].cancel /\ o2.start = laOps[r].start
        /\ o2.cmd = laOps[r].cmd /\ o2.failed = laOps[r].failed
    BY <1>0, <2>1, <1>3 DEF Operations, Places, LaShown, Terminal
  <2> HIDE DEF o2
  <2>3. laOps'[r] = o2 /\ AttendeeTypes' /\ Alone(r) BY <1>0, <2>1, <2>2, <1>3 DEF AttendeeTypes, Alone, Memberships
  <2>4. OperationIsTrue(laOps[r], r)'
    BY <1>0, <2>1, <2>2, <2>3, <1>3, LaNames DEF OperationIsTrue, LaAbsent, Memberships
  <2> QED BY <2>3, <2>4, AttendeeFrame
<1> QED BY <1>1, <1>2, <1>3

(* The wait for a start keeps it. *)
LEMMA AttendeeHold ==
    ASSUME AttendeeInv, NEW r \in LaRequests, HoldLocal(r)
    PROVE  AttendeeInv'
<1>0. RequestHolds(r) BY RequestFacts
<1> USE DEF RequestHolds
<1>1. CASE Op(r, [laOps[r] EXCEPT !.at = "stop", !.phase = "stopping"])
  <2> DEFINE o2 == [laOps[r] EXCEPT !.at = "stop", !.phase = "stopping"]
  <2>1. /\ laOps' = [laOps EXCEPT ![r] = o2]
        /\ laStored' = laStored
        /\ laRun' = laRun
        /\ laRoom' = laRoom
        /\ laOps[r].at = "hold"
    BY <1>1 DEF HoldLocal, Op, AtPlace
  <2>2. /\ o2 \in Operations
        /\ o2.inv = laOps[r].inv /\ o2.at = "stop" /\ o2.phase = "stopping"
        /\ o2.unsure = laOps[r].unsure /\ o2.cancel = laOps[r].cancel /\ o2.start = laOps[r].start
        /\ o2.cmd = laOps[r].cmd /\ o2.failed = laOps[r].failed
    BY <1>0, <2>1, <1>1 DEF Operations, Places, LaShown, Terminal
  <2> HIDE DEF o2
  <2>3. laOps'[r] = o2 /\ AttendeeTypes' /\ Alone(r) BY <1>0, <2>1, <2>2, <1>1 DEF AttendeeTypes, Alone, Memberships
  <2>4. OperationIsTrue(laOps[r], r)'
    BY <1>0, <2>1, <2>2, <2>3, <1>1, LaNames DEF OperationIsTrue, LaAbsent, Memberships
  <2> QED BY <2>3, <2>4, AttendeeFrame
<1>2. CASE Op(r, [laOps[r] EXCEPT !.at = "start", !.phase = "starting", !.cmd = "none"])
  <2> DEFINE o2 == [laOps[r] EXCEPT !.at = "start", !.phase = "starting", !.cmd = "none"]
  <2>1. /\ laOps' = [laOps EXCEPT ![r] = o2]
        /\ laStored' = laStored
        /\ laRun' = laRun
        /\ laRoom' = laRoom
        /\ laOps[r].at = "hold"
    BY <1>2 DEF HoldLocal, Op, AtPlace
  <2>2. /\ o2 \in Operations
        /\ o2.inv = laOps[r].inv /\ o2.at = "start" /\ o2.phase = "starting"
        /\ o2.unsure = laOps[r].unsure /\ o2.cancel = laOps[r].cancel /\ o2.start = laOps[r].start
        /\ o2.cmd = "none" /\ o2.failed = laOps[r].failed
    BY <1>0, <2>1, <1>2 DEF Operations, Places, LaShown, Terminal
  <2> HIDE DEF o2
  <2>3. laOps'[r] = o2 /\ AttendeeTypes' /\ Alone(r) BY <1>0, <2>1, <2>2, <1>2 DEF AttendeeTypes, Alone, Memberships
  <2>4. OperationIsTrue(laOps[r], r)'
    BY <1>0, <2>1, <2>2, <2>3, <1>2, LaNames DEF OperationIsTrue, LaAbsent, Memberships
  <2> QED BY <2>3, <2>4, AttendeeFrame
<1> QED BY <1>1, <1>2 DEF HoldLocal

(* run_attendee_session keeps it: a runtime runs only from here. *)
LEMMA AttendeeStart ==
    ASSUME AttendeeInv, NEW r \in LaRequests, StartLocal(r)
    PROVE  AttendeeInv'
<1>0. RequestHolds(r) BY RequestFacts
<1> USE DEF RequestHolds
<1>1. CASE laRun' = [laRun EXCEPT ![r] = TRUE] /\ Op(r, [laOps[r] EXCEPT !.at = "run", !.phase = "running"])
  <2> DEFINE o2 == [laOps[r] EXCEPT !.at = "run", !.phase = "running"]
  <2>1. /\ laOps' = [laOps EXCEPT ![r] = o2]
        /\ laStored' = laStored
        /\ laRun' = [laRun EXCEPT ![r] = TRUE]
        /\ laRoom' = laRoom
        /\ laOps[r].at = "start"
    BY <1>1 DEF StartLocal, Op, AtPlace
  <2>2. /\ o2 \in Operations
        /\ o2.inv = laOps[r].inv /\ o2.at = "run" /\ o2.phase = "running"
        /\ o2.unsure = laOps[r].unsure /\ o2.cancel = laOps[r].cancel /\ o2.start = laOps[r].start
        /\ o2.cmd = laOps[r].cmd /\ o2.failed = laOps[r].failed
    BY <1>0, <2>1, <1>1 DEF Operations, Places, LaShown, Terminal
  <2> HIDE DEF o2
  <2>3. laOps'[r] = o2 /\ AttendeeTypes' /\ Alone(r) BY <1>0, <2>1, <2>2, <1>1 DEF AttendeeTypes, Alone, Memberships
  <2>4. OperationIsTrue(laOps[r], r)'
    BY <1>0, <2>1, <2>2, <2>3, <1>1, LaNames DEF OperationIsTrue, LaAbsent, Memberships
  <2> QED BY <2>3, <2>4, AttendeeFrame
<1>2. CASE laRun' = laRun /\ Op(r, [laOps[r] EXCEPT !.at = "stop", !.phase = "stopping", !.failed = TRUE])
  <2> DEFINE o2 == [laOps[r] EXCEPT !.at = "stop", !.phase = "stopping", !.failed = TRUE]
  <2>1. /\ laOps' = [laOps EXCEPT ![r] = o2]
        /\ laStored' = laStored
        /\ laRun' = laRun
        /\ laRoom' = laRoom
        /\ laOps[r].at = "start"
    BY <1>2 DEF StartLocal, Op, AtPlace
  <2>2. /\ o2 \in Operations
        /\ o2.inv = laOps[r].inv /\ o2.at = "stop" /\ o2.phase = "stopping"
        /\ o2.unsure = laOps[r].unsure /\ o2.cancel = laOps[r].cancel /\ o2.start = laOps[r].start
        /\ o2.cmd = laOps[r].cmd /\ o2.failed = TRUE
    BY <1>0, <2>1, <1>2 DEF Operations, Places, LaShown, Terminal
  <2> HIDE DEF o2
  <2>3. laOps'[r] = o2 /\ AttendeeTypes' /\ Alone(r) BY <1>0, <2>1, <2>2, <1>2 DEF AttendeeTypes, Alone, Memberships
  <2>4. OperationIsTrue(laOps[r], r)'
    BY <1>0, <2>1, <2>2, <2>3, <1>2, LaNames DEF OperationIsTrue, LaAbsent, Memberships
  <2> QED BY <2>3, <2>4, AttendeeFrame
<1> QED BY <1>1, <1>2 DEF StartLocal

(* The end of the session keeps it: the shutdown follows. *)
LEMMA AttendeeSession ==
    ASSUME AttendeeInv, NEW r \in LaRequests, SessionEnds(r)
    PROVE  AttendeeInv'
<1>0. RequestHolds(r) BY RequestFacts
<1> USE DEF RequestHolds
<1>1. PICK failed \in BOOLEAN :
         Op(r, [laOps[r] EXCEPT !.at = "stop", !.phase = "stopping", !.failed = failed])
  BY DEF SessionEnds
<1>2. CASE TRUE
  <2> DEFINE o2 == [laOps[r] EXCEPT !.at = "stop", !.phase = "stopping", !.failed = failed]
  <2>1. /\ laOps' = [laOps EXCEPT ![r] = o2]
        /\ laStored' = laStored
        /\ laRun' = laRun
        /\ laRoom' = laRoom
        /\ laOps[r].at = "run"
    BY <1>1 DEF SessionEnds, Op, AtPlace
  <2>2. /\ o2 \in Operations
        /\ o2.inv = laOps[r].inv /\ o2.at = "stop" /\ o2.phase = "stopping"
        /\ o2.unsure = laOps[r].unsure /\ o2.cancel = laOps[r].cancel /\ o2.start = laOps[r].start
        /\ o2.cmd = laOps[r].cmd /\ o2.failed = failed
    BY <1>0, <2>1 DEF Operations, Places, LaShown, Terminal
  <2> HIDE DEF o2
  <2>3. laOps'[r] = o2 /\ AttendeeTypes' /\ Alone(r) BY <1>0, <2>1, <2>2 DEF AttendeeTypes, Alone, Memberships
  <2>4. OperationIsTrue(laOps[r], r)' BY <1>0, <2>1, <2>2, <2>3, LaNames DEF OperationIsTrue, LaAbsent, Memberships
  <2> QED BY <2>3, <2>4, AttendeeFrame
<1> QED BY <1>2

(* shutdown_attendee says stopped or failed only when runtime and membership are gone. *)
LEMMA AttendeeShutdown ==
    ASSUME AttendeeInv, NEW r \in LaRequests, ShutdownLocal(r)
    PROVE  AttendeeInv'
<1>0. RequestHolds(r) BY RequestFacts
<1> USE DEF RequestHolds
<1>1. CASE laRun' = [laRun EXCEPT ![r] = FALSE] /\ laRoom' = [laRoom EXCEPT ![laOps[r].inv].joined = FALSE]
            /\ Op(r, [laOps[r] EXCEPT !.at = "end", !.phase = "failed"])
  <2> DEFINE m == [laRoom[laOps[r].inv] EXCEPT !.joined = FALSE]
  <2>a. laOps[r].inv \in LaInvites /\ laOps[r].at = "stop" BY <1>0 DEF ShutdownLocal, AtPlace
  <2>b. m \in Memberships /\ m.used = laRoom[laOps[r].inv].used /\ m.joined = FALSE BY <1>0, <2>a DEF Memberships
  <2> DEFINE o2 == [laOps[r] EXCEPT !.at = "end", !.phase = "failed"]
  <2>1. /\ laOps' = [laOps EXCEPT ![r] = o2]
        /\ laStored' = laStored
        /\ laRun' = [laRun EXCEPT ![r] = FALSE]
        /\ laRoom' = [laRoom EXCEPT ![laOps[r].inv] = m]
        /\ laOps[r].at = "stop"
    BY <1>1 DEF ShutdownLocal, Op, AtPlace
  <2>2. /\ o2 \in Operations
        /\ o2.inv = laOps[r].inv /\ o2.at = "end" /\ o2.phase = "failed"
        /\ o2.unsure = laOps[r].unsure /\ o2.cancel = laOps[r].cancel /\ o2.start = laOps[r].start
        /\ o2.cmd = laOps[r].cmd /\ o2.failed = laOps[r].failed
    BY <1>0, <2>1, <1>1 DEF Operations, Places, LaShown, Terminal
  <2> HIDE DEF o2, m
  <2>3. laOps'[r] = o2 /\ AttendeeTypes' /\ Alone(r)
    BY <1>0, <2>1, <2>2, <1>1, <2>a, <2>b DEF AttendeeTypes, Alone, Memberships
  <2>4. OperationIsTrue(laOps[r], r)'
    BY <1>0, <2>1, <2>2, <2>3, <1>1, <2>a, <2>b, LaNames DEF OperationIsTrue, LaAbsent, Memberships
  <2> QED BY <2>3, <2>4, AttendeeFrame
<1>2. CASE laRun' = [laRun EXCEPT ![r] = FALSE] /\ laRoom' = [laRoom EXCEPT ![laOps[r].inv].joined = FALSE]
            /\ Op(r, [laOps[r] EXCEPT !.at = "end", !.phase = "stopped"])
  <2> DEFINE m == [laRoom[laOps[r].inv] EXCEPT !.joined = FALSE]
  <2>a. laOps[r].inv \in LaInvites /\ laOps[r].at = "stop" BY <1>0 DEF ShutdownLocal, AtPlace
  <2>b. m \in Memberships /\ m.used = laRoom[laOps[r].inv].used /\ m.joined = FALSE BY <1>0, <2>a DEF Memberships
  <2> DEFINE o2 == [laOps[r] EXCEPT !.at = "end", !.phase = "stopped"]
  <2>1. /\ laOps' = [laOps EXCEPT ![r] = o2]
        /\ laStored' = laStored
        /\ laRun' = [laRun EXCEPT ![r] = FALSE]
        /\ laRoom' = [laRoom EXCEPT ![laOps[r].inv] = m]
        /\ laOps[r].at = "stop"
    BY <1>2 DEF ShutdownLocal, Op, AtPlace
  <2>2. /\ o2 \in Operations
        /\ o2.inv = laOps[r].inv /\ o2.at = "end" /\ o2.phase = "stopped"
        /\ o2.unsure = laOps[r].unsure /\ o2.cancel = laOps[r].cancel /\ o2.start = laOps[r].start
        /\ o2.cmd = laOps[r].cmd /\ o2.failed = laOps[r].failed
    BY <1>0, <2>1, <1>2 DEF Operations, Places, LaShown, Terminal
  <2> HIDE DEF o2, m
  <2>3. laOps'[r] = o2 /\ AttendeeTypes' /\ Alone(r)
    BY <1>0, <2>1, <2>2, <1>2, <2>a, <2>b DEF AttendeeTypes, Alone, Memberships
  <2>4. OperationIsTrue(laOps[r], r)'
    BY <1>0, <2>1, <2>2, <2>3, <1>2, <2>a, <2>b, LaNames DEF OperationIsTrue, LaAbsent, Memberships
  <2> QED BY <2>3, <2>4, AttendeeFrame
<1>3. CASE laRun' \in {laRun, [laRun EXCEPT ![r] = FALSE]} /\ laRoom' = laRoom
            /\ Op(r, [laOps[r] EXCEPT !.at = "end", !.phase = "cleanup_unconfirmed"])
  <2> DEFINE o2 == [laOps[r] EXCEPT !.at = "end", !.phase = "cleanup_unconfirmed"]
  <2>1. /\ laOps' = [laOps EXCEPT ![r] = o2]
        /\ laStored' = laStored
        /\ laRoom' = laRoom
        /\ laOps[r].at = "stop"
        /\ laRun' \in {laRun, [laRun EXCEPT ![r] = FALSE]}
    BY <1>3 DEF ShutdownLocal, Op, AtPlace
  <2>2. /\ o2 \in Operations
        /\ o2.inv = laOps[r].inv /\ o2.at = "end" /\ o2.phase = "cleanup_unconfirmed"
        /\ o2.unsure = laOps[r].unsure /\ o2.cancel = laOps[r].cancel /\ o2.start = laOps[r].start
        /\ o2.cmd = laOps[r].cmd /\ o2.failed = laOps[r].failed
    BY <1>0, <2>1, <1>3 DEF Operations, Places, LaShown, Terminal
  <2> HIDE DEF o2
  <2>3. laOps'[r] = o2 /\ AttendeeTypes' /\ Alone(r) BY <1>0, <2>1, <2>2, <1>3 DEF AttendeeTypes, Alone, Memberships
  <2>4. OperationIsTrue(laOps[r], r)'
    BY <1>0, <2>1, <2>2, <2>3, <1>3, LaNames DEF OperationIsTrue, LaAbsent, Memberships
  <2> QED BY <2>3, <2>4, AttendeeFrame
<1> QED BY <1>1, <1>2, <1>3 DEF ShutdownLocal

(* A command of the operator is only queued. *)
LEMMA AttendeeAdvance ==
    ASSUME AttendeeInv, NEW r \in LaRequests, Advance(r)
    PROVE  AttendeeInv'
<1>0. RequestHolds(r) BY RequestFacts
<1> USE DEF RequestHolds
<1>1. CASE Op(r, [laOps[r] EXCEPT !.cmd = "retry"])
  <2> DEFINE o2 == [laOps[r] EXCEPT !.cmd = "retry"]
  <2>1. /\ laOps' = [laOps EXCEPT ![r] = o2]
        /\ laStored' = laStored
        /\ laRun' = laRun
        /\ laRoom' = laRoom
    BY <1>1 DEF Advance, Op, AtPlace
  <2>2. /\ o2 \in Operations
        /\ o2.inv = laOps[r].inv /\ o2.at = laOps[r].at /\ o2.phase = laOps[r].phase
        /\ o2.unsure = laOps[r].unsure /\ o2.cancel = laOps[r].cancel /\ o2.start = laOps[r].start
        /\ o2.cmd = "retry" /\ o2.failed = laOps[r].failed
    BY <1>0, <2>1, <1>1 DEF Operations, Places, LaShown, Terminal
  <2> HIDE DEF o2
  <2>3. laOps'[r] = o2 /\ AttendeeTypes' /\ Alone(r) BY <1>0, <2>1, <2>2, <1>1 DEF AttendeeTypes, Alone, Memberships
  <2>4. OperationIsTrue(laOps[r], r)'
    BY <1>0, <2>1, <2>2, <2>3, <1>1, LaNames DEF OperationIsTrue, LaAbsent, Memberships
  <2> QED BY <2>3, <2>4, AttendeeFrame
<1>2. CASE Op(r, [laOps[r] EXCEPT !.cmd = "start"])
  <2> DEFINE o2 == [laOps[r] EXCEPT !.cmd = "start"]
  <2>1. /\ laOps' = [laOps EXCEPT ![r] = o2]
        /\ laStored' = laStored
        /\ laRun' = laRun
        /\ laRoom' = laRoom
    BY <1>2 DEF Advance, Op, AtPlace
  <2>2. /\ o2 \in Operations
        /\ o2.inv = laOps[r].inv /\ o2.at = laOps[r].at /\ o2.phase = laOps[r].phase
        /\ o2.unsure = laOps[r].unsure /\ o2.cancel = laOps[r].cancel /\ o2.start = laOps[r].start
        /\ o2.cmd = "start" /\ o2.failed = laOps[r].failed
    BY <1>0, <2>1, <1>2 DEF Operations, Places, LaShown, Terminal
  <2> HIDE DEF o2
  <2>3. laOps'[r] = o2 /\ AttendeeTypes' /\ Alone(r) BY <1>0, <2>1, <2>2, <1>2 DEF AttendeeTypes, Alone, Memberships
  <2>4. OperationIsTrue(laOps[r], r)'
    BY <1>0, <2>1, <2>2, <2>3, <1>2, LaNames DEF OperationIsTrue, LaAbsent, Memberships
  <2> QED BY <2>3, <2>4, AttendeeFrame
<1> QED BY <1>1, <1>2 DEF Advance

(* So is a cancellation. *)
LEMMA AttendeeCancel ==
    ASSUME AttendeeInv, NEW r \in LaRequests, CancelLocal(r)
    PROVE  AttendeeInv'
<1>0. RequestHolds(r) BY RequestFacts
<1> USE DEF RequestHolds
<1>1. CASE TRUE
  <2> DEFINE o2 == [laOps[r] EXCEPT !.cancel = TRUE]
  <2>1. /\ laOps' = [laOps EXCEPT ![r] = o2]
        /\ laStored' = laStored
        /\ laRun' = laRun
        /\ laRoom' = laRoom
    BY <1>1 DEF CancelLocal, Op, AtPlace
  <2>2. /\ o2 \in Operations
        /\ o2.inv = laOps[r].inv /\ o2.at = laOps[r].at /\ o2.phase = laOps[r].phase
        /\ o2.unsure = laOps[r].unsure /\ o2.cancel = TRUE /\ o2.start = laOps[r].start
        /\ o2.cmd = laOps[r].cmd /\ o2.failed = laOps[r].failed
    BY <1>0, <2>1 DEF Operations, Places, LaShown, Terminal
  <2> HIDE DEF o2
  <2>3. laOps'[r] = o2 /\ AttendeeTypes' /\ Alone(r) BY <1>0, <2>1, <2>2 DEF AttendeeTypes, Alone, Memberships
  <2>4. OperationIsTrue(laOps[r], r)' BY <1>0, <2>1, <2>2, <2>3, LaNames DEF OperationIsTrue, LaAbsent, Memberships
  <2> QED BY <2>3, <2>4, AttendeeFrame
<1> QED BY <1>1

(* The invariant of the local attendee service holds in every reachable state. *)
THEOREM AttendeeInvariant == LaSpec => []AttendeeInv
<1>1. LaInit => AttendeeInv
  BY LaNames DEF NoOp, Operations, Places, LaShown, LaInit, AttendeeTypes, Memberships, AttendeeInv,
     OperationIsTrue
<1>2. AttendeeInv /\ [LaNext]_laVars => AttendeeInv'
  <2> SUFFICES ASSUME AttendeeInv, [LaNext]_laVars PROVE AttendeeInv'
    OBVIOUS
  <2>1. ASSUME NEW r \in LaRequests,
               \/ LaTask(r) \/ SessionEnds(r) \/ Advance(r) \/ CancelLocal(r)
               \/ \E i \in LaInvites : CreateLocal(r, i)
        PROVE  AttendeeInv'
    BY <2>1, AttendeeCreate, AttendeeAdmit, AttendeeResolve, AttendeePrepare, AttendeeHold,
       AttendeeStart, AttendeeSession, AttendeeShutdown, AttendeeAdvance, AttendeeCancel
       DEF LaTask
  <2>2. ASSUME ShutdownService PROVE AttendeeInv'
    <3>1. ASSUME NEW r \in LaRequests
          PROVE  /\ laOps'[r] \in Operations
                 /\ laOps'[r].at = laOps[r].at /\ laOps'[r].phase = laOps[r].phase
                 /\ laOps'[r].inv = laOps[r].inv /\ laOps'[r].unsure = laOps[r].unsure
      <4>1. laOps[r] \in Operations BY DEF AttendeeInv, AttendeeTypes
      <4>2. laOps'[r] \in {laOps[r], [laOps[r] EXCEPT !.cancel = TRUE]} BY <2>2 DEF ShutdownService
      <4> QED BY <4>1, <4>2 DEF Operations
    <3>3. UNCHANGED <<laStored, laRoom, laRun>> BY <2>2 DEF ShutdownService
    <3>4. AttendeeTypes' BY <3>1, <2>2, <3>3 DEF AttendeeInv, AttendeeTypes, ShutdownService
    <3>5. ASSUME NEW r \in LaRequests PROVE OperationIsTrue(laOps[r], r)'
      BY <3>1, <3>3 DEF AttendeeInv, OperationIsTrue, LaAbsent
    <3> QED BY <3>4, <3>5 DEF AttendeeInv
  <2>3. ASSUME RestartService PROVE AttendeeInv'
    <3>1. NoOp \in Operations /\ NoOp.at = "none" /\ NoOp.phase = "none" BY DEF NoOp, Operations, Places, LaShown
    <3>2. /\ laOps' = [r \in LaRequests |-> NoOp] /\ UNCHANGED <<laStored, laRoom>>
          /\ laRun' \in {laRun, [r \in LaRequests |-> FALSE]}
      BY <2>3 DEF RestartService
    <3>3. AttendeeTypes' BY <3>1, <3>2 DEF AttendeeInv, AttendeeTypes
    <3>4. ASSUME NEW r \in LaRequests PROVE OperationIsTrue(laOps[r], r)'
      BY <3>2, <3>1 DEF AttendeeInv, OperationIsTrue
    <3> QED BY <3>3, <3>4 DEF AttendeeInv
  <2>4. ASSUME NEW i \in LaInvites, RemoteRevokes(i) PROVE AttendeeInv'
    <3>1. /\ laRoom' = [laRoom EXCEPT ![i] = [used |-> "revoked", joined |-> FALSE]]
          /\ UNCHANGED <<laOps, laStored, laRun>>
      BY <2>4 DEF RemoteRevokes
    <3>2. laRoom \in [LaInvites -> Memberships] BY DEF AttendeeInv, AttendeeTypes
    <3>3. AttendeeTypes' BY <3>1, <3>2 DEF AttendeeInv, AttendeeTypes, Memberships
    <3>4. ASSUME NEW r \in LaRequests PROVE OperationIsTrue(laOps[r], r)'
      <4>1. OperationIsTrue(laOps[r], r) BY DEF AttendeeInv
      <4>2. \A j \in LaInvites : laRoom'[j].used = r => laRoom'[j] = laRoom[j] BY <3>1, <3>2, LaNames
      <4> QED BY <3>1, <4>1, <4>2 DEF OperationIsTrue, LaAbsent
    <3> QED BY <3>3, <3>4 DEF AttendeeInv
  <2>5. CASE UNCHANGED laVars BY <2>5 DEF laVars, AttendeeInv, AttendeeTypes, OperationIsTrue, LaAbsent
  <2> QED BY <2>1, <2>2, <2>3, <2>4, <2>5 DEF LaNext
<1> QED BY <1>1, <1>2, PTL DEF LaSpec

(* An operation that says stopped, failed or missing has no runtime and no joined       *)
(* membership, whatever answers and whatever lives of the service were lost, and nobody *)
(* but the receipt's request ever used its invitation.                                  *)
THEOREM AttendeeSettled == LaSpec => []SettledIsTrue
<1>1. AttendeeInv => SettledIsTrue
  BY LaNames DEF SettledIsTrue, LaAbsent, AttendeeInv, AttendeeTypes, Operations, OperationIsTrue, LaShown,
     Terminal, StatusOf
<1> QED BY <1>1, AttendeeInvariant, PTL

------------------------
(* Connector: the room's word on a conversation is the client's. *)

CnPlaces == {"absent", "pending", "admitted", "ready"}
CnClients == [st : CnPlaces, tried : BOOLEAN, closed : BOOLEAN, pend : Nat, left : BOOLEAN,
            base : Nat, cursor : Nat, wait : {"none", "subscribed", "events"}, sub : Nat, given : Nat]
Invites == [used : Nat, revoked : BOOLEAN, expired : BOOLEAN, left : BOOLEAN]
Events == [by : Nat, id : Nat]
Hearings == [seen : SUBSET Nat, way : SUBSET SUBSET Nat]

(* Every cursor is within the room's log, and an admitted client is the one the invitation *)
(* was consumed by.  A wait that reads events has the ones up to its cursor.                *)
Placed(r, c) ==
    /\ r \in CnClients
    /\ r.cursor <= LastSeq /\ r.base <= LastSeq
    /\ r.st \in {"admitted", "ready"} => cnInvite.used = c
    /\ r.wait # "none" => r.st = "ready"
    /\ r.wait = "events" => r.cursor <= r.given

ConnectorTypes ==
    /\ cnInvite \in Invites /\ cnLog \in Seq(Events)
    /\ cnCl \in [Conversations -> CnClients]
    /\ cnHeard \in [Conversations -> Hearings]
    /\ cnTold \in [CnIds -> {"none", "committed", "rejected"}]
    /\ cnLoss \in Nat /\ cnLate \subseteq Conversations \X CnIds

(* What a client was given reaches from where it began to its cursor and no further. *)
Heard(c, r) == Others(c, r.base, r.cursor) \subseteq Given(c) /\ Given(c) \subseteq 1 .. r.cursor

AllPlaced == \A c \in Conversations : Placed(cnCl[c], c)

\* A message has one place in the log.
OnePlace(id) == \A m, n \in 1 .. LastSeq : cnLog[m].id = id /\ cnLog[n].id = id => m = n

Spoken ==
    \A id \in CnIds :
        /\ OnePlace(id)
        /\ cnTold[id] = "committed" => Stored(id)

ConnectorInv == ConnectorTypes /\ AllPlaced /\ NothingSkipped /\ Spoken

------------------------
(* The log grows at its end: what is behind a cursor stays what it was. *)
Grows == cnLog' = cnLog \/ \E e \in Events : cnLog' = Append(cnLog, e)

(* A room's log only grows at its end. *)
LEMMA LogGrows ==
    ASSUME cnLog \in Seq(Events), Grows
    PROVE  /\ cnLog' \in Seq(Events) /\ LastSeq \in Nat /\ LastSeq' \in Nat /\ LastSeq <= LastSeq'
           /\ \A n \in 1 .. LastSeq : cnLog'[n] = cnLog[n]
BY DEF Grows, LastSeq

(* What others said within a stretch of the log that is already written does not change. *)
LEMMA OthersStay ==
    ASSUME cnLog \in Seq(Events), Grows, NEW c, NEW from \in Nat, NEW to \in Nat, to <= LastSeq
    PROVE  Others(c, from, to)' = Others(c, from, to)
BY LogGrows DEF Others

(* The invitation keeps its client, and stays revoked. *)
InviteMoves ==
    /\ cnInvite' \in Invites
    /\ cnInvite.used = 0 \/ cnInvite'.used = cnInvite.used
    /\ cnInvite.revoked => cnInvite'.revoked

(* A step that moves one conversation's client leaves every other where it was. *)
LEMMA ClientMoves ==
    ASSUME ConnectorInv, NEW c \in Conversations, NEW r \in CnClients,
           cnCl' = [cnCl EXCEPT ![c] = r], Placed(r, c)', Grows, InviteMoves
    PROVE  AllPlaced' /\ cnCl' \in [Conversations -> CnClients]
<1>1. cnCl \in [Conversations -> CnClients] /\ cnLog \in Seq(Events) BY DEF ConnectorInv, ConnectorTypes
<1>2. LastSeq \in Nat /\ LastSeq' \in Nat /\ LastSeq <= LastSeq' BY <1>1, LogGrows
<1>3. ASSUME NEW d \in Conversations, d # c PROVE Placed(cnCl[d], d)'
  <2>1. Placed(cnCl[d], d) /\ cnCl'[d] = cnCl[d] BY <1>1, <1>3 DEF ConnectorInv, AllPlaced
  <2>2. d # 0 BY DEF Conversations
  <2>3. cnCl[d].cursor \in Nat /\ cnCl[d].base \in Nat BY <2>1 DEF Placed, CnClients
  <2> QED BY <2>1, <2>2, <2>3, <1>2 DEF Placed, InviteMoves
<1>4. Placed(cnCl[c], c)' BY <1>1
<1> QED BY <1>1, <1>3, <1>4 DEF AllPlaced, Conversations

(* A message enters the log only when it is not there yet. *)
Says ==
    \/ cnLog' = cnLog
    \/ \E e \in Events : cnLog' = Append(cnLog, e) /\ (e.id \notin CnIds \/ ~Stored(e.id))

(* Saying something appends one event. *)
LEMMA SaysGrows == Says => Grows
BY DEF Says, Grows

(* What a conversation was told of its own messages stays what the log says. *)
LEMMA SpokenStays ==
    ASSUME ConnectorInv, Says, InviteMoves,
           \A id \in CnIds : cnTold'[id] = cnTold[id] \/ cnTold'[id] = "rejected"
                                \/ (cnTold'[id] = "committed" /\ Stored(id)')
    PROVE  Spoken'
<1>1. cnLog \in Seq(Events) /\ Spoken BY DEF ConnectorInv, ConnectorTypes
<1>2. /\ cnLog' \in Seq(Events) /\ LastSeq \in Nat /\ LastSeq' \in Nat /\ LastSeq <= LastSeq'
      /\ \A n \in 1 .. LastSeq : cnLog'[n] = cnLog[n]
  BY <1>1, LogGrows, SaysGrows
<1>3. ASSUME NEW id \in CnIds PROVE OnePlace(id)' BY <1>1, <1>2 DEF Spoken, OnePlace, LastSeq, Stored, Says
<1>4. ASSUME NEW id \in CnIds, Stored(id) PROVE Stored(id)' BY <1>2, <1>4 DEF Stored
<1> QED BY <1>1, <1>3, <1>4 DEF Spoken, InviteMoves

------------------------

(* What a step of one client has to show. *)
LEMMA CnClientStep ==
    ASSUME ConnectorInv, NEW c \in Conversations, NEW r \in CnClients,
           cnCl' = [cnCl EXCEPT ![c] = r], Placed(r, c)', Says, InviteMoves, cnLoss' \in Nat,
           cnTold' \in [CnIds -> {"none", "committed", "rejected"}],
           \A id \in CnIds : cnTold'[id] = cnTold[id] \/ cnTold'[id] = "rejected"
                                \/ (cnTold'[id] = "committed" /\ Stored(id)'),
           cnHeard' \in [Conversations -> Hearings],
           \A d \in Conversations \ {c} : cnHeard'[d] = cnHeard[d],
           cnLate' \subseteq Conversations \X CnIds,
           r.st = "ready" => Heard(c, r)'
    PROVE  ConnectorInv'
<1>1. Grows /\ cnLog \in Seq(Events) /\ cnCl \in [Conversations -> CnClients]
  BY SaysGrows DEF ConnectorInv, ConnectorTypes
<1>2. AllPlaced' /\ cnCl' \in [Conversations -> CnClients] BY <1>1, ClientMoves
<1>3. /\ cnLog' \in Seq(Events) /\ LastSeq \in Nat
      /\ \A n \in 1 .. LastSeq : cnLog'[n] = cnLog[n]
  BY <1>1, LogGrows
<1>4. Spoken' BY SpokenStays
<1>5. ConnectorTypes' BY <1>2, <1>3 DEF ConnectorTypes, InviteMoves, Conversations
<1>6. ASSUME NEW d \in Conversations, d # c, cnCl'[d].st = "ready"
      PROVE  Heard(d, cnCl[d])'
  <2>1. cnCl'[d] = cnCl[d] /\ cnHeard'[d] = cnHeard[d] BY <1>1, <1>6
  <2>2. cnCl[d].base \in Nat /\ cnCl[d].cursor \in Nat /\ cnCl[d].cursor <= LastSeq
    BY <1>1 DEF ConnectorInv, AllPlaced, Placed, CnClients
  <2>3. Others(d, cnCl[d].base, cnCl[d].cursor)' = Others(d, cnCl[d].base, cnCl[d].cursor)
    BY <2>1, <2>2, <1>3 DEF Others
  <2>4. Heard(d, cnCl[d]) /\ Given(d)' = Given(d) BY <2>1, <1>6 DEF ConnectorInv, NothingSkipped, Heard, Given
  <2> QED BY <2>1, <2>3, <2>4 DEF Heard
<1>8. NothingSkipped' BY <1>6, <1>1 DEF NothingSkipped, Heard, Conversations
<1> QED BY <1>2, <1>4, <1>5, <1>8 DEF ConnectorInv

(* The same where nothing is said or told and the invitation stays: a wait, a cursor. *)
LEMMA QuietStep ==
    ASSUME ConnectorInv, NEW c \in Conversations, NEW r \in CnClients,
           cnCl' = [cnCl EXCEPT ![c] = r], Placed(r, c), cnLoss' \in Nat,
           cnLog' = cnLog, cnInvite' = cnInvite, cnTold' = cnTold,
           cnHeard' \in [Conversations -> Hearings],
           \A d \in Conversations \ {c} : cnHeard'[d] = cnHeard[d],
           cnLate' = cnLate, r.st = "ready" => Heard(c, r)'
    PROVE  ConnectorInv'
BY CnClientStep DEF ConnectorInv, ConnectorTypes, Says, InviteMoves, Placed, LastSeq

(* What the invariant says of one client. *)
LEMMA ClientFacts ==
    ASSUME ConnectorInv, NEW c \in Conversations
    PROVE  /\ cnCl[c] \in CnClients /\ Placed(cnCl[c], c) /\ LastSeq \in Nat /\ cnLoss \in Nat
           /\ cnCl[c].st = "ready" => Heard(c, cnCl[c])
           /\ cnHeard \in [Conversations -> Hearings] /\ cnLate \subseteq Conversations \X CnIds
           /\ \A from, to \in Nat : Others(c, from, to) \in SUBSET Nat
BY DEF ConnectorInv, ConnectorTypes, AllPlaced, NothingSkipped, Heard, LastSeq, Others

(* Where a client began and where it stands are places of the log. *)
LEMMA Standing ==
    ASSUME ConnectorInv, NEW c \in Conversations
    PROVE  /\ cnCl[c].base \in Nat /\ cnCl[c].cursor \in Nat /\ LastSeq \in Nat
           /\ cnCl[c].base <= LastSeq /\ cnCl[c].cursor <= LastSeq
BY ClientFacts DEF Placed, CnClients

(* What a client was given of the log is not changed by what is said next. *)
LEMMA HeardStays ==
    ASSUME ConnectorInv, Says, NEW c \in Conversations, NEW r \in CnClients,
           r.cursor = cnCl[c].cursor, r.base = cnCl[c].base, cnHeard' = cnHeard, cnCl[c].st = "ready"
    PROVE  Heard(c, r)'
<1>1. Others(c, r.base, r.cursor)' = Others(c, r.base, r.cursor)
  BY SaysGrows, Standing, OthersStay DEF ConnectorInv, ConnectorTypes
<1> QED BY <1>1, ClientFacts DEF Heard, Given

(* A client that stands where it stood was given what it was given. *)
LEMMA HeardAgain ==
    ASSUME ConnectorInv, NEW c \in Conversations, NEW r \in CnClients, cnLog' = cnLog, cnHeard' = cnHeard,
           r.st = cnCl[c].st, r.cursor = cnCl[c].cursor, r.base = cnCl[c].base
    PROVE  r.st = "ready" => Heard(c, r)'
BY HeardStays DEF Says

(* A conversation without a client is placed. *)
LEMMA Gone ==
    ASSUME ConnectorInv, NEW c \in Conversations
    PROVE  NoClient \in CnClients /\ Placed(NoClient, c) /\ NoClient.st = "absent"
BY ClientFacts DEF NoClient, CnClients, CnPlaces, Placed

(* A client that is removed leaves the room's log and the invite alone. *)
LEMMA RemovedStep ==
    ASSUME ConnectorInv, NEW c \in Conversations, Removed(c), cnLoss' \in Nat,
           cnLog' = cnLog, cnInvite' = cnInvite, cnTold' = cnTold, cnLate' = cnLate, cnHeard' = cnHeard
    PROVE  ConnectorInv'
BY Gone, ClientFacts, QuietStep DEF Removed, Client

(* A wait that ends leaves the cursor where it was. *)
LEMMA EndWaitStep ==
    ASSUME ConnectorInv, NEW c \in Conversations, EndWait(c), cnLoss' \in Nat,
           cnLog' = cnLog, cnInvite' = cnInvite, cnTold' = cnTold, cnLate' = cnLate, cnHeard' = cnHeard
    PROVE  ConnectorInv'
<1>b. PICK r \in CnClients : r = [cnCl[c] EXCEPT !.wait = "none", !.sub = 0, !.given = 0] BY ClientFacts DEF CnClients
<1>1. /\ r.st = cnCl[c].st /\ r.base = cnCl[c].base /\ r.cursor = cnCl[c].cursor
      /\ r.wait = "none"
  BY <1>b, ClientFacts DEF CnClients
<1>2. cnCl' = [cnCl EXCEPT ![c] = r] BY <1>b DEF EndWait, Client
<1>3. Placed(r, c) BY <1>1, ClientFacts DEF Placed
<1> QED BY <1>1, <1>2, <1>3, HeardAgain, ClientFacts, QuietStep

(* What a page on its way holds was given. *)
LEMMA PageGiven ==
    ASSUME NEW H \in Hearings, NEW page \in SUBSET Nat
    PROVE  /\ [H EXCEPT !.way = @ \cup {page}] \in Hearings
           /\ H.seen \cup UNION (H.way \cup {page}) = (H.seen \cup UNION H.way) \cup page
BY DEF Hearings

(* An answer of the room moves the cursor and is given to the conversation. *)
LEMMA AnswersStep ==
    ASSUME ConnectorInv, NEW c \in Conversations, NEW top \in Nat, cnCl[c].cursor <= top, top <= LastSeq,
           HubAnswers(c, top), cnLog' = cnLog, cnInvite' = cnInvite, cnTold' = cnTold, cnLate' = cnLate
    PROVE  ConnectorInv'
<1>b. PICK r \in CnClients : r = [cnCl[c] EXCEPT !.wait = "none", !.sub = 0, !.given = 0, !.cursor = top]
  BY ClientFacts DEF CnClients
<1> DEFINE page == Others(c, cnCl[c].cursor, top)
<1>1. r.st = cnCl[c].st /\ r.base = cnCl[c].base /\ r.cursor = top /\ r.wait = "none"
  BY <1>b, ClientFacts DEF CnClients
<1>2. cnCl' = [cnCl EXCEPT ![c] = r] BY <1>b DEF HubAnswers, Client
<1>3. Placed(r, c) BY <1>1, ClientFacts DEF Placed
<1>4. cnCl[c].cursor \in Nat /\ cnCl[c].base \in Nat BY ClientFacts DEF CnClients
<1>5. /\ Others(c, r.base, top) \subseteq Others(c, r.base, cnCl[c].cursor) \cup page
      /\ page \subseteq 1 .. top /\ page \in SUBSET Nat
  BY <1>1, <1>4 DEF Others
<1>6. cnHeard' = [cnHeard EXCEPT ![c] = [cnHeard[c] EXCEPT !.way = @ \cup {page}]] BY ClientFacts DEF HubAnswers
<1>7. cnHeard[c] \in Hearings BY ClientFacts
<1> HIDE DEF page
<1>8. /\ cnHeard' \in [Conversations -> Hearings]
      /\ \A d \in Conversations \ {c} : cnHeard'[d] = cnHeard[d]
      /\ cnHeard'[c] = [cnHeard[c] EXCEPT !.way = @ \cup {page}]
  BY <1>5, <1>6, <1>7, PageGiven, ClientFacts
<1>9. Given(c)' = Given(c) \cup page BY <1>5, <1>7, <1>8, PageGiven DEF Given, Hearings
<1>10. r.st = "ready" => Heard(c, r)'
  <2> SUFFICES ASSUME cnCl[c].st = "ready" PROVE Heard(c, r)'
    BY <1>1
  <2>1. Others(c, r.base, cnCl[c].cursor) \subseteq Given(c) /\ Given(c) \subseteq 1 .. cnCl[c].cursor
    BY <1>1, ClientFacts DEF Heard
  <2>2. Others(c, r.base, top)' = Others(c, r.base, top) BY DEF Others
  <2>3. 1 .. cnCl[c].cursor \subseteq 1 .. top BY <1>4
  <2> QED BY <1>1, <1>5, <1>9, <2>1, <2>2, <2>3 DEF Heard
<1>11. cnLoss' \in Nat BY ClientFacts DEF HubAnswers
<1> QED BY <1>1, <1>2, <1>3, <1>8, <1>10, <1>11, QuietStep

(* An answer that reaches the conversation was given before. *)
LEMMA DeliveredStep ==
    ASSUME ConnectorInv, NEW c \in Conversations, Delivered(c)
    PROVE  ConnectorInv'
<1>1. PICK page \in cnHeard[c].way :
         cnHeard' = [cnHeard EXCEPT ![c] = [seen |-> @.seen \cup page, way |-> @.way \ {page}]]
  BY DEF Delivered
<1>2. cnHeard[c] \in Hearings /\ cnHeard \in [Conversations -> Hearings] BY ClientFacts
<1>3. /\ cnHeard'[c] = [seen |-> cnHeard[c].seen \cup page, way |-> cnHeard[c].way \ {page}]
      /\ \A d \in Conversations \ {c} : cnHeard'[d] = cnHeard[d]
  BY <1>1, <1>2
<1>4. cnHeard' \in [Conversations -> Hearings] BY <1>1, <1>2 DEF Hearings
<1>5. Given(c)' = Given(c) BY <1>1, <1>3 DEF Given
<1>6. PICK r \in CnClients : r = cnCl[c] BY ClientFacts
<1>7. cnCl' = [cnCl EXCEPT ![c] = r] BY <1>6 DEF Delivered, ConnectorInv, ConnectorTypes
<1>8. r.st = "ready" => Heard(c, r)' BY <1>5, <1>6, ClientFacts DEF Heard, Delivered, Others
<1> QED BY <1>3, <1>4, <1>6, <1>7, <1>8, ClientFacts, QuietStep DEF Delivered

(* The hub's wait: the snapshot, each event, the end of the wait, its answer's way and a resynchronisation. *)
LEMMA WaitSteps ==
    ASSUME ConnectorInv, NEW c \in Conversations,
           WaitNext(c) \/ WaitSnapshot(c) \/ WaitEvent(c) \/ WaitEnds(c) \/ Delivered(c) \/ Resync(c)
    PROVE  ConnectorInv'
<1>1. CASE WaitNext(c)
  <2>b. PICK r \in CnClients : r = [cnCl[c] EXCEPT !.wait = "subscribed", !.sub = LastSeq]
    BY ClientFacts DEF CnClients
  <2>1. /\ r.st = cnCl[c].st /\ r.base = cnCl[c].base /\ r.cursor = cnCl[c].cursor
        /\ r.wait = "subscribed"
    BY <2>b, ClientFacts DEF CnClients
  <2>2. cnCl' = [cnCl EXCEPT ![c] = r] BY <2>b, <1>1 DEF WaitNext, Client
  <2>3. Placed(r, c) BY <1>1, <2>1, ClientFacts DEF Placed, WaitNext
  <2>4. r.st = "ready" => Heard(c, r)' BY <1>1, <2>1, HeardAgain DEF WaitNext
  <2> QED BY <1>1, <2>1, <2>2, <2>3, <2>4, ClientFacts, QuietStep DEF WaitNext
<1>2. CASE WaitSnapshot(c)
  <2>0. cnCl[c].st = "ready" BY <1>2, ClientFacts DEF WaitSnapshot, Waiting, Placed
  <2>1. CASE EndWait(c) /\ UNCHANGED <<cnHeard, cnLoss>> BY <1>2, <2>1, ClientFacts, EndWaitStep DEF WaitSnapshot
  <2>2. CASE HubAnswers(c, LastSeq) BY <1>2, <2>2, ClientFacts, AnswersStep DEF WaitSnapshot, Placed
  <2>3. CASE /\ Client(c, [cnCl[c] EXCEPT !.wait = "events", !.given = LastSeq])
             /\ UNCHANGED <<cnHeard, cnLoss>>
    <3>b. PICK r \in CnClients : r = [cnCl[c] EXCEPT !.wait = "events", !.given = LastSeq]
      BY ClientFacts DEF CnClients
    <3>1. /\ r.st = cnCl[c].st /\ r.base = cnCl[c].base /\ r.cursor = cnCl[c].cursor
          /\ r.given = LastSeq
      BY <3>b, ClientFacts DEF CnClients
    <3>2. cnCl' = [cnCl EXCEPT ![c] = r] BY <3>b, <2>3 DEF Client
    <3>3. Placed(r, c) BY <1>2, <3>1, <2>0, ClientFacts DEF Placed
    <3>4. r.st = "ready" => Heard(c, r)' BY <1>2, <2>3, <3>1, HeardAgain DEF WaitSnapshot
    <3> QED BY <1>2, <2>3, <3>1, <3>2, <3>3, <3>4, ClientFacts, QuietStep DEF WaitSnapshot
  <2> QED BY <1>2, <2>1, <2>2, <2>3 DEF WaitSnapshot
<1>3. CASE WaitEvent(c)
  <2> DEFINE n == cnCl[c].sub + 1
  <2>1. /\ n \in Nat /\ n <= LastSeq /\ cnCl[c].given \in Nat /\ cnCl[c].cursor \in Nat
        /\ cnCl[c].cursor <= cnCl[c].given
    BY <1>3, ClientFacts DEF WaitEvent, Waiting, CnClients, Placed
  <2>2. CASE EndWait(c) /\ UNCHANGED cnHeard /\ cnLoss' \in Nat BY <1>3, <2>2, EndWaitStep DEF WaitEvent
  <2>3. CASE n > cnCl[c].given /\ HubAnswers(c, n)
    <3>1. cnCl[c].cursor <= n BY <2>1, <2>3
    <3> QED BY <1>3, <2>1, <2>3, <3>1, AnswersStep DEF WaitEvent
  <2>4. CASE /\ Client(c, [cnCl[c] EXCEPT !.sub = n, !.given = IF n > @ THEN n ELSE @])
             /\ UNCHANGED <<cnHeard, cnLoss>>
    <3>b. PICK r \in CnClients : r = [cnCl[c] EXCEPT !.sub = n, !.given = IF n > @ THEN n ELSE @]
      BY <2>1, ClientFacts DEF CnClients
    <3>1. /\ r.st = cnCl[c].st /\ r.base = cnCl[c].base /\ r.cursor = cnCl[c].cursor
          /\ r.wait = cnCl[c].wait /\ r.given >= cnCl[c].given
      BY <3>b, <2>1, ClientFacts DEF CnClients
    <3>2. cnCl' = [cnCl EXCEPT ![c] = r] BY <3>b, <2>4 DEF Client
    <3>3. Placed(r, c) BY <2>1, <3>1, ClientFacts DEF Placed, CnClients
    <3>4. r.st = "ready" => Heard(c, r)' BY <1>3, <2>4, <3>1, HeardAgain DEF WaitEvent
    <3> QED BY <1>3, <2>4, <3>1, <3>2, <3>3, <3>4, ClientFacts, QuietStep DEF WaitEvent
  <2>5. CnFault => cnLoss' \in Nat BY ClientFacts DEF CnFault
  <2>6. cnLoss' = cnLoss => cnLoss' \in Nat BY ClientFacts
  <2> QED BY <1>3, <2>2, <2>3, <2>4, <2>5, <2>6, Zenon DEF WaitEvent
<1>4. CASE WaitEnds(c) BY <1>4, ClientFacts, EndWaitStep DEF WaitEnds
<1>5. CASE Resync(c)
  <2>b. PICK r \in CnClients : r = [cnCl[c] EXCEPT !.base = LastSeq, !.cursor = LastSeq]
    BY <1>5, ClientFacts DEF Resync, Waiting, CnClients
  <2>1. r.st = cnCl[c].st /\ r.base = LastSeq /\ r.cursor = LastSeq /\ r.wait = "none"
    BY <2>b, <1>5, ClientFacts DEF Resync, Waiting, CnClients
  <2>2. cnCl' = [cnCl EXCEPT ![c] = r] BY <2>b, <1>5 DEF Resync, Client
  <2>3. Placed(r, c) BY <2>1, ClientFacts DEF Placed
  <2>4. Heard(c, r)'
    <3>1. /\ Given(c)' = Given(c) /\ Given(c) \subseteq 1 .. cnCl[c].cursor
          /\ cnCl[c].cursor \in Nat /\ cnCl[c].cursor <= LastSeq /\ LastSeq \in Nat
      BY <1>5, ClientFacts DEF Resync, Heard, Given, Placed, CnClients
    <3>2. Given(c) \subseteq 1 .. LastSeq BY <3>1
    <3>3. Others(c, r.base, r.cursor)' = {} BY <2>1, <3>1 DEF Others
    <3> QED BY <2>1, <3>1, <3>2, <3>3 DEF Heard
  <2> QED BY <1>5, <2>1, <2>2, <2>3, <2>4, ClientFacts, QuietStep DEF Resync
<1>6. CASE Delivered(c) BY <1>6, DeliveredStep
<1> QED BY <1>1, <1>2, <1>3, <1>4, <1>5, <1>6

------------------------
(* Admission. *)

(* An invite that admits is used by the conversation it admits. *)
LEMMA AdmitsMoves ==
    ASSUME ConnectorInv, NEW c \in Conversations, Admits(c)
    PROVE  /\ Says /\ InviteMoves
           /\ AdmitFirst(c) \/ AdmitAgain(c) => cnInvite'.used = c
<1>1. cnInvite \in Invites /\ c \in Nat /\ CnIds \subseteq Nat \ {0, LeaveId}
  BY CnAssumption DEF ConnectorInv, ConnectorTypes, Conversations
<1>2. CASE AdmitFirst(c) BY <1>2, <1>1 DEF Admits, Log, Event, Events, Says, InviteMoves, Invites, AdmitFirst
<1>3. CASE ~AdmitFirst(c) BY <1>1, <1>3 DEF Admits, AdmitAgain, CnSession, Says, InviteMoves
<1> QED BY <1>2, <1>3

(* A step that touches neither log nor invite satisfies what the others rely on. *)
LEMMA UnchangedMoves ==
    ASSUME ConnectorInv, UNCHANGED <<cnInvite, cnLog>>
    PROVE  Says /\ InviteMoves
BY DEF ConnectorInv, ConnectorTypes, Says, InviteMoves

(* No cursor is past the end of the log. *)
LEMMA Bounded ==
    ASSUME ConnectorInv, Says, NEW c \in Conversations
    PROVE  LastSeq \in Nat /\ LastSeq' \in Nat /\ cnCl[c].cursor <= LastSeq' /\ cnCl[c].base <= LastSeq'
<1>1. LastSeq \in Nat /\ LastSeq' \in Nat /\ LastSeq <= LastSeq'
  BY LogGrows, SaysGrows DEF ConnectorInv, ConnectorTypes
<1> QED BY <1>1, Standing

(* Joining: the reservation, the post and its answer, the busy refusal, the cancelled preparation and the
   release of its receipt. *)
LEMMA JoinSteps ==
    ASSUME ConnectorInv, NEW c \in Conversations,
           Reserve(c) \/ JoinPost(c) \/ JoinBusy(c) \/ JoinRead(c) \/ CancelPrepared(c) \/ ReleaseReceipt(c)
    PROVE  ConnectorInv'
<1>0. cnTold \in [CnIds -> {"none", "committed", "rejected"}] BY DEF ConnectorInv, ConnectorTypes
<1>1. CASE Reserve(c)
  <2>b. PICK r \in CnClients : r = [NoClient EXCEPT !.st = "pending"] BY DEF NoClient, CnClients, CnPlaces
  <2>1. r.st = "pending" /\ r.base = 0 /\ r.cursor = 0 /\ r.wait = "none" BY <2>b DEF NoClient, CnClients, CnPlaces
  <2>2. cnCl' = [cnCl EXCEPT ![c] = r] BY <2>b, <1>1 DEF Reserve, Client
  <2>3. Placed(r, c) BY <2>1, ClientFacts DEF Placed
  <2>4. /\ cnHeard' \in [Conversations -> Hearings]
        /\ \A d \in Conversations \ {c} : cnHeard'[d] = cnHeard[d]
    BY <1>1, ClientFacts DEF Reserve
  <2> QED BY <1>1, <2>1, <2>2, <2>3, <2>4, ClientFacts, QuietStep DEF Reserve
<1>2. CASE JoinPost(c)
  <2>0. cnCl[c].wait = "none" BY <1>2, ClientFacts DEF JoinPost, Placed, CnClients
  <2>1. CASE /\ AdmitFirst(c) \/ AdmitAgain(c)
             /\ Admits(c) /\ Client(c, [cnCl[c] EXCEPT !.st = "admitted", !.tried = TRUE])
             /\ UNCHANGED cnLoss
    <3>2. PICK r \in CnClients : r = [cnCl[c] EXCEPT !.st = "admitted", !.tried = TRUE]
      BY ClientFacts DEF CnClients, CnPlaces
    <3>a. /\ r.st = "admitted" /\ r.base = cnCl[c].base /\ r.cursor = cnCl[c].cursor
          /\ r.wait = "none"
          /\ cnCl' = [cnCl EXCEPT ![c] = r]
      BY <3>2, <2>0, <2>1, ClientFacts DEF Client, CnClients
    <3>3. Says /\ InviteMoves /\ cnInvite'.used = c BY <2>1, AdmitsMoves
    <3>4. Placed(r, c)' BY <3>a, <3>3, Bounded DEF Placed
    <3> QED BY <1>0, <1>2, <2>1, <3>a, <3>3, <3>4, ClientFacts, CnClientStep DEF JoinPost
  <2>2. CASE Removed(c) /\ UNCHANGED <<cnInvite, cnLog, cnLoss>> BY <1>2, <2>2, ClientFacts, RemovedStep DEF JoinPost
  <2>3. CASE /\ CnFault /\ Client(c, [cnCl[c] EXCEPT !.tried = TRUE])
             /\ Admits(c) \/ UNCHANGED <<cnInvite, cnLog>>
    <3>2. PICK r \in CnClients : r = [cnCl[c] EXCEPT !.tried = TRUE] BY ClientFacts DEF CnClients, CnPlaces
    <3>a. /\ r.st = cnCl[c].st /\ r.base = cnCl[c].base /\ r.cursor = cnCl[c].cursor
          /\ r.wait = "none"
          /\ cnCl' = [cnCl EXCEPT ![c] = r]
      BY <3>2, <2>0, <2>3, ClientFacts DEF Client, CnClients
    <3>3. Says /\ InviteMoves BY <2>3, AdmitsMoves, UnchangedMoves
    <3>4. r.st = "pending" BY <1>2, <3>a DEF JoinPost
    <3>5. Placed(r, c)' BY <3>a, <3>3, <3>4, Bounded DEF Placed
    <3>6. cnLoss' \in Nat BY <2>3, ClientFacts DEF CnFault
    <3> QED BY <1>0, <1>2, <3>a, <3>3, <3>4, <3>5, <3>6, ClientFacts, CnClientStep DEF JoinPost
  <2> QED BY <1>2, <2>1, <2>2, <2>3 DEF JoinPost
<1>3. CASE JoinBusy(c) BY <1>3, ClientFacts, RemovedStep DEF JoinBusy, CnFault
<1>4. CASE JoinRead(c)
  <2>b. PICK r \in CnClients : r = [cnCl[c] EXCEPT !.st = "ready", !.base = LastSeq, !.cursor = LastSeq]
    BY ClientFacts DEF CnClients, CnPlaces
  <2>1. r.st = "ready" /\ r.base = LastSeq /\ r.cursor = LastSeq /\ r.wait = "none"
    BY <2>b, <1>4, ClientFacts DEF JoinRead, Placed, CnClients, CnPlaces
  <2>2. cnCl' = [cnCl EXCEPT ![c] = r] BY <2>b, <1>4 DEF JoinRead, Client
  <2>3. Placed(r, c) BY <1>4, <2>1, ClientFacts DEF Placed, JoinRead
  <2>4. /\ cnHeard' \in [Conversations -> Hearings] /\ cnHeard'[c] = NoHearing
        /\ \A d \in Conversations \ {c} : cnHeard'[d] = cnHeard[d]
    BY <1>4, ClientFacts DEF JoinRead, NoHearing, Hearings
  <2>6. Heard(c, r)' BY <2>1, <2>4, ClientFacts DEF Heard, Others, Given, NoHearing
  <2> QED BY <1>4, <2>1, <2>2, <2>3, <2>4, <2>6, ClientFacts, QuietStep DEF JoinRead
<1>5. CASE CancelPrepared(c) BY <1>5, ClientFacts, RemovedStep DEF CancelPrepared
<1>6. CASE ReleaseReceipt(c) BY <1>6, ClientFacts, RemovedStep DEF ReleaseReceipt
<1> QED BY <1>1, <1>2, <1>3, <1>4, <1>5, <1>6

------------------------
(* Commands. *)

(* A message is appended once under its identifier, and a repeated one is answered from the record. *)
LEMMA SayStep ==
    ASSUME ConnectorInv, NEW c \in Conversations, NEW id \in CnIds, Say(c, id)
    PROVE  ConnectorInv'
<1>1. /\ cnTold \in [CnIds -> {"none", "committed", "rejected"}] /\ cnLog \in Seq(Events)
      /\ id \in Nat /\ id # 0 /\ c \in Nat
      /\ cnInvite \in Invites
  BY CnAssumption DEF ConnectorInv, ConnectorTypes, Conversations
<1>2. /\ Open(c) /\ cnCl[c].st = "ready"
      /\ cnInvite' = cnInvite /\ cnHeard' = cnHeard
  BY DEF Say
<1>3. cnInvite.used = c /\ InviteMoves BY <1>1, <1>2, ClientFacts DEF Placed, InviteMoves
<1> DEFINE Commits == IF CnSession(c) /\ ~Stored(id) THEN Log(Event(c, id)) ELSE UNCHANGED cnLog
<1>4. ASSUME Commits PROVE Says /\ (CnSession(c) => Stored(id)')
  <2>1. CASE CnSession(c) /\ ~Stored(id)
    <3>1. cnLog' = Append(cnLog, Event(c, id)) /\ Event(c, id) \in Events /\ Event(c, id).id = id
      BY <1>1, <1>4, <2>1 DEF Log, Event, Events
    <3> QED BY <1>1, <2>1, <3>1 DEF Says, Stored, LastSeq
  <2>2. CASE ~(CnSession(c) /\ ~Stored(id)) BY <1>4, <2>2 DEF Says, Stored, LastSeq
  <2> QED BY <2>1, <2>2
<1>5. ASSUME NEW p \in Nat, cnCl' = [cnCl EXCEPT ![c] = [cnCl[c] EXCEPT !.pend = p]], Says, cnLoss' \in Nat,
             cnLate' \subseteq Conversations \X CnIds,
             cnTold' \in [CnIds -> {"none", "committed", "rejected"}],
             \A i \in CnIds : cnTold'[i] = cnTold[i] \/ cnTold'[i] = "rejected"
                                \/ (cnTold'[i] = "committed" /\ Stored(i)')
      PROVE  ConnectorInv'
  <2>2. PICK r \in CnClients : r = [cnCl[c] EXCEPT !.pend = p] BY ClientFacts DEF CnClients
  <2>3. /\ r.st = cnCl[c].st /\ r.base = cnCl[c].base /\ r.cursor = cnCl[c].cursor
        /\ r.wait = cnCl[c].wait /\ r.given = cnCl[c].given /\ cnCl' = [cnCl EXCEPT ![c] = r]
    BY <1>5, <2>2, ClientFacts DEF CnClients
  <2>4. Placed(r, c)' BY <2>3, <1>2, <1>3, <1>5, ClientFacts, Bounded DEF Placed
  <2>5. Heard(c, r)' BY <1>2, <1>5, <2>3, HeardStays
  <2>6. cnHeard' \in [Conversations -> Hearings] /\ \A d \in Conversations \ {c} : cnHeard'[d] = cnHeard[d]
    BY <1>2, ClientFacts
  <2> QED BY <1>3, <1>5, <2>3, <2>4, <2>5, <2>6, CnClientStep
<1>6. CASE /\ CnSession(c) /\ (Stored(id) \/ Room4Event) /\ Commits
           /\ Client(c, [cnCl[c] EXCEPT !.pend = 0])
           /\ Tells(id, "committed") /\ UNCHANGED <<cnLate, cnLoss>>
  BY <1>1, <1>4, <1>5, <1>6, ClientFacts DEF Client, Tells
<1>7. CASE /\ ~CnSession(c) \/ ~Stored(id)
           /\ Client(c, [cnCl[c] EXCEPT !.pend = 0])
           /\ Tells(id, "rejected") /\ UNCHANGED <<cnLog, cnLate, cnLoss>>
  BY <1>1, <1>3, <1>7, <1>2, <1>5, ClientFacts DEF Client, Says, Tells
<1>8. CASE /\ CnFault /\ Client(c, Unanswered(c, id)) /\ UNCHANGED cnTold
           /\ \/ ((Room4Event /\ Commits) \/ UNCHANGED cnLog) /\ UNCHANGED cnLate
              \/ cnLate' = cnLate \cup {<<c, id>>} /\ UNCHANGED cnLog
  <2>1. cnLoss' \in Nat /\ cnLate' \subseteq Conversations \X CnIds BY <1>8, ClientFacts DEF CnFault
  <2>2. Says BY <1>4, <1>8 DEF Says
  <2> QED BY <1>1, <1>5, <1>8, <2>1, <2>2 DEF Client, Unanswered
<1> QED BY <1>6, <1>7, <1>8 DEF Say

(* A leave that was committed revokes the session and is answered by its receipt; an unanswered one keeps its
   identity. *)
LEMMA LeaveStep ==
    ASSUME ConnectorInv, NEW c \in Conversations, LeaveRoom(c)
    PROVE  ConnectorInv'
<1>1. /\ cnTold \in [CnIds -> {"none", "committed", "rejected"}] /\ cnLog \in Seq(Events)
      /\ cnInvite \in Invites /\ LeaveId \in Nat /\ LeaveId \notin CnIds /\ c \in Nat
  BY CnAssumption DEF ConnectorInv, ConnectorTypes, Conversations, LeaveId
<1>2. cnHeard' = cnHeard /\ cnTold' = cnTold /\ cnLate' = cnLate /\ cnCl[c].st \in {"admitted", "ready"}
  BY DEF LeaveRoom
<1>3. cnInvite.used = c BY <1>2, ClientFacts DEF Placed
<1> DEFINE Commits == /\ cnInvite' = [cnInvite EXCEPT !.revoked = TRUE, !.left = TRUE]
                      /\ Log(Event(c, LeaveId))
<1>4. ASSUME Commits PROVE Says /\ InviteMoves
  <2>1. cnLog' = Append(cnLog, Event(c, LeaveId)) /\ Event(c, LeaveId) \in Events
        /\ Event(c, LeaveId).id = LeaveId
    BY <1>1, <1>4 DEF Log, Event, Events
  <2> QED BY <1>1, <1>4, <2>1 DEF Says, InviteMoves, Invites
<1>5. ASSUME NEW q \in CnClients, q.st = cnCl[c].st, q.base = cnCl[c].base, q.cursor = cnCl[c].cursor,
             q.wait = "none" \/ (q.wait = cnCl[c].wait /\ q.given = cnCl[c].given),
             cnCl' = [cnCl EXCEPT ![c] = q], Says, InviteMoves, cnLoss' \in Nat
      PROVE  ConnectorInv'
  <2>2. Placed(q, c)' BY <1>5, <1>3, ClientFacts, Bounded DEF Placed, InviteMoves, Conversations
  <2>3. q.st = "ready" => Heard(c, q)' BY <1>2, <1>5, HeardStays
  <2> QED BY <1>1, <1>2, <1>5, <2>2, <2>3, ClientFacts, CnClientStep
<1>6. CASE /\ IF cnInvite.left THEN UNCHANGED <<cnInvite, cnLog>> ELSE Commits
           /\ Client(c, [cnCl[c] EXCEPT !.left = TRUE, !.closed = TRUE, !.pend = 0, !.wait = "none",
                                       !.sub = 0, !.given = 0])
           /\ UNCHANGED cnLoss
  <2> DEFINE r == [cnCl[c] EXCEPT !.left = TRUE, !.closed = TRUE, !.pend = 0, !.wait = "none",
                                  !.sub = 0, !.given = 0]
  <2>1. /\ r \in CnClients /\ r.st = cnCl[c].st /\ r.base = cnCl[c].base /\ r.cursor = cnCl[c].cursor
        /\ (r.wait = "none" \/ (r.wait = cnCl[c].wait /\ r.given = cnCl[c].given))
    BY ClientFacts DEF CnClients
  <2>2. Says /\ InviteMoves BY <1>4, <1>6, UnchangedMoves
  <2>3. cnCl' = [cnCl EXCEPT ![c] = r] BY <1>6 DEF Client
  <2> HIDE DEF r
  <2> QED BY <1>5, <1>6, <2>1, <2>2, <2>3, ClientFacts
<1>7. CASE Client(c, [cnCl[c] EXCEPT !.pend = 0]) /\ UNCHANGED <<cnInvite, cnLog, cnLoss>>
  <2> DEFINE r == [cnCl[c] EXCEPT !.pend = 0]
  <2>1. /\ r \in CnClients /\ r.st = cnCl[c].st /\ r.base = cnCl[c].base /\ r.cursor = cnCl[c].cursor
        /\ (r.wait = "none" \/ (r.wait = cnCl[c].wait /\ r.given = cnCl[c].given))
    BY ClientFacts DEF CnClients
  <2>2. cnCl' = [cnCl EXCEPT ![c] = r] /\ Says /\ InviteMoves BY <1>7, UnchangedMoves DEF Client
  <2> HIDE DEF r
  <2> QED BY <1>5, <1>7, <2>1, <2>2, ClientFacts
<1>8. CASE /\ CnFault /\ Client(c, Unanswered(c, LeaveId))
           /\ \/ CnSession(c) /\ Room4Event /\ Commits
              \/ UNCHANGED <<cnInvite, cnLog>>
  <2> DEFINE r == [cnCl[c] EXCEPT !.pend = LeaveId]
  <2>1. /\ r \in CnClients /\ r.st = cnCl[c].st /\ r.base = cnCl[c].base /\ r.cursor = cnCl[c].cursor
        /\ (r.wait = "none" \/ (r.wait = cnCl[c].wait /\ r.given = cnCl[c].given))
    BY <1>1, ClientFacts DEF CnClients
  <2>2. Says /\ InviteMoves BY <1>4, <1>8, UnchangedMoves
  <2>3. cnCl' = [cnCl EXCEPT ![c] = r] BY <1>8 DEF Client, Unanswered
  <2>4. cnLoss' \in Nat BY <1>8, ClientFacts DEF CnFault
  <2> HIDE DEF r
  <2> QED BY <1>5, <2>1, <2>2, <2>3, <2>4
<1> QED BY <1>6, <1>7, <1>8 DEF LeaveRoom

------------------------
(* The room and the hub. *)

(* What happens in the room around the connector: others speak, a message nobody waits for is taken, and the
   invite is revoked. *)
LEMMA RoomSteps ==
    ASSUME ConnectorInv,
           \/ OtherSpeaks \/ RevokeConnector
           \/ \E c \in Conversations : \E id \in CnIds : RoomTakesLate(c, id)
    PROVE  ConnectorInv'
<1>1. /\ cnCl' = cnCl /\ cnHeard' = cnHeard /\ cnTold' = cnTold /\ cnLoss' = cnLoss
      /\ cnCl \in [Conversations -> CnClients] /\ cnLog \in Seq(Events) /\ cnInvite \in Invites
      /\ cnLate' \subseteq Conversations \X CnIds
  BY DEF OtherSpeaks, RevokeConnector, RoomTakesLate, ConnectorInv, ConnectorTypes
<1>2. Says /\ InviteMoves
  <2>1. CASE OtherSpeaks
    <3>1. cnLog' = Append(cnLog, [by |-> 0, id |-> 0]) /\ cnInvite' = cnInvite BY <2>1 DEF OtherSpeaks, Log, Event
    <3>2. [by |-> 0, id |-> 0] \in Events /\ 0 \notin CnIds BY CnAssumption DEF Events
    <3> QED BY <3>1, <3>2, <1>1 DEF Says, InviteMoves
  <2>2. CASE RevokeConnector BY <2>2, <1>1 DEF RevokeConnector, Says, InviteMoves, Invites
  <2>3. ASSUME NEW c \in Conversations, NEW id \in CnIds, RoomTakesLate(c, id) PROVE Says /\ InviteMoves
    <3>1. c \in Nat /\ id \in Nat BY CnAssumption DEF Conversations
    <3> QED BY <2>3, <3>1, <1>1 DEF RoomTakesLate, Log, Event, Events, Says, InviteMoves
  <2> QED BY <2>1, <2>2, <2>3
<1>3. Spoken' BY <1>1, <1>2, SpokenStays
<1>4. /\ cnLog' \in Seq(Events) /\ LastSeq \in Nat /\ LastSeq' \in Nat /\ LastSeq <= LastSeq'
      /\ \A n \in 1 .. LastSeq : cnLog'[n] = cnLog[n]
  BY <1>1, <1>2, LogGrows, SaysGrows
<1>5. ConnectorTypes' BY <1>1, <1>2, <1>4 DEF ConnectorInv, ConnectorTypes, InviteMoves, Conversations
<1>6. ASSUME NEW c \in Conversations PROVE Placed(cnCl[c], c)'
  <2>1. c # 0 /\ Placed(cnCl[c], c) /\ cnCl[c] \in CnClients BY ClientFacts DEF Conversations
  <2> QED BY <2>1, Standing, <1>1, <1>2, <1>4 DEF Placed, InviteMoves
<1>7. ASSUME NEW c \in Conversations, cnCl[c].st = "ready" PROVE Heard(c, cnCl[c])'
  <2>1. PICK r \in CnClients : r = cnCl[c] BY ClientFacts
  <2>2. Heard(c, r)' BY <1>1, <1>2, <1>7, <2>1, HeardStays
  <2> QED BY <1>1, <2>1, <2>2
<1>8. AllPlaced' /\ NothingSkipped' BY <1>1, <1>6, <1>7 DEF AllPlaced, NothingSkipped, Heard, Conversations
<1> QED BY <1>3, <1>5, <1>8 DEF ConnectorInv

(* The hub closes every client and ends its wait. *)
LEMMA CloseStep ==
    ASSUME ConnectorInv, HubClose
    PROVE  ConnectorInv'
<1>1. /\ cnHeard' = cnHeard /\ cnTold' = cnTold /\ cnLoss' = cnLoss /\ cnLog' = cnLog /\ cnInvite' = cnInvite
      /\ cnLate' = cnLate
      /\ cnCl' = [c \in Conversations |-> [cnCl[c] EXCEPT !.closed = TRUE, !.wait = "none", !.sub = 0, !.given = 0]]
      /\ cnCl \in [Conversations -> CnClients]
  BY DEF HubClose, ConnectorInv, ConnectorTypes
<1>2. ASSUME NEW c \in Conversations
      PROVE  /\ cnCl'[c] \in CnClients /\ cnCl'[c].st = cnCl[c].st
             /\ cnCl'[c].base = cnCl[c].base /\ cnCl'[c].cursor = cnCl[c].cursor /\ cnCl'[c].wait = "none"
  BY <1>1 DEF CnClients
<1>3. ConnectorTypes' BY <1>1, <1>2 DEF ConnectorInv, ConnectorTypes, Conversations
<1>4. AllPlaced' BY <1>1, <1>2, ClientFacts DEF AllPlaced, Conversations, Placed, LastSeq
<1>5. NothingSkipped' BY <1>1, <1>2, ClientFacts DEF ConnectorInv, NothingSkipped, Conversations, Others, Given
<1>6. Spoken' BY <1>1, UnchangedMoves, SpokenStays
<1> QED BY <1>3, <1>4, <1>5, <1>6 DEF ConnectorInv

------------------------
(* The invariant of a remote conversation. *)
THEOREM ConnectorInvariant == CnSpec => []ConnectorInv
<1>1. CnInit => ConnectorInv
  BY DEF CnInit, Invites, NoClient, CnClients, CnPlaces, LastSeq, ConnectorInv, ConnectorTypes, AllPlaced,
     NoHearing, Hearings, Placed, NothingSkipped, Spoken, OnePlace
<1>2. ConnectorInv /\ [CnNext]_cnVars => ConnectorInv'
  <2>1. ConnectorInv /\ CnNext => ConnectorInv'
    BY JoinSteps, WaitSteps, LeaveStep, SayStep, RoomSteps, CloseStep, Zenon DEF CnNext
  <2>2. ConnectorInv /\ UNCHANGED cnVars => ConnectorInv'
    BY DEF cnVars, ConnectorInv, ConnectorTypes, AllPlaced, Placed, NothingSkipped, Spoken, OnePlace, Stored,
       Others, Given, LastSeq
  <2> QED BY <2>1, <2>2
<1> QED BY <1>1, <1>2, PTL DEF CnSpec

(* The cursor of a conversation passes no message without an answer that gives it, none is *)
(* given twice, and what the conversation says is in the room once, whatever answers the   *)
(* room loses and whatever becomes of the hub's own (room_wait_next, command_identified).  *)
THEOREM ConversationTrue == CnSpec => []ConversationIsTrue
<1>1. ConnectorInv => ConversationIsTrue
  <2> SUFFICES ASSUME ConnectorInv PROVE NothingSkipped /\ SaidOnce
    BY DEF ConversationIsTrue
  <2>1. ASSUME NEW id \in CnIds PROVE Cardinality({n \in 1 .. LastSeq : cnLog[n].id = id}) <= 1
    <3> DEFINE S == {n \in 1 .. LastSeq : cnLog[n].id = id}
    <3>1. \A m, n \in S : m = n BY DEF ConnectorInv, Spoken, OnePlace
    <3> HIDE DEF S
    <3>3. ASSUME NEW m \in S PROVE Cardinality(S) = 1
      <4>1. S = {m} BY <3>1
      <4>2. Cardinality({m}) = 1 BY FS_Singleton
      <4> QED BY <4>1, <4>2
    <3>4. Cardinality(S) <= 1 BY FS_EmptySet, <3>3
    <3> QED BY <3>4 DEF S
  <2> QED BY <2>1 DEF ConnectorInv, Spoken, SaidOnce
<1> QED BY <1>1, ConnectorInvariant, PTL
===============================================================================
