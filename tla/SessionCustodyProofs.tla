------------------------- MODULE SessionCustodyProofs -------------------------
(***************************************************************************)
(* Proofs about the durable custody of an agent session (AgentCustody),    *)
(* for any set of requests and scripts and any number of launches, crashes *)
(* and faults: the intent of the row and the one pending reservation       *)
(* belong together, and no runtime of this server runs unnamed.            *)
(*                                                                         *)
(* The row lemmas say what each transaction makes of a row.  Of a step     *)
(* three things are then shown, action by action: what it does to the rows *)
(* (RowsMove), to the runtime (WorldMove) and to the evidence an owner     *)
(* acts on (ControlMove).  The invariant follows from the three.           *)
(***************************************************************************)
EXTENDS AgentCustody, TLAPS

------------------------
(* The invariant. *)

Sessions == [st : {"none", "available", "attached", "unavailable", "detached"},
             en : BOOLEAN, run : Active \cup {"absent", "stopped", "error", "disconnected"},
             act : BOOLEAN, rec : BOOLEAN, id : Nat, op : Requests \cup {"none"},
             kind : {"none", "start", "stop"},
             step : {"none", "prepared", "inflight", "unconfirmed", "applied"}]
Actions == LaunchActions \cup {"none", "list", "stop", "pause", "resume", "kick", "export"}
Reservations == [action : Actions, status : {"none", "pending", "done", "rejected"}, gen : Nat]
Slots == [state : {"absent", "vacant", "reserved", "launching", "running", "stopped"}, tok : Nat]
CleanupLabels == {"c_try", "c_abandon", "c_observe", "c_stop", "c_commit", "c_release", "c_finish"}
Labels == CleanupLabels \cup
    {"idle", "reserve", "authorize", "launch", "prefail", "complete", "reused", "fail",
     "unconfirmed", "stop_auth", "stopping", "record", "release", "finalize", "stop_unconfirmed",
     "l_observe", "l_gone", "l_adopt", "l_release", "l_retry", "resident",
     "claim", "abandon", "observe", "adopt", "retain", "ambiguous", "reload", "stop", "commit"}

CustodyTypes ==
    /\ sess \in Sessions /\ res \in [Requests -> Reservations]
    /\ part \in {"none", "joined", "detached", "kicked", "exported"} /\ cleanup \in BOOLEAN
    /\ slot \in Slots /\ (slot.tok = 0) = (slot.state \in {"absent", "vacant"})
    /\ slot.tok \in 0..last
    /\ last \in Nat /\ alive \in SUBSET (1..last) /\ lost \in SUBSET (1..last)
    /\ gen \in Nat /\ faults \in Nat /\ phase \in {"down", "cleaning", "startup", "open"}
    /\ snap \in [Owners -> Sessions] /\ fresh \in SUBSET Owners
    /\ req \in Requests \cup {"none"} /\ pc \in [Owners -> Labels]

(* Nothing of the launch in the slot runs. *)
Quiet == slot.tok \notin alive

(* The fields of an intent come and go together, and a row that was never created has   *)
(* none.                                                                                *)
Books(s) ==
    /\ (s.op = "none") = (s.kind = "none") /\ (s.kind = "none") = (s.step = "none")
    /\ s.step = "applied" => s.kind = "stop"
    /\ s.run = "absent" => s.kind = "none" /\ s.id = 0
BooksHold == Books(sess) /\ \A r \in Requests : Pending(r) = (sess.op = r)

(* What a fresh owner has loaded is the stored row; the actor recovers only an intent   *)
(* whose effect is unresolved.                                                          *)
CopiesHold ==
    /\ \A p \in fresh : snap[p] = sess
    /\ pc["actor"] \in {"l_observe", "l_gone", "l_adopt"} =>
          snap["actor"].kind # "none" /\ snap["actor"].step \in {"inflight", "unconfirmed"}
    /\ pc["actor"] = "l_adopt" => snap["actor"].kind = "start"

(* A stop is recorded, and a fresh owner commits an absence, only when nothing runs.    *)
EvidenceHolds ==
    /\ slot.state \in {"reserved", "stopped"} => Quiet
    /\ sess.step = "applied" => Quiet
    /\ pc["actor"] \in {"record", "fail"} => slot.state \in {"stopped", "vacant"}
    /\ \A p \in fresh : pc[p] \in {"commit", "c_commit", "l_gone"} => Quiet

(* While the actor may begin a launch, the row names it and no owner is about to change *)
(* the row: a watch that loaded it meanwhile has not claimed it, or can stop nothing.   *)
LaunchGuarded ==
    pc["actor"] = "launch" /\ slot.state = "reserved" =>
        /\ Mine(req, "start", "inflight") /\ ~cleanup /\ sess.id = slot.tok
        /\ "watch" \in fresh => pc["watch"] \in {"idle", "claim", "stop"}

(* What runs is what the row names. *)
NamedRuntime == ~Quiet => sess.id = slot.tok

(* An exported agent whose clean-up is over has no identity and no intent. *)
ExportedIsDone == part = "exported" /\ ~cleanup => sess.id = 0 /\ sess.kind = "none"

CustInv == CustodyTypes /\ BooksHold /\ CopiesHold /\ EvidenceHolds /\ LaunchGuarded
           /\ NamedRuntime /\ ExportedIsDone

------------------------
(* What the transactions make of a row. *)

Closed(s) == s.op = "none" /\ s.kind = "none" /\ s.step = "none"
SameIntent(t, s) == t.op = s.op /\ t.kind = s.kind
Sound(t, s) == t \in Sessions /\ (s.run # "absent" => t.run # "absent")

(* The row after its intent is cleared. *)
LEMMA ClearIntentRow ==
    ASSUME NEW s \in Sessions
    PROVE  /\ ClearIntent(s) \in Sessions /\ Closed(ClearIntent(s))
           /\ ClearIntent(s).id = s.id /\ ClearIntent(s).run = s.run
BY DEF ClearIntent, Sessions, Closed

(* The row after an intent is recorded. *)
LEMMA IntentRow ==
    ASSUME NEW s \in Sessions, NEW r \in Requests, NEW k \in {"start", "stop"}
    PROVE  /\ Intent(s, r, k) \in Sessions /\ Intent(s, r, k).op = r /\ Intent(s, r, k).kind = k
           /\ Intent(s, r, k).step = "prepared"
           /\ Intent(s, r, k).id = s.id /\ Intent(s, r, k).run = s.run
BY DEF Intent, Sessions

(* The row after a launch is prepared. *)
LEMMA PreparedLaunchRow ==
    ASSUME NEW s \in Sessions, NEW r \in Requests
    PROVE  /\ PreparedLaunch(s, r) \in Sessions /\ PreparedLaunch(s, r).op = r
           /\ PreparedLaunch(s, r).kind = "start" /\ PreparedLaunch(s, r).step = "prepared"
           /\ PreparedLaunch(s, r).id = s.id /\ PreparedLaunch(s, r).run # "absent"
<1> DEFINE t == [s EXCEPT !.st = "available", !.en = TRUE, !.rec = FALSE,
                          !.run = IF @ \in {"starting", "idle", "paused"} THEN @ ELSE "starting"]
<1>1. t \in Sessions /\ t.id = s.id BY ZenonT(60) DEF Sessions, Active
<1>2. t.run \in {"starting", "idle", "paused"} BY DEF Sessions
<1>3. PreparedLaunch(s, r) = Intent(t, r, "start") BY DEF PreparedLaunch
<1> HIDE DEF t
<1> QED BY <1>1, <1>2, <1>3, IntentRow

(* The row after a start completed. *)
LEMMA StartedRow ==
    ASSUME NEW s \in Sessions, NEW reused \in BOOLEAN
    PROVE  /\ Started(s, reused) \in Sessions /\ Closed(Started(s, reused))
           /\ Started(s, reused).id = s.id /\ Started(s, reused).run # "absent"
<1> DEFINE t == [s EXCEPT !.st = "attached", !.en = TRUE, !.act = TRUE, !.rec = FALSE,
                          !.run = IF reused /\ @ \in {"idle", "paused"} THEN @ ELSE "idle"]
<1>1. t \in Sessions /\ t.id = s.id BY ZenonT(60) DEF Sessions, Active
<1>2. t.run \in {"idle", "paused"} BY DEF Sessions
<1>3. Started(s, reused) = ClearIntent(t) BY DEF Started
<1> HIDE DEF t
<1> QED BY <1>1, <1>2, <1>3, ClearIntentRow

(* The row after a launch failed, with or without an effect left behind. *)
LEMMA LaunchFailedRow ==
    ASSUME NEW s \in Sessions, NEW effect \in BOOLEAN
    PROVE  /\ Sound(LaunchFailed(s, effect), s) /\ Closed(LaunchFailed(s, effect))
           /\ LaunchFailed(s, effect).id = IF effect THEN 0 ELSE s.id
BY ZenonT(60) DEF LaunchFailed, ClearIntent, Sessions, Active, Closed, Sound

(* The row after an effect was left unconfirmed. *)
LEMMA UnconfirmedRow ==
    ASSUME NEW s \in Sessions
    PROVE  /\ Unconfirmed(s) \in Sessions /\ SameIntent(Unconfirmed(s), s)
           /\ Unconfirmed(s).step = "unconfirmed" /\ Unconfirmed(s).id = s.id
           /\ Unconfirmed(s).run # "absent"
BY ZenonT(60) DEF Unconfirmed, Sessions, SameIntent

(* The row after a stop is finalized. *)
LEMMA FinalizedRow ==
    ASSUME NEW s \in Sessions
    PROVE  /\ Finalized(s) \in Sessions /\ Closed(Finalized(s)) /\ Finalized(s).id = 0
           /\ Finalized(s).run # "absent"
BY ZenonT(60) DEF Finalized, ClearIntent, Sessions, Closed

(* The row after recovery abandons its operation. *)
LEMMA AbandonedRow ==
    ASSUME NEW s \in Sessions
    PROVE  /\ Sound(Abandoned(s), s) /\ Closed(Abandoned(s)) /\ Abandoned(s).id = s.id
BY ZenonT(60) DEF Abandoned, ClearIntent, Sessions, Closed, Sound

(* The row after a start is rejected. *)
LEMMA RejectedStartRow ==
    ASSUME NEW s \in Sessions
    PROVE  /\ RejectedStart(s) \in Sessions /\ Closed(RejectedStart(s)) /\ RejectedStart(s).id = 0
           /\ RejectedStart(s).run # "absent"
BY ZenonT(60) DEF RejectedStart, ClearIntent, Sessions, Closed

(* The row after the stop's effect is confirmed. *)
LEMMA ConfirmedStopRow ==
    ASSUME NEW s \in Sessions
    PROVE  /\ ConfirmedStop(s) \in Sessions /\ SameIntent(ConfirmedStop(s), s)
           /\ ConfirmedStop(s).step = s.step /\ ConfirmedStop(s).id = 0
           /\ ConfirmedStop(s).run # "absent"
BY ZenonT(60) DEF ConfirmedStop, Sessions, Active, SameIntent

(* The row after recovery retains a runtime it cannot prove gone. *)
LEMMA RetainedRow ==
    ASSUME NEW s \in Sessions
    PROVE  /\ Retained(s) \in Sessions /\ SameIntent(Retained(s), s)
           /\ Retained(s).step = IF s.step \in {"prepared", "inflight"} THEN "unconfirmed" ELSE s.step
           /\ Retained(s).id = s.id /\ Retained(s).run # "absent"
BY ZenonT(60) DEF Retained, Sessions, SameIntent

(* The row after the runtime is proved absent. *)
LEMMA ConfirmedAbsentRow ==
    ASSUME NEW s \in Sessions
    PROVE  /\ ConfirmedAbsent(s) \in Sessions /\ Closed(ConfirmedAbsent(s))
           /\ ConfirmedAbsent(s).id = 0 /\ ConfirmedAbsent(s).run # "absent"
BY ZenonT(60) DEF ConfirmedAbsent, ClearIntent, Sessions, Closed

(* An absence reconciled into a row whose stop is not yet recorded: the request keeps   *)
(* its intent, and a stop becomes a recorded one.                                       *)
LEMMA GoneRowIs ==
    ASSUME NEW s \in Sessions, Books(s), s.step # "applied"
    PROVE  /\ GoneRow(s).s \in Sessions /\ Books(GoneRow(s).s) /\ GoneRow(s).s.op = s.op
           /\ GoneRow(s).s.kind = s.kind /\ GoneRow(s).s.id = 0
           /\ GoneRow(s).s.step \in {s.step, "prepared", "applied"}
           /\ s.kind # "stop" => GoneRow(s).s.step # "applied"
           /\ GoneRow(s).detach \in BOOLEAN
<1>1. CASE s.kind = "stop" /\ Open(s)
  <2> DEFINE t == [s EXCEPT !.step = "applied"]
  <2>1. t \in Sessions /\ SameIntent(t, s) /\ t.step = "applied" BY DEF Sessions, SameIntent
  <2>2. GoneRow(s) = [s |-> ConfirmedStop(t), detach |-> TRUE] BY <1>1 DEF GoneRow
  <2> HIDE DEF t
  <2>3. /\ ConfirmedStop(t) \in Sessions /\ SameIntent(ConfirmedStop(t), t)
        /\ ConfirmedStop(t).step = t.step /\ ConfirmedStop(t).id = 0
        /\ ConfirmedStop(t).run # "absent"
    BY <2>1, ConfirmedStopRow
  <2> QED BY <1>1, <2>1, <2>2, <2>3 DEF Books, SameIntent, Sessions
<1>2. CASE s.kind = "start" /\ Open(s)
  <2> DEFINE t == [s EXCEPT !.id = 0, !.step = "prepared", !.run = "starting", !.act = FALSE]
  <2>1. /\ t \in Sessions /\ SameIntent(t, s) /\ t.step = "prepared" /\ t.id = 0
        /\ t.run = "starting"
    BY DEF Sessions, SameIntent, Active
  <2>2. GoneRow(s) = [s |-> t, detach |-> FALSE] BY <1>2 DEF GoneRow
  <2> HIDE DEF t
  <2> QED BY <1>2, <2>1, <2>2 DEF Books, SameIntent
<1>3. CASE ~Open(s)
  <2>1. Closed(s) BY <1>3 DEF Books, Open, Sessions, Closed
  <2>2. CASE s.run \in Active \cup {"disconnected"}
    <3>1. GoneRow(s) = [s |-> ConfirmedAbsent(s), detach |-> TRUE] BY <1>3, <2>2 DEF GoneRow
    <3> QED BY <2>1, <3>1, ConfirmedAbsentRow DEF Books, Closed
  <2>3. CASE s.run \notin Active \cup {"disconnected"}
    <3>1. GoneRow(s) = [s |-> [s EXCEPT !.id = 0], detach |-> s.id # 0] BY <1>3, <2>3 DEF GoneRow
    <3> QED BY <2>1, <3>1 DEF Books, Closed, Sessions
  <2> QED BY <2>2, <2>3
<1> QED BY <1>1, <1>2, <1>3 DEF Books, Sessions, Open

(* The reconciliation of any observation: the request is settled exactly when its       *)
(* intent is cleared, and the identity goes only with an absence or a recorded stop.    *)
LEMMA ReconciledRowIs ==
    ASSUME NEW s \in Sessions, Books(s), NEW o \in {"gone", "adopted", "uncertain", "ambiguous"}
    PROVE  /\ ReconciledRow(s, o).s \in Sessions /\ Books(ReconciledRow(s, o).s)
           /\ ReconciledRow(s, o).detach \in BOOLEAN
           /\ \/ ReconciledRow(s, o).out = "none" /\ SameIntent(ReconciledRow(s, o).s, s)
              \/ ReconciledRow(s, o).out \in {"done", "rejected"} /\ ReconciledRow(s, o).s.op = "none"
           /\ \/ ReconciledRow(s, o).s.id = s.id
              \/ ReconciledRow(s, o).s.id = 0 /\ (o = "gone" \/ s.step = "applied")
           /\ ReconciledRow(s, o).s.step # "applied"
           /\ s.kind = "none" => ReconciledRow(s, o).s.kind = "none"
<1>1. CASE s.step = "prepared"
  <2>1. ReconciledRow(s, o) = [s |-> Abandoned(s), out |-> "rejected", detach |-> FALSE] BY <1>1 DEF ReconciledRow
  <2> QED BY <1>1, <2>1, AbandonedRow DEF Books, Closed, Sound
<1>2. CASE s.kind = "stop" /\ (s.step = "applied" \/ (o = "gone" /\ Open(s))) /\ s.step # "prepared"
  <2>1. ReconciledRow(s, o) = [s |-> Finalized(s), out |-> "done", detach |-> TRUE] BY <1>2 DEF ReconciledRow
  <2> QED BY <1>2, <2>1, FinalizedRow DEF Books, Closed
<1>3. CASE o = "gone" /\ s.kind = "start" /\ Open(s) /\ s.step # "prepared"
  <2>1. ReconciledRow(s, o) = [s |-> RejectedStart(s), out |-> "rejected", detach |-> FALSE] BY <1>3 DEF ReconciledRow
  <2> DEFINE t == RejectedStart(s)
  <2>2. t \in Sessions /\ Closed(t) /\ t.id = 0 /\ t.run # "absent" BY RejectedStartRow
  <2>3. ReconciledRow(s, o) = [s |-> t, out |-> "rejected", detach |-> FALSE] BY <2>1
  <2> HIDE DEF t
  <2>4. Books(t) BY <2>2 DEF Books, Closed
  <2>5. /\ ReconciledRow(s, o).s = t /\ ReconciledRow(s, o).out = "rejected"
        /\ ReconciledRow(s, o).detach = FALSE
    BY <2>3
  <2>6. Books(ReconciledRow(s, o).s) BY <2>4, <2>5
  <2> QED BY <1>3, <2>2, <2>5, <2>6 DEF Closed
<1>4. CASE /\ s.step # "prepared" /\ ~(s.kind = "stop" /\ (s.step = "applied" \/ (o = "gone" /\ Open(s))))
           /\ ~(o = "gone" /\ s.kind = "start" /\ Open(s))
  <2> DEFINE r == ObservedRow(s, o)
  <2>1. s.step # "applied" /\ ~StopOwed(s) BY <1>4 DEF Books, StopOwed
  <2>2. /\ r.s \in Sessions /\ Books(r.s) /\ r.s.op = s.op /\ r.s.step # "applied"
        /\ r.detach \in BOOLEAN /\ (r.s.id = s.id \/ (r.s.id = 0 /\ o = "gone"))
        /\ r.s.kind = s.kind
    <3>1. CASE o = "gone"
      <4>1. s.kind # "stop" BY <1>4, <3>1, <2>1 DEF Books, Open, Sessions
      <4>2. r = GoneRow(s) BY <2>1, <3>1 DEF ObservedRow
      <4> QED BY <2>1, <3>1, <4>1, <4>2, GoneRowIs
    <3>2. CASE o = "adopted"
      <4> DEFINE t == [s EXCEPT !.act = FALSE]
      <4>1. /\ t \in Sessions /\ SameIntent(t, s) /\ t.step = s.step /\ t.id = s.id
            /\ t.run = s.run
        BY DEF Sessions, SameIntent
      <4>2. r = [s |-> t, detach |-> FALSE] BY <2>1, <3>2 DEF ObservedRow
      <4> HIDE DEF t
      <4>3. Books(t) BY <2>1, <4>1 DEF Books, SameIntent
      <4>4. r.s = t /\ r.detach = FALSE BY <4>2
      <4>5. Books(r.s) BY <4>3, <4>4
      <4> HIDE DEF r
      <4> QED BY <2>1, <4>1, <4>4, <4>5 DEF SameIntent
    <3>3. CASE o \in {"uncertain", "ambiguous"}
      <4>1. r = [s |-> Retained(s), detach |-> TRUE] BY <2>1, <3>3 DEF ObservedRow
      <4>2. /\ Retained(s) \in Sessions /\ SameIntent(Retained(s), s)
            /\ Retained(s).step = IF s.step \in {"prepared", "inflight"} THEN "unconfirmed" ELSE s.step
            /\ Retained(s).id = s.id /\ Retained(s).run # "absent"
        BY RetainedRow
      <4>3. (s.step = "none") = (Retained(s).step = "none") /\ Retained(s).step # "applied" BY <2>1, <4>2
      <4>4. Books(Retained(s)) BY <2>1, <4>2, <4>3 DEF Books, SameIntent
      <4>5. r.s = Retained(s) /\ r.detach = TRUE BY <4>1
      <4>6. Books(r.s) BY <4>4, <4>5
      <4> HIDE DEF r
      <4> QED BY <4>2, <4>3, <4>5, <4>6 DEF SameIntent
    <3> QED BY <3>1, <3>2, <3>3
  <2> DEFINE t == [r.s EXCEPT !.run = "stopped", !.rec = FALSE]
  <2>3. /\ ReconciledRow(s, o).s \in {r.s, t} /\ ReconciledRow(s, o).out = "none"
        /\ ReconciledRow(s, o).detach = r.detach
    BY <1>4 DEF ReconciledRow
  <2> HIDE DEF r
  <2>4. /\ t \in Sessions /\ SameIntent(t, r.s) /\ t.step = r.s.step /\ t.id = r.s.id
        /\ t.run # "absent"
    BY <2>2, ZenonT(60) DEF Sessions, SameIntent
  <2> HIDE DEF t
  <2>5. Books(t) BY <2>2, <2>4 DEF Books, SameIntent
  <2> QED BY <2>2, <2>3, <2>4, <2>5 DEF SameIntent
<1> QED BY <1>1, <1>2, <1>3, <1>4

------------------------
(* What a step does to the rows and to the copies of them. *)

RowTypes ==
    /\ sess \in Sessions /\ res \in [Requests -> Reservations]
    /\ part \in {"none", "joined", "detached", "kicked", "exported"} /\ cleanup \in BOOLEAN
    /\ snap \in [Owners -> Sessions] /\ fresh \in SUBSET Owners

(* A transaction makes every copy stale; what stays fresh is unchanged or loaded now.   *)
CopiesMove ==
    \/ fresh' = {}
    \/ /\ sess' = sess
       /\ \A p \in fresh' : (p \in fresh /\ snap'[p] = snap[p]) \/ snap'[p] = sess

(* The identity is kept, becomes that of the slot, or is erased when nothing runs or    *)
(* what runs is ended by the same step.                                                 *)
RowsMove ==
    /\ RowTypes' /\ BooksHold' /\ CopiesMove
    /\ sess'.id \in {sess.id, slot.tok} \/ (sess'.id = 0 /\ (Quiet \/ Quiet'))
    /\ sess'.step = "applied" => Quiet
    /\ ExportedIsDone'

(* A step that writes no row, and moves only the owners' copies, is a legal move of the rows. *)
LEMMA RowsStay ==
    ASSUME CustInv, UNCHANGED rows, CopiesMove, snap' \in [Owners -> Sessions],
           fresh' \in SUBSET Owners
    PROVE  RowsMove
<1>1. RowTypes' /\ sess'.id = sess.id /\ (sess'.step = "applied" => Quiet) /\ ExportedIsDone'
  BY DEF CustInv, CustodyTypes, RowTypes, rows, EvidenceHolds, ExportedIsDone
<1>2. BooksHold' BY DEF CustInv, BooksHold, Books, Pending, rows
<1> QED BY <1>1, <1>2 DEF RowsMove

(* A step that touches neither rows nor copies. *)
LEMMA RowsIdle ==
    ASSUME CustInv, UNCHANGED <<rows, snap, fresh>>
    PROVE  RowsMove
<1>1. CopiesMove BY DEF CopiesMove, rows
<1> QED BY <1>1, RowsStay DEF CustInv, CustodyTypes

(* An owner that reads the row holds a fresh copy. *)
LEMMA RowsLoaded ==
    ASSUME CustInv, NEW p \in Owners, Load(p), UNCHANGED rows
    PROVE  RowsMove
<1>1. /\ CopiesMove /\ snap' \in [Owners -> Sessions] /\ fresh' \in SUBSET Owners
  BY DEF CopiesMove, Load, rows, CustInv, CustodyTypes
<1> QED BY <1>1, RowsStay

(* Settling one reservation leaves every other pending or not as it was. *)
LEMMA Settling ==
    ASSUME CustInv, NEW r, NEW end \in {"done", "rejected"}, Settle(r, end)
    PROVE  /\ res' \in [Requests -> Reservations]
           /\ \A q \in Requests : Pending(q)' = (Pending(q) /\ q # r)
           /\ \A q \in Requests : q # r => res'[q] = res[q]
<1>1. res \in [Requests -> Reservations] BY DEF CustInv, CustodyTypes
<1>2. \A q \in Requests : /\ res'[q] \in Reservations
                          /\ q # r => res'[q] = res[q]
                          /\ q = r => res'[q].status = end
  BY <1>1 DEF Settle, Reservations
<1>3. res' \in [Requests -> Reservations] BY <1>1, <1>2 DEF Settle
<1> QED BY <1>2, <1>3 DEF Pending

(* Claiming a request makes that one pending. *)
LEMMA Claiming ==
    ASSUME CustInv, NEW r \in Requests, Claim(r)
    PROVE  /\ res' \in [Requests -> Reservations]
           /\ \A q \in Requests : Pending(q)' = (Pending(q) \/ q = r)
<1>1. res \in [Requests -> Reservations] /\ gen \in Nat BY DEF CustInv, CustodyTypes
<1>2. \A q \in Requests : /\ res'[q] \in Reservations
                          /\ q # r => res'[q] = res[q]
                          /\ q = r => res'[q].status = "pending"
  BY <1>1 DEF Claim, Reservations
<1>3. res' \in [Requests -> Reservations] BY <1>1, <1>2 DEF Claim
<1> QED BY <1>2, <1>3 DEF Pending

(* Detaching a participant never takes an export back. *)
LEMMA Detaching ==
    ASSUME CustInv, Detach
    PROVE  /\ part' \in {"none", "joined", "detached", "kicked", "exported"}
           /\ part' = "exported" => part = "exported"
BY DEF CustInv, CustodyTypes, Detach

(* A transaction that keeps the intent with its reservation, or clears both.            *)
LEMMA RowsChange ==
    ASSUME CustInv, sess' \in Sessions, Books(sess)', fresh' = {}, cleanup' = cleanup,
           snap' \in [Owners -> Sessions],
           part' \in {"none", "joined", "detached", "kicked", "exported"},
           part' = "exported" => part = "exported",
           sess'.id = sess.id \/ (sess'.id = 0 /\ (Quiet \/ Quiet')), sess'.step = "applied" => Quiet,
           \/ res' = res /\ SameIntent(sess', sess)
           \/ /\ sess'.op = "none" /\ res' \in [Requests -> Reservations]
              /\ \A q \in Requests : ~Pending(q)'
    PROVE  RowsMove
<1>1. RowTypes' BY DEF RowTypes, CustInv, CustodyTypes
<1>2. BooksHold'
  <2>1. CASE res' = res /\ SameIntent(sess', sess) BY <2>1 DEF CustInv, BooksHold, Pending, SameIntent
  <2>2. CASE sess'.op = "none" /\ \A q \in Requests : ~Pending(q)'
    BY <2>2, AgentCustodyAssumption DEF BooksHold, Pending, AgentCustodyAssumption
  <2> QED BY <2>1, <2>2
<1>3. CopiesMove BY DEF CopiesMove
<1>4. ExportedIsDone'
  <2>1. sess.kind = "none" => sess'.kind = "none" BY DEF SameIntent, Books
  <2> QED BY <2>1 DEF CustInv, ExportedIsDone
<1> QED BY <1>1, <1>2, <1>3, <1>4 DEF RowsMove

(* A settled request was the one whose intent the row had.                              *)
LEMMA RowsSettle ==
    ASSUME CustInv, NEW end \in {"done", "rejected"}, Settle(sess.op, end),
           sess' \in Sessions, Closed(sess'), Books(sess)', fresh' = {}, cleanup' = cleanup,
           snap' \in [Owners -> Sessions],
           part' \in {"none", "joined", "detached", "kicked", "exported"},
           part' = "exported" => part = "exported",
           sess'.id = sess.id \/ (sess'.id = 0 /\ Quiet)
    PROVE  RowsMove
<1>1. res' \in [Requests -> Reservations] /\ \A q \in Requests : ~Pending(q)' BY Settling DEF CustInv, BooksHold
<1>2. sess'.op = "none" /\ sess'.step # "applied" BY DEF Closed
<1> QED BY <1>1, <1>2, RowsChange

(* A closed row's books balance. *)
LEMMA ClosedBooks ==
    ASSUME NEW s \in Sessions, Closed(s), s.run # "absent"
    PROVE  Books(s)
BY DEF Closed, Books

(* A row with an operation was created before. *)
LEMMA Created ==
    ASSUME CustInv, sess.kind # "none"
    PROVE  sess.run # "absent"
BY DEF CustInv, BooksHold, Books

(* A row is reconciled with an absence only when that is true before or after the step. *)
LEMMA RowsReconcile ==
    ASSUME CustInv, NEW o \in {"gone", "adopted", "uncertain", "ambiguous"},
           sess' = ReconciledRow(sess, o).s, fresh' = {}, cleanup' = cleanup,
           IF ReconciledRow(sess, o).detach THEN Detach ELSE part' = part,
           IF ReconciledRow(sess, o).out = "none" THEN res' = res
           ELSE Settle(sess.op, ReconciledRow(sess, o).out),
           snap' \in [Owners -> Sessions], o = "gone" => (Quiet \/ Quiet')
    PROVE  RowsMove
<1> DEFINE r == ReconciledRow(sess, o)
<1>1. /\ r.s \in Sessions /\ Books(r.s) /\ r.detach \in BOOLEAN
      /\ \/ r.out = "none" /\ SameIntent(r.s, sess)
         \/ r.out \in {"done", "rejected"} /\ r.s.op = "none"
      /\ r.s.id = sess.id \/ (r.s.id = 0 /\ (o = "gone" \/ sess.step = "applied"))
      /\ r.s.step # "applied"
  BY ReconciledRowIs DEF CustInv, CustodyTypes, BooksHold
<1>2. /\ sess' = r.s /\ IF r.detach THEN Detach ELSE part' = part
      /\ IF r.out = "none" THEN res' = res ELSE Settle(sess.op, r.out)
  OBVIOUS
<1> HIDE DEF r
<1>3. /\ part' \in {"none", "joined", "detached", "kicked", "exported"}
      /\ part' = "exported" => part = "exported"
  BY <1>2, Detaching DEF CustInv, CustodyTypes
<1>4. sess'.id = sess.id \/ (sess'.id = 0 /\ (Quiet \/ Quiet')) BY <1>1, <1>2 DEF CustInv, EvidenceHolds
<1>5. sess' \in Sessions /\ sess'.step # "applied" /\ Books(sess)' BY <1>1, <1>2
<1>6. CASE r.out = "none"
  <2>1. res' = res /\ SameIntent(sess', sess) BY <1>1, <1>2, <1>6
  <2> QED BY <1>3, <1>4, <1>5, <2>1, RowsChange
<1>7. CASE r.out # "none"
  <2>1. /\ res' \in [Requests -> Reservations] /\ \A q \in Requests : ~Pending(q)'
    BY <1>1, <1>2, <1>7, Settling DEF CustInv, BooksHold
  <2> QED BY <1>1, <1>2, <1>3, <1>4, <1>5, <1>7, <2>1, RowsChange
<1> QED BY <1>6, <1>7

(* What an owner applies from an inspection of the host: gone, adopted, uncertain or ambiguous. *)
LEMMA RowsApply ==
    ASSUME CustInv, NEW p \in Owners, NEW o \in {"gone", "adopted", "uncertain", "ambiguous"},
           NEW l, Apply(p, o, l), UNCHANGED <<cleanup, snap>>,
           p \in fresh /\ o = "gone" => Quiet
    PROVE  RowsMove
<1>1. CASE p \notin fresh BY <1>1, RowsIdle DEF Apply, rows
<1>2. CASE p \in fresh
  <2> DEFINE r == ReconciledRow(sess, o)
  <2>1. /\ sess' = r.s /\ fresh' = {}
        /\ IF r.detach THEN Detach ELSE part' = part
        /\ IF r.out = "none" THEN res' = res ELSE Settle(sess.op, r.out)
    BY <1>2 DEF Apply, Save
  <2>2. snap' \in [Owners -> Sessions] BY DEF CustInv, CustodyTypes
  <2> QED BY <1>2, <2>1, <2>2, RowsReconcile
<1> QED BY <1>1, <1>2

(* An owner abandons an operation it cannot carry on. *)
LEMMA RowsAbandon ==
    ASSUME CustInv, NEW p \in Owners, NEW l, Abandon(p, l), UNCHANGED <<part, cleanup, snap>>
    PROVE  RowsMove
<1>1. CASE p \notin fresh BY <1>1, RowsIdle DEF Abandon, rows
<1>2. CASE p \in fresh
  <2> DEFINE t == Abandoned(sess)
  <2>1. Sound(t, sess) /\ Closed(t) /\ t.id = sess.id BY AbandonedRow DEF CustInv, CustodyTypes
  <2>2. sess' = t /\ fresh' = {} /\ Settle(sess.op, "rejected") BY <1>2 DEF Abandon, Save
  <2> HIDE DEF t
  <2>3. Books(t) BY <2>1 DEF Books, Sound, Closed, CustInv, BooksHold
  <2>4. /\ sess' \in Sessions /\ Closed(sess') /\ Books(sess)' /\ sess'.id = sess.id
        /\ snap' \in [Owners -> Sessions] /\ part' = part
        /\ part' \in {"none", "joined", "detached", "kicked", "exported"}
    BY <2>1, <2>2, <2>3 DEF Sound, CustInv, CustodyTypes
  <2> QED BY <2>2, <2>4, RowsSettle
<1> QED BY <1>1, <1>2

(* A transaction on a row whose intent belongs to the actor's request.                  *)
LEMMA RowsMine ==
    ASSUME CustInv, NEW k \in {"start", "stop"}, NEW l, Mine(req, k, l), l # "none",
           NEW end \in {"done", "rejected"}, Settle(req, end),
           sess' \in Sessions, Closed(sess'), sess'.run # "absent", fresh' = {},
           UNCHANGED <<cleanup, snap>>,
           part' \in {"none", "joined", "detached", "kicked", "exported"},
           part' = "exported" => part = "exported",
           sess'.id = sess.id \/ (sess'.id = 0 /\ Quiet)
    PROVE  RowsMove
<1>1. Settle(sess.op, end) BY DEF Mine
<1>2. Books(sess)' BY ClosedBooks DEF Books, Closed
<1>3. snap' \in [Owners -> Sessions] /\ cleanup' = cleanup BY DEF CustInv, CustodyTypes
<1> QED BY <1>1, <1>2, <1>3, RowsSettle

(* A launch is prepared under its request. *)
LEMMA RowsPrepareLaunch ==
    ASSUME CustInv, NEW r \in Requests, PrepareLaunch(r)
    PROVE  RowsMove
<1>1. PICK s \in Sessions : /\ Save(PreparedLaunch(s, r)) /\ s.id = sess.id
                            /\ part' \in {part, "detached"} /\ part' # "exported"
  <2>1. CASE CreateRow(r)
    <3> DEFINE s == [NoSession EXCEPT !.st = "available", !.run = "stopped"]
    <3>1. s \in Sessions /\ s.id = 0 BY DEF NoSession, Sessions
    <3>2. sess.id = 0 BY <2>1 DEF CreateRow, CustInv, BooksHold, Books
    <3>3. Save(PreparedLaunch(s, r)) /\ part' = "detached" BY <2>1 DEF CreateRow
    <3> HIDE DEF s
    <3> QED BY <3>1, <3>2, <3>3
  <2>2. CASE LaunchRow(r) BY <2>2 DEF LaunchRow, CustInv, CustodyTypes
  <2> QED BY <2>1, <2>2 DEF PrepareLaunch
<1> DEFINE t == PreparedLaunch(s, r)
<1>2. /\ t \in Sessions /\ t.op = r /\ t.kind = "start" /\ t.step = "prepared" /\ t.id = s.id
      /\ t.run # "absent"
  BY PreparedLaunchRow
<1>3. sess' = t /\ fresh' = {} BY <1>1 DEF Save
<1> HIDE DEF t
<1>4. Claim(r) /\ UNCHANGED <<cleanup, snap>> BY DEF PrepareLaunch
<1>5. sess.kind = "none" BY DEF PrepareLaunch, CreateRow, LaunchRow, CustInv, BooksHold, Books
<1>6. \A q \in Requests : ~Pending(q)
  BY <1>5, AgentCustodyAssumption, ZenonT(60) DEF CustInv, BooksHold, Books, AgentCustodyAssumption
<1>7. res' \in [Requests -> Reservations] /\ \A q \in Requests : Pending(q)' = (q = r) BY <1>4, <1>6, Claiming
<1>8. BooksHold'
  <2>1. Books(t) BY <1>2, AgentCustodyAssumption DEF Books, AgentCustodyAssumption
  <2>2. \A q \in Requests : Pending(q)' = (sess'.op = q) BY <1>2, <1>3, <1>7
  <2> QED BY <1>3, <2>1, <2>2 DEF BooksHold
<1>9. RowTypes' BY <1>1, <1>2, <1>3, <1>4, <1>7 DEF RowTypes, CustInv, CustodyTypes
<1>10. CopiesMove /\ ExportedIsDone' BY <1>1, <1>3 DEF CopiesMove, ExportedIsDone
<1> QED BY <1>1, <1>2, <1>3, <1>8, <1>9, <1>10 DEF RowsMove

(* A detached agent is listed in its room again. *)
LEMMA RowsListAgain ==
    ASSUME CustInv, NEW r \in Requests, ListAgain(r)
    PROVE  RowsMove
<1> DEFINE t == [sess EXCEPT !.st = "available", !.run = "stopped"]
<1>1. /\ t \in Sessions /\ SameIntent(t, sess) /\ t.step = sess.step /\ t.id = sess.id
      /\ t.run = "stopped"
  BY DEF CustInv, CustodyTypes, Sessions, SameIntent
<1>2. /\ sess' = t /\ fresh' = {} /\ part' = "detached" /\ Settle(r, "done") /\ sess.kind = "none"
      /\ UNCHANGED <<cleanup, snap>>
  BY DEF ListAgain, Save
<1> HIDE DEF t
<1>3. Books(t) BY <1>1 DEF CustInv, BooksHold, Books, SameIntent
<1>4. sess'.op = "none" /\ sess'.step = "none" BY <1>1, <1>2, <1>3 DEF Books, SameIntent
<1>5. \A q \in Requests : ~Pending(q)
  BY <1>2, AgentCustodyAssumption, ZenonT(60) DEF CustInv, BooksHold, Books, AgentCustodyAssumption
<1>6. res' \in [Requests -> Reservations] /\ \A q \in Requests : ~Pending(q)' BY <1>2, <1>5, Settling
<1> QED BY <1>1, <1>2, <1>3, <1>4, <1>6, RowsChange DEF CustInv, CustodyTypes

(* The start is authorized against the row it was prepared on. *)
LEMMA RowsAuthorizeStart ==
    ASSUME CustInv, AuthorizeStart
    PROVE  RowsMove
<1> DEFINE t == [sess EXCEPT !.id = slot.tok, !.st = "available", !.en = TRUE, !.rec = FALSE,
                             !.run = IF @ \in {"starting", "idle", "paused"} THEN @ ELSE "starting",
                             !.step = "inflight"]
<1>1. /\ t \in Sessions /\ SameIntent(t, sess) /\ t.step = "inflight" /\ t.id = slot.tok
      /\ t.run # "absent"
  <2>1. sess \in Sessions /\ slot.tok \in Nat BY DEF CustInv, CustodyTypes, Slots
  <2>2. t.run \in {"starting", "idle", "paused"} BY <2>1 DEF Sessions
  <2> QED BY <2>1, <2>2, ZenonT(60) DEF Sessions, SameIntent, Active
<1>2. /\ sess' = t /\ fresh' = {} /\ UNCHANGED <<part, res, cleanup, snap>>
      /\ Mine(req, "start", "prepared")
  BY DEF AuthorizeStart, Save
<1> HIDE DEF t
<1>3. Books(t) BY <1>1, <1>2 DEF CustInv, BooksHold, Books, SameIntent, Mine
<1>4. BooksHold' BY <1>1, <1>2, <1>3 DEF CustInv, BooksHold, Pending, SameIntent
<1>5. RowTypes' BY <1>1, <1>2 DEF CustInv, CustodyTypes, RowTypes
<1>6. CopiesMove /\ ExportedIsDone' BY <1>1, <1>2 DEF CopiesMove, CustInv, ExportedIsDone, Mine
<1> QED BY <1>1, <1>2, <1>4, <1>5, <1>6 DEF RowsMove

(* A start that fails before its effect is closed, and its request rejected. *)
LEMMA RowsFailBeforeEffect ==
    ASSUME CustInv, FailBeforeEffect
    PROVE  RowsMove
<1>1. CASE Mine(req, "start", "prepared")
  <2> DEFINE t == LaunchFailed(sess, FALSE)
  <2>1. Sound(t, sess) /\ Closed(t) /\ t.id = sess.id BY LaunchFailedRow DEF CustInv, CustodyTypes
  <2>2. /\ sess' = t /\ fresh' = {} /\ Settle(req, "rejected") /\ UNCHANGED <<part, cleanup, snap>>
    BY <1>1 DEF FailBeforeEffect, Save
  <2> HIDE DEF t
  <2>3. t.run # "absent" BY <1>1, <2>1, Created DEF Mine, Sound
  <2>4. part' \in {"none", "joined", "detached", "kicked", "exported"} BY <2>2 DEF CustInv, CustodyTypes
  <2> QED BY <1>1, <2>1, <2>2, <2>3, <2>4, RowsMine DEF Sound
<1>2. CASE ~Mine(req, "start", "prepared") BY <1>2, RowsIdle DEF FailBeforeEffect, rows
<1> QED BY <1>1, <1>2

(* A completed start closes its operation. *)
LEMMA RowsCompleteStart ==
    ASSUME CustInv, CompleteStart
    PROVE  RowsMove
<1> DEFINE G == Mine(req, "start", "inflight") /\ ~cleanup /\ Pending(req)
<1>1. CASE G
  <2> DEFINE t == Started(sess, pc["actor"] = "reused")
  <2>1. t \in Sessions /\ Closed(t) /\ t.id = sess.id /\ t.run # "absent" BY StartedRow DEF CustInv, CustodyTypes
  <2>2. /\ sess' = t /\ fresh' = {} /\ Settle(req, "done") /\ part' = "joined"
        /\ UNCHANGED <<cleanup, snap>>
    BY <1>1 DEF CompleteStart, Save
  <2> HIDE DEF t
  <2> QED BY <1>1, <2>1, <2>2, RowsMine
<1>2. CASE ~G BY <1>2, RowsIdle DEF CompleteStart, rows
<1> QED BY <1>1, <1>2

(* A failed launch closes its operation, or leaves it for recovery. *)
LEMMA RowsFailLaunch ==
    ASSUME CustInv, FailLaunch
    PROVE  RowsMove
<1>1. CASE Mine(req, "start", "inflight")
  <2> DEFINE t == LaunchFailed(sess, TRUE)
  <2>1. Sound(t, sess) /\ Closed(t) /\ t.id = 0 BY LaunchFailedRow DEF CustInv, CustodyTypes
  <2>2. /\ sess' = t /\ fresh' = {} /\ Settle(req, "rejected") /\ UNCHANGED <<part, cleanup, snap>>
    BY <1>1 DEF FailLaunch, Save
  <2> HIDE DEF t
  <2>3. t.run # "absent" BY <1>1, <2>1, Created DEF Mine, Sound
  <2>4. Quiet BY DEF FailLaunch, At, CustInv, EvidenceHolds, CustodyTypes, Quiet
  <2>5. part' \in {"none", "joined", "detached", "kicked", "exported"} BY <2>2 DEF CustInv, CustodyTypes
  <2> QED BY <1>1, <2>1, <2>2, <2>3, <2>4, <2>5, RowsMine DEF Sound
<1>2. CASE ~Mine(req, "start", "inflight") BY <1>2, RowsIdle DEF FailLaunch, rows
<1> QED BY <1>1, <1>2

(* A transaction that keeps the intent, with its reservation.                           *)
LEMMA RowsKeep ==
    ASSUME CustInv, NEW t \in Sessions, sess' = t, fresh' = {}, SameIntent(t, sess), Books(t),
           t.id = sess.id \/ (t.id = 0 /\ Quiet), t.step = "applied" => Quiet,
           part' = part \/ Detach, UNCHANGED <<res, cleanup, snap>>
    PROVE  RowsMove
<1>1. /\ part' \in {"none", "joined", "detached", "kicked", "exported"}
      /\ part' = "exported" => part = "exported"
      /\ snap' \in [Owners -> Sessions]
  BY Detaching DEF CustInv, CustodyTypes
<1> QED BY <1>1, RowsChange

(* An unconfirmed operation keeps its books. *)
LEMMA UnconfirmedBooks ==
    ASSUME CustInv, sess.kind # "none"
    PROVE  Books(Unconfirmed(sess))
<1>1. /\ SameIntent(Unconfirmed(sess), sess) /\ Unconfirmed(sess).step = "unconfirmed"
      /\ Unconfirmed(sess).run # "absent"
  BY UnconfirmedRow DEF CustInv, CustodyTypes
<1> QED BY <1>1 DEF Books, SameIntent, CustInv, BooksHold

(* The actor leaves an effect unconfirmed. *)
LEMMA RowsMarkUnconfirmed ==
    ASSUME CustInv, MarkStartUnconfirmed \/ MarkStopUnconfirmed
    PROVE  RowsMove
<1> DEFINE G == sess.kind # "none" /\ Save(Unconfirmed(sess)) /\ (part' = part \/ Detach)
<1>1. UNCHANGED <<res, cleanup, snap>> /\ (G \/ UNCHANGED <<sess, fresh, part>>)
  BY DEF MarkStartUnconfirmed, MarkStopUnconfirmed, Mine
<1>2. CASE G
  <2> DEFINE t == Unconfirmed(sess)
  <2>1. /\ t \in Sessions /\ SameIntent(t, sess) /\ t.step = "unconfirmed" /\ t.id = sess.id
        /\ Books(t)
    BY <1>2, UnconfirmedRow, UnconfirmedBooks DEF CustInv, CustodyTypes
  <2>2. sess' = t /\ fresh' = {} BY <1>2 DEF Save
  <2> HIDE DEF t
  <2> QED BY <1>1, <1>2, <2>1, <2>2, RowsKeep
<1>3. CASE UNCHANGED <<sess, fresh, part>> BY <1>1, <1>3, RowsIdle DEF rows
<1> QED BY <1>1, <1>2, <1>3

(* A stop is prepared under its request. *)
LEMMA RowsPrepareStop ==
    ASSUME CustInv, NEW r \in Requests, PrepareStop(r)
    PROVE  RowsMove
<1>1. sess.kind = "none" /\ sess.op = "none" /\ \A q \in Requests : ~Pending(q) BY AgentCustodyAssumption
  DEF PrepareStop, CustInv, BooksHold, Books, AgentCustodyAssumption
<1>2. CASE Settle(r, "done") /\ UNCHANGED <<sess, fresh>>
  <2>1. res' \in [Requests -> Reservations] /\ \A q \in Requests : ~Pending(q)' BY <1>1, <1>2, Settling
  <2>2. UNCHANGED <<sess, part, cleanup, snap, fresh>> BY <1>2 DEF PrepareStop
  <2>3. RowTypes' BY <2>1, <2>2 DEF RowTypes, CustInv, CustodyTypes
  <2>4. BooksHold' BY <1>1, <2>1, <2>2, AgentCustodyAssumption
    DEF BooksHold, Books, Pending, CustInv, AgentCustodyAssumption
  <2>5. CopiesMove /\ ExportedIsDone' /\ (sess'.step = "applied" => Quiet)
    BY <2>2 DEF CopiesMove, CustInv, ExportedIsDone, EvidenceHolds
  <2> QED BY <2>2, <2>3, <2>4, <2>5 DEF RowsMove
<1>3. CASE sess.id # 0 /\ Save(Intent(sess, r, "stop")) /\ Claim(r)
  <2> DEFINE t == Intent(sess, r, "stop")
  <2>1. /\ t \in Sessions /\ t.op = r /\ t.kind = "stop" /\ t.step = "prepared" /\ t.id = sess.id
        /\ t.run = sess.run
    BY IntentRow DEF CustInv, CustodyTypes
  <2>2. sess' = t /\ fresh' = {} /\ UNCHANGED <<part, cleanup, snap>> BY <1>3 DEF PrepareStop, Save
  <2> HIDE DEF t
  <2>3. res' \in [Requests -> Reservations] /\ \A q \in Requests : Pending(q)' = (q = r) BY <1>1, <1>3, Claiming
  <2>4. t.run # "absent" BY <2>1 DEF PrepareStop
  <2>5. RowTypes' BY <2>1, <2>2, <2>3 DEF RowTypes, CustInv, CustodyTypes
  <2>6. BooksHold'
    <3>1. Books(t) BY <2>1, <2>4, AgentCustodyAssumption DEF Books, AgentCustodyAssumption
    <3>2. \A q \in Requests : Pending(q)' = (sess'.op = q) BY <2>1, <2>2, <2>3
    <3> QED BY <2>2, <3>1, <3>2 DEF BooksHold
  <2>7. CopiesMove BY <2>2 DEF CopiesMove
  <2>8. ExportedIsDone' BY <1>3, <2>2 DEF CustInv, ExportedIsDone
  <2> QED BY <2>1, <2>2, <2>5, <2>6, <2>7, <2>8 DEF RowsMove
<1> QED BY <1>2, <1>3 DEF PrepareStop

(* The stop is authorized against the row it was prepared on. *)
LEMMA RowsAuthorizeStop ==
    ASSUME CustInv, AuthorizeStop
    PROVE  RowsMove
<1> DEFINE G == Mine(req, "stop", "prepared") /\ Pending(req) /\ ~Foreign(req)
<1>1. CASE G
  <2> DEFINE t == [sess EXCEPT !.run = "stopping", !.en = FALSE, !.step = "inflight"]
  <2>1. /\ t \in Sessions /\ SameIntent(t, sess) /\ t.step = "inflight" /\ t.id = sess.id
        /\ t.run = "stopping"
    BY DEF CustInv, CustodyTypes, Sessions, SameIntent, Active
  <2>2. /\ sess' = t /\ fresh' = {} /\ UNCHANGED <<part, res, cleanup>>
        /\ snap' = [snap EXCEPT !["actor"] = sess']
    BY <1>1 DEF AuthorizeStop, Save
  <2> HIDE DEF t
  <2>3. Books(t) BY <1>1, <2>1 DEF CustInv, BooksHold, Books, SameIntent, Mine
  <2>4. snap' \in [Owners -> Sessions] BY <2>1, <2>2 DEF CustInv, CustodyTypes
  <2>5. part' \in {"none", "joined", "detached", "kicked", "exported"} BY <2>2 DEF CustInv, CustodyTypes
  <2> QED BY <2>1, <2>2, <2>3, <2>4, <2>5, RowsChange
<1>2. CASE ~G BY <1>2, RowsIdle DEF AuthorizeStop, rows
<1> QED BY <1>1, <1>2

(* A stop that is not authorized is cleared, and its request rejected. *)
LEMMA RowsAuthorizeStopRefused ==
    ASSUME CustInv, AuthorizeStopRefused
    PROVE  RowsMove
<1> DEFINE t == ClearIntent(sess)
<1>1. t \in Sessions /\ Closed(t) /\ t.id = sess.id /\ t.run = sess.run BY ClearIntentRow DEF CustInv, CustodyTypes
<1>2. /\ sess' = t /\ fresh' = {} /\ Settle(req, "rejected") /\ UNCHANGED <<part, cleanup, snap>>
      /\ Mine(req, "stop", "prepared")
  BY DEF AuthorizeStopRefused, Save
<1> HIDE DEF t
<1>3. t.run # "absent" BY <1>1, <1>2, Created DEF Mine
<1>4. part' \in {"none", "joined", "detached", "kicked", "exported"} BY <1>2 DEF CustInv, CustodyTypes
<1> QED BY <1>1, <1>2, <1>3, <1>4, RowsMine

(* The stop's effect is recorded. *)
LEMMA RowsRecordStop ==
    ASSUME CustInv, RecordStop
    PROVE  RowsMove
<1> DEFINE G == Mine(req, "stop", "inflight") \/ Mine(req, "stop", "applied")
<1>1. CASE G
  <2> DEFINE t == [sess EXCEPT !.step = "applied"]
  <2>1. /\ t \in Sessions /\ SameIntent(t, sess) /\ t.step = "applied" /\ t.id = sess.id
        /\ t.run = sess.run
    BY DEF CustInv, CustodyTypes, Sessions, SameIntent
  <2>2. /\ sess' = t /\ fresh' = {} /\ UNCHANGED <<part, res, cleanup, snap>> BY <1>1 DEF RecordStop, Save
  <2> HIDE DEF t
  <2>3. Books(t) BY <1>1, <2>1 DEF CustInv, BooksHold, Books, SameIntent, Mine
  <2>4. Quiet BY DEF RecordStop, At, CustInv, EvidenceHolds, CustodyTypes, Quiet
  <2> QED BY <2>1, <2>2, <2>3, <2>4, RowsKeep
<1>2. CASE ~G BY <1>2, RowsIdle DEF RecordStop, rows
<1> QED BY <1>1, <1>2

(* A confirmed stop is finalized and its request answered. *)
LEMMA RowsFinalizeStop ==
    ASSUME CustInv, FinalizeStop
    PROVE  RowsMove
<1>1. CASE Mine(req, "stop", "applied")
  <2> DEFINE t == Finalized(sess)
  <2>1. t \in Sessions /\ Closed(t) /\ t.id = 0 /\ t.run # "absent" BY FinalizedRow DEF CustInv, CustodyTypes
  <2>2. /\ sess' = t /\ fresh' = {} /\ Settle(req, "done") /\ UNCHANGED <<cleanup, snap>>
        /\ Detach
    BY <1>1 DEF FinalizeStop, Save
  <2> HIDE DEF t
  <2>3. /\ part' \in {"none", "joined", "detached", "kicked", "exported"}
        /\ part' = "exported" => part = "exported"
    BY <2>2, Detaching
  <2>4. Quiet BY <1>1 DEF Mine, CustInv, EvidenceHolds
  <2> QED BY <1>1, <2>1, <2>2, <2>3, <2>4, RowsMine
<1>2. CASE ~Mine(req, "stop", "applied") BY <1>2, RowsIdle DEF FinalizeStop, rows
<1> QED BY <1>1, <1>2

(* The actor recovers the row it loaded: of an unresolved effect, and of a start when   *)
(* it adopts.                                                                           *)
LEMMA RowsLiveApply ==
    ASSUME CustInv, LiveApply
    PROVE  RowsMove
<1>1. CASE "actor" \notin fresh BY <1>1, RowsIdle DEF LiveApply, rows
<1>2. CASE "actor" \in fresh
  <2>1. sess.step \in {"inflight", "unconfirmed"} /\ sess.kind # "none" /\ Books(sess)
    BY <1>2 DEF LiveApply, CustInv, CopiesHold, BooksHold
  <2>2. UNCHANGED <<res, cleanup, snap>> BY DEF LiveApply
  <2>3. CASE pc["actor"] = "l_gone"
    <3> DEFINE r == GoneRow(sess)
    <3>1. /\ r.s \in Sessions /\ Books(r.s) /\ r.s.op = sess.op /\ r.s.kind = sess.kind
          /\ r.s.id = 0
      BY <2>1, GoneRowIs DEF CustInv, CustodyTypes
    <3>2. sess' = r.s /\ fresh' = {} /\ (part' = part \/ Detach) BY <1>2, <2>3 DEF LiveApply, Save
    <3> HIDE DEF r
    <3>3. Quiet BY <1>2, <2>3 DEF CustInv, EvidenceHolds
    <3> QED BY <2>2, <3>1, <3>2, <3>3, RowsKeep DEF SameIntent
  <2>4. CASE pc["actor"] = "l_adopt"
    <3> DEFINE t == [sess EXCEPT !.st = "available", !.en = TRUE, !.run = "starting",
                                 !.act = FALSE, !.rec = FALSE, !.step = "prepared"]
    <3>1. /\ t \in Sessions /\ SameIntent(t, sess) /\ t.step = "prepared" /\ t.id = sess.id
          /\ t.run = "starting"
      BY ZenonT(60) DEF CustInv, CustodyTypes, Sessions, SameIntent, Active
    <3>2. sess' = t /\ fresh' = {} /\ part' = part BY <1>2, <2>4 DEF LiveApply, Save
    <3> HIDE DEF t
    <3>3. Books(t) BY <2>1, <3>1 DEF Books, SameIntent
    <3> QED BY <2>2, <3>1, <3>2, <3>3, RowsKeep
  <2> QED BY <2>3, <2>4 DEF LiveApply
<1> QED BY <1>1, <1>2

(* A pause or a resume flips the resident row it was prepared on. *)
LEMMA RowsCommitResident ==
    ASSUME CustInv, CommitResident
    PROVE  RowsMove
<1> DEFINE G == ResidentFor(req) /\ sess.id = snap["actor"].id
<1>1. CASE G
  <2> DEFINE t == [sess EXCEPT !.en = ~@, !.run = IF @ = "idle" THEN "paused" ELSE "idle"]
  <2>1. /\ t \in Sessions /\ SameIntent(t, sess) /\ t.step = sess.step /\ t.id = sess.id
        /\ t.run \in {"idle", "paused"}
    BY ZenonT(60) DEF CustInv, CustodyTypes, Sessions, SameIntent, Active
  <2>2. /\ sess' = t /\ fresh' = {} /\ Settle(req, "done") /\ UNCHANGED <<part, cleanup, snap>>
    BY <1>1 DEF CommitResident, Save
  <2> HIDE DEF t
  <2>3. sess.kind = "none" /\ sess.op = "none" /\ sess.step = "none"
    BY <1>1 DEF ResidentFor, Resident, CustInv, BooksHold, Books
  <2>4. Closed(t) BY <2>1, <2>3 DEF Closed, SameIntent
  <2>5. res' \in [Requests -> Reservations] /\ \A q \in Requests : ~Pending(q)'
    <3>1. \A q \in Requests : ~Pending(q)
      BY <2>3, AgentCustodyAssumption DEF CustInv, BooksHold, Pending, AgentCustodyAssumption
    <3>2. /\ res' \in [Requests -> Reservations]
          /\ \A q \in Requests : Pending(q)' = (Pending(q) /\ q # req)
      BY <2>2, Settling
    <3> QED BY <3>1, <3>2
  <2>6. Books(t) BY <2>1, <2>4, ClosedBooks
  <2> QED BY <2>1, <2>2, <2>4, <2>5, <2>6, RowsChange DEF Closed, CustInv, CustodyTypes
<1>2. CASE ~G BY <1>2, RowsIdle DEF CommitResident, rows
<1> QED BY <1>1, <1>2

(* A participant is removed or exported, and its clean-up begins. *)
LEMMA RowsRemove ==
    ASSUME CustInv, NEW r \in Requests, Remove(r)
    PROVE  RowsMove
<1> DEFINE t == [sess EXCEPT !.en = FALSE, !.st = "detached"]
<1>1. /\ t \in Sessions /\ SameIntent(t, sess) /\ t.step = sess.step /\ t.id = sess.id
      /\ t.run = sess.run
  BY DEF CustInv, CustodyTypes, Sessions, SameIntent
<1>2. /\ sess' = t /\ fresh' = {} /\ Settle(r, "done") /\ cleanup' = TRUE /\ snap' = snap
      /\ part' \in {"kicked", "exported"} /\ ~Pending(r)
  BY DEF Remove, Save, Pending
<1> HIDE DEF t
<1>3. Books(t) BY <1>1 DEF CustInv, BooksHold, Books, SameIntent
<1>4. res' \in [Requests -> Reservations] /\ \A q \in Requests : Pending(q)' = Pending(q)
  <2>1. /\ res' \in [Requests -> Reservations]
        /\ \A q \in Requests : Pending(q)' = (Pending(q) /\ q # r)
    BY <1>2, Settling
  <2> QED BY <1>2, <2>1 DEF Pending
<1>5. BooksHold' BY <1>1, <1>2, <1>3, <1>4 DEF CustInv, BooksHold, SameIntent
<1>6. RowTypes' BY <1>1, <1>2, <1>4 DEF RowTypes, CustInv, CustodyTypes
<1>7. CopiesMove /\ ExportedIsDone' /\ (sess'.step = "applied" => Quiet)
  BY <1>1, <1>2 DEF CopiesMove, ExportedIsDone, CustInv, EvidenceHolds
<1> QED BY <1>1, <1>2, <1>5, <1>6, <1>7 DEF RowsMove

(* The clean-up row goes with a row that has neither identity nor intent.               *)
LEMMA RowsFinish ==
    ASSUME CustInv, Finishable, FinishRow, UNCHANGED <<part, res>>,
           snap' \in [Owners -> Sessions]
    PROVE  RowsMove
<1> DEFINE t == [sess EXCEPT !.st = IF part = "joined" THEN "available" ELSE "detached",
                             !.run = "stopped", !.en = FALSE]
<1>1. /\ t \in Sessions /\ SameIntent(t, sess) /\ t.step = sess.step /\ t.id = sess.id
      /\ t.run = "stopped"
  BY ZenonT(60) DEF CustInv, CustodyTypes, Sessions, SameIntent
<1>2. sess' = t /\ fresh' = {} /\ cleanup' = FALSE BY DEF FinishRow, Save
<1> HIDE DEF t
<1>3. sess.kind = "none" /\ sess.id = 0 BY DEF Finishable
<1>4. Books(t) BY <1>1 DEF CustInv, BooksHold, Books, SameIntent
<1>5. BooksHold' BY <1>1, <1>2, <1>4 DEF CustInv, BooksHold, Pending, SameIntent
<1>6. RowTypes' BY <1>1, <1>2 DEF RowTypes, CustInv, CustodyTypes
<1>7. CopiesMove /\ ExportedIsDone' /\ (sess'.step = "applied" => Quiet) BY <1>1, <1>2, <1>3
  DEF CopiesMove, ExportedIsDone, SameIntent, CustInv, EvidenceHolds
<1> QED BY <1>1, <1>2, <1>5, <1>6, <1>7 DEF RowsMove

(* A cleanup attempts its stop. *)
LEMMA RowsCleanupTry ==
    ASSUME CustInv, NEW p \in Owners, CleanupTry(p)
    PROVE  RowsMove
<1>1. CASE cleanup /\ Finishable
  <2>1. FinishRow /\ snap' = snap /\ UNCHANGED <<part, res>> BY <1>1 DEF CleanupTry
  <2> QED BY <1>1, <2>1, RowsFinish DEF CustInv, CustodyTypes
<1>2. CASE ~cleanup BY <1>2, RowsIdle DEF CleanupTry, rows
<1>3. CASE cleanup /\ ~Finishable BY <1>3, RowsLoaded DEF CleanupTry, rows
<1> QED BY <1>1, <1>2, <1>3 DEF CustInv, CustodyTypes

(* A clean-up that found nothing left in the way finishes its row. *)
LEMMA RowsCleanupFinish ==
    ASSUME CustInv, NEW p \in Owners, CleanupFinish(p)
    PROVE  RowsMove
<1>1. CASE cleanup /\ Finishable BY <1>1, RowsFinish DEF CleanupFinish, CustInv, CustodyTypes
<1>2. CASE ~(cleanup /\ Finishable) BY <1>2, RowsIdle DEF CleanupFinish, rows
<1> QED BY <1>1, <1>2

(* A runtime that dies while idle leaves its row for recovery. *)
LEMMA RowsIdleFailure ==
    ASSUME CustInv, IdleFailure
    PROVE  RowsMove
<1> DEFINE t == Retained(sess)
<1>1. /\ t \in Sessions /\ SameIntent(t, sess)
      /\ t.step = IF sess.step \in {"prepared", "inflight"} THEN "unconfirmed" ELSE sess.step
      /\ t.id = sess.id /\ t.run # "absent"
  BY RetainedRow DEF CustInv, CustodyTypes
<1>2. /\ sess' = t /\ fresh' = {} /\ Detach /\ UNCHANGED <<res, cleanup, snap>>
      /\ sess.kind = "none"
  BY DEF IdleFailure, Save
<1> HIDE DEF t
<1>3. t.step = "none" BY <1>1, <1>2 DEF CustInv, BooksHold, Books
<1>4. Books(t) BY <1>1, <1>2, <1>3 DEF CustInv, BooksHold, Books, SameIntent
<1> QED BY <1>1, <1>2, <1>3, <1>4, RowsKeep

(* A graceful shutdown stops the running slot and checkpoints its absence in the row. *)
LEMMA RowsShutdown ==
    ASSUME CustInv, Shutdown
    PROVE  RowsMove
<1> DEFINE r == ReconciledRow(sess, "gone")
<1>1. /\ sess' = r.s /\ fresh' = {} /\ cleanup' = cleanup
      /\ IF r.detach THEN Detach ELSE part' = part
      /\ IF r.out = "none" THEN res' = res ELSE Settle(sess.op, r.out)
      /\ snap' = [p \in Owners |-> NoSession]
  BY DEF Shutdown, Forget
<1>2. snap' \in [Owners -> Sessions] BY <1>1 DEF NoSession, Sessions
<1>3. Quiet' BY DEF Shutdown, Forget, Quiet, CustInv, CustodyTypes
<1> QED BY <1>1, <1>2, <1>3, RowsReconcile

(* Every step of an owner's cleanup is a legal move of the rows. *)
LEMMA RowsOfCleanup ==
    ASSUME CustInv, NEW p \in Owners, CleanupStep(p)
    PROVE  RowsMove
<1>1. CASE CleanupTry(p) BY <1>1, RowsCleanupTry
<1>2. CASE CleanupAbandon(p) BY <1>2, RowsAbandon DEF CleanupAbandon
<1>3. CASE CleanupObserve(p) BY <1>3, RowsIdle DEF CleanupObserve
<1>4. CASE CleanupStop(p) BY <1>4, RowsIdle DEF CleanupStop
<1>5. CASE CleanupCommit(p)
  <2>1. p \in fresh => Quiet BY <1>5 DEF CleanupCommit, At, CustInv, EvidenceHolds
  <2>2. Apply(p, "gone", "c_release") /\ UNCHANGED <<cleanup, snap>> BY <1>5 DEF CleanupCommit
  <2> QED BY <2>1, <2>2, RowsApply
<1>6. CASE CleanupRelease(p) BY <1>6, RowsIdle DEF CleanupRelease
<1>7. CASE CleanupFinish(p) BY <1>7, RowsCleanupFinish
<1> QED BY <1>1, <1>2, <1>3, <1>4, <1>5, <1>6, <1>7 DEF CleanupStep

(* Every step of the watch is a legal move of the rows. *)
LEMMA RowsOfWatch ==
    ASSUME CustInv, Watching
    PROVE  RowsMove
<1>1. CASE WatchCleanup BY <1>1, RowsIdle DEF WatchCleanup
<1>2. CASE WatchLoad
  <2>1. CASE Load("watch") BY <1>2, <2>1, RowsLoaded DEF WatchLoad, Owners
  <2>2. CASE UNCHANGED <<snap, fresh>> BY <1>2, <2>2, RowsIdle DEF WatchLoad
  <2> QED BY <1>2, <2>1, <2>2 DEF WatchLoad
<1>3. CASE WatchClaim BY <1>3, RowsIdle DEF WatchClaim
<1>4. CASE WatchAbandon BY <1>4, RowsAbandon DEF WatchAbandon, Owners
<1>5. CASE WatchObserve BY <1>5, RowsIdle DEF WatchObserve
<1>6. CASE WatchRetain
  <2> DEFINE o == CASE pc["watch"] = "adopt" -> "adopted"
                    [] pc["watch"] = "retain" -> "uncertain"
                    [] OTHER -> "ambiguous"
             l == IF pc["watch"] = "ambiguous" THEN "idle" ELSE "reload"
  <2>1. Apply("watch", o, l) /\ UNCHANGED <<cleanup, snap>> BY <1>6 DEF WatchRetain
  <2>2. o \in {"adopted", "uncertain", "ambiguous"} OBVIOUS
  <2> HIDE DEF o, l
  <2> QED BY <2>1, <2>2, RowsApply DEF Owners
<1>7. CASE WatchReload
  <2>1. CASE Load("watch") BY <1>7, <2>1, RowsLoaded DEF WatchReload, Owners
  <2>2. CASE UNCHANGED <<snap, fresh>> BY <1>7, <2>2, RowsIdle DEF WatchReload
  <2> QED BY <1>7, <2>1, <2>2 DEF WatchReload
<1>8. CASE WatchStop BY <1>8, RowsIdle DEF WatchStop
<1>9. CASE WatchCommit
  <2>1. "watch" \in fresh => Quiet BY <1>9 DEF WatchCommit, At, CustInv, EvidenceHolds
  <2>2. Apply("watch", "gone", "release") /\ UNCHANGED <<cleanup, snap>> BY <1>9 DEF WatchCommit
  <2> QED BY <2>1, <2>2, RowsApply DEF Owners
<1>10. CASE WatchRelease BY <1>10, RowsIdle DEF WatchRelease
<1> QED BY <1>1, <1>2, <1>3, <1>4, <1>5, <1>6, <1>7, <1>8, <1>9, <1>10 DEF Watching

(* Every step of the lifecycle actor is a legal move of the rows. *)
LEMMA RowsOfActor ==
    ASSUME CustInv, Launching \/ Stopping \/ Residing
    PROVE  RowsMove
<1>1. ASSUME NEW r \in Requests, PrepareLaunch(r) PROVE RowsMove BY <1>1, RowsPrepareLaunch
<1>2. ASSUME NEW r \in Requests, ListAgain(r) PROVE RowsMove BY <1>2, RowsListAgain
<1>3. ASSUME NEW r \in Requests, PrepareStop(r) PROVE RowsMove BY <1>3, RowsPrepareStop
<1>4. ASSUME NEW r \in Requests, Remove(r) PROVE RowsMove BY <1>4, RowsRemove
<1>5. ASSUME NEW r \in Requests, RetryLaunch(r) PROVE RowsMove BY <1>5, RowsIdle DEF RetryLaunch
<1>6. ASSUME NEW r \in Requests, RetryStop(r) PROVE RowsMove BY <1>6, RowsIdle DEF RetryStop
<1>7. ASSUME NEW r \in Requests, LiveLoad(r) PROVE RowsMove BY <1>7, RowsLoaded DEF LiveLoad, Owners
<1>8. ASSUME NEW r \in Requests, ProveResident(r) PROVE RowsMove BY <1>8, RowsLoaded DEF ProveResident, Owners
<1>9. CASE AuthorizeStart BY <1>9, RowsAuthorizeStart
<1>10. CASE FailBeforeEffect BY <1>10, RowsFailBeforeEffect
<1>11. CASE CompleteStart BY <1>11, RowsCompleteStart
<1>12. CASE FailLaunch BY <1>12, RowsFailLaunch
<1>13. CASE AuthorizeStop BY <1>13, RowsAuthorizeStop
<1>14. CASE AuthorizeStopRefused BY <1>14, RowsAuthorizeStopRefused
<1>15. CASE RecordStop BY <1>15, RowsRecordStop
<1>16. CASE FinalizeStop BY <1>16, RowsFinalizeStop
<1>17. CASE LiveApply BY <1>17, RowsLiveApply
<1>18. CASE CommitResident BY <1>18, RowsCommitResident
<1>19. CASE MarkStartUnconfirmed \/ MarkStopUnconfirmed BY <1>19, RowsMarkUnconfirmed
<1>20. CASE ReserveStart BY <1>20, RowsIdle DEF ReserveStart
<1>21. CASE AuthorizeRefused BY <1>21, RowsIdle DEF AuthorizeRefused
<1>22. CASE LaunchOk BY <1>22, RowsIdle DEF LaunchOk
<1>23. CASE LaunchFails BY <1>23, RowsIdle DEF LaunchFails
<1>24. CASE LaunchRefused BY <1>24, RowsIdle DEF LaunchRefused
<1>25. CASE ReuseFails BY <1>25, RowsIdle DEF ReuseFails
<1>26. CASE StoreFails BY <1>26, RowsIdle DEF StoreFails
<1>27. CASE StopRuntime BY <1>27, RowsIdle DEF StopRuntime
<1>28. CASE ReleaseStop BY <1>28, RowsIdle DEF ReleaseStop
<1>29. CASE LiveObserve BY <1>29, RowsIdle DEF LiveObserve
<1>30. CASE LiveRelease BY <1>30, RowsIdle DEF LiveRelease
<1>31. CASE LiveRetry BY <1>31, RowsIdle DEF LiveRetry
<1> QED BY <1>1, <1>2, <1>3, <1>4, <1>5, <1>6, <1>7, <1>8, <1>9, <1>10, <1>11, <1>12, <1>13,
       <1>14, <1>15, <1>16, <1>17, <1>18, <1>19, <1>20, <1>21, <1>22, <1>23, <1>24,
       <1>25, <1>26, <1>27, <1>28, <1>29, <1>30, <1>31
    DEF Launching, Stopping, Residing

(* Every step is a legal move of the rows. *)
LEMMA EveryStepRows ==
    ASSUME CustInv, AgentCustodyNext
    PROVE  RowsMove
<1>1. CASE Launching \/ Stopping \/ Residing BY <1>1, RowsOfActor
<1>2. CASE \E p \in Owners : CleanupStep(p) BY <1>2, RowsOfCleanup
<1>3. CASE Watching BY <1>3, RowsOfWatch
<1>4. CASE RuntimeDies \/ OrphanEnds \/ OrphanLost BY <1>4, RowsIdle DEF RuntimeDies, OrphanEnds, OrphanLost, procs
<1>5. CASE IdleFailure BY <1>5, RowsIdleFailure
<1>6. CASE Crash
  <2>1. /\ CopiesMove /\ snap' \in [Owners -> Sessions] /\ fresh' \in SUBSET Owners
        /\ UNCHANGED rows
    BY <1>6 DEF Crash, Forget, CopiesMove, NoSession, Sessions
  <2> QED BY <2>1, RowsStay
<1>7. CASE Shutdown BY <1>7, RowsShutdown
<1>8. CASE Boot BY <1>8, RowsIdle DEF Boot, procs
<1> QED BY <1>1, <1>2, <1>3, <1>4, <1>5, <1>6, <1>7, <1>8 DEF AgentCustodyNext, Faulting
------------------------
(* What a step does to the runtime in the slot. *)

WorldTypes ==
    /\ slot \in Slots /\ (slot.tok = 0) = (slot.state \in {"absent", "vacant"})
    /\ slot.tok \in 0..last
    /\ last \in Nat /\ alive \in SUBSET (1..last) /\ lost \in SUBSET (1..last)

(* Only a launch makes something run, and it is the actor who launches.                 *)
LaunchBegins ==
    /\ pc["actor"] = "launch" /\ slot.state = "reserved" /\ pc'["watch"] = pc["watch"]
    /\ UNCHANGED <<rows, snap, fresh>>

WorldMove ==
    /\ WorldTypes'
    /\ ~Quiet' => slot'.tok = slot.tok
    /\ slot'.state \in {"reserved", "stopped"} => Quiet'
    /\ Quiet /\ ~Quiet' => LaunchBegins

(* A step that touches neither the adapter's slot nor the processes. *)
LEMMA WorldIdle ==
    ASSUME CustInv, UNCHANGED world
    PROVE  WorldMove
BY DEF CustInv, CustodyTypes, EvidenceHolds, Quiet, world, WorldTypes, WorldMove

(* Fewer launches run, in the same slot.                                                *)
LEMMA WorldEnds ==
    ASSUME CustInv, alive' \subseteq alive, lost' \in SUBSET (1..last), UNCHANGED <<slot, last>>
    PROVE  WorldMove
<1>1. WorldTypes' BY DEF CustInv, CustodyTypes, WorldTypes
<1> QED BY <1>1 DEF CustInv, EvidenceHolds, Quiet, WorldMove

(* A stop ends the process of the slot it holds. *)
LEMMA WorldStops ==
    ASSUME CustInv, StopEffect, slot.state \in {"running", "stopped"}, UNCHANGED <<lost, last>>
    PROVE  WorldMove
<1>1. slot' = [state |-> "stopped", tok |-> slot.tok] /\ alive' = alive \ {slot.tok} BY DEF StopEffect, SetSlot
<1>2. slot' \in Slots /\ slot'.tok = slot.tok /\ slot'.state = "stopped" /\ slot.tok # 0
  BY <1>1 DEF CustInv, CustodyTypes, Slots
<1>3. WorldTypes' BY <1>1, <1>2 DEF CustInv, CustodyTypes, WorldTypes
<1> QED BY <1>1, <1>2, <1>3 DEF Quiet, WorldMove

(* The slot is vacated. *)
LEMMA WorldVacates ==
    ASSUME CustInv, slot' = [state |-> "vacant", tok |-> 0], UNCHANGED <<alive, lost, last>>
    PROVE  WorldMove
<1>1. WorldTypes' BY DEF CustInv, CustodyTypes, WorldTypes, Slots
<1>2. Quiet' BY DEF CustInv, CustodyTypes, Quiet
<1> QED BY <1>1, <1>2 DEF WorldMove

(* A settled operation vacates the slot that its row's identity names. *)
LEMMA WorldReleases ==
    ASSUME CustInv, NEW s, Release(s), UNCHANGED <<alive, lost, last>>
    PROVE  WorldMove
<1>1. slot' = slot \/ slot' = [state |-> "vacant", tok |-> 0] BY DEF Release
<1> QED BY <1>1, WorldIdle, WorldVacates DEF world

(* The adapter reserves its slot for a launch. *)
LEMMA WorldReserveStart ==
    ASSUME CustInv, ReserveStart
    PROVE  WorldMove
<1>1. CASE slot' = [state |-> "reserved", tok |-> last + 1] /\ last' = last + 1
  <2>1. UNCHANGED <<alive, lost>> BY DEF ReserveStart
  <2>2. WorldTypes' BY <1>1, <2>1 DEF CustInv, CustodyTypes, WorldTypes, Slots
  <2>3. Quiet' BY <1>1, <2>1 DEF CustInv, CustodyTypes, Quiet
  <2> QED BY <2>2, <2>3 DEF WorldMove
<1>2. CASE UNCHANGED <<slot, last>> BY <1>2, WorldIdle DEF ReserveStart, world
<1>3. CASE slot' = [state |-> "vacant", tok |-> 0] /\ last' = last BY <1>3, WorldVacates DEF ReserveStart
<1> QED BY <1>1, <1>2, <1>3 DEF ReserveStart, SetSlot

(* The launched process takes the reserved slot. *)
LEMMA WorldLaunchOk ==
    ASSUME CustInv, LaunchOk
    PROVE  WorldMove
<1>1. CASE slot.state = "reserved"
  <2>1. /\ slot' = [state |-> "running", tok |-> slot.tok] /\ alive' = alive \cup {slot.tok}
        /\ UNCHANGED <<lost, last>>
    BY <1>1 DEF LaunchOk, SetSlot
  <2>2. slot.tok \in 1..last BY <1>1 DEF CustInv, CustodyTypes, Slots
  <2>3. WorldTypes'
    <3>1. slot' \in Slots /\ slot'.tok = slot.tok /\ slot'.state = "running" BY <2>1 DEF CustInv, CustodyTypes, Slots
    <3> QED BY <2>1, <2>2, <3>1 DEF CustInv, CustodyTypes, WorldTypes
  <2>4. LaunchBegins BY <1>1 DEF LaunchOk, At, Goto, LaunchBegins, CustInv, CustodyTypes, Owners
  <2> QED BY <2>1, <2>3, <2>4 DEF WorldMove, Quiet
<1>2. CASE slot.state # "reserved" BY <1>2, WorldIdle DEF LaunchOk, world
<1> QED BY <1>1, <1>2

(* A failed launch leaves the slot as its effect requires. *)
LEMMA WorldLaunchFails ==
    ASSUME CustInv, LaunchFails
    PROVE  WorldMove
<1>1. slot.state = "reserved" /\ UNCHANGED <<lost, last>> BY DEF LaunchFails
<1>2. CASE slot' = [state |-> "stopped", tok |-> slot.tok] /\ alive' = alive
  <2>1. WorldTypes' BY <1>1, <1>2 DEF CustInv, CustodyTypes, WorldTypes, Slots
  <2>2. Quiet' BY <1>1, <1>2 DEF CustInv, EvidenceHolds, Quiet
  <2> QED BY <2>1, <2>2 DEF WorldMove
<1>3. CASE slot' = [state |-> "launching", tok |-> slot.tok] /\ alive' = alive \cup {slot.tok}
  <2>1. slot.tok \in 1..last BY <1>1 DEF CustInv, CustodyTypes, Slots
  <2>2. WorldTypes'
    <3>1. slot' \in Slots /\ slot'.tok = slot.tok /\ slot'.state = "launching"
      BY <1>3 DEF CustInv, CustodyTypes, Slots
    <3> QED BY <1>1, <1>3, <2>1, <3>1 DEF CustInv, CustodyTypes, WorldTypes
  <2>3. LaunchBegins BY <1>1 DEF LaunchFails, At, Goto, LaunchBegins, CustInv, CustodyTypes, Owners
  <2> QED BY <1>3, <2>2, <2>3 DEF WorldMove, Quiet
<1> QED BY <1>2, <1>3 DEF LaunchFails, SetSlot

(* A server that goes down forgets its slot; processes may live on. *)
LEMMA WorldForgets ==
    ASSUME CustInv, Forget, alive' \subseteq alive, UNCHANGED <<lost, last>>
    PROVE  WorldMove
<1>1. slot' = [state |-> "absent", tok |-> 0] BY DEF Forget
<1>2. WorldTypes' BY <1>1 DEF CustInv, CustodyTypes, WorldTypes, Slots
<1>3. Quiet' BY <1>1 DEF CustInv, CustodyTypes, Quiet
<1> QED BY <1>1, <1>2, <1>3 DEF WorldMove

(* Every step of the lifecycle actor is a legal move of slot and processes. *)
LEMMA WorldOfActor ==
    ASSUME CustInv, Launching \/ Stopping \/ Residing
    PROVE  WorldMove
<1>1. ASSUME NEW r \in Requests, PrepareLaunch(r) PROVE WorldMove BY <1>1, WorldIdle DEF PrepareLaunch
<1>2. ASSUME NEW r \in Requests, RetryLaunch(r) PROVE WorldMove BY <1>2, WorldIdle DEF RetryLaunch
<1>3. ASSUME NEW r \in Requests, ListAgain(r) PROVE WorldMove BY <1>3, WorldIdle DEF ListAgain
<1>4. ASSUME NEW r \in Requests, PrepareStop(r) PROVE WorldMove BY <1>4, WorldIdle DEF PrepareStop
<1>5. ASSUME NEW r \in Requests, RetryStop(r) PROVE WorldMove BY <1>5, WorldIdle DEF RetryStop
<1>6. ASSUME NEW r \in Requests, LiveLoad(r) PROVE WorldMove BY <1>6, WorldIdle DEF LiveLoad
<1>7. ASSUME NEW r \in Requests, ProveResident(r) PROVE WorldMove BY <1>7, WorldIdle DEF ProveResident
<1>8. ASSUME NEW r \in Requests, Remove(r) PROVE WorldMove BY <1>8, WorldIdle DEF Remove
<1>9. CASE ReserveStart BY <1>9, WorldReserveStart
<1>10. CASE LaunchOk BY <1>10, WorldLaunchOk
<1>11. CASE LaunchFails BY <1>11, WorldLaunchFails
<1>12. CASE AuthorizeRefused
  <2>1. /\ slot' = slot \/ slot' = [state |-> "vacant", tok |-> 0]
        /\ UNCHANGED <<alive, lost, last>>
    BY <1>12 DEF AuthorizeRefused
  <2> QED BY <2>1, WorldIdle, WorldVacates DEF world
<1>13. CASE FailLaunch
  <2>1. CASE Release(sess) BY <1>13, <2>1, WorldReleases DEF FailLaunch
  <2>2. CASE slot' = slot BY <1>13, <2>2, WorldIdle DEF FailLaunch, world
  <2> QED BY <1>13, <2>1, <2>2 DEF FailLaunch
<1>14. CASE StopRuntime
  <2>1. CASE MayStop(snap["actor"].id) /\ StopEffect BY <1>14, <2>1, WorldStops DEF StopRuntime, MayStop
  <2>2. CASE UNCHANGED <<slot, alive>> BY <1>14, <2>2, WorldIdle DEF StopRuntime, world
  <2> QED BY <1>14, <2>1, <2>2 DEF StopRuntime
<1>15. CASE ReleaseStop BY <1>15, WorldReleases DEF ReleaseStop
<1>16. CASE LiveRelease BY <1>16, WorldReleases DEF LiveRelease
<1>17. CASE AuthorizeStart BY <1>17, WorldIdle DEF AuthorizeStart
<1>18. CASE FailBeforeEffect BY <1>18, WorldIdle DEF FailBeforeEffect
<1>19. CASE LaunchRefused BY <1>19, WorldIdle DEF LaunchRefused
<1>20. CASE ReuseFails BY <1>20, WorldIdle DEF ReuseFails
<1>21. CASE CompleteStart BY <1>21, WorldIdle DEF CompleteStart
<1>22. CASE MarkStartUnconfirmed BY <1>22, WorldIdle DEF MarkStartUnconfirmed
<1>23. CASE StoreFails BY <1>23, WorldIdle DEF StoreFails
<1>24. CASE AuthorizeStop BY <1>24, WorldIdle DEF AuthorizeStop
<1>25. CASE AuthorizeStopRefused BY <1>25, WorldIdle DEF AuthorizeStopRefused
<1>26. CASE RecordStop BY <1>26, WorldIdle DEF RecordStop
<1>27. CASE FinalizeStop BY <1>27, WorldIdle DEF FinalizeStop
<1>28. CASE MarkStopUnconfirmed BY <1>28, WorldIdle DEF MarkStopUnconfirmed
<1>29. CASE LiveObserve BY <1>29, WorldIdle DEF LiveObserve
<1>30. CASE LiveApply BY <1>30, WorldIdle DEF LiveApply
<1>31. CASE LiveRetry BY <1>31, WorldIdle DEF LiveRetry
<1>32. CASE CommitResident BY <1>32, WorldIdle DEF CommitResident
<1> QED BY <1>1, <1>2, <1>3, <1>4, <1>5, <1>6, <1>7, <1>8, <1>9, <1>10, <1>11, <1>12, <1>13,
       <1>14, <1>15, <1>16, <1>17, <1>18, <1>19, <1>20, <1>21, <1>22, <1>23, <1>24,
       <1>25, <1>26, <1>27, <1>28, <1>29, <1>30, <1>31, <1>32
    DEF Launching, Stopping, Residing

(* A stop that is allowed, or none, is a legal move of slot and processes. *)
LEMMA WorldOfStop ==
    ASSUME CustInv, NEW t, (MayStop(t) /\ StopEffect) \/ UNCHANGED <<slot, alive>>,
           UNCHANGED <<lost, last>>
    PROVE  WorldMove
<1>1. CASE MayStop(t) /\ StopEffect BY <1>1, WorldStops DEF MayStop
<1>2. CASE UNCHANGED <<slot, alive>> BY <1>2, WorldIdle DEF world
<1> QED BY <1>1, <1>2

(* Every step of an owner's cleanup is a legal move of slot and processes. *)
LEMMA WorldOfCleanup ==
    ASSUME CustInv, NEW p \in Owners, CleanupStep(p)
    PROVE  WorldMove
<1>1. CASE CleanupStop(p)
  <2>1. /\ (MayStop(snap[p].id) /\ StopEffect) \/ UNCHANGED <<slot, alive>>
        /\ UNCHANGED <<lost, last>>
    BY <1>1 DEF CleanupStop
  <2> QED BY <2>1, WorldOfStop
<1>2. CASE CleanupRelease(p) BY <1>2, WorldReleases DEF CleanupRelease
<1>3. CASE CleanupTry(p) \/ CleanupAbandon(p) \/ CleanupObserve(p) \/ CleanupCommit(p) \/ CleanupFinish(p)
  BY <1>3, WorldIdle
  DEF CleanupTry, CleanupAbandon, CleanupObserve, CleanupCommit, CleanupFinish
<1> QED BY <1>1, <1>2, <1>3 DEF CleanupStep

(* Every step of the watch is a legal move of slot and processes. *)
LEMMA WorldOfWatch ==
    ASSUME CustInv, Watching
    PROVE  WorldMove
<1>1. CASE WatchStop
  <2>1. /\ (MayStop(snap["watch"].id) /\ StopEffect) \/ UNCHANGED <<slot, alive>>
        /\ UNCHANGED <<lost, last>>
    BY <1>1 DEF WatchStop
  <2> QED BY <2>1, WorldOfStop
<1>2. CASE WatchRelease BY <1>2, WorldReleases DEF WatchRelease
<1>3. CASE WatchCleanup \/ WatchLoad \/ WatchClaim \/ WatchAbandon \/ WatchObserve
  BY <1>3, WorldIdle DEF WatchCleanup, WatchLoad, WatchClaim, WatchAbandon, WatchObserve
<1>4. CASE WatchRetain \/ WatchReload \/ WatchCommit BY <1>4, WorldIdle DEF WatchRetain, WatchReload, WatchCommit
<1> QED BY <1>1, <1>2, <1>3, <1>4 DEF Watching

(* Every step is a legal move of slot and processes. *)
LEMMA EveryStepWorld ==
    ASSUME CustInv, AgentCustodyNext
    PROVE  WorldMove
<1>1. CASE Launching \/ Stopping \/ Residing BY <1>1, WorldOfActor
<1>2. CASE \E p \in Owners : CleanupStep(p) BY <1>2, WorldOfCleanup
<1>3. CASE Watching BY <1>3, WorldOfWatch
<1>4. CASE RuntimeDies \/ OrphanEnds \/ OrphanLost
  <2>1. /\ alive' \subseteq alive /\ lost' \in SUBSET (1..last) /\ UNCHANGED <<slot, last>>
    BY <1>4 DEF RuntimeDies, OrphanEnds, OrphanLost, CustInv, CustodyTypes
  <2> QED BY <2>1, WorldEnds
<1>5. CASE IdleFailure \/ Boot BY <1>5, WorldIdle DEF IdleFailure, Boot
<1>6. CASE Crash \/ Shutdown
  <2>1. Forget /\ alive' \subseteq alive /\ UNCHANGED <<lost, last>> BY <1>6 DEF Crash, Shutdown
  <2> QED BY <2>1, WorldForgets
<1> QED BY <1>1, <1>2, <1>3, <1>4, <1>5, <1>6 DEF AgentCustodyNext, Faulting
------------------------
(* What a step does to the evidence the owners act on. *)

ControlTypes ==
    /\ gen \in Nat /\ faults \in Nat /\ phase \in {"down", "cleaning", "startup", "open"}
    /\ req \in Requests \cup {"none"} /\ pc \in [Owners -> Labels]

Recovers ==
    /\ pc["actor"] \in {"l_observe", "l_gone", "l_adopt"} =>
          snap["actor"].kind # "none" /\ snap["actor"].step \in {"inflight", "unconfirmed"}
    /\ pc["actor"] = "l_adopt" => snap["actor"].kind = "start"

Commits(p) == p \in fresh /\ pc[p] \in {"commit", "c_commit", "l_gone"} => Quiet

ControlMove ==
    /\ ControlTypes' /\ Recovers'
    /\ (pc["actor"] \in {"record", "fail"} => slot.state \in {"stopped", "vacant"})'
    /\ \A p \in Owners : Commits(p)'
    /\ LaunchGuarded'

(* Where each owner stands, in the form the step lemmas cite it. *)
LEMMA ControlHolds ==
    ASSUME CustInv
    PROVE  /\ ControlTypes /\ Recovers
           /\ pc["actor"] \in {"record", "fail"} => slot.state \in {"stopped", "vacant"}
           /\ \A p \in Owners : Commits(p)
BY DEF CustInv, CustodyTypes, ControlTypes, CopiesHold, Recovers, EvidenceHolds, Commits

(* The actor moves; it does not arrive where it may launch.                             *)
LEMMA ActorMoves ==
    ASSUME CustInv, WorldMove, ControlTypes', pc'["watch"] = pc["watch"],
           "watch" \in fresh' => "watch" \in fresh,
           pc'["actor"] # "launch", Recovers',
           (pc["actor"] \in {"record", "fail"} => slot.state \in {"stopped", "vacant"})',
           Commits("actor")'
    PROVE  ControlMove
<1>1. Commits("watch")'
  <2>1. Commits("watch") BY ControlHolds DEF Owners
  <2>2. CASE LaunchBegins BY <2>2 DEF LaunchBegins, CustInv, LaunchGuarded, Commits
  <2>3. CASE ~LaunchBegins BY <2>1, <2>3 DEF WorldMove, Commits
  <2> QED BY <2>2, <2>3
<1>2. \A p \in Owners : Commits(p)' BY <1>1 DEF Owners
<1>3. LaunchGuarded' BY DEF LaunchGuarded
<1> QED BY <1>2, <1>3 DEF ControlMove

(* The same where the actor does not recover, stop or commit.                           *)
LEMMA ActorPlain ==
    ASSUME CustInv, WorldMove, ControlTypes', pc'["watch"] = pc["watch"],
           "watch" \in fresh' => "watch" \in fresh,
           pc'["actor"] \notin {"launch", "record", "fail", "l_observe", "l_gone", "l_adopt",
                                "commit", "c_commit"}
    PROVE  ControlMove
<1>1. Recovers' /\ Commits("actor")' BY DEF Recovers, Commits
<1> QED BY <1>1, ActorMoves

(* The watch moves: where the actor may launch it changes no row and gets nowhere.      *)
LEMMA WatchMoves ==
    ASSUME CustInv, WorldMove, ControlTypes', pc'["actor"] = pc["actor"], req' = req,
           snap'["actor"] = snap["actor"], "actor" \in fresh' => "actor" \in fresh,
           slot' = slot \/ slot'.state \in {"stopped", "vacant"}, Commits("watch")',
           pc["actor"] = "launch" /\ slot.state = "reserved" =>
              /\ UNCHANGED <<sess, cleanup>>
              /\ "watch" \in fresh' => pc'["watch"] \in {"idle", "claim", "stop"}
    PROVE  ControlMove
<1>1. Recovers' BY ControlHolds DEF Recovers
<1>2. (pc["actor"] \in {"record", "fail"} => slot.state \in {"stopped", "vacant"})' BY ControlHolds
<1>3. Commits("actor")'
  <2>1. Commits("actor") BY ControlHolds DEF Owners
  <2> QED BY <2>1 DEF Commits, WorldMove, LaunchBegins
<1>4. \A p \in Owners : Commits(p)' BY <1>3 DEF Owners
<1>5. LaunchGuarded' BY DEF CustInv, LaunchGuarded, Mine
<1> QED BY <1>1, <1>2, <1>4, <1>5 DEF ControlMove

(* One owner moves to a label, the others stay. *)
LEMMA Going ==
    ASSUME CustInv, NEW p \in Owners, NEW l \in Labels, Goto(p, l)
    PROVE  /\ pc' \in [Owners -> Labels] /\ pc'[p] = l
           /\ \A q \in Owners : q # p => pc'[q] = pc[q]
BY DEF CustInv, CustodyTypes, Goto

(* One owner steps on, the others stay. *)
LEMMA Stepping ==
    ASSUME CustInv, NEW p \in Owners, NEW l \in Labels, Step(p, l)
    PROVE  /\ pc' \in [Owners -> Labels] /\ pc'[p] = l
           /\ \A q \in Owners : q # p => pc'[q] = pc[q]
           /\ req' \in Requests \cup {"none"} /\ (p = "watch" => req' = req)
           /\ phase' \in {"down", "cleaning", "startup", "open"}
<1>1. Goto(p, l) BY DEF Step
<1>2. /\ req' \in Requests \cup {"none"} /\ (p = "watch" => req' = req)
      /\ phase' \in {"down", "cleaning", "startup", "open"}
  BY DEF Step, CustInv, CustodyTypes
<1> QED BY <1>1, <1>2, Going

(* An absence observed is one: nothing runs.                                            *)
LEMMA GoneIsQuiet ==
    ASSUME CustInv, NEW s, "gone" \in Observations(s)
    PROVE  Quiet
<1> DEFINE known == slot.state \notin {"absent", "vacant"} /\ slot.tok = s.id
<1>1. CASE slot.state \in {"absent", "vacant"} BY <1>1 DEF CustInv, CustodyTypes, Quiet
<1>2. CASE known /\ slot.state \in {"reserved", "stopped"} BY <1>2 DEF CustInv, EvidenceHolds
<1>3. CASE known /\ slot.state = "launching"
  <2>1. Observations(s) = {IF slot.tok \in alive \cup lost THEN "uncertain" ELSE "gone"} BY <1>3 DEF Observations
  <2> QED BY <2>1 DEF Quiet
<1>4. CASE known /\ slot.state \notin {"reserved", "stopped", "launching"}
  <2>1. Observations(s) = IF slot.tok \in alive THEN {"adopted", "uncertain"} ELSE {"uncertain"}
    BY <1>4 DEF Observations
  <2> QED BY <2>1
<1>5. CASE slot.state \notin {"absent", "vacant"} /\ ~known
  <2>1. Observations(s) = {"ambiguous"} BY <1>5 DEF Observations
  <2> QED BY <2>1
<1> QED BY <1>1, <1>2, <1>3, <1>4, <1>5

(* An authorized start is followed by its reservation. *)
LEMMA ControlAuthorizeStart ==
    ASSUME CustInv, AuthorizeStart
    PROVE  ControlMove
<1> DEFINE t == [sess EXCEPT !.id = slot.tok, !.st = "available", !.en = TRUE, !.rec = FALSE,
                             !.run = IF @ \in {"starting", "idle", "paused"} THEN @ ELSE "starting",
                             !.step = "inflight"]
<1>1. t.op = sess.op /\ t.kind = sess.kind /\ t.step = "inflight" /\ t.id = slot.tok
  BY DEF CustInv, CustodyTypes, Sessions
<1>2. /\ sess' = t /\ fresh' = {} /\ Mine(req, "start", "prepared") /\ ~cleanup
      /\ Goto("actor", "launch") /\ UNCHANGED <<cleanup, req, gen, phase, faults>>
  BY DEF AuthorizeStart, Save
<1> HIDE DEF t
<1>3. slot' = slot BY DEF AuthorizeStart, world
<1>4. ControlTypes' /\ pc'["actor"] = "launch" BY <1>2, ControlHolds, Going DEF ControlTypes, Owners, Labels
<1>5. LaunchGuarded' BY <1>1, <1>2, <1>3 DEF LaunchGuarded, Mine
<1>6. Recovers' /\ \A p \in Owners : Commits(p)' BY <1>2, <1>4 DEF Recovers, Commits
<1> QED BY <1>4, <1>5, <1>6 DEF ControlMove

(* Every step of the lifecycle actor keeps where the owners stand. *)
LEMMA ControlOfActor ==
    ASSUME CustInv, WorldMove, Launching \/ Stopping \/ Residing
    PROVE  ControlMove
<1>1. ASSUME NEW r \in Requests, PrepareLaunch(r) PROVE ControlMove
  <2>1. /\ ControlTypes' /\ pc'["watch"] = pc["watch"] /\ ("watch" \in fresh' => "watch" \in fresh)
        /\ pc'["actor"] = "reserve"
    BY <1>1, ControlHolds
       DEF PrepareLaunch, CreateRow, LaunchRow, Save, Goto, ControlTypes, Owners, Labels
  <2> QED BY <2>1, ActorPlain
<1>2. ASSUME NEW r \in Requests, RetryLaunch(r) PROVE ControlMove
  <2>1. /\ ControlTypes' /\ pc'["watch"] = pc["watch"] /\ ("watch" \in fresh' => "watch" \in fresh)
        /\ pc'["actor"] = "reserve"
    BY <1>2, ControlHolds DEF RetryLaunch, Goto, ControlTypes, Owners, Labels
  <2> QED BY <2>1, ActorPlain
<1>3. ASSUME NEW r \in Requests, ListAgain(r) PROVE ControlMove
  <2>1. /\ ControlTypes' /\ pc'["watch"] = pc["watch"] /\ ("watch" \in fresh' => "watch" \in fresh)
        /\ pc'["actor"] = "idle"
    BY <1>3, ControlHolds DEF ListAgain, Admit, At, Save, ControlTypes, Owners, Labels
  <2> QED BY <2>1, ActorPlain
<1>4. ASSUME NEW r \in Requests, PrepareStop(r) PROVE ControlMove
  <2>1. /\ ControlTypes' /\ pc'["watch"] = pc["watch"] /\ ("watch" \in fresh' => "watch" \in fresh)
        /\ pc'["actor"] \in {"idle", "stop_auth"}
    BY <1>4, ControlHolds DEF PrepareStop, Admit, At, Save, Goto, ControlTypes, Owners, Labels
  <2> QED BY <2>1, ActorPlain
<1>5. ASSUME NEW r \in Requests, RetryStop(r) PROVE ControlMove
  <2>1. /\ ControlTypes' /\ pc'["watch"] = pc["watch"] /\ ("watch" \in fresh' => "watch" \in fresh)
        /\ pc'["actor"] \in {"finalize", "stop_auth"}
    BY <1>5, ControlHolds DEF RetryStop, Goto, ControlTypes, Owners, Labels
  <2> QED BY <2>1, ActorPlain
<1>6. ASSUME NEW r \in Requests, ProveResident(r) PROVE ControlMove
  <2>1. /\ ControlTypes' /\ pc'["watch"] = pc["watch"] /\ ("watch" \in fresh' => "watch" \in fresh)
        /\ pc'["actor"] = "resident"
    BY <1>6, ControlHolds DEF ProveResident, Goto, Load, ControlTypes, Owners, Labels
  <2> QED BY <2>1, ActorPlain
<1>7. ASSUME NEW r \in Requests, Remove(r) PROVE ControlMove
  <2>1. Goto("actor", "c_try") /\ fresh' = {} /\ req' = r /\ UNCHANGED <<gen, phase, faults>> BY <1>7 DEF Remove, Save
  <2>2. /\ ControlTypes' /\ pc'["watch"] = pc["watch"] /\ pc'["actor"] = "c_try"
    BY <2>1, ControlHolds, Going DEF ControlTypes, Owners, Labels, CleanupLabels
  <2> QED BY <2>1, <2>2, ActorPlain
<1>8. CASE ReserveStart
  <2>1. /\ ControlTypes' /\ pc'["watch"] = pc["watch"] /\ ("watch" \in fresh' => "watch" \in fresh)
        /\ pc'["actor"] \in {"authorize", "prefail"}
    BY <1>8, ControlHolds DEF ReserveStart, Goto, ControlTypes, Owners, Labels
  <2> QED BY <2>1, ActorPlain
<1>9. CASE AuthorizeRefused
  <2>1. /\ ControlTypes' /\ pc'["watch"] = pc["watch"] /\ ("watch" \in fresh' => "watch" \in fresh)
        /\ pc'["actor"] \in {"idle", "prefail"}
    BY <1>9, ControlHolds DEF AuthorizeRefused, Goto, Return, ControlTypes, Owners, Labels
  <2> QED BY <2>1, ActorPlain
<1>10. CASE FailBeforeEffect
  <2>1. /\ ControlTypes' /\ pc'["watch"] = pc["watch"] /\ ("watch" \in fresh' => "watch" \in fresh)
        /\ pc'["actor"] = "idle"
    BY <1>10, ControlHolds DEF FailBeforeEffect, Goto, Return, Save, ControlTypes, Owners, Labels
  <2> QED BY <2>1, ActorPlain
<1>11. CASE LaunchOk
  <2>1. /\ ControlTypes' /\ pc'["watch"] = pc["watch"] /\ ("watch" \in fresh' => "watch" \in fresh)
        /\ pc'["actor"] \in {"complete", "reused"}
    BY <1>11, ControlHolds DEF LaunchOk, Goto, ControlTypes, Owners, Labels
  <2> QED BY <2>1, ActorPlain
<1>12. CASE ReuseFails
  <2>1. /\ ControlTypes' /\ pc'["watch"] = pc["watch"] /\ ("watch" \in fresh' => "watch" \in fresh)
        /\ pc'["actor"] = "unconfirmed"
    BY <1>12, ControlHolds DEF ReuseFails, Goto, ControlTypes, Owners, Labels
  <2> QED BY <2>1, ActorPlain
<1>13. CASE CompleteStart
  <2>1. /\ ControlTypes' /\ pc'["watch"] = pc["watch"] /\ ("watch" \in fresh' => "watch" \in fresh)
        /\ pc'["actor"] = "idle"
    BY <1>13, ControlHolds DEF CompleteStart, Goto, Return, Save, ControlTypes, Owners, Labels
  <2> QED BY <2>1, ActorPlain
<1>14. CASE FailLaunch
  <2>1. /\ ControlTypes' /\ pc'["watch"] = pc["watch"] /\ ("watch" \in fresh' => "watch" \in fresh)
        /\ pc'["actor"] = "idle"
    BY <1>14, ControlHolds DEF FailLaunch, Goto, Return, Save, ControlTypes, Owners, Labels
  <2> QED BY <2>1, ActorPlain
<1>15. CASE MarkStartUnconfirmed
  <2>1. /\ ControlTypes' /\ pc'["watch"] = pc["watch"] /\ ("watch" \in fresh' => "watch" \in fresh)
        /\ pc'["actor"] = "idle"
    BY <1>15, ControlHolds
       DEF MarkStartUnconfirmed, Goto, Return, Save, ControlTypes, Owners, Labels
  <2> QED BY <2>1, ActorPlain
<1>16. CASE StoreFails
  <2>1. /\ ControlTypes' /\ pc'["watch"] = pc["watch"] /\ ("watch" \in fresh' => "watch" \in fresh)
        /\ pc'["actor"] = "idle"
    BY <1>16, ControlHolds DEF StoreFails, Goto, Return, ControlTypes, Owners, Labels
  <2> QED BY <2>1, ActorPlain
<1>17. CASE AuthorizeStop
  <2>1. /\ ControlTypes' /\ pc'["watch"] = pc["watch"] /\ ("watch" \in fresh' => "watch" \in fresh)
        /\ pc'["actor"] \in {"idle", "stopping"}
    BY <1>17, ControlHolds DEF AuthorizeStop, Goto, Return, Save, ControlTypes, Owners, Labels
  <2> QED BY <2>1, ActorPlain
<1>18. CASE AuthorizeStopRefused
  <2>1. /\ ControlTypes' /\ pc'["watch"] = pc["watch"] /\ ("watch" \in fresh' => "watch" \in fresh)
        /\ pc'["actor"] = "idle"
    BY <1>18, ControlHolds
       DEF AuthorizeStopRefused, Goto, Return, Save, ControlTypes, Owners, Labels
  <2> QED BY <2>1, ActorPlain
<1>19. CASE RecordStop
  <2>1. /\ ControlTypes' /\ pc'["watch"] = pc["watch"] /\ ("watch" \in fresh' => "watch" \in fresh)
        /\ pc'["actor"] \in {"idle", "release"}
    BY <1>19, ControlHolds DEF RecordStop, Goto, Return, Save, ControlTypes, Owners, Labels
  <2> QED BY <2>1, ActorPlain
<1>20. CASE ReleaseStop
  <2>1. /\ ControlTypes' /\ pc'["watch"] = pc["watch"] /\ ("watch" \in fresh' => "watch" \in fresh)
        /\ pc'["actor"] = "finalize"
    BY <1>20, ControlHolds DEF ReleaseStop, Goto, ControlTypes, Owners, Labels
  <2> QED BY <2>1, ActorPlain
<1>21. CASE FinalizeStop
  <2>1. /\ ControlTypes' /\ pc'["watch"] = pc["watch"] /\ ("watch" \in fresh' => "watch" \in fresh)
        /\ pc'["actor"] = "idle"
    BY <1>21, ControlHolds DEF FinalizeStop, Goto, Return, Save, ControlTypes, Owners, Labels
  <2> QED BY <2>1, ActorPlain
<1>22. CASE MarkStopUnconfirmed
  <2>1. /\ ControlTypes' /\ pc'["watch"] = pc["watch"] /\ ("watch" \in fresh' => "watch" \in fresh)
        /\ pc'["actor"] = "idle"
    BY <1>22, ControlHolds DEF MarkStopUnconfirmed, Goto, Return, Save, ControlTypes, Owners, Labels
  <2> QED BY <2>1, ActorPlain
<1>23. CASE LiveApply
  <2>1. /\ ControlTypes' /\ pc'["watch"] = pc["watch"] /\ ("watch" \in fresh' => "watch" \in fresh)
        /\ pc'["actor"] \in {"idle", "l_release", "l_retry"}
    BY <1>23, ControlHolds DEF LiveApply, Goto, Return, Save, ControlTypes, Owners, Labels
  <2> QED BY <2>1, ActorPlain
<1>24. CASE LiveRelease
  <2>1. /\ ControlTypes' /\ pc'["watch"] = pc["watch"] /\ ("watch" \in fresh' => "watch" \in fresh)
        /\ pc'["actor"] = "l_retry"
    BY <1>24, ControlHolds DEF LiveRelease, Goto, ControlTypes, Owners, Labels
  <2> QED BY <2>1, ActorPlain
<1>25. CASE LiveRetry
  <2>1. /\ ControlTypes' /\ pc'["watch"] = pc["watch"] /\ ("watch" \in fresh' => "watch" \in fresh)
        /\ pc'["actor"] \in {"idle", "reserve", "finalize"}
    BY <1>25, ControlHolds DEF LiveRetry, Goto, Return, ControlTypes, Owners, Labels
  <2> QED BY <2>1, ActorPlain
<1>26. CASE CommitResident
  <2>1. /\ ControlTypes' /\ pc'["watch"] = pc["watch"] /\ ("watch" \in fresh' => "watch" \in fresh)
        /\ pc'["actor"] = "idle"
    BY <1>26, ControlHolds DEF CommitResident, Goto, Return, Save, ControlTypes, Owners, Labels
  <2> QED BY <2>1, ActorPlain
<1>27. CASE AuthorizeStart BY <1>27, ControlAuthorizeStart
<1>28. CASE LaunchFails
  <2>1. /\ ControlTypes' /\ pc'["watch"] = pc["watch"] /\ fresh' = fresh /\ snap' = snap
        /\ (pc'["actor"] = "fail" /\ slot'.state = "stopped") \/ pc'["actor"] = "unconfirmed"
    BY <1>28, ControlHolds DEF LaunchFails, Goto, SetSlot, ControlTypes, Owners, Labels
  <2>2. Recovers' /\ Commits("actor")' BY <2>1 DEF Recovers, Commits
  <2> QED BY <2>1, <2>2, ActorMoves
<1>29. CASE LaunchRefused
  <2>1. /\ ControlTypes' /\ pc'["watch"] = pc["watch"] /\ fresh' = fresh /\ snap' = snap
        /\ pc'["actor"] = "fail" /\ slot'.state \in {"stopped", "vacant"}
    BY <1>29, ControlHolds DEF LaunchRefused, Goto, world, ControlTypes, Owners, Labels
  <2>2. Recovers' /\ Commits("actor")' BY <2>1 DEF Recovers, Commits
  <2> QED BY <2>1, <2>2, ActorMoves
<1>30. CASE StopRuntime
  <2>1. /\ ControlTypes' /\ pc'["watch"] = pc["watch"] /\ fresh' = fresh /\ snap' = snap
        /\ (pc'["actor"] = "record" /\ slot'.state = "stopped") \/ pc'["actor"] = "stop_unconfirmed"
    BY <1>30, ControlHolds DEF StopRuntime, Goto, StopEffect, SetSlot, ControlTypes, Owners, Labels
  <2>2. Recovers' /\ Commits("actor")' BY <2>1 DEF Recovers, Commits
  <2> QED BY <2>1, <2>2, ActorMoves
<1>31. ASSUME NEW r \in Requests, LiveLoad(r) PROVE ControlMove
  <2>1. /\ ControlTypes' /\ pc'["watch"] = pc["watch"] /\ ("watch" \in fresh' => "watch" \in fresh)
        /\ pc'["actor"] = "l_observe" /\ snap'["actor"] = sess
        /\ sess.step \in {"inflight", "unconfirmed"}
    BY <1>31, ControlHolds
    DEF LiveLoad, Load, Goto, ControlTypes, CustInv, CustodyTypes, Owners, Labels
  <2>2. sess.kind # "none" BY <2>1 DEF CustInv, BooksHold, Books
  <2>3. Recovers' /\ Commits("actor")' BY <2>1, <2>2 DEF Recovers, Commits
  <2> QED BY <2>1, <2>3, ActorMoves
<1>32. CASE LiveObserve
  <2>1. PICK o \in Observations(snap["actor"]) :
           \/ o = "gone" /\ Goto("actor", "l_gone") /\ req' = req
           \/ snap["actor"].kind = "start" /\ Goto("actor", "l_adopt") /\ req' = req
           \/ Return
    BY <1>32 DEF LiveObserve
  <2>2. /\ ControlTypes' /\ pc'["watch"] = pc["watch"]
        /\ \/ o = "gone" /\ pc'["actor"] = "l_gone"
           \/ snap["actor"].kind = "start" /\ pc'["actor"] = "l_adopt"
           \/ pc'["actor"] = "idle"
        /\ UNCHANGED <<fresh, snap, slot, alive>> /\ pc["actor"] = "l_observe"
    BY <1>32, <2>1, ControlHolds
    DEF LiveObserve, At, Goto, Return, world, ControlTypes, Owners, Labels
  <2>3. Recovers' BY <2>2, ControlHolds DEF Recovers
  <2>4. Commits("actor")' BY <2>1, <2>2, GoneIsQuiet DEF Commits, Quiet
  <2> QED BY <2>2, <2>3, <2>4, ActorMoves
<1> QED BY <1>1, <1>2, <1>3, <1>4, <1>5, <1>6, <1>7, <1>8, <1>9, <1>10, <1>11, <1>12, <1>13,
       <1>14, <1>15, <1>16, <1>17, <1>18, <1>19, <1>20, <1>21, <1>22, <1>23, <1>24,
       <1>25, <1>26, <1>27, <1>28, <1>29, <1>30, <1>31, <1>32
    DEF Launching, Stopping, Residing

(* The clean-up by the actor, which is not launching.                                   *)
LEMMA ControlOfActorCleanup ==
    ASSUME CustInv, WorldMove, RowsMove, CleanupStep("actor")
    PROVE  ControlMove
<1> USE DEF Owners
<1>a. \A l \in Labels : Step("actor", l) =>
         /\ pc' \in [Owners -> Labels] /\ pc'["actor"] = l /\ pc'["watch"] = pc["watch"]
         /\ req' \in Requests \cup {"none"}
         /\ phase' \in {"down", "cleaning", "startup", "open"}
  BY Stepping
<1>b. gen' = gen /\ faults' \in Nat
  BY ControlHolds DEF CleanupStep, CleanupTry, CleanupAbandon, CleanupObserve, CleanupStop,
     CleanupCommit, CleanupRelease, CleanupFinish, ControlTypes
<1>c. "watch" \in fresh' => "watch" \in fresh
  BY DEF CleanupStep, CleanupTry, CleanupAbandon, CleanupObserve, CleanupStop, CleanupCommit,
     CleanupRelease, CleanupFinish, FinishRow, Save, Load, Abandon, Apply
<1> DEFINE Plain == {"idle", "c_abandon", "c_observe", "c_stop", "c_finish", "c_release"}
<1>d. \A l \in Plain \cup {"c_commit"} : l \in Labels BY DEF Labels, CleanupLabels
<1>e. ASSUME NEW l \in Plain, Step("actor", l) PROVE ControlMove
  <2>1. ControlTypes' /\ pc'["actor"] = l /\ pc'["watch"] = pc["watch"]
    BY <1>a, <1>b, <1>d, <1>e, ControlHolds DEF ControlTypes
  <2> QED BY <1>c, <2>1, ActorPlain
<1>f. ASSUME Step("actor", "c_commit"), Quiet' PROVE ControlMove
  <2>1. ControlTypes' /\ pc'["actor"] = "c_commit" /\ pc'["watch"] = pc["watch"]
    BY <1>a, <1>b, <1>d, <1>f, ControlHolds DEF ControlTypes
  <2>2. Recovers' /\ Commits("actor")' BY <1>f, <2>1 DEF Recovers, Commits
  <2> QED BY <1>c, <2>1, <2>2, ActorMoves
<1>1. CASE CleanupTry("actor")
  <2>1. CASE cleanup /\ ~Finishable
    <3>1. CASE sess.step = "applied"
      <4>1. Step("actor", "c_commit") /\ UNCHANGED world BY <1>1, <2>1, <3>1 DEF CleanupTry
      <4>2. Quiet' BY <3>1, <4>1 DEF CustInv, EvidenceHolds, Quiet, world
      <4> QED BY <1>f, <4>1, <4>2
    <3>2. CASE sess.step # "applied"
      <4>1. Step("actor", "c_abandon") \/ Step("actor", "c_observe") BY <1>1, <2>1, <3>2 DEF CleanupTry
      <4> QED BY <1>e, <4>1
    <3> QED BY <3>1, <3>2
  <2>2. CASE ~(cleanup /\ ~Finishable)
    <3>1. Step("actor", "idle") BY <1>1, <2>2 DEF CleanupTry
    <3> QED BY <1>e, <3>1
  <2> QED BY <2>1, <2>2
<1>2. CASE CleanupAbandon("actor") BY <1>2, <1>e DEF CleanupAbandon, Abandon
<1>3. CASE CleanupObserve("actor")
  <2>1. PICK o \in Observations(snap["actor"]) :
           \/ o = "gone" /\ Step("actor", "c_commit")
           \/ Step("actor", "idle") \/ Step("actor", "c_stop")
    BY <1>3 DEF CleanupObserve
  <2>2. UNCHANGED world BY <1>3 DEF CleanupObserve
  <2>3. o = "gone" => Quiet' BY <2>2, GoneIsQuiet DEF Quiet, world
  <2> QED BY <1>e, <1>f, <2>1, <2>3
<1>4. CASE CleanupStop("actor")
  <2>1. CASE MayStop(snap["actor"].id) /\ StopEffect /\ Step("actor", "c_commit")
    <3>1. Quiet' BY <2>1 DEF StopEffect, SetSlot, Quiet
    <3> QED BY <1>f, <2>1, <3>1
  <2>2. CASE Step("actor", "idle") BY <1>e, <2>2
  <2> QED BY <1>4, <2>1, <2>2 DEF CleanupStop
<1>5. CASE CleanupCommit("actor") BY <1>5, <1>e DEF CleanupCommit, Apply
<1>6. CASE CleanupRelease("actor") BY <1>6, <1>e DEF CleanupRelease
<1>7. CASE CleanupFinish("actor") BY <1>7, <1>e DEF CleanupFinish
<1> QED BY <1>1, <1>2, <1>3, <1>4, <1>5, <1>6, <1>7 DEF CleanupStep
(* Where the actor may launch, the row is in place and the watch has nothing to commit. *)
LEMMA Launchable ==
    ASSUME CustInv, pc["actor"] = "launch", slot.state = "reserved"
    PROVE  /\ ~cleanup /\ sess.op = req /\ req # "none" /\ sess.step = "inflight"
           /\ "watch" \in fresh => pc["watch"] \in {"idle", "claim", "stop"}
BY DEF CustInv, LaunchGuarded, Mine, BooksHold, Books

(* The watch goes on: an absence it is about to commit is one, and if the actor may     *)
(* launch the watch has changed nothing and is stale or far from a commit.              *)
LEMMA WatchSteps ==
    ASSUME CustInv, WorldMove, NEW l \in Labels, Step("watch", l), gen' = gen, faults' \in Nat,
           snap'["actor"] = snap["actor"], "actor" \in fresh' => "actor" \in fresh,
           slot' = slot \/ slot'.state \in {"stopped", "vacant"},
           l \in {"commit", "c_commit", "l_gone"} /\ "watch" \in fresh' => Quiet',
           pc["actor"] = "launch" /\ slot.state = "reserved" =>
              /\ UNCHANGED <<sess, cleanup>>
              /\ "watch" \in fresh' => l \in {"idle", "claim", "stop"}
    PROVE  ControlMove
<1>1. /\ pc' \in [Owners -> Labels] /\ pc'["watch"] = l /\ pc'["actor"] = pc["actor"]
      /\ req' = req /\ phase' \in {"down", "cleaning", "startup", "open"}
  BY Stepping DEF Owners
<1>2. ControlTypes' BY <1>1, ControlHolds DEF ControlTypes
<1>3. Commits("watch")' BY <1>1 DEF Commits
<1> QED BY <1>1, <1>2, <1>3, WatchMoves

(* Those of its steps that leave the rows and the slot alone.                           *)
LEMMA WatchLooks ==
    ASSUME CustInv, WorldMove, NEW l \in Labels, Step("watch", l),
           UNCHANGED <<rows, gen, faults, slot>>,
           snap'["actor"] = snap["actor"], "actor" \in fresh' => "actor" \in fresh,
           l \in {"commit", "c_commit", "l_gone"} /\ "watch" \in fresh' => Quiet',
           pc["actor"] = "launch" /\ slot.state = "reserved" /\ "watch" \in fresh' =>
              l \in {"idle", "claim", "stop"}
    PROVE  ControlMove
<1>1. faults' \in Nat BY ControlHolds DEF ControlTypes
<1> QED BY <1>1, WatchSteps DEF rows

(* Every step of the watch's cleanup keeps where the owners stand. *)
LEMMA ControlOfWatchCleanup ==
    ASSUME CustInv, WorldMove, CleanupStep("watch")
    PROVE  ControlMove
<1> USE DEF Owners
<1>a. "watch" \in fresh /\ pc["watch"] \notin {"idle", "claim", "stop"} =>
         ~(pc["actor"] = "launch" /\ slot.state = "reserved")
  BY Launchable
<1>b. {"idle", "c_abandon", "c_observe", "c_stop", "c_finish", "c_release", "c_commit"} \subseteq Labels
  BY DEF Labels, CleanupLabels
<1>1. CASE CleanupTry("watch")
  <2>0. UNCHANGED <<world, gen, faults>> BY <1>1 DEF CleanupTry
  <2>1. CASE cleanup /\ ~Finishable
    <3>1. /\ Load("watch") /\ UNCHANGED <<rows, gen, faults, slot>> BY <1>1, <2>1 DEF CleanupTry, rows, world
    <3>2. /\ snap'["actor"] = snap["actor"] /\ ("actor" \in fresh' => "actor" \in fresh)
      BY <3>1 DEF Load, CustInv, CustodyTypes
    <3>3. ~(pc["actor"] = "launch" /\ slot.state = "reserved") BY <2>1, Launchable
    <3>4. CASE sess.step = "applied"
      <4>1. Step("watch", "c_commit") BY <1>1, <2>1, <3>4 DEF CleanupTry
      <4>2. Quiet' BY <2>0, <3>4 DEF CustInv, EvidenceHolds, Quiet, world
      <4> QED BY <1>b, <3>1, <3>2, <3>3, <4>1, <4>2, WatchLooks
    <3>5. CASE sess.step # "applied"
      <4>1. PICK l \in {"c_abandon", "c_observe"} : Step("watch", l) BY <1>1, <2>1, <3>5 DEF CleanupTry
      <4> QED BY <1>b, <3>1, <3>2, <3>3, <4>1, WatchLooks
    <3> QED BY <3>4, <3>5
  <2>2. CASE ~(cleanup /\ ~Finishable)
    <3>1. Step("watch", "idle") /\ snap' = snap BY <1>1, <2>2 DEF CleanupTry
    <3>2. "actor" \in fresh' => "actor" \in fresh BY <1>1, <2>2 DEF CleanupTry, FinishRow, Save
    <3>3. ~cleanup => UNCHANGED <<sess, cleanup>> BY <1>1 DEF CleanupTry
    <3>4. gen' = gen /\ faults' \in Nat /\ slot' = slot BY <2>0, ControlHolds DEF world, ControlTypes
    <3> QED BY <1>b, <3>1, <3>2, <3>3, <3>4, Launchable, WatchSteps
  <2> QED BY <2>1, <2>2
<1>2. CASE CleanupAbandon("watch")
  <2>1. /\ pc["watch"] = "c_abandon" /\ gen' = gen /\ faults' \in Nat /\ slot' = slot
        /\ snap' = snap /\ cleanup' = cleanup
    BY <1>2, ControlHolds DEF CleanupAbandon, At, world, ControlTypes
  <2>2. PICK l \in {"idle", "c_finish"} :
           /\ Step("watch", l)
           /\ IF "watch" \in fresh THEN fresh' = {} ELSE UNCHANGED <<fresh, sess>>
    BY <1>2 DEF CleanupAbandon, Abandon, Save
  <2> QED BY <1>a, <1>b, <2>1, <2>2, WatchSteps
<1>3. CASE CleanupObserve("watch")
  <2>1. PICK o \in Observations(snap["watch"]) :
           \/ o = "gone" /\ Step("watch", "c_commit")
           \/ Step("watch", "idle") \/ Step("watch", "c_stop")
    BY <1>3 DEF CleanupObserve
  <2>2. UNCHANGED <<rows, world, snap, fresh, gen, faults>> /\ pc["watch"] = "c_observe"
    BY <1>3 DEF CleanupObserve, At
  <2>3. o = "gone" => Quiet' BY <2>2, GoneIsQuiet DEF Quiet, world
  <2>4. PICK l \in {"idle", "c_stop", "c_commit"} : Step("watch", l) /\ (l = "c_commit" => Quiet') BY <2>1, <2>3
  <2>5. slot' = slot BY <2>2 DEF world
  <2> QED BY <1>a, <1>b, <2>2, <2>4, <2>5, WatchLooks
<1>4. CASE CleanupStop("watch")
  <2>1. UNCHANGED <<sess, cleanup, snap, fresh, gen>> /\ pc["watch"] = "c_stop" BY <1>4 DEF CleanupStop, At, rows
  <2>2. faults' \in Nat BY <1>4, ControlHolds DEF CleanupStop, ControlTypes
  <2>3. CASE MayStop(snap["watch"].id) /\ StopEffect /\ Step("watch", "c_commit")
    <3>1. Quiet' /\ slot'.state = "stopped" BY <2>3 DEF StopEffect, SetSlot, Quiet
    <3>2. slot.state # "reserved" BY <2>3 DEF MayStop
    <3> QED BY <1>b, <2>1, <2>2, <2>3, <3>1, <3>2, WatchSteps
  <2>4. CASE Step("watch", "idle") /\ slot' = slot BY <1>b, <2>1, <2>2, <2>4, WatchSteps
  <2> QED BY <1>4, <2>3, <2>4 DEF CleanupStop
<1>5. CASE CleanupCommit("watch")
  <2>1. /\ pc["watch"] = "c_commit" /\ gen' = gen /\ faults' \in Nat /\ slot' = slot
        /\ snap' = snap /\ cleanup' = cleanup
    BY <1>5, ControlHolds DEF CleanupCommit, At, world, ControlTypes
  <2>2. PICK l \in {"idle", "c_release"} :
           /\ Step("watch", l)
           /\ IF "watch" \in fresh THEN fresh' = {} ELSE UNCHANGED <<fresh, sess>>
    BY <1>5 DEF CleanupCommit, Apply, Save
  <2> QED BY <1>a, <1>b, <2>1, <2>2, WatchSteps
<1>6. CASE CleanupRelease("watch")
  <2>1. /\ Step("watch", "c_finish") /\ UNCHANGED <<sess, cleanup, snap, fresh, gen>>
        /\ pc["watch"] = "c_release" /\ faults' \in Nat
    BY <1>6, ControlHolds DEF CleanupRelease, At, rows, ControlTypes
  <2>2. slot' = slot \/ slot'.state = "vacant" BY <1>6 DEF CleanupRelease, Release
  <2> QED BY <1>a, <1>b, <2>1, <2>2, WatchSteps
<1>7. CASE CleanupFinish("watch")
  <2>1. /\ Step("watch", "idle") /\ snap' = snap /\ gen' = gen /\ faults' \in Nat /\ slot' = slot
    BY <1>7, ControlHolds DEF CleanupFinish, world, ControlTypes
  <2>2. "actor" \in fresh' => "actor" \in fresh BY <1>7 DEF CleanupFinish, FinishRow, Save
  <2>3. ~cleanup => UNCHANGED <<sess, cleanup>> BY <1>7 DEF CleanupFinish
  <2> QED BY <1>b, <2>1, <2>2, <2>3, Launchable, WatchSteps
<1> QED BY <1>1, <1>2, <1>3, <1>4, <1>5, <1>6, <1>7 DEF CleanupStep

(* Every step of the watch keeps where the owners stand. *)
LEMMA ControlOfWatch ==
    ASSUME CustInv, WorldMove, Watching
    PROVE  ControlMove
<1> USE DEF Owners
<1>a. "watch" \in fresh /\ pc["watch"] \notin {"idle", "claim", "stop"} =>
         ~(pc["actor"] = "launch" /\ slot.state = "reserved")
  BY Launchable
<1>b. {"idle", "claim", "abandon", "observe", "adopt", "retain", "ambiguous", "reload", "stop",
       "commit", "release", "c_try"} \subseteq Labels
  BY DEF Labels, CleanupLabels
<1>1. CASE WatchCleanup
  <2>1. UNCHANGED <<rows, gen, faults, slot, snap, fresh>> BY <1>1 DEF WatchCleanup, world
  <2>2. PICK l \in {"idle", "c_try"} : Step("watch", l) /\ (l = "c_try" => cleanup) BY <1>1 DEF WatchCleanup
  <2> QED BY <1>b, <2>1, <2>2, Launchable, WatchLooks
<1>2. CASE WatchLoad
  <2>1. UNCHANGED <<rows, gen, faults, slot>> BY <1>2 DEF WatchLoad, world
  <2>2. /\ snap'["actor"] = snap["actor"] /\ ("actor" \in fresh' => "actor" \in fresh)
    BY <1>2 DEF WatchLoad, Load, CustInv, CustodyTypes
  <2>3. PICK l \in {"idle", "claim"} : Step("watch", l) BY <1>2 DEF WatchLoad
  <2> QED BY <1>b, <2>1, <2>2, <2>3, WatchLooks
<1>3. CASE WatchClaim
  <2>1. UNCHANGED <<rows, gen, faults, slot, alive, snap, fresh>> BY <1>3 DEF WatchClaim, world
  <2>2. PICK l \in {"idle", "abandon", "commit", "observe"} :
           /\ Step("watch", l)
           /\ l = "commit" => snap["watch"].step = "applied"
           /\ l # "idle" => ~(req = snap["watch"].op /\ req # "none")
    BY <1>3 DEF WatchClaim
  <2>3. "watch" \in fresh => snap["watch"] = sess BY DEF CustInv, CopiesHold
  <2>4. l = "commit" /\ "watch" \in fresh => Quiet' BY <2>1, <2>2, <2>3 DEF CustInv, EvidenceHolds, Quiet
  <2> QED BY <1>b, <2>1, <2>2, <2>3, <2>4, Launchable, WatchLooks
<1>4. CASE WatchAbandon
  <2>1. /\ pc["watch"] = "abandon" /\ gen' = gen /\ faults' \in Nat /\ slot' = slot
        /\ snap' = snap /\ cleanup' = cleanup
    BY <1>4, ControlHolds DEF WatchAbandon, At, world, ControlTypes
  <2>2. /\ Step("watch", "idle")
        /\ IF "watch" \in fresh THEN fresh' = {} ELSE UNCHANGED <<fresh, sess>>
    BY <1>4 DEF WatchAbandon, Abandon, Save
  <2> QED BY <1>a, <1>b, <2>1, <2>2, WatchSteps
<1>5. CASE WatchObserve
  <2>1. UNCHANGED <<rows, gen, faults, slot, alive, snap, fresh>> /\ pc["watch"] = "observe"
    BY <1>5 DEF WatchObserve, At, world
  <2>2. PICK o \in Observations(snap["watch"]) :
           Step("watch", CASE o = "gone" -> "commit"
                           [] o = "adopted" -> "adopt"
                           [] o = "ambiguous" -> IF phase = "startup" THEN "ambiguous" ELSE "idle"
                           [] OTHER -> "retain")
    BY <1>5 DEF WatchObserve
  <2>3. PICK l \in {"commit", "adopt", "ambiguous", "idle", "retain"} :
           Step("watch", l) /\ (l = "commit" => o = "gone")
    BY <2>2
  <2>4. l = "commit" => Quiet' BY <2>1, <2>3, GoneIsQuiet DEF Quiet
  <2> QED BY <1>a, <1>b, <2>1, <2>3, <2>4, WatchLooks
<1>6. CASE WatchRetain
  <2>1. /\ pc["watch"] \in {"adopt", "retain", "ambiguous"} /\ gen' = gen /\ faults' \in Nat
        /\ slot' = slot /\ snap' = snap /\ cleanup' = cleanup
    BY <1>6, ControlHolds DEF WatchRetain, world, ControlTypes
  <2>2. PICK l \in {"idle", "reload"} :
           /\ Step("watch", l)
           /\ IF "watch" \in fresh THEN fresh' = {} ELSE UNCHANGED <<fresh, sess>>
    BY <1>6 DEF WatchRetain, Apply, Save
  <2> QED BY <1>a, <1>b, <2>1, <2>2, WatchSteps
<1>7. CASE WatchReload
  <2>1. UNCHANGED <<rows, gen, faults, slot>> BY <1>7 DEF WatchReload, world
  <2>2. /\ snap'["actor"] = snap["actor"] /\ ("actor" \in fresh' => "actor" \in fresh)
    BY <1>7 DEF WatchReload, Load, CustInv, CustodyTypes
  <2>3. PICK l \in {"idle", "stop"} : Step("watch", l) BY <1>7 DEF WatchReload
  <2> QED BY <1>b, <2>1, <2>2, <2>3, WatchLooks
<1>8. CASE WatchStop
  <2>1. UNCHANGED <<sess, cleanup, snap, fresh, gen>> BY <1>8 DEF WatchStop, rows
  <2>2. faults' \in Nat BY <1>8, ControlHolds DEF WatchStop, ControlTypes
  <2>3. CASE MayStop(snap["watch"].id) /\ StopEffect /\ Step("watch", "commit")
    <3>1. Quiet' /\ slot'.state = "stopped" BY <2>3 DEF StopEffect, SetSlot, Quiet
    <3>2. slot.state # "reserved" BY <2>3 DEF MayStop
    <3> QED BY <1>b, <2>1, <2>2, <2>3, <3>1, <3>2, WatchSteps
  <2>4. CASE Step("watch", "idle") /\ slot' = slot BY <1>b, <2>1, <2>2, <2>4, WatchSteps
  <2> QED BY <1>8, <2>3, <2>4 DEF WatchStop
<1>9. CASE WatchCommit
  <2>1. /\ pc["watch"] = "commit" /\ gen' = gen /\ faults' \in Nat /\ slot' = slot
        /\ snap' = snap /\ cleanup' = cleanup
    BY <1>9, ControlHolds DEF WatchCommit, At, world, ControlTypes
  <2>2. PICK l \in {"idle", "release"} :
           /\ Step("watch", l)
           /\ IF "watch" \in fresh THEN fresh' = {} ELSE UNCHANGED <<fresh, sess>>
    BY <1>9 DEF WatchCommit, Apply, Save
  <2> QED BY <1>a, <1>b, <2>1, <2>2, WatchSteps
<1>10. CASE WatchRelease
  <2>1. /\ Step("watch", "idle") /\ UNCHANGED <<sess, cleanup, snap, fresh, gen>>
        /\ faults' \in Nat
    BY <1>10, ControlHolds DEF WatchRelease, rows, ControlTypes
  <2>2. slot' = slot \/ slot'.state = "vacant" BY <1>10 DEF WatchRelease, Release
  <2> QED BY <1>b, <2>1, <2>2, WatchSteps
<1> QED BY <1>1, <1>2, <1>3, <1>4, <1>5, <1>6, <1>7, <1>8, <1>9, <1>10 DEF Watching

(* Every step keeps where the owners stand. *)
LEMMA EveryStepControl ==
    ASSUME CustInv, AgentCustodyNext
    PROVE  ControlMove
<1>a. RowsMove /\ WorldMove BY EveryStepRows, EveryStepWorld
<1>1. CASE Launching \/ Stopping \/ Residing BY <1>a, <1>1, ControlOfActor
<1>2. CASE \E p \in Owners : CleanupStep(p)
  <2>1. CASE CleanupStep("actor") BY <1>a, <2>1, ControlOfActorCleanup
  <2>2. CASE CleanupStep("watch") BY <1>a, <2>2, ControlOfWatchCleanup
  <2> QED BY <1>2, <2>1, <2>2 DEF Owners
<1>3. CASE Watching BY <1>a, <1>3, ControlOfWatch
<1>4. CASE RuntimeDies \/ OrphanEnds \/ OrphanLost
  <2>1. UNCHANGED <<rows, procs, slot, gen, phase, faults>> /\ alive' \subseteq alive
    BY <1>4 DEF RuntimeDies, OrphanEnds, OrphanLost
  <2>2. ControlTypes' /\ Recovers' BY <2>1, ControlHolds DEF ControlTypes, Recovers, procs
  <2>3. (pc["actor"] \in {"record", "fail"} => slot.state \in {"stopped", "vacant"})' BY <2>1, ControlHolds DEF procs
  <2>4. \A p \in Owners : Commits(p)' BY <2>1, ControlHolds DEF Commits, Quiet, procs
  <2>5. LaunchGuarded' BY <2>1 DEF CustInv, LaunchGuarded, Mine, rows, procs
  <2> QED BY <2>2, <2>3, <2>4, <2>5 DEF ControlMove
<1>5. CASE IdleFailure
  <2>1. /\ fresh' = {} /\ UNCHANGED <<cleanup, pc, snap, req, slot, gen, phase, faults>>
        /\ sess.kind = "none"
    BY <1>5 DEF IdleFailure, Save, world
  <2>2. ControlTypes' /\ Recovers' BY <2>1, ControlHolds DEF ControlTypes, Recovers
  <2>3. (pc["actor"] \in {"record", "fail"} => slot.state \in {"stopped", "vacant"})' BY <2>1, ControlHolds
  <2>4. \A p \in Owners : Commits(p)' BY <2>1 DEF Commits
  <2>5. LaunchGuarded' BY <2>1 DEF CustInv, LaunchGuarded, Mine
  <2> QED BY <2>2, <2>3, <2>4, <2>5 DEF ControlMove
<1>6. CASE Crash \/ Shutdown
  <2>1. Forget /\ faults' = faults BY <1>6 DEF Crash, Shutdown
  <2>2. /\ pc' = [p \in Owners |-> "idle"] /\ fresh' = {} /\ req' = "none" /\ phase' = "down"
        /\ gen' = gen + 1
    BY <2>1 DEF Forget
  <2>3. pc' \in [Owners -> Labels] /\ pc'["actor"] = "idle" BY <2>2 DEF Owners, Labels
  <2>4. ControlTypes' /\ Recovers' BY <2>1, <2>2, <2>3, ControlHolds DEF ControlTypes, Recovers
  <2>5. LaunchGuarded' /\ \A p \in Owners : Commits(p)' BY <2>2, <2>3 DEF LaunchGuarded, Commits
  <2> QED BY <2>3, <2>4, <2>5 DEF ControlMove
<1>7. CASE Boot
  <2>1. UNCHANGED <<rows, procs, slot, alive, gen, faults>> /\ phase' = "cleaning" BY <1>7 DEF Boot, world
  <2>2. ControlTypes' /\ Recovers' BY <2>1, ControlHolds DEF ControlTypes, Recovers, procs
  <2>3. (pc["actor"] \in {"record", "fail"} => slot.state \in {"stopped", "vacant"})' BY <2>1, ControlHolds DEF procs
  <2>4. \A p \in Owners : Commits(p)' BY <2>1, ControlHolds DEF Commits, Quiet, procs
  <2>5. LaunchGuarded' BY <2>1 DEF CustInv, LaunchGuarded, Mine, rows, procs
  <2> QED BY <2>2, <2>3, <2>4, <2>5 DEF ControlMove
<1> QED BY <1>1, <1>2, <1>3, <1>4, <1>5, <1>6, <1>7 DEF AgentCustodyNext, Faulting

------------------------
(* The invariant and what follows from it. *)

(* The invariant holds of a freshly migrated store. *)
LEMMA CustodyStarts == AgentCustodyInit => CustInv
<1> SUFFICES ASSUME AgentCustodyInit PROVE CustInv OBVIOUS
<1>1. PICK script \in Scripts :
         res = [r \in Requests |-> [action |-> script[r], status |-> "none", gen |-> 0]]
  BY DEF AgentCustodyInit
<1>2. /\ sess = NoSession /\ part = "none" /\ cleanup = FALSE /\ alive = {} /\ lost = {}
      /\ slot = [state |-> "absent", tok |-> 0] /\ last = 0 /\ gen = 0 /\ phase = "open"
      /\ faults = 0 /\ fresh = {} /\ req = "none"
      /\ pc = [p \in Owners |-> "idle"] /\ snap = [p \in Owners |-> NoSession]
  BY DEF AgentCustodyInit
<1>3. NoSession \in Sessions /\ Books(NoSession) /\ NoSession.op = "none" /\ NoSession.id = 0
      /\ NoSession.kind = "none" /\ NoSession.step = "none"
  BY DEF NoSession, Sessions, Books
<1>4. res \in [Requests -> Reservations] /\ \A r \in Requests : ~Pending(r)
  <2>1. \A r \in Requests : script[r] \in Actions BY AgentCustodyAssumption DEF AgentCustodyAssumption, Actions
  <2>2. \A r \in Requests : res[r] \in Reservations /\ res[r].status = "none" BY <1>1, <2>1 DEF Reservations
  <2> QED BY <1>1, <2>2 DEF Pending
<1>5. pc \in [Owners -> Labels] /\ pc["actor"] = "idle" BY <1>2 DEF Owners, Labels
<1>6. slot \in Slots /\ slot.tok = 0 /\ slot.state = "absent" BY <1>2 DEF Slots
<1>7. CustodyTypes
  <2>1. snap \in [Owners -> Sessions] BY <1>2, <1>3
  <2>2. alive \in SUBSET (1..last) /\ lost \in SUBSET (1..last) /\ last \in Nat BY <1>2
  <2>3. slot.tok \in 0..last BY <1>2, <1>6
  <2> QED BY <1>2, <1>3, <1>4, <1>5, <1>6, <2>1, <2>2, <2>3 DEF CustodyTypes
<1>8. BooksHold BY <1>2, <1>3, <1>4, AgentCustodyAssumption DEF BooksHold, Pending, AgentCustodyAssumption
<1>9. CopiesHold /\ EvidenceHolds /\ LaunchGuarded
  BY <1>2, <1>3, <1>5, <1>6 DEF CopiesHold, EvidenceHolds, LaunchGuarded
<1>10. NamedRuntime /\ ExportedIsDone BY <1>2 DEF NamedRuntime, Quiet, ExportedIsDone
<1> QED BY <1>7, <1>8, <1>9, <1>10 DEF CustInv

(* The three moves together keep the invariant. *)
LEMMA CustodySteps == CustInv /\ [AgentCustodyNext]_agentCustody => CustInv'
<1> SUFFICES ASSUME CustInv, [AgentCustodyNext]_agentCustody PROVE CustInv' OBVIOUS
<1>1. CASE AgentCustodyNext
  <2>1. RowsMove /\ WorldMove /\ ControlMove BY <1>1, EveryStepRows, EveryStepWorld, EveryStepControl
  <2>2. CustodyTypes' BY <2>1 DEF RowsMove, RowTypes, WorldMove, WorldTypes, ControlMove, ControlTypes, CustodyTypes
  <2>3. BooksHold' /\ LaunchGuarded' /\ ExportedIsDone' BY <2>1 DEF RowsMove, ControlMove
  <2>4. LaunchBegins => /\ sess.id = slot.tok /\ sess.step = "inflight" /\ sess' = sess
    BY DEF LaunchBegins, CustInv, LaunchGuarded, Mine, rows
  <2>5. CopiesHold'
    <3>1. \A p \in fresh' : snap'[p] = sess' BY <2>1 DEF RowsMove, CopiesMove, CustInv, CopiesHold
    <3> QED BY <2>1, <3>1 DEF ControlMove, Recovers, CopiesHold
  <2>6. EvidenceHolds'
    <3>1. (slot.state \in {"reserved", "stopped"} => Quiet)' BY <2>1 DEF WorldMove
    <3>2. (sess.step = "applied" => Quiet)' BY <2>1, <2>4 DEF WorldMove, RowsMove
    <3>3. (\A p \in fresh : pc[p] \in {"commit", "c_commit", "l_gone"} => Quiet)'
      BY <2>1, <2>2 DEF ControlMove, Commits, CustodyTypes
    <3> QED BY <2>1, <3>1, <3>2, <3>3 DEF ControlMove, EvidenceHolds
  <2>7. NamedRuntime'
    <3> SUFFICES ASSUME ~Quiet' PROVE sess'.id = slot'.tok BY DEF NamedRuntime
    <3>1. slot'.tok = slot.tok BY <2>1 DEF WorldMove
    <3>2. CASE Quiet BY <2>1, <2>4, <3>1, <3>2 DEF WorldMove
    <3>3. CASE ~Quiet
      <4>1. sess.id = slot.tok BY <3>3 DEF CustInv, NamedRuntime
      <4> QED BY <2>1, <3>1, <3>3, <4>1 DEF RowsMove
    <3> QED BY <3>2, <3>3
  <2> QED BY <2>2, <2>3, <2>5, <2>6, <2>7 DEF CustInv
<1>2. CASE UNCHANGED agentCustody
  <2>1. UNCHANGED <<sess, part, res, cleanup, slot, alive, lost, last, gen, phase, pc, snap,
                    fresh, req, faults>>
    BY <1>2 DEF agentCustody, rows, procs, world
  <2>2. CustodyTypes' BY <2>1 DEF CustInv, CustodyTypes
  <2>3. BooksHold' BY <2>1 DEF CustInv, BooksHold, Books, Pending
  <2>4. CopiesHold' /\ EvidenceHolds' BY <2>1 DEF CustInv, CopiesHold, EvidenceHolds, Quiet
  <2>5. LaunchGuarded' /\ NamedRuntime' /\ ExportedIsDone'
    BY <2>1 DEF CustInv, LaunchGuarded, Mine, NamedRuntime, Quiet, ExportedIsDone
  <2> QED BY <2>2, <2>3, <2>4, <2>5 DEF CustInv
<1> QED BY <1>1, <1>2

(* The inductive invariant of an agent session's durable custody: the row and its       *)
(* reservation, what each owner has loaded and may commit, the guarded launch.          *)
THEOREM SessionInvariant == AgentCustodySpec => []CustInv
<1>1. AgentCustodyInit => CustInv BY CustodyStarts
<1>2. CustInv /\ [AgentCustodyNext]_agentCustody => CustInv' BY CustodySteps
<1> QED BY <1>1, <1>2, PTL DEF AgentCustodySpec

(* validate_candidate_authority never meets a row it refuses: the intent and the one    *)
(* pending reservation belong together, whoever commits and however often the server    *)
(* restarts; and no runtime of this server runs that the row does not name.             *)
THEOREM RowsAreAuthority == AgentCustodySpec => []AuthorityHolds
<1>1. CustInv => AuthorityHolds
  <2> SUFFICES ASSUME CustInv PROVE AuthorityHolds OBVIOUS
  <2>1. Books(sess) /\ \A r \in Requests : Pending(r) = (sess.op = r) BY DEF CustInv, BooksHold
  <2>2. slot.tok \in alive => sess.id = slot.tok BY DEF CustInv, NamedRuntime, Quiet
  <2> QED BY <2>1, <2>2 DEF AuthorityHolds, Books
<1> QED BY <1>1, SessionInvariant, PTL

(* Only the clean-up itself removes its row. *)
LEMMA CleanupEnds ==
    ASSUME AgentCustodyNext, cleanup, ~cleanup'
    PROVE  Finishable
<1>1. CASE Launching BY <1>1 DEF Launching, PrepareLaunch, RetryLaunch, ListAgain, ReserveStart, AuthorizeStart,
     AuthorizeRefused, FailBeforeEffect, LaunchOk, LaunchFails, LaunchRefused, ReuseFails,
     CompleteStart, FailLaunch, MarkStartUnconfirmed, StoreFails, rows
<1>2. CASE Stopping BY <1>2 DEF Stopping, PrepareStop, RetryStop, AuthorizeStop, AuthorizeStopRefused, StopRuntime,
     RecordStop, ReleaseStop, FinalizeStop, MarkStopUnconfirmed, rows
<1>3. CASE Residing BY <1>3 DEF Residing, LiveLoad, ProveResident, Remove, LiveObserve, LiveApply, LiveRelease,
     LiveRetry, CommitResident, rows
<1>4. CASE \E p \in Owners : CleanupStep(p)
  BY <1>4 DEF CleanupStep, CleanupTry, CleanupAbandon, CleanupObserve, CleanupStop, CleanupCommit,
     CleanupRelease, CleanupFinish, rows
<1>5. CASE Watching BY <1>5 DEF Watching, WatchCleanup, WatchLoad, WatchClaim, WatchAbandon, WatchObserve,
     WatchRetain, WatchReload, WatchStop, WatchCommit, WatchRelease, rows
<1>6. CASE Faulting BY <1>6
     DEF Faulting, RuntimeDies, OrphanEnds, OrphanLost, IdleFailure, Crash, Shutdown, Boot, rows
<1> QED BY <1>1, <1>2, <1>3, <1>4, <1>5, <1>6 DEF AgentCustodyNext

(* The clean-up row of a removed agent goes only when nothing runs in the slot, and     *)
(* after its clean-up an exported agent is never run again.                             *)
THEOREM RemovedStaysDown == AgentCustodySpec => RemovalEndsRuntime
<1> DEFINE A == /\ cleanup /\ ~cleanup' => slot.tok \notin alive
                /\ part = "exported" /\ ~cleanup => slot'.tok \notin alive'
<1>1. CustInv /\ [AgentCustodyNext]_agentCustody => [A]_agentCustody
  <2> SUFFICES ASSUME CustInv, AgentCustodyNext PROVE A OBVIOUS
  <2>1. ASSUME cleanup, ~cleanup' PROVE Quiet
    <3>1. Finishable BY <2>1, CleanupEnds
    <3>2. sess.id = 0 BY <3>1 DEF Finishable
    <3> QED BY <3>2 DEF CustInv, NamedRuntime, Quiet, CustodyTypes
  <2>2. ASSUME part = "exported", ~cleanup PROVE Quiet'
    <3>1. sess.id = 0 /\ sess.kind = "none" BY <2>2 DEF CustInv, ExportedIsDone
    <3>2. Quiet BY <3>1 DEF CustInv, NamedRuntime, Quiet, CustodyTypes
    <3>3. ~LaunchBegins BY <3>1 DEF LaunchBegins, CustInv, LaunchGuarded, Mine
    <3> QED BY <3>2, <3>3, EveryStepWorld DEF WorldMove
  <2> QED BY <2>1, <2>2 DEF Quiet
<1> QED BY <1>1, SessionInvariant, PTL DEF AgentCustodySpec, RemovalEndsRuntime


=============================================================================
