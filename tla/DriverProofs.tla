------------------------------ MODULE DriverProofs ------------------------------
(***************************************************************************)
(* Proofs about the provider drivers: the remote driver and the room       *)
(* portal, the ACP, OpenCode, Codex and Claude drivers, each under its own *)
(* specification with an inductive invariant of its own.                   *)
(***************************************************************************)
EXTENDS RemoteDriver, CodexDriver, ClaudeDriver, AcpDriver, OpenCodeDriver, FiniteSetTheorems,
        WellFoundedInduction, SequenceTheorems, TLAPS

------------------------
(* RemoteDriver: what may be repeated. *)

Observations == [gen : Nat, receipt : BOOLEAN, outcome : BOOLEAN, closing : BOOLEAN,
                 tools : SUBSET RpTools, executing : SUBSET RpTools, results : Nat,
                 attempts : Nat, reading : BOOLEAN]
Calls == [at : {"none", "queued", "executing", "done", "error"}, gen : Nat]
Rooms == [queue : Seq(RpTools), open : Nat]
Pasts == [opened : Nat, returned : SUBSET Nat, effects : SUBSET Nat]
Drivers == [at : {"idle", "model", "tool", "prepare", "approve", "write", "staged", "cleanup",
                  "aborted"},
            gen : Nat, round : Nat, call : RpTools \cup {0}, uncertain : BOOLEAN,
            previous : BOOLEAN, portalFailed : BOOLEAN, stopped : BOOLEAN, safe : SUBSET Nat]
Tasks == [at : {"none", "prepare", "write", "ended"}, gen : Nat, cancelled : BOOLEAN]

(* The shape of the portal's and the driver's state. *)
RemoteTypes ==
    /\ rp \in Observations
    /\ rpTool \in [RpTools -> Calls]
    /\ rpRoom \in Rooms
    /\ rpPast \in Pasts
    /\ rd \in Drivers
    /\ rdTask \in Tasks

(* Every command in the room's queue waits, and no command is in it twice. *)
Waiting(q, waits) ==
    /\ \A i \in 1..Len(q) : q[i] \in waits
    /\ \A i, j \in 1..Len(q) : q[i] = q[j] => i = j
QueuedTools == {k \in RpTools : rpTool[k].at = "queued"}

(* The driver works in the observation that is open, which is the newest. *)
Turning == {"model", "tool", "prepare", "approve", "write", "staged", "cleanup"}
WorksInside ==
    /\ rp.gen \in {0, rpPast.opened}
    /\ rd.at \in Turning => rp.gen = rd.gen /\ ~rp.closing /\ rp.gen # 0
    /\ rd.gen <= rpPast.opened

(* Nothing of a turn that has not begun exists. *)
NothingAhead ==
    /\ \A k \in RpTools : rpTool[k].at # "none" => rpTool[k].gen <= rd.gen
    /\ \A g \in rpPast.effects \cup rd.safe : g <= rd.gen
    /\ rdTask.gen <= rd.gen

(* A call that had its effect in the room or may still have it. *)
Live(k) == rpTool[k].at \in {"queued", "executing", "done"}
Writing(g) == rdTask.at = "write" /\ rdTask.gen = g
Untouched(g) ==
    /\ g \notin rpPast.effects /\ ~Writing(g)
    /\ \A k \in RpTools : Live(k) => rpTool[k].gen # g

(* Nothing can come of a turn that was reported safe, nor yet of one whose flag is     *)
(* down; while a call is out whose refusal would take the flag down again, that call   *)
(* alone can have an effect.                                                           *)
FlagHolds ==
    /\ \A g \in rd.safe : Untouched(g)
    /\ rd.at \in Turning => rd.gen \notin rd.safe
    /\ (rd.at \in Turning /\ ~rd.uncertain) => Untouched(rd.gen)
    /\ rd.at = "tool" => rd.uncertain /\ rd.call \in RpTools /\ rpTool[rd.call].at # "none"
    /\ (rd.at = "tool" /\ ~rd.previous) =>
          /\ ~Writing(rd.gen)
          /\ \A k \in RpTools \ {rd.call} : Live(k) => rpTool[k].gen # rd.gen
          /\ rpTool[rd.call].at # "done" => rd.gen \notin rpPast.effects

QueueWaits == Waiting(rpRoom.queue, QueuedTools)

RemoteInv == RemoteTypes /\ QueueWaits /\ WorksInside /\ NothingAhead /\ FlagHolds

(* What the room's queue keeps: the command taken waits and is not behind itself, one   *)
(* that was not waiting may join, and nobody else's waiting matters.                    *)
LEMMA HeadWaits ==
    ASSUME NEW q \in Seq(RpTools), q # <<>>, NEW waits, Waiting(q, waits)
    PROVE  /\ Head(q) \in RpTools /\ Head(q) \in waits
           /\ Tail(q) \in Seq(RpTools) /\ Waiting(Tail(q), waits \ {Head(q)})
BY DEF Waiting

(* A command that did not wait may join the queue. *)
LEMMA AppendWaits ==
    ASSUME NEW q \in Seq(RpTools), NEW waits, Waiting(q, waits), NEW k \in RpTools, k \notin waits
    PROVE  Append(q, k) \in Seq(RpTools) /\ Waiting(Append(q, k), waits \cup {k})
<1> DEFINE a == Append(q, k)
<1>1. /\ a \in Seq(RpTools) /\ Len(q) \in Nat /\ Len(a) = Len(q) + 1 /\ a[Len(q) + 1] = k
      /\ \A i \in 1..Len(q) : a[i] = q[i]
  OBVIOUS
<1> HIDE DEF a
<1>2. ASSUME NEW i \in 1..Len(a) PROVE i \in 1..Len(q) \/ (i = Len(q) + 1 /\ a[i] = k) BY <1>1
<1>3. ASSUME NEW i \in 1..Len(a) PROVE a[i] \in waits \cup {k} BY <1>1, <1>2 DEF Waiting
<1>4. ASSUME NEW i \in 1..Len(a), NEW j \in 1..Len(a), a[i] = a[j] PROVE i = j BY <1>1, <1>2, <1>4 DEF Waiting
<1>5. a \in Seq(RpTools) /\ Waiting(a, waits \cup {k}) BY <1>1, <1>3, <1>4 DEF Waiting
<1> QED BY <1>5 DEF a

(* What the portal writes of an observation keeps its generation, or ends one that was  *)
(* closing.                                                                             *)
LEMMA ObservationShapes ==
    ASSUME NEW a \in Observations
    PROVE  /\ NoObservation \in Observations /\ NoObservation.gen = 0
           /\ \A g \in Nat : [NoObservation EXCEPT !.gen = g] \in Observations
                             /\ [NoObservation EXCEPT !.gen = g].gen = g
           /\ Remains(a) \in Observations /\ Remains(a).gen \in {0, a.gen}
           /\ ~a.closing => Remains(a) = a
BY DEF NoObservation, Observations, Remains

(* A call that is answered leaves the observation as it is, but for the call itself,    *)
(* unless the observation was closing.                                                  *)
LEMMA ResolvedShapes ==
    ASSUME rp \in Observations, NEW k \in RpTools, NEW ok \in BOOLEAN
    PROVE  /\ Resolved(k, ok) \in Observations /\ Resolved(k, ok).gen \in {0, rp.gen}
           /\ ~rp.closing => Resolved(k, ok).gen = rp.gen /\ ~Resolved(k, ok).closing
<1> DEFINE n == IF ok /\ k \in rp.executing THEN rp.results + 1 ELSE rp.results
           a == [rp EXCEPT !.tools = rp.tools \ {k}, !.executing = rp.executing \ {k}, !.results = n]
<1>1. n \in Nat /\ rp.tools \ {k} \in SUBSET RpTools /\ rp.executing \ {k} \in SUBSET RpTools BY DEF Observations
<1>2. Resolved(k, ok) \in {rp, Remains(a)} BY DEF Resolved
<1> HIDE DEF n
<1>3. a \in Observations /\ a.gen = rp.gen /\ a.closing = rp.closing BY <1>1 DEF Observations
<1> HIDE DEF a
<1> QED BY <1>2, <1>3, ObservationShapes

(* The parts of the state, one by one. *)
LEMMA RemoteFacts ==
    ASSUME RemoteInv
    PROVE  /\ rp \in Observations /\ rp.gen \in Nat /\ rp.closing \in BOOLEAN
           /\ rpTool \in [RpTools -> Calls]
           /\ \A k \in RpTools : rpTool[k] \in Calls /\ rpTool[k].gen \in Nat
           /\ rpRoom \in Rooms /\ rpRoom.queue \in Seq(RpTools)
           /\ rpPast \in Pasts /\ rpPast.opened \in Nat /\ rpPast.effects \in SUBSET Nat
           /\ rpPast.returned \in SUBSET Nat
           /\ rd \in Drivers /\ rd.gen \in Nat /\ rd.safe \in SUBSET Nat /\ rd.round \in Nat
           /\ rd.uncertain \in BOOLEAN
           /\ rdTask \in Tasks /\ rdTask.gen \in Nat
           /\ QueueWaits /\ WorksInside /\ NothingAhead /\ FlagHolds
BY DEF RemoteInv, RemoteTypes, Observations, Calls, Pasts, Drivers, Tasks, Rooms

(* A turn begins in an observation newer than every other turn. *)
LEMMA RemoteRunTurn ==
    ASSUME RemoteInv, RunTurn PROVE RemoteInv'
<1> USE RemoteFacts
<1> DEFINE d == [rd EXCEPT !.at = "model", !.gen = rp.gen, !.round = 0, !.uncertain = FALSE]
<1>1. /\ rd' = d
      /\ rdTask' = rdTask
      /\ rpTool' = rpTool
      /\ rpRoom' = rpRoom
      /\ rp' = rp
      /\ rpPast' = rpPast
      /\ rd.at = "idle"
      /\ rp.gen # 0 /\ ~rp.closing /\ rd.gen # rp.gen
  BY DEF RunTurn, rpVars
<1>2. /\ d \in Drivers /\ d.at = "model" /\ d.gen = rp.gen /\ d.call = rd.call
      /\ d.uncertain = FALSE /\ d.previous = rd.previous /\ d.safe = rd.safe
  BY <1>1 DEF Drivers
<1> HIDE DEF d
<1>5. RemoteTypes' BY <1>1, <1>2 DEF RemoteTypes
<1>6. QueueWaits' BY <1>1 DEF QueueWaits, QueuedTools
<1>7. WorksInside' /\ NothingAhead' BY <1>1, <1>2 DEF WorksInside, NothingAhead, Turning
<1>8. FlagHolds' BY <1>1, <1>2 DEF FlagHolds, WorksInside, NothingAhead, Turning, Untouched, Writing, Live
<1> QED BY <1>5, <1>6, <1>7, <1>8 DEF RemoteInv

(* A turn that fails says what its flag says. *)
LEMMA RemoteTurnFails ==
    ASSUME RemoteInv, TurnFails PROVE RemoteInv'
<1> USE RemoteFacts
<1> DEFINE w == IF rd.uncertain THEN rd.safe ELSE rd.safe \cup {rd.gen}
<1>0. w \in SUBSET Nat /\ (rd.uncertain => w = rd.safe) /\ (~rd.uncertain => w = rd.safe \cup {rd.gen}) OBVIOUS
<1> DEFINE d == [rd EXCEPT !.at = "aborted", !.safe = w]
<1>1. /\ rd' = d
      /\ rdTask' = rdTask
      /\ rpTool' = rpTool
      /\ rpRoom' = rpRoom
      /\ rp' = rp
      /\ rpPast' = rpPast
      /\ rd.at = "model"
  BY DEF TurnFails, Reported, rpVars
<1>2. /\ d \in Drivers /\ d.at = "aborted" /\ d.gen = rd.gen /\ d.call = rd.call
      /\ d.uncertain = rd.uncertain /\ d.previous = rd.previous /\ d.safe = w
  BY <1>1, <1>0 DEF Drivers
<1> HIDE DEF d, w
<1>5. RemoteTypes' BY <1>1, <1>2, <1>0 DEF RemoteTypes
<1>6. QueueWaits' BY <1>1 DEF QueueWaits, QueuedTools
<1>7. WorksInside' /\ NothingAhead' BY <1>1, <1>2, <1>0 DEF WorksInside, NothingAhead, Turning
<1>8. FlagHolds' BY <1>1, <1>2, <1>0 DEF FlagHolds, WorksInside, NothingAhead, Turning, Untouched, Writing, Live
<1> QED BY <1>5, <1>6, <1>7, <1>8 DEF RemoteInv

(* A refused call changes nothing but the round. *)
LEMMA RemoteToolRefused ==
    ASSUME RemoteInv, ToolRefused PROVE RemoteInv'
<1> USE RemoteFacts
<1> DEFINE n == rd.round + 1
<1>9. n \in Nat OBVIOUS
<1> DEFINE d == [rd EXCEPT !.round = n]
<1>1. /\ rd' = d
      /\ rdTask' = rdTask
      /\ rpTool' = rpTool
      /\ rpRoom' = rpRoom
      /\ rp' = rp
      /\ rpPast' = rpPast
      /\ rd.at = "model"
  BY DEF ToolRefused, NextCall, rpVars
<1> HIDE DEF n
<1>2. /\ d \in Drivers /\ d.at = rd.at /\ d.gen = rd.gen /\ d.call = rd.call
      /\ d.uncertain = rd.uncertain /\ d.previous = rd.previous /\ d.safe = rd.safe
  BY <1>1, <1>9 DEF Drivers
<1> HIDE DEF d
<1>5. RemoteTypes' BY <1>1, <1>2 DEF RemoteTypes
<1>6. QueueWaits' BY <1>1 DEF QueueWaits, QueuedTools
<1>7. WorksInside' /\ NothingAhead' BY <1>1, <1>2 DEF WorksInside, NothingAhead, Turning
<1>8. FlagHolds' BY <1>1, <1>2 DEF FlagHolds, WorksInside, NothingAhead, Turning, Untouched, Writing, Live
<1> QED BY <1>5, <1>6, <1>7, <1>8 DEF RemoteInv

(* A call whose answer is lost leaves the flag up. *)
LEMMA RemotePortalLost ==
    ASSUME RemoteInv, PortalLost PROVE RemoteInv'
<1> USE RemoteFacts
<1> DEFINE e == [rd EXCEPT !.portalFailed = TRUE]
           d == [e EXCEPT !.at = "aborted", !.safe = IF e.uncertain THEN e.safe ELSE e.safe \cup {e.gen}]
<1>1. /\ rd' = d /\ rdTask' = rdTask
      /\ rpTool' = rpTool /\ rpRoom' = rpRoom /\ rp' = rp /\ rpPast' = rpPast
      /\ rd.at = "tool"
  BY DEF PortalLost, Reported, rpVars
<1>2. rd.uncertain BY <1>1 DEF FlagHolds
<1>3. /\ e \in Drivers /\ e.gen = rd.gen /\ e.call = rd.call
      /\ e.uncertain = rd.uncertain /\ e.previous = rd.previous /\ e.safe = rd.safe
  BY DEF Drivers
<1> HIDE DEF e
<1>4. d = [e EXCEPT !.at = "aborted", !.safe = rd.safe] BY <1>2, <1>3
<1> HIDE DEF d
<1>5. d \in Drivers /\ d.at = "aborted" /\ d.gen = rd.gen /\ d.safe = rd.safe BY <1>3, <1>4 DEF Drivers
<1>6. RemoteTypes' BY <1>1, <1>5 DEF RemoteTypes
<1>7. QueueWaits' BY <1>1 DEF QueueWaits, QueuedTools
<1>8. WorksInside' /\ NothingAhead' BY <1>1, <1>5 DEF WorksInside, NothingAhead, Turning
<1>9. FlagHolds' BY <1>1, <1>5 DEF FlagHolds, Turning, Untouched, Writing, Live
<1> QED BY <1>6, <1>7, <1>8, <1>9 DEF RemoteInv

(* A path is resolved before anything is written. *)
LEMMA RemoteWorkspaceCall ==
    ASSUME RemoteInv, WorkspaceCall PROVE RemoteInv'
<1> USE RemoteFacts
<1> DEFINE d == [rd EXCEPT !.at = "prepare"]
<1> DEFINE t == [at |-> "prepare", gen |-> rd.gen, cancelled |-> FALSE]
<1>1. /\ rd' = d
      /\ rdTask' = t
      /\ rpTool' = rpTool
      /\ rpRoom' = rpRoom
      /\ rp' = rp
      /\ rpPast' = rpPast
      /\ rd.at = "model"
  BY DEF WorkspaceCall, NextCall, RunsIn, rpVars
<1>2. /\ d \in Drivers /\ d.at = "prepare" /\ d.gen = rd.gen /\ d.call = rd.call
      /\ d.uncertain = rd.uncertain /\ d.previous = rd.previous /\ d.safe = rd.safe
  BY <1>1 DEF Drivers
<1>3. t \in Tasks /\ t.at = "prepare" /\ t.gen = rd.gen BY <1>1 DEF Tasks
<1> HIDE DEF d, t
<1>5. RemoteTypes' BY <1>1, <1>2, <1>3 DEF RemoteTypes
<1>6. QueueWaits' BY <1>1 DEF QueueWaits, QueuedTools
<1>7. WorksInside' /\ NothingAhead' BY <1>1, <1>2, <1>3 DEF WorksInside, NothingAhead, Turning
<1>8. FlagHolds' BY <1>1, <1>2, <1>3 DEF FlagHolds, WorksInside, NothingAhead, Turning, Untouched, Writing, Live
<1> QED BY <1>5, <1>6, <1>7, <1>8 DEF RemoteInv

(* The path is resolved. *)
LEMMA RemotePrepared ==
    ASSUME RemoteInv, Prepared PROVE RemoteInv'
<1> USE RemoteFacts
<1> DEFINE d == [rd EXCEPT !.at = "approve"]
<1> DEFINE t == [rdTask EXCEPT !.at = "none"]
<1>1. /\ rd' = d
      /\ rdTask' = t
      /\ rpTool' = rpTool
      /\ rpRoom' = rpRoom
      /\ rp' = rp
      /\ rpPast' = rpPast
      /\ rd.at = "prepare"
      /\ rdTask.at = "ended"
  BY DEF Prepared, RunsIn, rpVars
<1>2. /\ d \in Drivers /\ d.at = "approve" /\ d.gen = rd.gen /\ d.call = rd.call
      /\ d.uncertain = rd.uncertain /\ d.previous = rd.previous /\ d.safe = rd.safe
  BY <1>1 DEF Drivers
<1>3. t \in Tasks /\ t.at = "none" /\ t.gen = rdTask.gen BY <1>1 DEF Tasks
<1> HIDE DEF d, t
<1>5. RemoteTypes' BY <1>1, <1>2, <1>3 DEF RemoteTypes
<1>6. QueueWaits' BY <1>1 DEF QueueWaits, QueuedTools
<1>7. WorksInside' /\ NothingAhead' BY <1>1, <1>2, <1>3 DEF WorksInside, NothingAhead, Turning
<1>8. FlagHolds' BY <1>1, <1>2, <1>3 DEF FlagHolds, WorksInside, NothingAhead, Turning, Untouched, Writing, Live
<1> QED BY <1>5, <1>6, <1>7, <1>8 DEF RemoteInv

(* The write is done; the flag has been up since it started. *)
LEMMA RemoteWritten ==
    ASSUME RemoteInv, Written PROVE RemoteInv'
<1> USE RemoteFacts
<1> DEFINE n == rd.round + 1
<1>9. n \in Nat OBVIOUS
<1> DEFINE d == [rd EXCEPT !.at = "model", !.round = n]
<1> DEFINE t == [rdTask EXCEPT !.at = "none"]
<1>1. /\ rd' = d
      /\ rdTask' = t
      /\ rpTool' = rpTool
      /\ rpRoom' = rpRoom
      /\ rp' = rp
      /\ rpPast' = rpPast
      /\ rd.at = "write"
      /\ rdTask.at = "ended"
  BY DEF Written, rpVars
<1> HIDE DEF n
<1>2. /\ d \in Drivers /\ d.at = "model" /\ d.gen = rd.gen /\ d.call = rd.call
      /\ d.uncertain = rd.uncertain /\ d.previous = rd.previous /\ d.safe = rd.safe
  BY <1>1, <1>9 DEF Drivers
<1>3. t \in Tasks /\ t.at = "none" /\ t.gen = rdTask.gen BY <1>1 DEF Tasks
<1> HIDE DEF d, t
<1>5. RemoteTypes' BY <1>1, <1>2, <1>3 DEF RemoteTypes
<1>6. QueueWaits' BY <1>1 DEF QueueWaits, QueuedTools
<1>7. WorksInside' /\ NothingAhead' BY <1>1, <1>2, <1>3 DEF WorksInside, NothingAhead, Turning
<1>8. FlagHolds' BY <1>1, <1>2, <1>3 DEF FlagHolds, WorksInside, NothingAhead, Turning, Untouched, Writing, Live
<1> QED BY <1>5, <1>6, <1>7, <1>8 DEF RemoteInv

(* The turn is dropped where it is. *)
LEMMA RemoteInterrupted ==
    ASSUME RemoteInv, RemoteInterrupt PROVE RemoteInv'
<1> USE RemoteFacts
<1> DEFINE d == [rd EXCEPT !.at = "cleanup"]
<1> DEFINE t == [rdTask EXCEPT !.cancelled = TRUE]
<1>1. /\ rd' = d
      /\ rdTask' = t
      /\ rpTool' = rpTool
      /\ rpRoom' = rpRoom
      /\ rp' = rp
      /\ rpPast' = rpPast
      /\ rd.at \in Turning \ {"cleanup"}
  BY DEF RemoteInterrupt, RunsIn, Turning, rpVars
<1>2. /\ d \in Drivers /\ d.at = "cleanup" /\ d.gen = rd.gen /\ d.call = rd.call
      /\ d.uncertain = rd.uncertain /\ d.previous = rd.previous /\ d.safe = rd.safe
  BY <1>1 DEF Drivers
<1>3. t \in Tasks /\ t.at = rdTask.at /\ t.gen = rdTask.gen BY <1>1 DEF Tasks
<1> HIDE DEF d, t
<1>5. RemoteTypes' BY <1>1, <1>2, <1>3 DEF RemoteTypes
<1>6. QueueWaits' BY <1>1 DEF QueueWaits, QueuedTools
<1>7. WorksInside' /\ NothingAhead' BY <1>1, <1>2, <1>3 DEF WorksInside, NothingAhead, Turning
<1>8. FlagHolds' BY <1>1, <1>2, <1>3 DEF FlagHolds, WorksInside, NothingAhead, Turning, Untouched, Writing, Live
<1> QED BY <1>5, <1>6, <1>7, <1>8 DEF RemoteInv

(* A runtime whose file operation does not end says nothing of its turn. *)
LEMMA RemoteCleanupFails ==
    ASSUME RemoteInv, CleanupFails PROVE RemoteInv'
<1> USE RemoteFacts
<1> DEFINE d == [rd EXCEPT !.at = "aborted", !.stopped = TRUE]
<1>1. /\ rd' = d
      /\ rdTask' = rdTask
      /\ rpTool' = rpTool
      /\ rpRoom' = rpRoom
      /\ rp' = rp
      /\ rpPast' = rpPast
      /\ rd.at = "cleanup"
  BY DEF CleanupFails, rpVars
<1>2. /\ d \in Drivers /\ d.at = "aborted" /\ d.gen = rd.gen /\ d.call = rd.call
      /\ d.uncertain = rd.uncertain /\ d.previous = rd.previous /\ d.safe = rd.safe
  BY <1>1 DEF Drivers
<1> HIDE DEF d
<1>5. RemoteTypes' BY <1>1, <1>2 DEF RemoteTypes
<1>6. QueueWaits' BY <1>1 DEF QueueWaits, QueuedTools
<1>7. WorksInside' /\ NothingAhead' BY <1>1, <1>2 DEF WorksInside, NothingAhead, Turning
<1>8. FlagHolds' BY <1>1, <1>2 DEF FlagHolds, WorksInside, NothingAhead, Turning, Untouched, Writing, Live
<1> QED BY <1>5, <1>6, <1>7, <1>8 DEF RemoteInv

(* A call that returns an effect leaves the flag up, an error puts it as it was. *)
LEMMA RemoteToolReturns ==
    ASSUME RemoteInv, ToolReturns PROVE RemoteInv'
<1> USE RemoteFacts
<1> DEFINE n == rd.round + 1
           u == rpTool[rd.call].at = "done" \/ rd.previous
<1>0. n \in Nat /\ u \in BOOLEAN OBVIOUS
<1>u. u = (rpTool[rd.call].at = "done" \/ rd.previous) OBVIOUS
<1> DEFINE d == [rd EXCEPT !.at = "model", !.round = n, !.uncertain = u]
<1>1. /\ rd' = d /\ rdTask' = rdTask
      /\ rpTool' = rpTool /\ rpRoom' = rpRoom /\ rp' = rp /\ rpPast' = rpPast
      /\ rd.at = "tool" /\ rpTool[rd.call].at \in {"done", "error"}
  BY DEF ToolReturns, rpVars
<1> HIDE DEF n, u
<1>2. d \in Drivers /\ d.at = "model" /\ d.gen = rd.gen /\ d.uncertain = u /\ d.safe = rd.safe BY <1>0 DEF Drivers
<1> HIDE DEF d
<1>3. RemoteTypes' BY <1>1, <1>2 DEF RemoteTypes
<1>4. QueueWaits' BY <1>1 DEF QueueWaits, QueuedTools
<1>5. WorksInside' /\ NothingAhead' BY <1>1, <1>2 DEF WorksInside, NothingAhead, Turning
<1>6. ~u => Untouched(rd.gen) BY <1>1, <1>u DEF FlagHolds, Untouched, Writing, Live
<1>7. FlagHolds' BY <1>1, <1>2, <1>6 DEF FlagHolds, Turning, Untouched, Writing, Live
<1> QED BY <1>3, <1>4, <1>5, <1>7 DEF RemoteInv

(* The write that is approved raises the flag before it starts. *)
LEMMA RemoteApproved ==
    ASSUME RemoteInv, Approved PROVE RemoteInv'
<1> USE RemoteFacts
<1>1. CASE /\ rd' = [rd EXCEPT !.at = "write", !.uncertain = TRUE]
           /\ rdTask' = [at |-> "write", gen |-> rd.gen, cancelled |-> FALSE]
  <2> DEFINE d == [rd EXCEPT !.at = "write", !.uncertain = TRUE]
  <2> DEFINE t == [at |-> "write", gen |-> rd.gen, cancelled |-> FALSE]
  <2>1. /\ rd' = d
        /\ rdTask' = t
        /\ rpTool' = rpTool
        /\ rpRoom' = rpRoom
        /\ rp' = rp
        /\ rpPast' = rpPast
        /\ rd.at = "approve"
    BY <1>1 DEF Approved, rpVars
  <2>2. /\ d \in Drivers /\ d.at = "write" /\ d.gen = rd.gen /\ d.call = rd.call
        /\ d.uncertain = TRUE /\ d.previous = rd.previous /\ d.safe = rd.safe
    BY <2>1 DEF Drivers
  <2>3. t \in Tasks /\ t.at = "write" /\ t.gen = rd.gen BY <2>1 DEF Tasks
  <2> HIDE DEF d, t
  <2>5. RemoteTypes' BY <2>1, <2>2, <2>3 DEF RemoteTypes
  <2>6. QueueWaits' BY <2>1 DEF QueueWaits, QueuedTools
  <2>7. WorksInside' /\ NothingAhead' BY <2>1, <2>2, <2>3 DEF WorksInside, NothingAhead, Turning
  <2>8. FlagHolds' BY <2>1, <2>2, <2>3 DEF FlagHolds, WorksInside, NothingAhead, Turning, Untouched, Writing, Live
  <2> QED BY <2>5, <2>6, <2>7, <2>8 DEF RemoteInv
<1>2. CASE rd' = [rd EXCEPT !.at = "model", !.round = @ + 1] /\ UNCHANGED rdTask
  <2> DEFINE n == rd.round + 1
  <2>9. n \in Nat OBVIOUS
  <2> DEFINE d == [rd EXCEPT !.at = "model", !.round = n]
  <2>1. /\ rd' = d
        /\ rdTask' = rdTask
        /\ rpTool' = rpTool
        /\ rpRoom' = rpRoom
        /\ rp' = rp
        /\ rpPast' = rpPast
        /\ rd.at = "approve"
    BY <1>2 DEF Approved, rpVars
  <2> HIDE DEF n
  <2>2. /\ d \in Drivers /\ d.at = "model" /\ d.gen = rd.gen /\ d.call = rd.call
        /\ d.uncertain = rd.uncertain /\ d.previous = rd.previous /\ d.safe = rd.safe
    BY <2>1, <2>9 DEF Drivers
  <2> HIDE DEF d
  <2>5. RemoteTypes' BY <2>1, <2>2 DEF RemoteTypes
  <2>6. QueueWaits' BY <2>1 DEF QueueWaits, QueuedTools
  <2>7. WorksInside' /\ NothingAhead' BY <2>1, <2>2 DEF WorksInside, NothingAhead, Turning
  <2>8. FlagHolds' BY <2>1, <2>2 DEF FlagHolds, WorksInside, NothingAhead, Turning, Untouched, Writing, Live
  <2> QED BY <2>5, <2>6, <2>7, <2>8 DEF RemoteInv
<1> QED BY <1>1, <1>2 DEF Approved

(* The turn that was dropped and cleaned up says what its flag says. *)
LEMMA RemoteCleanedUp ==
    ASSUME RemoteInv, CleanedUp PROVE RemoteInv'
<1> USE RemoteFacts
<1> DEFINE w == IF rd.uncertain THEN rd.safe ELSE rd.safe \cup {rd.gen}
<1>0. w \in SUBSET Nat /\ (rd.uncertain => w = rd.safe) /\ (~rd.uncertain => w = rd.safe \cup {rd.gen}) OBVIOUS
<1> DEFINE d == [rd EXCEPT !.at = "aborted", !.safe = w]
<1> DEFINE t == [rdTask EXCEPT !.at = "none"]
<1>1. /\ rd' = d
      /\ rdTask' = t
      /\ rpTool' = rpTool
      /\ rpRoom' = rpRoom
      /\ rp' = rp
      /\ rpPast' = rpPast
      /\ rd.at = "cleanup"
  BY DEF CleanedUp, Reported, RdJoined, rpVars
<1>2. /\ d \in Drivers /\ d.at = "aborted" /\ d.gen = rd.gen /\ d.call = rd.call
      /\ d.uncertain = rd.uncertain /\ d.previous = rd.previous /\ d.safe = w
  BY <1>1, <1>0 DEF Drivers
<1>3. t \in Tasks /\ t.at = "none" /\ t.gen = rdTask.gen BY <1>1 DEF Tasks
<1> HIDE DEF d, t, w
<1>5. RemoteTypes' BY <1>1, <1>2, <1>3, <1>0 DEF RemoteTypes
<1>6. QueueWaits' BY <1>1 DEF QueueWaits, QueuedTools
<1>7. WorksInside' /\ NothingAhead' BY <1>1, <1>2, <1>3, <1>0 DEF WorksInside, NothingAhead, Turning
<1>8. FlagHolds' BY <1>1, <1>2, <1>3, <1>0 DEF FlagHolds, WorksInside, NothingAhead, Turning, Untouched, Writing, Live
<1> QED BY <1>5, <1>6, <1>7, <1>8 DEF RemoteInv

(* The first round reads the discussion. *)
LEMMA RemoteForcedRead ==
    ASSUME RemoteInv, ForcedRead PROVE RemoteInv'
<1> USE RemoteFacts
<1> DEFINE d == [rd EXCEPT !.round = 1]
<1>1. /\ rd' = d
      /\ rdTask' = rdTask
      /\ rpTool' = rpTool
      /\ rpRoom' = rpRoom
      /\ rp' = [rp EXCEPT !.receipt = TRUE]
      /\ rpPast' = rpPast
      /\ rd.at = "model"
  BY DEF ForcedRead, ReadDiscussion, rpVars
<1>2. /\ d \in Drivers /\ d.at = rd.at /\ d.gen = rd.gen /\ d.call = rd.call
      /\ d.uncertain = rd.uncertain /\ d.previous = rd.previous /\ d.safe = rd.safe
  BY <1>1 DEF Drivers
<1> HIDE DEF d
<1>4. rp' \in Observations /\ rp'.gen = rp.gen /\ rp'.closing = rp.closing BY <1>1, RemoteFacts DEF Observations
<1>5. RemoteTypes' BY <1>1, <1>2, <1>4 DEF RemoteTypes
<1>6. QueueWaits' BY <1>1 DEF QueueWaits, QueuedTools
<1>7. WorksInside' /\ NothingAhead' BY <1>1, <1>2, <1>4 DEF WorksInside, NothingAhead, Turning
<1>8. FlagHolds' BY <1>1, <1>2, <1>4 DEF FlagHolds, WorksInside, NothingAhead, Turning, Untouched, Writing, Live
<1> QED BY <1>5, <1>6, <1>7, <1>8 DEF RemoteInv

(* A staged outcome raises the flag. *)
LEMMA RemoteCallTerminal ==
    ASSUME RemoteInv, CallTerminal PROVE RemoteInv'
<1> USE RemoteFacts
<1> DEFINE d == [rd EXCEPT !.at = "staged", !.uncertain = TRUE]
<1>1. /\ rd' = d
      /\ rdTask' = rdTask
      /\ rpTool' = rpTool
      /\ rpRoom' = rpRoom
      /\ rp' = [rp EXCEPT !.outcome = TRUE]
      /\ rpPast' = rpPast
      /\ rd.at = "model"
  BY DEF CallTerminal, NextCall, StageOutcome, rpVars
<1>2. /\ d \in Drivers /\ d.at = "staged" /\ d.gen = rd.gen /\ d.call = rd.call
      /\ d.uncertain = TRUE /\ d.previous = rd.previous /\ d.safe = rd.safe
  BY <1>1 DEF Drivers
<1> HIDE DEF d
<1>4. rp' \in Observations /\ rp'.gen = rp.gen /\ rp'.closing = rp.closing BY <1>1, RemoteFacts DEF Observations
<1>5. RemoteTypes' BY <1>1, <1>2, <1>4 DEF RemoteTypes
<1>6. QueueWaits' BY <1>1 DEF QueueWaits, QueuedTools
<1>7. WorksInside' /\ NothingAhead' BY <1>1, <1>2, <1>4 DEF WorksInside, NothingAhead, Turning
<1>8. FlagHolds' BY <1>1, <1>2, <1>4 DEF FlagHolds, WorksInside, NothingAhead, Turning, Untouched, Writing, Live
<1> QED BY <1>5, <1>6, <1>7, <1>8 DEF RemoteInv

(* A finished turn is not one that was reported safe. *)
LEMMA RemoteFinishes ==
    ASSUME RemoteInv, RemoteFinish PROVE RemoteInv'
<1> USE RemoteFacts
<1> DEFINE d == [rd EXCEPT !.at = "idle"]
           p == [rpPast EXCEPT !.returned = rpPast.returned \cup {rp.gen},
                               !.effects = rpPast.effects \cup {rp.gen}]
           m == [rpRoom EXCEPT !.open = 0]
<1>1. /\ rd' = d /\ rdTask' = rdTask /\ rpTool' = rpTool
      /\ rpRoom' = m /\ rpPast' = p /\ rp' = NoObservation
      /\ rd.at = "staged"
  BY DEF RemoteFinish, FinishObservation, RunsIn
<1>2. d \in Drivers /\ d.at = "idle" /\ d.gen = rd.gen /\ d.safe = rd.safe BY DEF Drivers
<1>3. p \in Pasts /\ p.opened = rpPast.opened /\ p.effects = rpPast.effects \cup {rp.gen} BY DEF Pasts
<1>4. m \in Rooms /\ m.queue = rpRoom.queue BY DEF Rooms
<1>5. NoObservation \in Observations /\ NoObservation.gen = 0 BY ObservationShapes
<1>6. rp.gen = rd.gen /\ rd.gen \notin rd.safe BY <1>1 DEF WorksInside, FlagHolds, Turning
<1> HIDE DEF d, p, m
<1>7. RemoteTypes' BY <1>1, <1>2, <1>3, <1>4, <1>5 DEF RemoteTypes
<1>8. QueueWaits' BY <1>1, <1>4 DEF QueueWaits, QueuedTools
<1>9. WorksInside' /\ NothingAhead' BY <1>1, <1>2, <1>3, <1>5, <1>6 DEF WorksInside, NothingAhead, Turning
<1>10. FlagHolds' BY <1>1, <1>2, <1>3, <1>6 DEF FlagHolds, Turning, Untouched, Writing, Live
<1> QED BY <1>7, <1>8, <1>9, <1>10 DEF RemoteInv

(* An aborted turn leaves its observation to what is still pending in it. *)
LEMMA RemoteAborts ==
    ASSUME RemoteInv, RemoteAbort PROVE RemoteInv'
<1> USE RemoteFacts
<1> DEFINE d == [rd EXCEPT !.at = "idle"]
<1>1. /\ rd' = d /\ rdTask' = rdTask /\ rpTool' = rpTool /\ rpRoom' = rpRoom /\ rpPast' = rpPast
      /\ rd.at = "aborted" /\ rp' \in {rp, TurnEnded}
  BY DEF RemoteAbort, EndObservation, RunsIn, rpVars
<1>2. d \in Drivers /\ d.at = "idle" /\ d.gen = rd.gen /\ d.safe = rd.safe BY DEF Drivers
<1>3. rp' \in Observations /\ rp'.gen \in {0, rp.gen}
  <2> DEFINE a == [rp EXCEPT !.closing = TRUE, !.tools = rp.executing]
  <2>1. a \in Observations /\ a.gen = rp.gen /\ TurnEnded = Remains(a) BY DEF Observations, TurnEnded
  <2> HIDE DEF a
  <2> QED BY <1>1, <2>1, ObservationShapes
<1> HIDE DEF d
<1>4. RemoteTypes' BY <1>1, <1>2, <1>3 DEF RemoteTypes
<1>5. QueueWaits' BY <1>1 DEF QueueWaits, QueuedTools
<1>6. WorksInside' /\ NothingAhead' BY <1>1, <1>2, <1>3 DEF WorksInside, NothingAhead, Turning
<1>7. FlagHolds' BY <1>1, <1>2 DEF FlagHolds, Turning, Untouched, Writing, Live
<1> QED BY <1>4, <1>5, <1>6, <1>7 DEF RemoteInv

(* The file is replaced only by a task that was writing, in a turn not reported safe. *)
LEMMA RemoteTaskEnds ==
    ASSUME RemoteInv, TaskEnds PROVE RemoteInv'
<1> USE RemoteFacts
<1> DEFINE t == [rdTask EXCEPT !.at = "ended"]
           p == [rpPast EXCEPT !.effects = rpPast.effects \cup {rdTask.gen}]
<1>1. /\ rd' = rd /\ rdTask' = t /\ rpTool' = rpTool /\ rpRoom' = rpRoom /\ rp' = rp
      /\ (rdTask.at = "write" /\ rpPast' = p) \/ rpPast' = rpPast
  BY DEF TaskEnds
<1>2. t \in Tasks /\ t.at = "ended" /\ t.gen = rdTask.gen BY DEF Tasks
<1>3. p \in Pasts /\ p.opened = rpPast.opened /\ p.effects = rpPast.effects \cup {rdTask.gen} BY DEF Pasts
<1> HIDE DEF t, p
<1>4. RemoteTypes' BY <1>1, <1>2, <1>3 DEF RemoteTypes
<1>5. QueueWaits' BY <1>1 DEF QueueWaits, QueuedTools
<1>6. WorksInside' /\ NothingAhead' BY <1>1, <1>2, <1>3 DEF WorksInside, NothingAhead, Turning
<1>7. FlagHolds' BY <1>1, <1>2, <1>3 DEF FlagHolds, Turning, Untouched, Writing, Live
<1> QED BY <1>4, <1>5, <1>6, <1>7 DEF RemoteInv

(* An observation is opened when none is: no turn of the driver runs in one. *)
LEMMA RemoteBegin ==
    ASSUME RemoteInv, BeginObservation, UNCHANGED <<rd, rdTask>> PROVE RemoteInv'
<1> USE RemoteFacts
<1> DEFINE n == rpPast.opened + 1
<1>0. n \in Nat /\ n > rpPast.opened OBVIOUS
<1> DEFINE p == [rpPast EXCEPT !.opened = n]
           m == [rpRoom EXCEPT !.open = n]
<1>1. /\ rd' = rd /\ rdTask' = rdTask /\ rpTool' = rpTool
      /\ rpPast' = p /\ rp' = [NoObservation EXCEPT !.gen = rpPast'.opened]
      /\ rpRoom' = [rpRoom EXCEPT !.open = rpPast'.opened] /\ rp = NoObservation
  BY DEF BeginObservation
<1> HIDE DEF n
<1>2. p \in Pasts /\ p.opened = n /\ p.effects = rpPast.effects BY <1>0 DEF Pasts
<1>3. m \in Rooms /\ m.queue = rpRoom.queue BY <1>0 DEF Rooms
<1>4. /\ rp' \in Observations /\ rp'.gen = n /\ rp.gen = 0
      /\ rpRoom' = m
  BY <1>0, <1>1, <1>2, ObservationShapes
<1> HIDE DEF p, m
<1>5. RemoteTypes' BY <1>1, <1>2, <1>3, <1>4 DEF RemoteTypes
<1>6. QueueWaits' BY <1>1, <1>3, <1>4 DEF QueueWaits, QueuedTools
<1>7. WorksInside' /\ NothingAhead' BY <1>0, <1>1, <1>2, <1>4 DEF WorksInside, NothingAhead, Turning
<1>8. FlagHolds' BY <1>1, <1>2 DEF FlagHolds, Turning, Untouched, Writing, Live
<1> QED BY <1>5, <1>6, <1>7, <1>8 DEF RemoteInv

(* What a step of the room does that gives no call an effect: it takes waiting calls    *)
(* out of the queue, and those it takes are executed or refused.                        *)
LEMMA RoomMoves ==
    ASSUME RemoteInv, UNCHANGED <<rd, rdTask, rpPast>>, NEW k \in RpTools, NEW c \in Calls,
           rpTool[k].at = "queued", rpTool' = [rpTool EXCEPT ![k] = c],
           c.at \in {"executing", "error"}, c.gen = rpTool[k].gen,
           rpRoom' \in Rooms, Waiting(rpRoom'.queue, QueuedTools \ {k}),
           rp' \in Observations, rp'.gen \in {0, rp.gen},
           ~rp.closing => rp'.gen = rp.gen /\ ~rp'.closing
    PROVE  RemoteInv'
<1> USE RemoteFacts
<1>1. /\ rpTool' \in [RpTools -> Calls] /\ rpTool'[k] = c
      /\ \A j \in RpTools \ {k} : rpTool'[j] = rpTool[j]
  OBVIOUS
<1>2. RemoteTypes' BY <1>1 DEF RemoteTypes
<1>3. QueuedTools' = QueuedTools \ {k} BY <1>1 DEF QueuedTools
<1>4. QueueWaits' BY <1>3 DEF QueueWaits
<1>5. WorksInside' /\ NothingAhead' BY <1>1 DEF WorksInside, NothingAhead, Turning
<1>6. FlagHolds' BY <1>1 DEF FlagHolds, Turning, Untouched, Writing, Live
<1> QED BY <1>2, <1>4, <1>5, <1>6 DEF RemoteInv

(* The room takes a command, or drops it with its queue. *)
LEMMA RemoteTake ==
    ASSUME RemoteInv, TakeTool \/ DropTool, UNCHANGED <<rd, rdTask>> PROVE RemoteInv'
<1> USE RemoteFacts
<1> DEFINE q == rpRoom.queue
           k == Head(q)
           m == [rpRoom EXCEPT !.queue = Tail(q)]
           c == [rpTool[k] EXCEPT !.at = "executing"]
           e == [rpTool[k] EXCEPT !.at = "error"]
<1>1. /\ q # <<>> /\ rpRoom' = m /\ rpPast' = rpPast /\ rd' = rd /\ rdTask' = rdTask
      /\ \/ /\ rp' = [rp EXCEPT !.executing = @ \cup {k}]
            /\ rpTool' = [rpTool EXCEPT ![k].at = "executing"]
         \/ rp' = Resolved(k, FALSE) /\ rpTool' = [rpTool EXCEPT ![k].at = "error"]
  BY Zenon DEF TakeTool, DropTool
<1> HIDE DEF q
<1>q. q \in Seq(RpTools) /\ Waiting(q, QueuedTools) BY DEF q, QueueWaits
<1>2. k \in RpTools /\ k \in QueuedTools /\ Tail(q) \in Seq(RpTools) /\ Waiting(Tail(q), QueuedTools \ {k})
  BY <1>1, <1>q, HeadWaits
<1>3. m \in Rooms /\ m.queue = Tail(q) BY <1>2 DEF Rooms
<1> HIDE DEF k, m
<1>4. rpRoom' \in Rooms /\ Waiting(rpRoom'.queue, QueuedTools \ {k}) /\ rpTool[k].at = "queued"
  BY <1>1, <1>2, <1>3 DEF QueuedTools
<1>5. /\ c \in Calls /\ c.at = "executing" /\ c.gen = rpTool[k].gen
      /\ e \in Calls /\ e.at = "error" /\ e.gen = rpTool[k].gen
  BY <1>2 DEF Calls
<1>6. rpTool' \in {[rpTool EXCEPT ![k] = c], [rpTool EXCEPT ![k] = e]} BY <1>1
<1>7. /\ rp' \in Observations /\ rp'.gen \in {0, rp.gen}
      /\ ~rp.closing => rp'.gen = rp.gen /\ ~rp'.closing
  <2>1. CASE rp' = [rp EXCEPT !.executing = @ \cup {k}] BY <1>2, <2>1 DEF Observations
  <2>2. CASE rp' = Resolved(k, FALSE) BY <2>2, <1>2, ResolvedShapes
  <2> QED BY <1>1, <2>1, <2>2
<1> HIDE DEF c, e
<1> QED BY <1>1, <1>2, <1>4, <1>5, <1>6, <1>7, RoomMoves

(* The room executes a command: its turn was not reported safe. *)
LEMMA RemoteComplete ==
    ASSUME RemoteInv, NEW k \in RpTools, CompleteTool(k), UNCHANGED <<rd, rdTask>> PROVE RemoteInv'
<1> USE RemoteFacts
<1>1. PICK ok \in BOOLEAN :
         /\ rp' = Resolved(k, ok)
         /\ rpTool' = [rpTool EXCEPT ![k].at = IF ok THEN "done" ELSE "error"]
         /\ rpPast' = [rpPast EXCEPT !.effects = IF ok THEN @ \cup {rpTool[k].gen} ELSE @]
  BY DEF CompleteTool
<1> DEFINE c == [rpTool[k] EXCEPT !.at = IF ok THEN "done" ELSE "error"]
           g == IF ok THEN rpPast.effects \cup {rpTool[k].gen} ELSE rpPast.effects
           p == [rpPast EXCEPT !.effects = g]
<1>2. /\ rpTool[k].at = "executing" /\ rpRoom' = rpRoom /\ rd' = rd /\ rdTask' = rdTask
      /\ rpTool' = [rpTool EXCEPT ![k] = c] /\ rpPast' = p
  BY <1>1 DEF CompleteTool
<1>3. c \in Calls /\ c.at = (IF ok THEN "done" ELSE "error") /\ c.gen = rpTool[k].gen BY DEF Calls
<1>4. /\ g \in SUBSET Nat
      /\ ok => g = rpPast.effects \cup {rpTool[k].gen}
      /\ ~ok => g = rpPast.effects
  OBVIOUS
<1> HIDE DEF g
<1>5. p \in Pasts /\ p.opened = rpPast.opened /\ p.effects = g BY <1>4 DEF Pasts
<1>6. /\ rp' \in Observations /\ rp'.gen \in {0, rp.gen}
      /\ ~rp.closing => rp'.gen = rp.gen /\ ~rp'.closing
  BY <1>1, ResolvedShapes
<1> HIDE DEF c, p
<1>7. /\ rpTool' \in [RpTools -> Calls] /\ rpTool'[k] = c
      /\ \A j \in RpTools \ {k} : rpTool'[j] = rpTool[j]
  BY <1>2, <1>3
<1>8. RemoteTypes' BY <1>2, <1>5, <1>6, <1>7 DEF RemoteTypes
<1>9. QueuedTools' = QueuedTools BY <1>2, <1>3, <1>7 DEF QueuedTools
<1>10. QueueWaits' BY <1>2, <1>9 DEF QueueWaits
<1>11. WorksInside' /\ NothingAhead' BY <1>2, <1>3, <1>4, <1>5, <1>6, <1>7 DEF WorksInside, NothingAhead, Turning
<1>12. FlagHolds' BY <1>2, <1>3, <1>4, <1>5, <1>7 DEF FlagHolds, Turning, Untouched, Writing, Live
<1> QED BY <1>8, <1>10, <1>11, <1>12 DEF RemoteInv

(* A call raises the flag first and remembers what it was. *)
LEMMA RemoteCall ==
    ASSUME RemoteInv, NEW k \in RpTools, CallTool(k) PROVE RemoteInv'
<1> USE RemoteFacts
<1> DEFINE d == [rd EXCEPT !.at = "tool", !.call = k, !.previous = rd.uncertain, !.uncertain = TRUE]
           m == [rpRoom EXCEPT !.queue = Append(rpRoom.queue, k)]
           c == [at |-> "queued", gen |-> rp.gen]
           e == [at |-> "error", gen |-> rp.gen]
<1>1. /\ rd' = d /\ rdTask' = rdTask /\ rpPast' = rpPast
      /\ rd.at = "model" /\ rpTool[k].at = "none"
      /\ \/ /\ rp' = [rp EXCEPT !.tools = @ \cup {k}]
            /\ rpTool' = [rpTool EXCEPT ![k] = c] /\ rpRoom' = m
         \/ rp' = rp /\ rpRoom' = rpRoom /\ rpTool' = [rpTool EXCEPT ![k] = e]
  BY Zenon DEF CallTool, NextCall, SubmitTool, Raised
<1>2. d \in Drivers /\ d.at = "tool" /\ d.gen = rd.gen /\ d.call = k
      /\ d.uncertain = TRUE /\ d.previous = rd.uncertain /\ d.safe = rd.safe
  BY DEF Drivers
<1>3. /\ c \in Calls /\ c.at = "queued" /\ c.gen = rp.gen
      /\ e \in Calls /\ e.at = "error" /\ e.gen = rp.gen
  BY DEF Calls
<1> HIDE DEF d, c, e
<1>4. /\ rpTool' \in [RpTools -> Calls] /\ rpTool'[k] \in {c, e}
      /\ \A j \in RpTools \ {k} : rpTool'[j] = rpTool[j]
  BY <1>1, <1>3
<1>5. rp' \in Observations /\ rp'.gen = rp.gen /\ rp'.closing = rp.closing BY <1>1 DEF Observations
<1>6. rpRoom' \in Rooms /\ QueueWaits'
  <2>1. CASE rpRoom' = m /\ rpTool' = [rpTool EXCEPT ![k] = c]
    <3>1. k \notin QueuedTools /\ Waiting(rpRoom.queue, QueuedTools) BY <1>1 DEF QueuedTools, QueueWaits
    <3>2. Append(rpRoom.queue, k) \in Seq(RpTools) /\ Waiting(Append(rpRoom.queue, k), QueuedTools \cup {k})
      BY <3>1, AppendWaits
    <3>3. m \in Rooms /\ m.queue = Append(rpRoom.queue, k) BY <3>2 DEF Rooms
    <3> HIDE DEF m
    <3>4. QueuedTools' = QueuedTools \cup {k} BY <2>1, <1>3 DEF QueuedTools
    <3> QED BY <2>1, <3>2, <3>3, <3>4 DEF QueueWaits
  <2>2. CASE rpRoom' = rpRoom /\ rpTool' = [rpTool EXCEPT ![k] = e] BY <2>2, <1>1, <1>3 DEF QueuedTools, QueueWaits
  <2> QED BY <1>1, <2>1, <2>2
<1> HIDE DEF m
<1>7. RemoteTypes' BY <1>1, <1>2, <1>4, <1>5, <1>6 DEF RemoteTypes
<1>8. rp.gen = rd.gen /\ rd.gen \notin rd.safe BY <1>1 DEF WorksInside, FlagHolds, Turning
<1>9. WorksInside' /\ NothingAhead' BY <1>1, <1>2, <1>3, <1>4, <1>5, <1>8 DEF WorksInside, NothingAhead, Turning
<1>10. FlagHolds' BY <1>1, <1>2, <1>3, <1>4, <1>8 DEF FlagHolds, Turning, Untouched, Writing, Live
<1> QED BY <1>6, <1>7, <1>9, <1>10 DEF RemoteInv

(* The invariant of the remote driver and the portal it works on. *)
THEOREM RemoteInvariant == RdSpec => []RemoteInv
<1>1. RpInit /\ RdInit => RemoteInv
  BY DEF RpInit, RdInit, Rooms, NoObservation, Observations, Drivers, Tasks, Pasts, Calls, Waiting, QueueWaits,
     RemoteInv, RemoteTypes, WorksInside, NothingAhead, FlagHolds, Turning
<1>2. RemoteInv /\ [RdNext]_<<rpVars, rd, rdTask>> => RemoteInv'
  <2> SUFFICES ASSUME RemoteInv, [RdNext]_<<rpVars, rd, rdTask>> PROVE RemoteInv'
    OBVIOUS
  <2>1. CASE (BeginObservation \/ RoomSide) /\ UNCHANGED <<rd, rdTask>>
    BY <2>1, RemoteBegin, RemoteTake, RemoteComplete DEF RoomSide
  <2>2. CASE \/ RunTurn \/ ForcedRead \/ TurnFails \/ ToolRefused \/ ToolReturns \/ PortalLost
             \/ CallTerminal
    BY <2>2, RemoteRunTurn, RemoteForcedRead, RemoteTurnFails, RemoteToolRefused,
       RemoteToolReturns, RemotePortalLost, RemoteCallTerminal
  <2>3. CASE WorkspaceCall \/ Prepared \/ Approved \/ Written \/ TaskEnds
    BY <2>3, RemoteWorkspaceCall, RemotePrepared, RemoteApproved, RemoteWritten, RemoteTaskEnds
  <2>4. CASE RemoteInterrupt \/ CleanedUp \/ CleanupFails \/ RemoteFinish \/ RemoteAbort
    BY <2>4, RemoteInterrupted, RemoteCleanedUp, RemoteCleanupFails, RemoteFinishes,
       RemoteAborts
  <2>5. CASE \E k \in RpTools : CallTool(k) BY <2>5, RemoteCall
  <2>6. CASE UNCHANGED <<rpVars, rd, rdTask>>
    BY <2>6 DEF rpVars, RemoteInv, RemoteTypes, QueueWaits, QueuedTools, WorksInside,
       NothingAhead, FlagHolds, Untouched, Writing, Live
  <2> QED BY <2>1, <2>2, <2>3, <2>4, <2>5, <2>6 DEF RdNext
<1> QED BY <1>1, <1>2, PTL DEF RdSpec

(* A turn reported as safe to repeat had no effect and never gets one, however the room,  *)
(* the blocking file operation and the drop of the turn fall together.                    *)
THEOREM RemoteSafe == RdSpec => []SafeToRepeat
<1>1. RemoteInv => SafeToRepeat BY DEF RemoteInv, FlagHolds, Untouched, SafeToRepeat
<1> QED BY <1>1, RemoteInvariant, PTL

------------------------
(* RoomPortal: a tool runs within the turn that called it. *)

(* What the portal holds of the tools: those the room executes are reserved in the open    *)
(* observation, and no terminal action is taken while one is reserved.                     *)
ToolsHeld ==
    /\ rp.executing \subseteq rp.tools
    /\ rp.tools # {} => ~rp.outcome
    /\ \A k \in RpTools : rpTool[k].at = "executing" => k \in rp.executing /\ rpTool[k].gen = rp.gen

(* Observations are numbered in the order they are opened and end once. *)
EndsOnce ==
    /\ rp.gen <= rpPast.opened /\ rp.gen \notin rpPast.returned
    /\ \A g \in rpPast.returned : g \in 1..rpPast.opened

PortalTypes ==
    /\ rp \in Observations
    /\ rpTool \in [RpTools -> Calls]
    /\ rpRoom \in Rooms
    /\ rpPast \in Pasts

PortalInv == PortalTypes /\ QueueWaits /\ ToolsHeld /\ EndsOnce

(* What the invariant says of each field of the portal, in the form the step lemmas cite it. *)
LEMMA PortalFacts ==
    ASSUME PortalInv
    PROVE  /\ rp \in Observations /\ rp.gen \in Nat /\ rp.tools \in SUBSET RpTools
           /\ rp.executing \in SUBSET RpTools /\ rp.results \in Nat
           /\ rpTool \in [RpTools -> Calls] /\ \A k \in RpTools : rpTool[k] \in Calls
           /\ rpRoom \in Rooms /\ rpRoom.queue \in Seq(RpTools) /\ rpRoom.open \in Nat
           /\ rpPast \in Pasts /\ rpPast.opened \in Nat
           /\ QueueWaits /\ ToolsHeld /\ EndsOnce
BY DEF PortalInv, PortalTypes, Observations, Rooms, Pasts

(* The resting observation: no turn, no tool call, no staged outcome. *)
LEMMA NothingObserved ==
    /\ NoObservation \in Observations /\ NoObservation.gen = 0 /\ NoObservation.tools = {}
    /\ NoObservation.executing = {} /\ NoObservation.outcome = FALSE
BY DEF NoObservation, Observations

(* A step that changes nothing but the observation, and of it neither tools nor number. *)
LEMMA PortalQuiet ==
    ASSUME PortalInv, NEW o \in Observations, rp' = o, UNCHANGED <<rpTool, rpRoom, rpPast>>,
           o.tools = rp.tools, o.executing = rp.executing, o.gen = rp.gen,
           o.tools # {} => ~o.outcome
    PROVE  PortalInv'
BY DEF PortalInv, QueueWaits, QueuedTools, Waiting, PortalTypes, ToolsHeld, EndsOnce

(* A host begins, finishes or ends an observation: it finishes only one without a pending call, and ending
   drops the reservations of queued ones. *)
LEMMA PortalTurnSteps ==
    ASSUME PortalInv, BeginObservation \/ FinishObservation \/ EndObservation
    PROVE  PortalInv'
<1>1. CASE BeginObservation
  <2>1. /\ rp = NoObservation /\ rpPast' = [rpPast EXCEPT !.opened = @ + 1]
        /\ rp' = [NoObservation EXCEPT !.gen = rpPast'.opened]
        /\ rpRoom' = [rpRoom EXCEPT !.open = rpPast'.opened] /\ rpTool' = rpTool
    BY <1>1 DEF BeginObservation
  <2>2. rpPast' \in Pasts /\ rpPast'.opened = rpPast.opened + 1 /\ rpPast'.returned = rpPast.returned
    BY <2>1, PortalFacts DEF Pasts
  <2>0. PICK m \in Nat : m = rpPast.opened + 1 BY PortalFacts
  <2>3. /\ rp' \in Observations /\ rp'.gen = rpPast.opened + 1 /\ rp'.tools = {} /\ rp'.executing = {}
    <3>1. rp' = [NoObservation EXCEPT !.gen = m] BY <2>0, <2>1, <2>2
    <3> HIDE DEF NoObservation
    <3> QED BY <2>0, <3>1, NothingObserved DEF Observations
  <2>4. rpRoom' \in Rooms /\ rpRoom'.queue = rpRoom.queue BY <2>0, <2>1, <2>2, PortalFacts DEF Rooms
  <2>5. QueueWaits' BY <2>1, <2>4, PortalFacts DEF QueueWaits, QueuedTools, Waiting
  <2>6. \A k \in RpTools : rpTool[k].at # "executing" BY <2>1, PortalFacts, NothingObserved DEF ToolsHeld
  <2>7. ToolsHeld' /\ EndsOnce' BY <2>1, <2>2, <2>3, <2>6, PortalFacts DEF ToolsHeld, EndsOnce
  <2> QED BY <2>1, <2>2, <2>3, <2>4, <2>5, <2>7, PortalFacts DEF PortalInv, PortalTypes
<1>2. CASE FinishObservation
  <2>1. /\ rp.gen # 0 /\ rp.tools = {} /\ rp' = NoObservation /\ rpTool' = rpTool
        /\ rpPast' = [rpPast EXCEPT !.returned = @ \cup {rp.gen}, !.effects = @ \cup {rp.gen}]
        /\ rpRoom' = [rpRoom EXCEPT !.open = 0]
    BY <1>2 DEF FinishObservation, HasPending
  <2>2. rpPast' \in Pasts /\ rpPast'.opened = rpPast.opened /\ rpPast'.returned = rpPast.returned \cup {rp.gen}
    BY <2>1, PortalFacts DEF Pasts
  <2>3. rpRoom' \in Rooms /\ rpRoom'.queue = rpRoom.queue BY <2>1, PortalFacts DEF Rooms
  <2>4. QueueWaits' BY <2>1, <2>3, PortalFacts DEF QueueWaits, QueuedTools, Waiting
  <2>5. \A k \in RpTools : rpTool[k].at # "executing" BY <2>1, PortalFacts DEF ToolsHeld
  <2>6. ToolsHeld' /\ EndsOnce' BY <2>1, <2>2, <2>5, PortalFacts, NothingObserved DEF ToolsHeld, EndsOnce
  <2> QED BY <2>1, <2>2, <2>3, <2>4, <2>6, PortalFacts, NothingObserved DEF PortalInv, PortalTypes
<1>3. CASE EndObservation
  <2> DEFINE a == [rp EXCEPT !.closing = TRUE, !.tools = rp.executing]
  <2>1. /\ a \in Observations /\ a.gen = rp.gen /\ a.tools = rp.executing /\ a.executing = rp.executing
        /\ a.outcome = rp.outcome
    BY PortalFacts DEF Observations
  <2>2. rp' = Remains(a) /\ UNCHANGED <<rpTool, rpRoom, rpPast>> BY <1>3 DEF EndObservation, TurnEnded
  <2>3. \/ rp' = a
        \/ rp' = NoObservation /\ a.tools = {}
    BY <2>2 DEF Remains, HasPending
  <2> HIDE DEF a
  <2>4. QueueWaits' BY <2>2, PortalFacts DEF QueueWaits, QueuedTools, Waiting
  <2>5. ToolsHeld' /\ EndsOnce' /\ rp' \in Observations
    BY <2>1, <2>2, <2>3, PortalFacts, NothingObserved DEF ToolsHeld, EndsOnce
  <2> QED BY <2>2, <2>4, <2>5, PortalFacts DEF PortalInv, PortalTypes
<1> QED BY <1>1, <1>2, <1>3

(* A read of the discussion, an attachment read and a staged outcome change the observation and touch no queue. *)
LEMMA PortalCallSteps ==
    ASSUME PortalInv, ReadDiscussion \/ ReserveRead \/ ResolveRead \/ StageOutcome
    PROVE  PortalInv'
<1>0. rp \in Observations /\ (rp.tools # {} => ~rp.outcome) BY PortalFacts DEF ToolsHeld
<1>1. CASE ReadDiscussion
  <2> DEFINE o == [rp EXCEPT !.receipt = TRUE]
  <2>1. /\ o \in Observations /\ o.tools = rp.tools /\ o.executing = rp.executing /\ o.gen = rp.gen
        /\ o.outcome = rp.outcome
    BY <1>0 DEF Observations
  <2>2. rp' = o /\ UNCHANGED <<rpTool, rpRoom, rpPast>> BY <1>1 DEF ReadDiscussion
  <2> HIDE DEF o
  <2> QED BY <1>0, <2>1, <2>2, PortalQuiet
<1>2. CASE ReserveRead
  <2>0. PICK n \in Nat : n = rp.attempts + 1 BY <1>0 DEF Observations
  <2> DEFINE o == [rp EXCEPT !.reading = TRUE, !.attempts = n]
  <2>1. /\ o \in Observations /\ o.tools = rp.tools /\ o.executing = rp.executing /\ o.gen = rp.gen
        /\ o.outcome = rp.outcome
    BY <1>0 DEF Observations
  <2>2. rp' = o /\ UNCHANGED <<rpTool, rpRoom, rpPast>> BY <1>2, <2>0 DEF ReserveRead
  <2> HIDE DEF o
  <2> QED BY <1>0, <2>1, <2>2, PortalQuiet
<1>3. CASE ResolveRead
  <2> DEFINE o == [rp EXCEPT !.reading = FALSE]
  <2>1. /\ o \in Observations /\ o.tools = rp.tools /\ o.executing = rp.executing /\ o.gen = rp.gen
        /\ o.outcome = rp.outcome
    BY <1>0 DEF Observations
  <2>2. UNCHANGED <<rpTool, rpRoom, rpPast>> /\ rp' \in {rp, Remains(o)} BY <1>3 DEF ResolveRead
  <2>3. \/ rp' = rp
        \/ rp' = o
        \/ rp' = NoObservation /\ o.tools = {}
    BY <2>2 DEF Remains, HasPending
  <2> HIDE DEF o
  <2>4. CASE rp' = rp \/ rp' = o BY <1>0, <2>1, <2>2, <2>4, PortalQuiet
  <2>5. CASE rp' = NoObservation /\ o.tools = {}
    BY <2>2, PortalFacts, <2>1, <2>5, NothingObserved DEF QueueWaits, QueuedTools, Waiting, ToolsHeld, EndsOnce,
       PortalInv, PortalTypes
  <2> QED BY <2>3, <2>4, <2>5
<1>4. CASE StageOutcome
  <2> DEFINE o == [rp EXCEPT !.outcome = TRUE]
  <2>1. /\ o \in Observations /\ o.tools = rp.tools /\ o.executing = rp.executing /\ o.gen = rp.gen
    BY <1>0 DEF Observations
  <2>2. rp' = o /\ UNCHANGED <<rpTool, rpRoom, rpPast>> /\ rp.tools = {} BY <1>4 DEF StageOutcome, HasPending
  <2> HIDE DEF o
  <2> QED BY <2>1, <2>2, PortalQuiet
<1> QED BY <1>1, <1>2, <1>3, <1>4

(* A tool call is queued only for the turn that is observed, and once. *)
LEMMA PortalSubmit ==
    ASSUME PortalInv, NEW k \in RpTools, SubmitTool(k)
    PROVE  PortalInv'
<1> DEFINE o == [rp EXCEPT !.tools = rp.tools \cup {k}]
           c == [at |-> "queued", gen |-> rp.gen]
           e == [at |-> "error", gen |-> rp.gen]
           m == [rpRoom EXCEPT !.queue = Append(rpRoom.queue, k)]
<1>1. /\ rpTool[k].at = "none" /\ ~rp.outcome /\ rpPast' = rpPast
      /\ \/ rp' = o /\ rpTool' = [rpTool EXCEPT ![k] = c] /\ rpRoom' = m
         \/ rpTool' = [rpTool EXCEPT ![k] = e] /\ rp' = rp /\ rpRoom' = rpRoom
  BY Zenon DEF SubmitTool, CanReserve
<1>2. /\ o \in Observations /\ o.gen = rp.gen /\ o.tools = rp.tools \cup {k} /\ o.executing = rp.executing
      /\ o.outcome = rp.outcome
  BY PortalFacts DEF Observations
<1>3. c \in Calls /\ c.at = "queued" /\ e \in Calls /\ e.at = "error" BY PortalFacts DEF Calls
<1>4. k \notin QueuedTools /\ Waiting(rpRoom.queue, QueuedTools) BY <1>1, PortalFacts DEF QueuedTools, QueueWaits
<1>5. Append(rpRoom.queue, k) \in Seq(RpTools) /\ Waiting(Append(rpRoom.queue, k), QueuedTools \cup {k})
  BY <1>4, PortalFacts, AppendWaits
<1>6. m \in Rooms /\ m.queue = Append(rpRoom.queue, k) BY <1>5, PortalFacts DEF Rooms
<1> HIDE DEF o, c, e, m
<1>7. CASE rp' = o /\ rpTool' = [rpTool EXCEPT ![k] = c] /\ rpRoom' = m
  BY <1>3, <1>7, PortalFacts, <1>5, <1>6, <1>1, <1>2 DEF QueuedTools, QueueWaits, ToolsHeld, EndsOnce,
     PortalInv, PortalTypes
<1>8. CASE rpTool' = [rpTool EXCEPT ![k] = e] /\ rp' = rp /\ rpRoom' = rpRoom
  BY <1>1, <1>3, <1>8, PortalFacts, <1>4 DEF QueuedTools, QueueWaits, ToolsHeld, EndsOnce, PortalInv,
     PortalTypes
<1> QED BY <1>1, <1>7, <1>8

(* What an answered call leaves of the observation it was reserved in. *)
LEMMA ResolvedLeaves ==
    ASSUME PortalInv, NEW k \in RpTools, NEW ok \in BOOLEAN
    PROVE  /\ Resolved(k, ok) \in Observations
           /\ \/ rp.gen # rpTool[k].gen /\ Resolved(k, ok) = rp
              \/ Resolved(k, ok) = NoObservation /\ rp.tools \subseteq {k}
              \/ /\ Resolved(k, ok).gen = rp.gen /\ Resolved(k, ok).outcome = rp.outcome
                 /\ Resolved(k, ok).tools = rp.tools \ {k}
                 /\ Resolved(k, ok).executing = rp.executing \ {k}
<1> DEFINE n == IF ok /\ k \in rp.executing THEN rp.results + 1 ELSE rp.results
           a == [rp EXCEPT !.tools = rp.tools \ {k}, !.executing = rp.executing \ {k}, !.results = n]
<1>1. n \in Nat /\ rp.tools \ {k} \in SUBSET RpTools /\ rp.executing \ {k} \in SUBSET RpTools BY PortalFacts
<1>2. Resolved(k, ok) = IF rp.gen = rpTool[k].gen THEN Remains(a) ELSE rp BY DEF Resolved
<1> HIDE DEF n
<1>3. /\ a \in Observations /\ a.gen = rp.gen /\ a.outcome = rp.outcome
      /\ a.tools = rp.tools \ {k} /\ a.executing = rp.executing \ {k}
  BY <1>1, PortalFacts DEF Observations
<1>4. Remains(a) = a \/ (Remains(a) = NoObservation /\ a.tools = {})
  <2> HIDE DEF a
  <2> QED BY DEF Remains, HasPending
<1> HIDE DEF a
<1> QED BY <1>2, <1>3, <1>4, PortalFacts, NothingObserved

(* The room takes a command it executes, or answers one: nobody else's call changes. *)
LEMMA PortalRoomStep ==
    ASSUME PortalInv, NEW k \in RpTools, NEW c \in Calls, rpTool' = [rpTool EXCEPT ![k] = c],
           c.at # "queued", NEW o \in Observations, rp' = o, rpRoom' \in Rooms, rpPast' \in Pasts,
           rpPast'.opened = rpPast.opened, rpPast'.returned = rpPast.returned,
           Waiting(rpRoom'.queue, QueuedTools \ {k}),
           \/ o = Resolved(k, TRUE) /\ c.at # "executing"
           \/ o = Resolved(k, FALSE) /\ c.at # "executing"
           \/ /\ k \in rp.tools /\ c.gen = rp.gen
              /\ o.gen = rp.gen /\ o.tools = rp.tools /\ o.executing = rp.executing \cup {k}
              /\ o.outcome = rp.outcome
    PROVE  PortalInv'
<1>1. /\ rpTool' \in [RpTools -> Calls] /\ rpTool'[k] = c
      /\ \A j \in RpTools \ {k} : rpTool'[j] = rpTool[j]
  BY PortalFacts
<1>2. QueueWaits' BY <1>1 DEF QueuedTools, QueueWaits
<1>3. CASE o \in {Resolved(k, TRUE), Resolved(k, FALSE)} /\ c.at # "executing"
  <2>0. PICK ok \in BOOLEAN : o = Resolved(k, ok) BY <1>3
  <2>1. \/ rp.gen # rpTool[k].gen /\ o = rp
        \/ o = NoObservation /\ rp.tools \subseteq {k}
        \/ /\ o.gen = rp.gen /\ o.outcome = rp.outcome
           /\ o.tools = rp.tools \ {k} /\ o.executing = rp.executing \ {k}
    BY <2>0, ResolvedLeaves
  <2>2. ToolsHeld' BY <1>1, <1>3, <2>1, PortalFacts, NothingObserved DEF ToolsHeld
  <2>3. EndsOnce' BY <2>1, PortalFacts, NothingObserved DEF EndsOnce
  <2> QED BY <1>1, <1>2, <2>2, <2>3 DEF PortalInv, PortalTypes
<1>4. CASE /\ k \in rp.tools /\ c.gen = rp.gen
           /\ o.gen = rp.gen /\ o.tools = rp.tools /\ o.executing = rp.executing \cup {k}
           /\ o.outcome = rp.outcome
  BY <1>1, <1>4, PortalFacts, <1>2 DEF ToolsHeld, EndsOnce, PortalInv, PortalTypes
<1> QED BY <1>3, <1>4

(* The room executes the head of its queue only while the same observation holds the reservation; a dropped
   queue gives its reservations back. *)
LEMMA PortalTakes ==
    ASSUME PortalInv, TakeTool \/ DropTool
    PROVE  PortalInv'
<1> DEFINE q == rpRoom.queue
           k == Head(q)
<1>1. q # <<>> /\ q \in Seq(RpTools) /\ Waiting(q, QueuedTools) BY PortalFacts DEF TakeTool, DropTool, QueueWaits
<1>2. k \in RpTools /\ k \in QueuedTools /\ Tail(q) \in Seq(RpTools) /\ Waiting(Tail(q), QueuedTools \ {k})
  BY <1>1, HeadWaits
<1>3. rpRoom' = [rpRoom EXCEPT !.queue = Tail(q)] /\ rpPast' = rpPast BY DEF TakeTool, DropTool
<1>4. rpRoom' \in Rooms /\ rpRoom'.queue = Tail(q) BY <1>2, <1>3, PortalFacts DEF Rooms
<1>5. PICK x \in RpTools : x = k BY <1>2
<1>6. CASE /\ MayExecute(k) /\ rp' = [rp EXCEPT !.executing = @ \cup {k}]
           /\ rpTool' = [rpTool EXCEPT ![k].at = "executing"]
  <2> DEFINE o == [rp EXCEPT !.executing = rp.executing \cup {x}]
             c == [rpTool[x] EXCEPT !.at = "executing"]
  <2>1. rp.executing \cup {x} \in SUBSET RpTools BY PortalFacts
  <2>2. /\ o \in Observations /\ o.gen = rp.gen /\ o.tools = rp.tools
        /\ o.executing = rp.executing \cup {x} /\ o.outcome = rp.outcome
    BY <2>1, PortalFacts DEF Observations
  <2>3. c \in Calls /\ c.at = "executing" /\ c.gen = rpTool[x].gen BY PortalFacts DEF Calls
  <2>4. x \in rp.tools /\ rpTool[x].gen = rp.gen /\ rp' = o /\ rpTool' = [rpTool EXCEPT ![x] = c]
    BY <1>5, <1>6 DEF MayExecute
  <2> HIDE DEF o, c
  <2> QED BY <1>2, <1>3, <1>4, <1>5, <2>2, <2>3, <2>4, PortalFacts, PortalRoomStep
<1>7. CASE rp' = Resolved(k, FALSE) /\ rpTool' = [rpTool EXCEPT ![k].at = "error"]
  <2> DEFINE c == [rpTool[x] EXCEPT !.at = "error"]
  <2>1. c \in Calls /\ c.at = "error" BY PortalFacts DEF Calls
  <2>2. rp' = Resolved(x, FALSE) /\ rpTool' = [rpTool EXCEPT ![x] = c] BY <1>5, <1>7
  <2>3. rp' \in Observations BY <2>2, ResolvedLeaves
  <2>4. PICK o \in Observations : o = rp' BY <2>3
  <2> HIDE DEF c
  <2> QED BY <1>2, <1>3, <1>4, <1>5, <2>1, <2>2, <2>4, PortalFacts, PortalRoomStep
<1> QED BY <1>6, <1>7 DEF TakeTool, DropTool

(* A call commits an effect only while the room still has the turn open that reserved it. *)
LEMMA PortalCompletes ==
    ASSUME PortalInv, NEW k \in RpTools, CompleteTool(k)
    PROVE  PortalInv'
<1>1. PICK ok \in BOOLEAN :
          /\ rp' = Resolved(k, ok)
          /\ rpTool' = [rpTool EXCEPT ![k].at = IF ok THEN "done" ELSE "error"]
          /\ rpPast' = [rpPast EXCEPT !.effects = IF ok THEN @ \cup {rpTool[k].gen} ELSE @]
  BY DEF CompleteTool
<1>2. rpTool[k].at = "executing" /\ rpRoom' = rpRoom BY DEF CompleteTool
<1>3. PICK s \in {"done", "error"} : s = IF ok THEN "done" ELSE "error" OBVIOUS
<1>4. PICK c \in Calls : c = [rpTool[k] EXCEPT !.at = s] /\ c.at = s
  <2>1. [rpTool[k] EXCEPT !.at = s] \in Calls /\ [rpTool[k] EXCEPT !.at = s].at = s BY <1>3, PortalFacts DEF Calls
  <2> QED BY <2>1
<1>5. rpTool' = [rpTool EXCEPT ![k] = c] BY <1>1, <1>3, <1>4
<1>6. rpTool[k].gen \in Nat BY PortalFacts DEF Calls
<1>7. rpPast' \in Pasts /\ rpPast'.opened = rpPast.opened /\ rpPast'.returned = rpPast.returned
  BY <1>1, <1>6, PortalFacts DEF Pasts
<1>8. Waiting(rpRoom'.queue, QueuedTools \ {k}) /\ rpRoom' \in Rooms
  BY <1>2, PortalFacts DEF QueueWaits, QueuedTools, Waiting
<1>9. rp' \in Observations BY <1>1, ResolvedLeaves
<1>10. PICK o \in Observations : o = rp' BY <1>9
<1>11. o = Resolved(k, TRUE) \/ o = Resolved(k, FALSE) BY <1>1, <1>10
<1> QED BY <1>3, <1>4, <1>5, <1>7, <1>8, <1>10, <1>11, PortalRoomStep

(* At the start the portal observes nothing and no tool was called. *)
LEMMA PortalInitially ==
    ASSUME RpInit
    PROVE  PortalInv
BY NothingObserved DEF RpInit, Rooms, Pasts, Calls, Waiting, QueueWaits, ToolsHeld, EndsOnce, PortalInv,
   PortalTypes

(* Every step of the driver and the room on the portal. *)
LEMMA PortalStep ==
    ASSUME PortalInv, RpNext
    PROVE  PortalInv'
BY PortalTurnSteps, PortalCallSteps, PortalTakes, PortalCompletes, PortalSubmit DEF RoomSide, RpNext

(* The invariant of the room portal, under whatever tools are called when. *)
THEOREM PortalInvariant == RpSpec => []PortalInv
<1>1. RpInit => PortalInv BY PortalInitially
<1>2. PortalInv /\ [RpNext \/ ConnNext]_rpVars => PortalInv'
  BY PortalStep DEF ConnNext, Connect, Authenticate, Evict, ConnectionEnds, rpVars, PortalInv, PortalTypes,
     QueueWaits, QueuedTools, Waiting, ToolsHeld, EndsOnce
<1> QED BY <1>1, <1>2, PTL DEF RpSpec

(* A tool runs in the room only within the turn that called it, however driver, room and *)
(* connections of the portal are interleaved.                                             *)
THEOREM PortalTrue == RpSpec => []ToolsWithinTurn
<1>1. PortalInv => ToolsWithinTurn BY PortalFacts DEF PortalInv, ToolsHeld, EndsOnce, ToolsWithinTurn
<1> QED BY <1>1, PortalInvariant, PTL

(* The same when the portal serves the remote driver, whose turns and file operations take *)
(* the portal's steps.                                                                     *)
THEOREM RemotePortalTrue == RdSpec => []ToolsWithinTurn
<1>1. RpInit => PortalInv BY PortalInitially
<1>2. RemoteInv /\ PortalInv /\ [RdNext]_<<rpVars, rd, rdTask>> => PortalInv'
  <2> SUFFICES ASSUME RemoteInv, PortalInv, [RdNext]_<<rpVars, rd, rdTask>> PROVE PortalInv'
    OBVIOUS
  <2>1. ASSUME UNCHANGED rpVars PROVE PortalInv'
    BY <2>1 DEF rpVars, PortalInv, PortalTypes, QueueWaits, QueuedTools, Waiting, ToolsHeld, EndsOnce
  <2>2. ASSUME RpNext PROVE PortalInv' BY <2>2, PortalStep
  <2>3. ASSUME TaskEnds PROVE PortalInv'
    BY <2>3 DEF TaskEnds, PortalInv, PortalTypes, RemoteInv, RemoteTypes, Tasks, Pasts, QueueWaits, QueuedTools,
       Waiting, ToolsHeld, EndsOnce
  <2>4. \/ UNCHANGED rpVars
        \/ RpNext
        \/ TaskEnds
    BY DEF RdNext, RpNext, RunTurn, ForcedRead, TurnFails, ToolRefused, ToolReturns, PortalLost, CallTerminal,
           WorkspaceCall, Prepared, Approved, Written, RemoteInterrupt, CleanedUp, CleanupFails, RemoteFinish,
           RemoteAbort, CallTool, rpVars
  <2> QED BY <2>1, <2>2, <2>3, <2>4
<1>3. PortalInv => ToolsWithinTurn BY PortalFacts DEF PortalInv, ToolsHeld, EndsOnce, ToolsWithinTurn
<1> QED BY <1>1, <1>2, <1>3, RemoteInvariant, PTL DEF RdSpec

------------------------
(* AcpDriver: nothing of a prompt turn outlives it. *)

AcStates == [active : Nat, task : BOOLEAN, scope : Nat, cancelled : SUBSET Nat, failed : Nat,
             output : SUBSET Nat, poisoned : BOOLEAN, finished : SUBSET Nat]
AcCalls == [op : {"none", "prompt", "cancel"}, turn : Nat, at : {"none", "await", "finish", "take"}]
AcHandlers == [at : {"none", "asking", "delivering", "done"}, scope : Nat]
AcWires == [prompt : Nat, reason : {"none", "end_turn", "refusal", "cancelled", "error"}, cancel : BOOLEAN]

(* A finished turn was cancelled before, so no handler of it can be given an answer any   *)
(* more; and from the moment its handlers were waited for none delivers.                  *)
AcpInv ==
    /\ ac \in AcStates /\ acCall \in AcCalls /\ acReq \in [AcRequests -> AcHandlers] /\ acWire \in AcWires
    /\ acCall.at # "none" => ac.active # 0 /\ ac.scope = ac.active
    /\ acCall.at = "none" => acCall.op = "none"
    /\ acCall.at \in {"finish", "take"} => ac.scope \in ac.cancelled
    /\ ac.finished \subseteq ac.cancelled
    /\ acCall.at = "take" => \A q \in AcRequests : acReq[q].at = "delivering" => acReq[q].scope # ac.scope
    /\ \A q \in AcRequests : acReq[q].at = "delivering" => acReq[q].scope \notin ac.finished
    /\ ac.failed # 0 /\ ac.scope # 0 => ac.failed = ac.scope

(* A step of the driver's call: the handlers stay where they are. *)
LEMMA AcpCallStep ==
    ASSUME AcpInv, UNCHANGED acReq,
           \/ \E t \in 1..AcTurns : Prompt(t)
           \/ Cancel \/ AwaitTurn \/ CancelTimeout \/ FinishRequests \/ TakeOutput \/ AcStop
    PROVE  AcpInv'
<1>1. CASE \E t \in 1..AcTurns : Prompt(t)
  <2>1. PICK t \in 1..AcTurns : Prompt(t) BY <1>1
  <2>2. t \in Nat /\ t # 0 OBVIOUS
  <2> QED BY <2>1, <2>2 DEF Prompt, AcpInv, AcStates, AcCalls, AcWires
<1>2. CASE Cancel BY <1>2 DEF Cancel, AcpInv, AcStates, AcCalls, AcWires
<1>3. CASE AwaitTurn
  <2>0. ac \in AcStates /\ acCall \in AcCalls BY DEF AcpInv
  <2>1. CASE /\ acCall' = AcNoCall
             /\ \/ ac' = [ac EXCEPT !.poisoned = TRUE]
                \/ ac' = [[ac EXCEPT !.task = FALSE] EXCEPT !.poisoned = TRUE]
    BY <2>0, <2>1, <1>3 DEF AcStates, AcNoCall, AcCalls, AwaitTurn, AcpInv
  <2>2. CASE /\ ac' = [ac EXCEPT !.task = FALSE, !.cancelled = @ \cup {ac.scope}]
             /\ acCall' = [acCall EXCEPT !.at = "finish"]
    BY <2>0, <2>2, <1>3 DEF AcStates, AcCalls, AwaitTurn, AcpInv
  <2> QED BY <1>3, <2>1, <2>2, Zenon DEF AwaitTurn, AcPoison
<1>4. CASE CancelTimeout BY <1>4 DEF CancelTimeout, AcPoison, AcNoCall, AcpInv, AcStates, AcCalls
<1>5. CASE FinishRequests BY <1>5 DEF FinishRequests, HandlersDone, AcpInv, AcStates, AcCalls
<1>6. CASE TakeOutput
  <2> DEFINE c == [ac EXCEPT !.active = 0, !.scope = 0, !.output = {}, !.finished = @ \cup {ac.active}]
  <2>1. /\ c \in AcStates /\ c.cancelled = ac.cancelled /\ c.scope = 0
        /\ c.finished = ac.finished \cup {ac.active}
    BY DEF AcpInv, AcStates
  <2>2. acCall' = AcNoCall /\ (ac' = c \/ ac' = [c EXCEPT !.poisoned = TRUE]) BY <1>6 DEF TakeOutput, AcPoison
  <2> HIDE DEF c
  <2>3. /\ ac' \in AcStates /\ ac'.cancelled = ac.cancelled /\ ac'.scope = 0
        /\ ac'.finished = ac.finished \cup {ac.active}
    BY <2>1, <2>2 DEF AcStates
  <2>4. acCall' \in AcCalls /\ acCall'.at = "none" /\ acCall'.op = "none" BY <2>2 DEF AcNoCall, AcCalls
  <2>5. acCall.at = "take" /\ acWire' = acWire BY <1>6 DEF TakeOutput
  <2> QED BY <2>3, <2>4, <2>5 DEF AcpInv
<1>7. CASE AcStop BY <1>7 DEF AcStop, AcNoCall, AcpInv, AcStates, AcCalls
<1> QED BY <1>1, <1>2, <1>3, <1>4, <1>5, <1>6, <1>7

(* A step of one permission handler. *)
LEMMA AcpHandlerStep ==
    ASSUME AcpInv, NEW q \in AcRequests,
           Handle(q) \/ Exchange(q) \/ ExchangeFails(q) \/ DeliveryDone(q)
    PROVE  AcpInv'
BY DEF AcpInv, Handle, Exchange, ExchangeFails, DeliveryDone, Charge, AcStates, AcHandlers, CanAnswer

(* What the ACP agent does on its own side of the pipe: a content update, or the end of a prompt. *)
LEMMA AcpAgentStep ==
    ASSUME AcpInv, AgentSays \/ \E reason \in {"end_turn", "refusal", "cancelled", "error"} : AgentStops(reason)
    PROVE  AcpInv'
BY DEF AgentSays, AcpInv, AcStates, AcWires, AgentStops

(* The invariant of the ACP driver and its permission handlers. *)
THEOREM AcpInvariant == AcSpec => []AcpInv
<1>1. AcInit => AcpInv BY DEF AcInit, AcNoCall, AcpInv, AcStates, AcCalls, AcHandlers, AcWires
<1>2. AcpInv /\ [AcNext]_acVars => AcpInv'
  BY AcpCallStep, AcpHandlerStep, AcpAgentStep DEF Prompt, Cancel, AwaitTurn, CancelTimeout, FinishRequests,
     TakeOutput, AcStop, acVars, AcpInv, AcNext
<1> QED BY <1>1, <1>2, PTL DEF AcSpec

(* No ACP permission is given once the output of the turn that asked was taken, and a failed request fails its
   own turn and never the next one, whenever handlers run beside the client. *)
THEOREM AcpTrue == AcSpec => []AcpWithinTurn
<1>1. AcpInv => AcpWithinTurn BY DEF AcpInv, AcpWithinTurn
<1> QED BY <1>1, AcpInvariant, PTL

------------------------
(* OpenCodeDriver: the answer a turn takes is the answer to its own prompt. *)

OcStates == [stored : BOOLEAN, attached : BOOLEAN, portal : BOOLEAN, uncertain : BOOLEAN,
             active : Nat, completed : Nat, poisoned : BOOLEAN, stopped : BOOLEAN,
             returned : SUBSET (Nat \X Nat \X Nat)]
OcCalls == [op : {"none", "create", "send", "interrupt"}, turn : Nat,
            at : {"none", "post", "turn", "ask", "abort", "idle"},
            request : Nat, assistant : Nat, ended : BOOLEAN, answer : Nat]
OcEvents == [type : {"user", "assistant", "ask", "idle"}, prompt : Nat]
OcServers == [sessions : Nat, posted : Nat, turnOf : Seq(Nat), working : BOOLEAN, answer : Nat,
              late : BOOLEAN, asked : BOOLEAN]

OcTypes ==
    /\ oc \in OcStates /\ ocCall \in OcCalls /\ ocStream \in Seq(OcEvents) /\ ocServer \in OcServers

(* The last prompt posted is the one of the turn that is read, and an answer is its answer. *)
OcAnswers ==
    /\ Len(ocServer.turnOf) = ocServer.posted
    /\ ocServer.answer # 0 => ocServer.answer = ocServer.posted /\ ~ocServer.working
    /\ ocCall.at \in {"turn", "ask"} =>
          /\ ocCall.op = "send" /\ ocServer.posted # 0 /\ ocServer.turnOf[ocServer.posted] = ocCall.turn
    /\ ocCall.answer # 0 =>
          ocCall.at \in {"turn", "ask"} /\ ocCall.answer = ocServer.posted /\ ~ocServer.working
    /\ \A r \in oc.returned : r[2] \in 1..ocServer.posted /\ ocServer.turnOf[r[2]] = r[1] /\ r[3] = r[2]

(* Without an active turn nothing works; within an interruption an idle event is true. *)
OcRests ==
    /\ ocCall.op \in {"send", "interrupt"} => oc.active # 0
    /\ oc.active = 0 /\ ~oc.poisoned => ~ocServer.working
    /\ ocCall.at \in {"abort", "idle"} => ocCall.op = "interrupt"
    /\ ocCall.op = "interrupt" =>
          \A i \in 1..Len(ocStream) : ocStream[i].type = "idle" => ~ocServer.working

(* A session is made under a creation that stays uncertain until its reply was read. *)
OcMadeOnce ==
    /\ ocServer.sessions \in {0, 1}
    /\ ocServer.sessions # 0 => oc.uncertain \/ oc.attached
    /\ ocCall.op = "create" => oc.uncertain /\ ~oc.attached /\ ocServer.sessions = 0

OcInv == OcTypes /\ OcAnswers /\ OcRests /\ OcMadeOnce

(* The resting call of the OpenCode driver. *)
LEMMA OcNoCallTypes ==
    /\ OcNoCall \in OcCalls /\ OcNoCall.op = "none" /\ OcNoCall.at = "none" /\ OcNoCall.answer = 0
BY DEF OcNoCall, OcCalls

(* Every way a call ends: the stream is closed and nothing is awaited. *)
LEMMA OcEndsStep ==
    ASSUME OcInv, NEW c \in OcStates, OcEnds(c), c.returned = oc.returned,
           ocServer' = ocServer,
           c.active = 0 /\ ~c.poisoned => ~ocServer.working,
           ocServer.sessions # 0 => c.uncertain \/ c.attached
    PROVE  OcInv'
BY OcNoCallTypes DEF OcEnds, OcInv, OcTypes, OcAnswers, OcRests, OcMadeOnce

(* A poisoned OpenCode connection refuses every later turn and changes nothing of the turns before it. *)
LEMMA OcPoisonStep ==
    ASSUME OcInv, OcPoison, ocServer' = ocServer
    PROVE  OcInv'
<1> DEFINE c == [oc EXCEPT !.poisoned = TRUE]
<1>1. /\ c \in OcStates /\ c.poisoned = TRUE /\ c.returned = oc.returned /\ c.uncertain = oc.uncertain
      /\ c.attached = oc.attached
  BY DEF OcInv, OcTypes, OcStates
<1>2. OcEnds(c) BY DEF OcPoison
<1> HIDE DEF c
<1> QED BY <1>1, <1>2, OcEndsStep DEF OcInv, OcMadeOnce

(* Attaching: the portal's registration, and the one session the driver creates and reads back. *)
LEMMA OcAttachSteps ==
    ASSUME OcInv, RegisterPortal \/ RequireSession \/ CreateSession \/ CreateReply
    PROVE  OcInv'
<1>0. oc \in OcStates /\ ocServer \in OcServers BY DEF OcInv, OcTypes
<1>1. CASE RegisterPortal BY <1>1 DEF RegisterPortal, OcInv, OcTypes, OcStates, OcAnswers, OcRests, OcMadeOnce
<1>2. CASE RequireSession
  BY <1>2, <1>0, OcNoCallTypes DEF RequireSession, OcIdle, OcStates, OcInv, OcTypes, OcAnswers, OcRests,
     OcMadeOnce
<1>3. CASE CreateSession
  BY <1>3, <1>0 DEF CreateSession, OcStates, OcNoCall, OcCalls, OcInv, OcTypes, OcAnswers, OcRests, OcMadeOnce
<1>4. CASE CreateReply
  <2>1. PICK received \in BOOLEAN :
          /\ ocServer' = [ocServer EXCEPT !.sessions = IF received THEN @ + 1 ELSE @]
          /\ \/ OcEnds(oc)
             \/ received /\ OcEnds([oc EXCEPT !.uncertain = FALSE, !.attached = TRUE])
    BY <1>4, Zenon DEF CreateReply, CreateFails
  <2>a. oc.uncertain /\ ocServer.sessions = 0 BY <1>4 DEF CreateReply, OcInv, OcMadeOnce
  <2>b. PICK n \in {0, 1} : ocServer' = [ocServer EXCEPT !.sessions = n] BY <2>1, <2>a
  <2>2. /\ ocServer' \in OcServers /\ ocServer'.sessions \in {0, 1}
        /\ ocServer'.turnOf = ocServer.turnOf /\ ocServer'.posted = ocServer.posted
        /\ ocServer'.answer = ocServer.answer /\ ocServer'.working = ocServer.working
    BY <2>b, <1>0 DEF OcServers
  <2>3. /\ oc' \in OcStates /\ oc'.returned = oc.returned /\ oc'.active = oc.active
        /\ oc'.poisoned = oc.poisoned /\ (oc'.uncertain \/ oc'.attached)
        /\ ocCall' = OcNoCall /\ ocStream' = <<>>
    BY <1>0, <2>a, <2>1 DEF OcEnds, OcStates
  <2> QED BY <2>2, <2>3, OcNoCallTypes DEF OcInv, OcTypes, OcAnswers, OcRests, OcMadeOnce
<1> QED BY <1>1, <1>2, <1>3, <1>4

(* A send needs the attached session, and no other turn active. *)
LEMMA OcSendStep ==
    ASSUME OcInv, NEW t \in 1..OcTurns, OcSend(t)
    PROVE  OcInv'
<1>1. /\ oc \in OcStates /\ t \in Nat /\ t # 0 /\ ocCall = OcNoCall BY DEF OcSend, OcIdle, OcInv, OcTypes
<1>2. /\ oc' = [oc EXCEPT !.active = t] /\ UNCHANGED <<ocStream, ocServer>>
      /\ \/ ocCall' = [OcNoCall EXCEPT !.op = "send", !.turn = t, !.at = "post"]
         \/ UNCHANGED ocCall
  BY DEF OcSend
<1>3. /\ oc' \in OcStates /\ oc'.attached = oc.attached /\ oc'.returned = oc.returned /\ oc'.active = t
      /\ oc'.poisoned = oc.poisoned /\ oc'.uncertain = oc.uncertain
  BY <1>1, <1>2 DEF OcStates
<1>4. /\ ocCall' \in OcCalls /\ ocCall'.op \in {"none", "send"} /\ ocCall'.at \in {"none", "post"}
      /\ ocCall'.answer = 0
  BY <1>1, OcNoCallTypes, <1>2 DEF OcNoCall, OcCalls
<1> QED BY <1>1, <1>2, <1>3, <1>4 DEF OcInv, OcTypes, OcAnswers, OcRests, OcMadeOnce

(* The prompt is posted once, under the identifier its events will carry. *)
LEMMA OcPostStep ==
    ASSUME OcInv, PostPrompt
    PROVE  OcInv'
<1>1. /\ oc \in OcStates /\ ocCall \in OcCalls /\ ocServer \in OcServers
      /\ ocCall.op = "send" /\ ocCall.at = "post" /\ oc' = oc /\ ocStream' = ocStream
      /\ ocServer' = [ocServer EXCEPT !.posted = @ + 1, !.turnOf = Append(@, ocCall.turn),
                                      !.working = TRUE, !.answer = 0]
      /\ ocCall' = [ocCall EXCEPT !.at = "turn"]
  BY DEF PostPrompt, OcInv, OcTypes
<1>2. /\ ocServer.turnOf \in Seq(Nat) /\ ocServer.posted \in Nat /\ ocCall.turn \in Nat
      /\ Len(ocServer.turnOf) = ocServer.posted
  BY <1>1 DEF OcServers, OcCalls, OcInv, OcAnswers
<1>3. /\ Append(ocServer.turnOf, ocCall.turn) \in Seq(Nat)
      /\ Len(Append(ocServer.turnOf, ocCall.turn)) = ocServer.posted + 1
      /\ Append(ocServer.turnOf, ocCall.turn)[ocServer.posted + 1] = ocCall.turn
      /\ \A i \in 1..ocServer.posted : Append(ocServer.turnOf, ocCall.turn)[i] = ocServer.turnOf[i]
  BY <1>2
<1>4. /\ ocServer' \in OcServers /\ ocServer'.posted = ocServer.posted + 1 /\ ocServer'.working = TRUE
      /\ ocServer'.answer = 0 /\ ocServer'.turnOf = Append(ocServer.turnOf, ocCall.turn)
      /\ ocServer'.sessions = ocServer.sessions
  <2> DEFINE a == Append(ocServer.turnOf, ocCall.turn)
  <2>1. ocServer' = [ocServer EXCEPT !.posted = ocServer.posted + 1, !.turnOf = a, !.working = TRUE, !.answer = 0]
    BY <1>1
  <2>2. a \in Seq(Nat) BY <1>3
  <2>a. ocServer \in OcServers BY <1>1
  <2> HIDE DEF a
  <2>3. PICK m \in Nat : m = ocServer.posted + 1 BY <1>2
  <2>4. ocServer' = [ocServer EXCEPT !.posted = m, !.turnOf = a, !.working = TRUE, !.answer = 0] BY <2>1, <2>3
  <2>5. /\ ocServer' \in OcServers /\ ocServer'.posted = m /\ ocServer'.working = TRUE
        /\ ocServer'.answer = 0 /\ ocServer'.turnOf = a /\ ocServer'.sessions = ocServer.sessions
    BY <2>a, <2>2, <2>4 DEF OcServers
  <2> QED BY <2>3, <2>5 DEF a
<1>5. /\ ocCall' \in OcCalls /\ ocCall'.at = "turn" /\ ocCall'.op = "send" /\ ocCall'.turn = ocCall.turn
      /\ ocCall'.answer = ocCall.answer
  BY <1>1 DEF OcCalls
<1>6. ocCall.answer = 0 BY <1>1 DEF OcInv, OcAnswers
<1>7. OcAnswers' BY <1>1, <1>2, <1>3, <1>4, <1>5, <1>6 DEF OcInv, OcAnswers
<1> QED BY <1>1, <1>4, <1>5, <1>7 DEF OcInv, OcTypes, OcRests, OcMadeOnce

(* The reader of the event stream: an answer, an event, a permission that is asked, and a transport that fails. *)
LEMMA OcReadSteps ==
    ASSUME OcInv, ReadAnswer \/ ReadEvent \/ AnswerAsked \/ TransportFails
    PROVE  OcInv'
<1>0. oc \in OcStates /\ ocCall \in OcCalls /\ ocServer \in OcServers /\ ocStream \in Seq(OcEvents)
  BY DEF OcInv, OcTypes
<1>1. CASE ReadAnswer BY <1>1, <1>0 DEF ReadAnswer, OcCalls, OcServers, OcInv, OcTypes, OcAnswers, OcRests, OcMadeOnce
<1>2. CASE ReadEvent
  <2>1. /\ ocCall.at = "turn" /\ ocStream # <<>> /\ UNCHANGED <<oc, ocServer>>
        /\ ocCall' = Accepted(Head(ocStream)) /\ ocStream' = Tail(ocStream)
    BY <1>2 DEF ReadEvent
  <2>2. Head(ocStream) \in OcEvents /\ Tail(ocStream) \in Seq(OcEvents) BY <2>1, <1>0
  <2>3. /\ ocCall' \in OcCalls /\ ocCall'.at \in {"turn", "ask"} /\ ocCall'.op = ocCall.op
        /\ ocCall'.turn = ocCall.turn /\ ocCall'.answer = ocCall.answer
    BY <2>2, <2>1, <1>0 DEF Accepted, OcCalls, OcEvents
  <2>4. ocCall.op = "send" BY <2>1 DEF OcInv, OcAnswers
  <2> QED BY <2>1, <2>2, <2>3, <2>4 DEF OcInv, OcTypes, OcAnswers, OcRests, OcMadeOnce
<1>3. CASE AnswerAsked
  <2>1. CASE OcPoison /\ UNCHANGED ocServer BY <2>1, OcPoisonStep
  <2>2. CASE /\ ocServer' = [ocServer EXCEPT !.asked = FALSE]
             /\ ocCall' = [ocCall EXCEPT !.at = "turn"] /\ UNCHANGED <<oc, ocStream>>
    BY <2>2, <1>0, <1>3 DEF OcServers, OcCalls, AnswerAsked, OcInv, OcTypes, OcAnswers, OcRests, OcMadeOnce
  <2> QED BY <1>3, <2>1, <2>2 DEF AnswerAsked
<1>4. CASE TransportFails BY <1>4, OcPoisonStep DEF TransportFails
<1> QED BY <1>1, <1>2, <1>3, <1>4

(* A turn completes only with the answer to its own prompt; any other mismatch poisons the connection. *)
LEMMA OcCompletedStep ==
    ASSUME OcInv, CompletedFromResponse
    PROVE  OcInv'
<1>0. /\ oc \in OcStates /\ ocCall \in OcCalls /\ ocServer \in OcServers
      /\ ocCall.at = "turn" /\ ocCall.answer # 0 /\ ocServer' = ocServer
  BY DEF OcInv, OcTypes, CompletedFromResponse
<1>1. CASE ~MatchesTurn /\ OcPoison BY <1>0, <1>1, OcPoisonStep
<1>2. CASE MatchesTurn /\ OcEnds([oc EXCEPT !.active = 0, !.completed = ocCall.turn,
                                  !.returned = @ \cup {<<ocCall.turn, ocCall.answer, ocCall.request>>}])
  <2> DEFINE r == <<ocCall.turn, ocCall.answer, ocCall.request>>
             c == [oc EXCEPT !.active = 0, !.completed = ocCall.turn, !.returned = @ \cup {r}]
  <2>1. /\ ocCall.answer = ocServer.posted /\ ~ocServer.working /\ ocServer.turnOf[ocServer.posted] = ocCall.turn
        /\ ocServer.posted \in Nat
    BY <1>0 DEF OcInv, OcAnswers, OcServers
  <2>2. /\ r \in Nat \X Nat \X Nat /\ r[1] = ocCall.turn /\ r[2] = ocCall.answer /\ r[3] = ocCall.answer
    BY <1>0, <1>2 DEF OcCalls, MatchesTurn
  <2> HIDE DEF r
  <2>3. /\ c \in OcStates /\ c.returned = oc.returned \cup {r}
        /\ c.uncertain = oc.uncertain /\ c.attached = oc.attached
    BY <1>0, <2>2 DEF OcStates, OcCalls
  <2>4. oc' = c /\ ocCall' = OcNoCall /\ ocStream' = <<>> BY <1>2 DEF OcEnds, r
  <2> HIDE DEF c
  <2>5. OcAnswers' BY <1>0, <2>1, <2>2, <2>3, <2>4, OcNoCallTypes DEF OcInv, OcAnswers
  <2> QED BY <1>0, <2>1, <2>3, <2>4, <2>5, OcNoCallTypes DEF OcInv, OcTypes, OcRests, OcMadeOnce
<1> QED BY <1>1, <1>2 DEF CompletedFromResponse

(* An interrupt aborts the session and waits for its idle event; a stale event is skipped. *)
LEMMA OcInterruptSteps ==
    ASSUME OcInv, OcInterrupt \/ AbortSession \/ SessionIdle \/ SkipEvent \/ OcStop
    PROVE  OcInv'
<1>0. oc \in OcStates /\ ocCall \in OcCalls /\ ocServer \in OcServers /\ ocStream \in Seq(OcEvents)
  BY DEF OcInv, OcTypes
<1>1. CASE OcInterrupt
  <2>1. /\ ocCall.op = "send" /\ ocStream' = <<>> /\ UNCHANGED <<oc, ocServer>>
        /\ ocCall' = [OcNoCall EXCEPT !.op = "interrupt", !.turn = ocCall.turn, !.at = "abort"]
    BY <1>1 DEF OcInterrupt
  <2>2. ocCall' \in OcCalls /\ ocCall'.op = "interrupt" /\ ocCall'.at = "abort" /\ ocCall'.answer = 0
    BY <2>1, <1>0 DEF OcNoCall, OcCalls
  <2> QED BY <2>1, <2>2 DEF OcInv, OcTypes, OcAnswers, OcRests, OcMadeOnce
<1>2. CASE AbortSession BY <1>2, <1>0 DEF AbortSession, OcCalls, OcInv, OcTypes, OcAnswers, OcRests, OcMadeOnce
<1>3. CASE SessionIdle
  <2> DEFINE c == [oc EXCEPT !.active = 0, !.completed = 0]
  <2>1. OcEnds(c) /\ ocServer' = ocServer /\ ocCall.at = "idle" /\ ocStream # <<>>
        /\ Head(ocStream).type = "idle"
    BY <1>3 DEF SessionIdle, SeenIdle
  <2>2. ~ocServer.working BY <2>1, <1>0 DEF OcInv, OcRests
  <2>3. /\ c \in OcStates /\ c.returned = oc.returned /\ c.uncertain = oc.uncertain /\ c.attached = oc.attached
    BY <1>0 DEF OcStates
  <2> HIDE DEF c
  <2> QED BY <2>1, <2>2, <2>3, OcEndsStep DEF OcInv, OcMadeOnce
<1>4. CASE SkipEvent BY <1>4, <1>0 DEF SkipEvent, OcInv, OcTypes, OcAnswers, OcRests, OcMadeOnce
<1>5. CASE OcStop
  <2> DEFINE c == [oc EXCEPT !.stopped = TRUE]
  <2>1. oc' = c /\ ocCall' = OcNoCall /\ ocStream' = <<>>
        /\ ocServer' = [ocServer EXCEPT !.working = FALSE]
    BY <1>5 DEF OcStop, OcEnds
  <2>2. /\ c \in OcStates /\ c.returned = oc.returned /\ c.uncertain = oc.uncertain /\ c.attached = oc.attached
    BY <1>0 DEF OcStates
  <2>3. /\ ocServer' \in OcServers /\ ocServer'.sessions = ocServer.sessions
        /\ ocServer'.turnOf = ocServer.turnOf /\ ocServer'.posted = ocServer.posted
        /\ ocServer'.answer = ocServer.answer /\ ocServer'.working = FALSE
    BY <2>1, <1>0 DEF OcServers
  <2> HIDE DEF c
  <2> QED BY <2>1, <2>2, <2>3, OcNoCallTypes DEF OcInv, OcTypes, OcAnswers, OcRests, OcMadeOnce
<1> QED BY <1>1, <1>2, <1>3, <1>4, <1>5

(* Whatever the server emits: an idle event within an interruption is true. *)
LEMMA OcEmitsStep ==
    ASSUME OcInv, NEW type \in {"user", "assistant", "ask", "idle"}, NEW p \in Nat, Emits(type, p),
           NEW s \in OcServers, ocServer' = s, UNCHANGED <<oc, ocCall>>,
           s.sessions = ocServer.sessions, s.turnOf = ocServer.turnOf, s.posted = ocServer.posted,
           \/ s.answer = ocServer.answer /\ s.working = ocServer.working
           \/ s.answer \in {ocServer.answer, ocServer.posted} /\ s.working = FALSE,
           type # "idle" \/ s.working = FALSE \/ ocCall.op # "interrupt"
    PROVE  OcInv'
BY DEF Emits, OcInv, OcTypes, OcEvents, OcServers, OcMadeOnce, OcAnswers, OcRests

(* The OpenCode server's own moves: late and repeated idle events among them. *)
LEMMA OcServerSteps ==
    ASSUME OcInv,
           \/ \E p \in 1..OcPrompts : ServerUpdates(p)
           \/ ServerAsks \/ PromptEnds \/ ServerAborts \/ ServerRepeatsIdle \/ ServerLateIdle
    PROVE  OcInv'
<1>0. oc \in OcStates /\ ocCall \in OcCalls /\ ocServer \in OcServers /\ ocStream \in Seq(OcEvents)
  BY DEF OcInv, OcTypes
<1>1. CASE \E p \in 1..OcPrompts : ServerUpdates(p)
  <2>1. PICK p \in Nat, type \in {"user", "assistant"} :
            Emits(type, p) /\ UNCHANGED <<oc, ocCall, ocServer>>
    BY <1>1 DEF ServerUpdates
  <2>2. type \in {"user", "assistant", "ask", "idle"} /\ type # "idle" OBVIOUS
  <2>3. PICK s \in OcServers : s = ocServer BY <1>0
  <2> QED BY <2>1, <2>2, <2>3, OcEmitsStep
<1>2. CASE ServerAsks
  <2>1. /\ Emits("ask", 0) /\ ocServer' = [ocServer EXCEPT !.asked = TRUE] /\ UNCHANGED <<oc, ocCall>>
    BY <1>2 DEF ServerAsks
  <2>2. [ocServer EXCEPT !.asked = TRUE] \in OcServers BY <1>0 DEF OcServers
  <2>3. PICK s \in OcServers : s = [ocServer EXCEPT !.asked = TRUE] BY <2>2
  <2>4. /\ s.sessions = ocServer.sessions /\ s.turnOf = ocServer.turnOf /\ s.posted = ocServer.posted
        /\ s.answer = ocServer.answer /\ s.working = ocServer.working
    BY <2>3, <1>0 DEF OcServers
  <2> QED BY <2>1, <2>3, <2>4, OcEmitsStep
<1>3. CASE PromptEnds
  <2> DEFINE e == [ocServer EXCEPT !.working = FALSE, !.answer = ocServer.posted, !.late = ocCall.at = "idle"]
  <2>1. /\ Emits("idle", 0) /\ ocServer' = e /\ UNCHANGED <<oc, ocCall>> BY <1>3 DEF PromptEnds
  <2>2. e \in OcServers BY <1>0 DEF OcServers
  <2>3. PICK s \in OcServers : s = e BY <2>2
  <2>4. /\ s.sessions = ocServer.sessions /\ s.turnOf = ocServer.turnOf /\ s.posted = ocServer.posted
        /\ s.answer = ocServer.posted /\ s.working = FALSE
    BY <2>3, <1>0 DEF OcServers
  <2> QED BY <2>1, <2>3, <2>4, OcEmitsStep
<1>4. CASE ServerAborts
  <2> DEFINE e == [ocServer EXCEPT !.working = FALSE, !.asked = FALSE, !.late = TRUE]
  <2>1. /\ Emits("idle", 0) /\ ocServer' = e /\ UNCHANGED <<oc, ocCall>> BY <1>4 DEF ServerAborts
  <2>2. e \in OcServers BY <1>0 DEF OcServers
  <2>3. PICK s \in OcServers : s = e BY <2>2
  <2>4. /\ s.sessions = ocServer.sessions /\ s.turnOf = ocServer.turnOf /\ s.posted = ocServer.posted
        /\ s.answer = ocServer.answer /\ s.working = FALSE
    BY <2>3, <1>0 DEF OcServers
  <2> QED BY <2>1, <2>3, <2>4, OcEmitsStep
<1>5. CASE ServerRepeatsIdle \/ ServerLateIdle
  BY <1>5, <1>0, OcEmitsStep DEF ServerRepeatsIdle, ServerLateIdle, OcServers
<1> QED BY <1>1, <1>2, <1>3, <1>4, <1>5

(* The invariant of the OpenCode driver and its server. *)
THEOREM OpenCodeInvariant == OcSpec => []OcInv
<1>1. OcInit => OcInv BY OcNoCallTypes DEF OcInit, OcStates, OcServers, OcInv, OcTypes, OcAnswers, OcRests, OcMadeOnce
<1>2. OcInv /\ [OcNext]_ocVars => OcInv'
  BY OcAttachSteps, OcPostStep, OcReadSteps, OcCompletedStep, OcInterruptSteps, OcServerSteps,
     OcSendStep DEF ocVars, OcInv, OcTypes, OcAnswers, OcRests, OcMadeOnce, OcRepeats, OcNext
<1> QED BY <1>1, <1>2, PTL DEF OcSpec

(* What OpenCode returns for a turn is the answer to that turn's own prompt, a turn that is over leaves no
   prompt at work, and at most one session is made. *)
THEOREM OpenCodeTrue == OcSpec => []OpenCodeOwnTurn
<1>1. OcInv => OpenCodeOwnTurn BY DEF OcInv, OcAnswers, OcRests, OcMadeOnce, OpenCodeOwnTurn
<1> QED BY <1>1, OpenCodeInvariant, PTL

------------------------
(* CodexDriver: what a turn returns is of the provider turn started for it. *)

Stages == {"initialize", "thread", "name", "attached"}
Methods == Stages \cup {"none", "start", "interrupt"}
Pendings == [id : Nat, method : Methods, turn : Nat]
Actives == [turn : Nat, pid : Nat, content : SUBSET Nat]
Ups == [k : Methods \cup {"answer", "unsupported"}, id : Nat, turn : Nat, pid : Nat]
Downs == [k : {"resp", "note", "ask"}, id : Nat, ok : BOOLEAN, pid : Nat,
          what : {"none", "delta", "completed", "failed", "interrupted"}]
Codexes == [next : Nat, stage : Stages, pending : Pendings, poisoned : BOOLEAN, active : Actives,
            completed : Nat, seen : SUBSET Nat, queue : Seq(Downs)]
CxCalls == [op : {"none", "attach", "send", "interrupt"}, turn : Nat,
            at : {"none", "response", "read", "asking", "drain"}]
Servers == [turns : Seq(Nat), running : Nat, owed : Nat, stopping : BOOLEAN, asks : BOOLEAN,
            notes : Nat, ended : [1..CxTurns -> {"no", "completed", "failed", "interrupted"}],
            late : BOOLEAN, dead : BOOLEAN]
Dones == [pid : Nat, content : SUBSET Nat]

CodexTypes ==
    /\ cx \in Codexes /\ cxCall \in CxCalls /\ cxSrv \in Servers
    /\ cxUp \in Seq(Ups) /\ cxDown \in Seq(Downs)
    /\ cxDone \in [1..CxTurns -> Dones]

\* The provider turns that were started, and those started for t.
Given == 1..Len(cxSrv.turns)
GivenFor(t) == {p \in Given : cxSrv.turns[p] = t}

\* The answer the driver waits for is the one to a turn/start of its pending turn.
Starts(id) == cx.pending.method = "start" /\ cx.pending.id = id

\* What may stand in the pipes and in the queue of the driver.
GoodUps ==
    {m \in Ups : m.id < cx.next /\ (Starts(m.id) => m.k = "start" /\ m.turn = cx.pending.turn)}
GoodNote(m) == m.pid \in Given /\ (m.k = "note" /\ m.what = "completed" => cxSrv.ended[m.pid] = "completed")
GoodDowns ==
    {m \in Downs : /\ m.id < cx.next
                   /\ m.k = "resp" /\ m.ok /\ Starts(m.id) => m.pid \in GivenFor(cx.pending.turn)
                   /\ m.k # "resp" => GoodNote(m)}

\* Answers are to the request they name.
AnswersTold ==
    /\ cxUp \in Seq(GoodUps) /\ cxDown \in Seq(GoodDowns) /\ cx.queue \in Seq(GoodDowns)
    /\ cxSrv.owed < cx.next
    /\ cxSrv.owed # 0 => Given # {}
    /\ cxSrv.owed # 0 /\ Starts(cxSrv.owed) => cxSrv.turns[Len(cxSrv.turns)] = cx.pending.turn

\* The future that runs waits for the request that is pending.
CallMatches ==
    /\ cx.pending.id < cx.next /\ (cx.pending = NoPending \/ cx.pending.id # 0)
    /\ cx.pending.method = "start" => cx.pending.id # 0 /\ cx.stage = "attached"
    /\ cxCall.op = "attach" => cx.stage # "attached"
    /\ cxCall.at = "response" /\ cx.pending.method = "start" => cxCall.turn = cx.pending.turn

\* The app-server runs the turn it started last, which has not ended.
ServerRuns ==
    /\ cxSrv.running # 0 => cxSrv.running \in Given /\ cxSrv.ended[cxSrv.running] = "no"
    /\ Len(cxSrv.turns) <= CxTurns
    /\ \A p \in 1..CxTurns : p > Len(cxSrv.turns) => cxSrv.ended[p] = "no"

\* The active turn, and what was returned, are of the provider turn they name.
ActiveTold(a) == a.pid # 0 => a.pid \in GivenFor(a.turn) /\ a.content \subseteq {a.pid}
DoneTold(t, o) ==
    o # NoDone => o.pid \in GivenFor(t) /\ cxSrv.ended[o.pid] = "completed" /\ o.content \subseteq {o.pid}
OutputsTold == ActiveTold(cx.active) /\ \A t \in 1..CxTurns : DoneTold(t, cxDone[t])

CodexInv == CodexTypes /\ AnswersTold /\ CallMatches /\ ServerRuns /\ OutputsTold

(* Sequences over a set. *)
LEMMA SeqFacts ==
    ASSUME NEW S, NEW q \in Seq(S)
    PROVE  /\ \A m \in S : Append(q, m) \in Seq(S)
           /\ q # <<>> => Head(q) \in S /\ Tail(q) \in Seq(S)
           /\ \A i \in 1..Len(q) : q[i] \in S /\ RemoveAt(q, i) \in Seq(S)
BY DEF RemoveAt

(* A sequence over a set is one over every larger set. *)
LEMMA SeqWider ==
    ASSUME NEW S, NEW T, S \subseteq T, NEW q \in Seq(S)
    PROVE  q \in Seq(T)
BY SeqMonotonic

(* What the invariant says of each part of the Codex driver, in the form the step lemmas cite it. *)
LEMMA CodexFacts ==
    ASSUME CodexInv
    PROVE  /\ cx \in Codexes /\ cx.next \in Nat /\ cx.pending \in Pendings /\ cx.active \in Actives
           /\ cx.pending.id \in Nat /\ cx.pending.turn \in Nat /\ cx.pending.method \in Methods
           /\ cx.active.pid \in Nat /\ cx.active.turn \in Nat /\ cx.active.content \in SUBSET Nat
           /\ cx.stage \in Stages
           /\ cxCall \in CxCalls /\ cxCall.turn \in Nat
           /\ cxSrv \in Servers /\ cxSrv.turns \in Seq(Nat) /\ Len(cxSrv.turns) \in Nat
           /\ cxSrv.owed \in Nat /\ cxSrv.running \in Nat
           /\ cxSrv.ended \in [1..CxTurns -> {"no", "completed", "failed", "interrupted"}]
           /\ cxDone \in [1..CxTurns -> Dones] /\ CxTurns \in Nat
           /\ cxUp \in Seq(GoodUps) /\ cxDown \in Seq(GoodDowns) /\ cx.queue \in Seq(GoodDowns)
           /\ cx.queue \in Seq(Downs)
           /\ CallMatches /\ ServerRuns /\ OutputsTold
<1>1. /\ cx \in Codexes /\ cxCall \in CxCalls /\ cxSrv \in Servers /\ cxDone \in [1..CxTurns -> Dones]
      /\ cxUp \in Seq(GoodUps) /\ cxDown \in Seq(GoodDowns) /\ cx.queue \in Seq(GoodDowns)
      /\ CallMatches /\ ServerRuns /\ OutputsTold
  BY DEF CodexInv, CodexTypes, AnswersTold
<1>2. /\ cx.next \in Nat /\ cx.pending \in Pendings /\ cx.active \in Actives /\ cx.stage \in Stages
      /\ cx.queue \in Seq(Downs)
  BY <1>1 DEF Codexes
<1>3. cx.pending.id \in Nat /\ cx.pending.turn \in Nat /\ cx.pending.method \in Methods BY <1>2 DEF Pendings
<1>4. cx.active.pid \in Nat /\ cx.active.turn \in Nat /\ cx.active.content \in SUBSET Nat BY <1>2 DEF Actives
<1>5. cxCall.turn \in Nat BY <1>1 DEF CxCalls
<1>6. /\ cxSrv.turns \in Seq(Nat) /\ cxSrv.owed \in Nat /\ cxSrv.running \in Nat
      /\ cxSrv.ended \in [1..CxTurns -> {"no", "completed", "failed", "interrupted"}]
  BY <1>1 DEF Servers
<1>7. Len(cxSrv.turns) \in Nat BY <1>6
<1> QED BY <1>1, <1>2, <1>3, <1>4, <1>5, <1>6, <1>7, CxAssumption

(* Notices and answers stay good when the driver asks for something new.  A new request has *)
(* a number nothing in the pipes has.                                                       *)
LEMMA DriverKeeps ==
    ASSUME CodexInv, NEW d \in Codexes, cx' = d, cxSrv' = cxSrv, d.next >= cx.next,
           \/ d.pending = cx.pending
           \/ d.pending = NoPending
           \/ d.pending.id = cx.next
    PROVE  GoodUps \subseteq GoodUps' /\ GoodDowns \subseteq GoodDowns'
<1>1. d.next \in Nat /\ d.pending.id \in Nat BY DEF Codexes, Pendings
<1>2. ASSUME NEW i \in Nat, i < cx.next, Starts(i)'
      PROVE  Starts(i) /\ d.pending = cx.pending
  BY <1>1, <1>2, CodexFacts DEF Starts, NoPending
<1>3. \A i \in Nat : i < cx.next => i < d.next BY <1>1, CodexFacts
<1>4. GoodUps \subseteq GoodUps' BY <1>2, <1>3 DEF GoodUps, Ups
<1>5. GoodDowns \subseteq GoodDowns' BY <1>2, <1>3 DEF GoodDowns, Downs, GoodNote, GivenFor, Given
<1> QED BY <1>4, <1>5

(* A step of the driver. *)
LEMMA DriverStep ==
    ASSUME CodexInv, NEW d \in Codexes, cx' = d, cxSrv' = cxSrv, NEW c \in CxCalls, cxCall' = c,
           d.next >= cx.next,
           \/ d.pending = cx.pending
           \/ d.pending = NoPending
           \/ d.pending.id = cx.next /\ d.next = cx.next + 1,
           CallMatches', ActiveTold(d.active),
           \/ cxUp' = cxUp
           \/ \E m \in Ups : /\ cxUp' = Append(cxUp, m)
                             /\ \/ m.id = 0
                                \/ m.id = cx.next /\ d.next = cx.next + 1
                                   /\ m.k = d.pending.method /\ m.turn = d.pending.turn,
           cxDown' \in Seq(GoodDowns), d.queue \in Seq(GoodDowns),
           cxDone' \in [1..CxTurns -> Dones], \A t \in 1..CxTurns : DoneTold(t, cxDone'[t])
    PROVE  CodexInv'
<1>1. GoodUps \subseteq GoodUps' /\ GoodDowns \subseteq GoodDowns' BY DriverKeeps
<1>2. cxUp' \in Seq(GoodUps')
  <2>1. cxUp \in Seq(GoodUps') BY <1>1, CodexFacts, SeqWider
  <2>2. ASSUME NEW m \in Ups, m.id = 0 \/ (m.id = cx.next /\ d.next = cx.next + 1
                                           /\ m.k = d.pending.method /\ m.turn = d.pending.turn)
        PROVE  m \in GoodUps'
    <3>1. d.next \in Nat /\ d.pending.id \in Nat /\ cx.next \in Nat /\ cx.next > 0
      BY CodexFacts DEF Codexes, Pendings, CallMatches
    <3>2. m.id < d.next BY <2>2, <3>1
    <3>3. Starts(m.id)' => m.k = "start" /\ m.turn = d.pending.turn BY <2>2 DEF Starts, CallMatches
    <3> QED BY <3>2, <3>3 DEF GoodUps
  <2> QED BY <2>1, <2>2, SeqFacts
<1>3. cxDown' \in Seq(GoodDowns') /\ d.queue \in Seq(GoodDowns') BY <1>1, SeqWider
<1>4. cxUp' \in Seq(Ups) /\ cxDown' \in Seq(Downs) BY <1>2, <1>3, SeqWider DEF GoodUps, GoodDowns
<1>5. ServerRuns' BY CodexFacts DEF ServerRuns, Given
<1>6. OutputsTold' BY DEF ActiveTold, DoneTold, GivenFor, Given, OutputsTold
<1>7. /\ cxSrv.owed < d.next /\ (cxSrv.owed # 0 => Given' # {})
      /\ cxSrv.owed # 0 /\ Starts(cxSrv.owed)' => cxSrv.turns[Len(cxSrv.turns)] = d.pending.turn
  <2>1. /\ cxSrv.owed < cx.next /\ (cxSrv.owed # 0 => Given # {})
        /\ cxSrv.owed # 0 /\ Starts(cxSrv.owed) => cxSrv.turns[Len(cxSrv.turns)] = cx.pending.turn
    BY DEF CodexInv, AnswersTold
  <2>2. d.next \in Nat /\ d.pending.id \in Nat /\ cx.next \in Nat /\ cxSrv.owed \in Nat
    BY CodexFacts DEF Codexes, Pendings
  <2>3. cxSrv.owed < d.next BY <2>1, <2>2
  <2>4. Given' = Given BY DEF Given
  <2>5. Starts(cxSrv.owed)' => Starts(cxSrv.owed) /\ d.pending = cx.pending BY <2>1, <2>2 DEF Starts, NoPending
  <2> QED BY <2>1, <2>3, <2>4, <2>5
<1>8. AnswersTold' BY <1>2, <1>3, <1>7 DEF AnswersTold
<1>9. CodexTypes' BY <1>4, CodexFacts DEF CodexTypes
<1> QED BY <1>5, <1>6, <1>8, <1>9 DEF CodexInv

(* A driver that awaits the answer it awaited, or none. *)
LEMMA PendingKept ==
    ASSUME CodexInv, NEW d \in Codexes, d.next = cx.next, d.stage = cx.stage, d.pending \in {cx.pending, NoPending}
    PROVE  /\ d.pending.id < d.next /\ (d.pending = NoPending \/ d.pending.id # 0)
           /\ d.pending.method = "start" => d.pending = cx.pending /\ d.pending.id # 0 /\ d.stage = "attached"
<1>1. /\ cx.pending.id < cx.next /\ (cx.pending = NoPending \/ cx.pending.id # 0)
      /\ cx.pending.method = "start" => cx.pending.id # 0 /\ cx.stage = "attached"
      /\ cx.pending.id \in Nat /\ cx.next \in Nat
  BY CodexFacts DEF CallMatches, Codexes, Pendings
<1>2. NoPending.id = 0 /\ NoPending.method = "none" BY DEF NoPending
<1>3. CASE d.pending = cx.pending BY <1>1, <1>3
<1>4. CASE d.pending = NoPending BY <1>1, <1>2, <1>4
<1> QED BY <1>3, <1>4

(* A step that asks nothing of the app-server. *)
LEMMA QuietStep ==
    ASSUME CodexInv, NEW d \in Codexes, cx' = d, cxSrv' = cxSrv, NEW c \in CxCalls, cxCall' = c,
           d.next = cx.next, d.stage = cx.stage, d.pending \in {cx.pending, NoPending},
           c.at = "response" => c = cxCall /\ d.pending = cx.pending,
           c.op = "attach" => cxCall.op = "attach",
           ActiveTold(d.active),
           \/ cxUp' = cxUp
           \/ \E m \in Ups : cxUp' = Append(cxUp, m) /\ m.id = 0,
           cxDown' \in Seq(GoodDowns), d.queue \in Seq(GoodDowns),
           cxDone' \in [1..CxTurns -> Dones], \A t \in 1..CxTurns : DoneTold(t, cxDone'[t])
    PROVE  CodexInv'
<1>1. /\ d.pending.id < d.next /\ (d.pending = NoPending \/ d.pending.id # 0)
      /\ d.pending.method = "start" => d.pending = cx.pending /\ d.pending.id # 0 /\ d.stage = "attached"
  BY PendingKept
<1>2. CallMatches /\ cx.next \in Nat /\ d.next >= cx.next BY CodexFacts
<1>3. CallMatches' BY <1>1, <1>2 DEF CallMatches, NoPending
<1> QED BY <1>2, <1>3, DriverStep

(* Nothing was returned by this step. *)
LEMMA DoneKept ==
    ASSUME CodexInv
    PROVE  /\ cxDone \in [1..CxTurns -> Dones] /\ \A t \in 1..CxTurns : DoneTold(t, cxDone[t])
           /\ ActiveTold(cx.active) /\ ActiveTold(NoActive) /\ NoActive \in Actives /\ NoActive.pid = 0
           /\ NoPending \in Pendings /\ NoPending.id = 0 /\ NoPending.method = "none"
           /\ CxIdle \in CxCalls /\ CxIdle.at = "none" /\ CxIdle.op = "none"
BY CodexFacts DEF OutputsTold, ActiveTold, NoActive, Actives, NoPending, Pendings, Methods, CxIdle, CxCalls

(* A request is sent, or the one that is pending is joined. *)
LEMMA RequestStep ==
    ASSUME CodexInv, NEW d \in Codexes, NEW call \in CxCalls, NEW method \in Stages \cup {"start", "interrupt"},
           NEW t \in Nat, Request(d, call, method, t), cxSrv' = cxSrv, cxDone' = cxDone,
           cxDown' \in Seq(GoodDowns), d.queue = cx.queue, d.next = cx.next,
           d.pending \in {cx.pending, NoPending}, ActiveTold(d.active),
           d.pending.method = "start" => call.turn = d.pending.turn,
           method = "start" => call.turn = t /\ d.stage = "attached",
           d.pending # NoPending => d.stage = cx.stage,
           call.op = "attach" => d.stage # "attached"
    PROVE  CodexInv'
<1> DEFINE c == [call EXCEPT !.at = "response"]
<1>1. c \in CxCalls /\ c.at = "response" /\ c.op = call.op /\ c.turn = call.turn BY DEF CxCalls
<1>2. cxCall' = c BY DEF Request
<1> HIDE DEF c
<1>3. d.queue \in Seq(GoodDowns) /\ cx.next \in Nat /\ cx.next > 0 /\ d.active \in Actives
  BY CodexFacts DEF CallMatches, Codexes
<1>4. CASE d.pending # NoPending
  <2>1. cx' = d /\ cxUp' = cxUp /\ d.pending = cx.pending BY <1>4 DEF Request
  <2>2. CallMatches' BY <1>1, <1>2, <1>4, <2>1, CodexFacts DEF CallMatches
  <2>3. cxDone' \in [1..CxTurns -> Dones] /\ \A i \in 1..CxTurns : DoneTold(i, cxDone'[i]) BY DoneKept
  <2>4. d.next >= cx.next /\ d.queue \in Seq(GoodDowns) BY <1>3
  <2> QED BY <1>1, <1>2, <2>1, <2>2, <2>3, <2>4, DriverStep
<1>5. CASE d.pending = NoPending
  <2>1. PICK n \in Nat : n = cx.next + 1 BY <1>3
  <2> DEFINE p == [id |-> cx.next, method |-> method, turn |-> t]
             e == [d EXCEPT !.pending = p, !.next = n]
             m == [k |-> method, id |-> cx.next, turn |-> t, pid |-> d.active.pid]
  <2>2. p \in Pendings /\ p.id = cx.next /\ p.method = method /\ p.turn = t BY <1>3 DEF Pendings, Methods
  <2>3. m \in Ups /\ m.id = cx.next /\ m.k = method /\ m.turn = t BY <1>3 DEF Ups, Methods, Actives
  <2>4. cx' = e /\ cxUp' = Append(cxUp, m) BY <1>5, <2>1 DEF Request
  <2> HIDE DEF p, m
  <2>5. /\ e \in Codexes /\ e.pending = p /\ e.next = n /\ e.active = d.active /\ e.queue = d.queue
        /\ e.stage = d.stage
    BY <2>1, <2>2 DEF Codexes
  <2> HIDE DEF e
  <2>6. CallMatches' BY <1>1, <1>2, <1>3, <2>1, <2>2, <2>4, <2>5 DEF CallMatches
  <2>7. e.next >= cx.next /\ e.pending.id = cx.next /\ e.next = cx.next + 1 BY <1>3, <2>1, <2>2, <2>5
  <2>8. \E w \in Ups : /\ cxUp' = Append(cxUp, w)
                       /\ \/ w.id = 0
                          \/ w.id = cx.next /\ e.next = cx.next + 1
                             /\ w.k = e.pending.method /\ w.turn = e.pending.turn
    BY <2>2, <2>3, <2>4, <2>5, <2>7
  <2>9. cxDone' \in [1..CxTurns -> Dones] /\ \A i \in 1..CxTurns : DoneTold(i, cxDone'[i]) BY DoneKept
  <2> QED BY <1>1, <1>2, <1>3, <2>4, <2>5, <2>6, <2>7, <2>8, <2>9, DriverStep
<1> QED BY <1>4, <1>5

(* The caller's side of the Codex driver: attaching, interrupting, a dropped or timed-out call, and how a
   request ends. *)
LEMMA CodexCalls ==
    ASSUME CodexInv, Attach \/ InterruptTurn \/ CallDropped \/ TurnTimeout \/ RequestAnswered \/ RequestFails
    PROVE  CodexInv'
<1>0. cxDown \in Seq(GoodDowns) /\ cx.queue \in Seq(GoodDowns) /\ cx \in Codexes BY CodexFacts
<1>1. CASE Attach
  <2> DEFINE call == [op |-> "attach", turn |-> 0, at |-> "none"]
  <2>1. call \in CxCalls /\ call.op = "attach" BY DEF CxCalls
  <2>2. /\ cx.stage # "attached" /\ Request(cx, call, cx.stage, 0)
        /\ cxDown' = cxDown /\ cxSrv' = cxSrv /\ cxDone' = cxDone
    BY <1>1 DEF Attach
  <2> HIDE DEF call
  <2>3. cx.pending.method # "start" /\ cx.stage \in Stages \cup {"start", "interrupt"} /\ cx.stage # "start"
    BY <2>2, CodexFacts DEF CallMatches, Stages
  <2> QED BY <1>0, <2>1, <2>2, <2>3, DoneKept, RequestStep
<1>2. CASE InterruptTurn
  <2> DEFINE t == cxCall.turn
             call == [op |-> "interrupt", turn |-> t, at |-> "none"]
  <2>1. call \in CxCalls /\ call.op = "interrupt" /\ call.turn = t /\ t \in Nat BY CodexFacts DEF CxCalls
  <2>2. cxDown' = cxDown /\ cxSrv' = cxSrv /\ cxDone' = cxDone BY <1>2 DEF InterruptTurn
  <2>3. \/ Returns(cx) /\ cxUp' = cxUp
        \/ CanRequest("start", t) /\ Request(cx, call, "start", t) /\ cx.active = NoActive
           /\ cx.pending.method = "start"
        \/ CanRequest("interrupt", t) /\ Request(cx, call, "interrupt", t)
    BY <1>2 DEF InterruptTurn
  <2> HIDE DEF call
  <2>4. CASE Returns(cx) /\ cxUp' = cxUp BY <1>0, <2>2, <2>4, CodexFacts, DoneKept, QuietStep DEF Returns
  <2>5. CASE CanRequest("start", t) /\ Request(cx, call, "start", t) /\ cx.pending.method = "start"
    BY <2>5, CodexFacts, DoneKept, <1>0, <2>1, <2>2, RequestStep DEF CanRequest, CallMatches
  <2>6. CASE CanRequest("interrupt", t) /\ Request(cx, call, "interrupt", t)
    BY <2>6, DoneKept, <1>0, <2>1, <2>2, RequestStep DEF CanRequest
  <2> QED BY <2>3, <2>4, <2>5, <2>6
<1>3. CASE CallDropped BY <1>0, <1>3, CodexFacts, DoneKept, QuietStep DEF CallDropped, Returns
<1>4. CASE TurnTimeout \/ RequestFails
  <2> DEFINE d == [cx EXCEPT !.poisoned = TRUE]
  <2>1. /\ d \in Codexes /\ d.next = cx.next /\ d.stage = cx.stage /\ d.pending = cx.pending
        /\ d.active = cx.active /\ d.queue = cx.queue
    BY <1>0 DEF Codexes
  <2>2. cx' = d /\ cxCall' = CxIdle /\ UNCHANGED <<cxUp, cxDown, cxSrv, cxDone>>
    BY <1>4 DEF TurnTimeout, RequestFails, Poison
  <2> HIDE DEF d
  <2> QED BY <1>0, <2>1, <2>2, CodexFacts, DoneKept, QuietStep
<1>5. CASE RequestAnswered
  <2> DEFINE m == [k |-> "answer", id |-> 0, turn |-> 0, pid |-> cx.active.pid]
             c == [cxCall EXCEPT !.at = "read"]
  <2>1. m \in Ups /\ m.id = 0 BY CodexFacts DEF Ups, Actives
  <2>2. c \in CxCalls /\ c.at = "read" /\ c.op = cxCall.op BY CodexFacts DEF CxCalls
  <2>3. cxUp' = Append(cxUp, m) /\ cxCall' = c /\ UNCHANGED <<cx, cxDown, cxSrv, cxDone>> BY <1>5 DEF RequestAnswered
  <2> HIDE DEF m, c
  <2> QED BY <1>0, <2>1, <2>2, <2>3, CodexFacts, DoneKept, QuietStep
<1> QED BY <1>1, <1>2, <1>3, <1>4, <1>5

(* turn/start is written under a fresh identifier when no turn is active; a repeated send goes on reading, and
   a completed one has its outcome already. *)
LEMMA CodexSends ==
    ASSUME CodexInv, NEW t \in 1..CxTurns, SendTurn(t)
    PROVE  CodexInv'
<1>0. cxDown \in Seq(GoodDowns) /\ cx.queue \in Seq(GoodDowns) /\ cx \in Codexes BY CodexFacts
<1> DEFINE call == [op |-> "send", turn |-> t, at |-> "read"]
<1>1. call \in CxCalls /\ call.op = "send" /\ call.turn = t /\ call.at = "read" /\ t \in Nat BY CodexFacts DEF CxCalls
<1>2. cxDown' = cxDown /\ cxSrv' = cxSrv /\ cxDone' = cxDone /\ cx.stage = "attached" BY DEF SendTurn
<1>3. \/ UNCHANGED <<cx, cxCall, cxUp>>
      \/ cxCall' = call /\ UNCHANGED <<cx, cxUp>>
      \/ CanRequest("start", t) /\ Request(cx, call, "start", t)
  BY DEF SendTurn
<1> HIDE DEF call
<1>4. CASE UNCHANGED <<cx, cxCall, cxUp>> BY <1>0, <1>2, <1>4, CodexFacts, DoneKept, QuietStep
<1>5. CASE cxCall' = call /\ UNCHANGED <<cx, cxUp>> BY <1>0, <1>1, <1>2, <1>5, CodexFacts, DoneKept, QuietStep
<1>6. CASE CanRequest("start", t) /\ Request(cx, call, "start", t)
  BY <1>6, DoneKept, <1>0, <1>1, <1>2, RequestStep DEF CanRequest
<1> QED BY <1>3, <1>4, <1>5, <1>6

(* A nonempty set of naturals has a least element. *)
LEMMA LeastOf ==
    ASSUME NEW S \in SUBSET Nat, S # {}
    PROVE  Min(S) \in S
<1> DEFINE R == {ss \in Nat \X Nat : ss[1] < ss[2]}
<1>1. PICK m \in S : \A y \in S : ~(<<y, m>> \in R)
  <2>1. IsWellFoundedOn(R, Nat) BY NatLessThanWellFounded, Zenon DEF OpToRel
  <2> HIDE DEF R
  <2> QED BY <2>1, WFMin
<1>2. ASSUME NEW y \in S
      PROVE  m <= y
  <2>1. y \in Nat /\ m \in Nat OBVIOUS
  <2>2. ~(y < m)
    <3>1. SUFFICES ASSUME y < m PROVE <<y, m>> \in R
      BY <1>1
    <3> DEFINE s == <<y, m>>
    <3>2. s \in Nat \X Nat /\ s[1] < s[2] BY <2>1, <3>1
    <3> QED BY <3>2
  <2> QED BY <2>1, <2>2
<1> QED BY <1>2 DEF Min

(* What a future that reads the turn takes is of the active turn. *)
LEMMA TakeFacts ==
    ASSUME CodexInv, CanTake
    PROVE  /\ CxTaken \in GoodDowns /\ CxTaken \in Downs
           /\ cx.active.pid = CxTaken.pid /\ CxTaken.pid # 0 /\ CxTaken.pid \in GivenFor(cx.active.turn)
           /\ CxTaken.k = "note" /\ CxTaken.what = "completed" => cxSrv.ended[CxTaken.pid] = "completed"
           /\ \E q \in Seq(GoodDowns) : /\ q \in Seq(Downs) /\ Rest = [cx EXCEPT !.queue = q]
           /\ TakeOne => cxDown' \in Seq(GoodDowns)
<1>0. GoodDowns \subseteq Downs BY DEF GoodDowns
<1>1. CASE InQueue = {}
  <2>1. cxDown # <<>> /\ Matches(Head(cxDown)) /\ CxTaken = Head(cxDown) /\ Rest = cx
    BY <1>1 DEF CanTake, CxTaken, Rest
  <2>2. CxTaken \in GoodDowns /\ Tail(cxDown) \in Seq(GoodDowns) BY <2>1, CodexFacts, SeqFacts
  <2>3. TakeOne => cxDown' = Tail(cxDown) BY <1>1 DEF TakeOne
  <2>4. Rest = [cx EXCEPT !.queue = cx.queue] BY <2>1, CodexFacts DEF Codexes
  <2>5. Matches(CxTaken) BY <2>1
  <2>6. GoodNote(CxTaken) /\ CxTaken.k # "resp" /\ CxTaken.pid = cx.active.pid BY <2>2, <2>5 DEF GoodDowns, Matches
  <2>7. CxTaken.pid # 0 BY <2>6, CodexFacts DEF GoodNote, Given
  <2> QED BY <1>0, <2>2, <2>3, <2>4, <2>6, <2>7, CodexFacts DEF GoodNote, OutputsTold, ActiveTold
<1>2. CASE InQueue # {}
  <2>1. InQueue \in SUBSET Nat BY CodexFacts DEF InQueue
  <2>2. PICK i \in InQueue : i = Min(InQueue) BY <1>2, <2>1, LeastOf
  <2>3. i \in 1..Len(cx.queue) /\ Matches(cx.queue[i]) BY DEF InQueue
  <2>4. CxTaken = cx.queue[i] /\ Rest = [cx EXCEPT !.queue = RemoveAt(cx.queue, i)] BY <1>2, <2>2 DEF CxTaken, Rest
  <2>5. CxTaken \in GoodDowns /\ RemoveAt(cx.queue, i) \in Seq(GoodDowns) /\ RemoveAt(cx.queue, i) \in Seq(Downs)
    BY <2>3, <2>4, CodexFacts, SeqFacts
  <2>6. TakeOne => cxDown' = cxDown BY <1>2 DEF TakeOne
  <2>7. GoodNote(CxTaken) /\ CxTaken.k # "resp" /\ CxTaken.pid = cx.active.pid
    BY <2>3, <2>4, <2>5 DEF GoodDowns, Matches
  <2>8. CxTaken.pid # 0 BY <2>7, CodexFacts DEF GoodNote, Given
  <2>9. \E q \in Seq(GoodDowns) : q \in Seq(Downs) /\ Rest = [cx EXCEPT !.queue = q] BY <2>4, <2>5
  <2> QED BY <1>0, <2>5, <2>6, <2>7, <2>8, <2>9, CodexFacts DEF GoodNote, OutputsTold, ActiveTold
<1> QED BY <1>1, <1>2

(* The fields of the driver that a step changes, one at a time. *)
LEMMA CodexShapes ==
    ASSUME NEW d \in Codexes
    PROVE  /\ \A q \in Seq(Downs) :
                 /\ [d EXCEPT !.queue = q] \in Codexes /\ [d EXCEPT !.queue = q].queue = q
                 /\ [d EXCEPT !.queue = q].next = d.next /\ [d EXCEPT !.queue = q].stage = d.stage
                 /\ [d EXCEPT !.queue = q].pending = d.pending /\ [d EXCEPT !.queue = q].active = d.active
           /\ \A a \in Actives, n \in Nat :
                 LET e == [d EXCEPT !.active = a, !.completed = n]
                 IN  /\ e \in Codexes /\ e.queue = d.queue /\ e.active = a
                     /\ e.next = d.next /\ e.stage = d.stage /\ e.pending = d.pending
           /\ \A a \in Actives :
                 LET e == [d EXCEPT !.active = a]
                 IN  /\ e \in Codexes /\ e.queue = d.queue /\ e.active = a
                     /\ e.next = d.next /\ e.stage = d.stage /\ e.pending = d.pending
           /\ LET e == [d EXCEPT !.poisoned = TRUE]
              IN  /\ e \in Codexes /\ e.queue = d.queue /\ e.active = d.active
                  /\ e.next = d.next /\ e.stage = d.stage /\ e.pending = d.pending
           /\ LET e == [d EXCEPT !.pending = NoPending]
              IN  /\ e \in Codexes /\ e.queue = d.queue /\ e.active = d.active
                  /\ e.next = d.next /\ e.stage = d.stage /\ e.pending = NoPending
BY DEF NoPending, Pendings, Methods, Codexes

(* What is left of the driver's queue. *)
LEMMA RestFacts ==
    ASSUME CodexInv, CanTake
    PROVE  /\ Rest \in Codexes /\ Rest.next = cx.next /\ Rest.stage = cx.stage /\ Rest.pending = cx.pending
           /\ Rest.active = cx.active /\ Rest.queue \in Seq(GoodDowns)
<1>1. PICK q \in Seq(GoodDowns) : q \in Seq(Downs) /\ Rest = [cx EXCEPT !.queue = q] BY TakeFacts
<1>2. cx \in Codexes BY CodexFacts
<1> QED BY <1>1, <1>2, CodexShapes

(* Messages that match the active turn: a note for it, or a question of it. *)
LEMMA CodexReads ==
    ASSUME CodexInv, ReadTurn
    PROVE  CodexInv'
<1>1. CanTake /\ TakeOne /\ UNCHANGED <<cxUp, cxSrv>> BY DEF ReadTurn, TakeOne
<1>2. cxDown' \in Seq(GoodDowns) /\ CxTaken \in Downs BY <1>1, TakeFacts
<1>3. PICK m \in GoodDowns : m = CxTaken BY <1>1, TakeFacts
<1>4. PICK d \in Codexes : /\ d = Rest /\ d.next = cx.next /\ d.stage = cx.stage /\ d.pending = cx.pending
                           /\ d.active = cx.active /\ d.queue \in Seq(GoodDowns)
  BY <1>1, RestFacts
<1>5. /\ cx.active.pid = m.pid /\ m.pid # 0 /\ m.pid \in GivenFor(cx.active.turn) /\ m.pid \in Nat
      /\ m.k = "note" /\ m.what = "completed" => cxSrv.ended[m.pid] = "completed"
      /\ m.what \in {"none", "delta", "completed", "failed", "interrupted"}
  BY <1>1, <1>2, <1>3, TakeFacts DEF Downs
<1>6. CASE m.k = "ask" /\ cx' = d /\ cxCall' = [cxCall EXCEPT !.at = "asking"] /\ cxDone' = cxDone
  <2>1. PICK c \in CxCalls : c = [cxCall EXCEPT !.at = "asking"] /\ c.at = "asking" /\ c.op = cxCall.op
    <3>1. [cxCall EXCEPT !.at = "asking"] \in CxCalls /\ [cxCall EXCEPT !.at = "asking"].at = "asking"
          /\ [cxCall EXCEPT !.at = "asking"].op = cxCall.op
      BY CodexFacts DEF CxCalls
    <3> QED BY <3>1
  <2> QED BY <1>1, <1>2, <1>4, <1>6, <2>1, DoneKept, QuietStep
<1>7. CASE m.k = "note" /\ m.what = "delta" /\ Note(m, d)
  <2> DEFINE a == [cx.active EXCEPT !.content = cx.active.content \cup {m.pid}]
             e == [d EXCEPT !.active = a]
  <2>1. a \in Actives /\ ActiveTold(a) BY <1>5, CodexFacts DEF Actives, OutputsTold, ActiveTold
  <2>2. cx' = e /\ UNCHANGED <<cxCall, cxDone>> BY <1>4, <1>7 DEF Note
  <2> HIDE DEF a
  <2>3. /\ e \in Codexes /\ e.next = d.next /\ e.stage = d.stage /\ e.pending = d.pending
        /\ e.active = a /\ e.queue = d.queue
    BY <2>1 DEF Codexes
  <2> HIDE DEF e
  <2> QED BY <1>1, <1>2, <1>4, <2>1, <2>2, <2>3, CodexFacts, DoneKept, QuietStep
<1>8. CASE m.k = "note" /\ m.what = "completed" /\ Note(m, d)
  <2> DEFINE e == [d EXCEPT !.active = NoActive, !.completed = cx.active.turn]
             o == [pid |-> cx.active.pid, content |-> cx.active.content]
  <2>1. cx' = e /\ cxCall' = CxIdle /\ cxDone' = [cxDone EXCEPT ![cx.active.turn] = o] BY <1>4, <1>8 DEF Note, Returns
  <2>2. o \in Dones /\ DoneTold(cx.active.turn, o)
    BY <1>5, CodexFacts, <1>8 DEF OutputsTold, ActiveTold, Dones, DoneTold
  <2>3. /\ e \in Codexes /\ e.next = d.next /\ e.stage = d.stage /\ e.pending = d.pending
        /\ e.active = NoActive /\ e.queue = d.queue
    BY CodexFacts, DoneKept DEF Codexes
  <2> HIDE DEF e, o
  <2>4. cxDone' \in [1..CxTurns -> Dones] /\ \A t \in 1..CxTurns : DoneTold(t, cxDone'[t]) BY <2>1, <2>2, DoneKept
  <2> QED BY <1>1, <1>2, <1>4, <2>1, <2>3, <2>4, DoneKept, QuietStep
<1>9. CASE m.k = "note" /\ m.what \notin {"delta", "completed"} /\ Note(m, d)
  <2> DEFINE e == [d EXCEPT !.poisoned = TRUE]
  <2>1. cx' = e /\ cxCall' = CxIdle /\ cxDone' = cxDone BY <1>9 DEF Note, Poison
  <2>2. /\ e \in Codexes /\ e.next = d.next /\ e.stage = d.stage /\ e.pending = d.pending
        /\ e.active = d.active /\ e.queue = d.queue
    BY CodexShapes
  <2> HIDE DEF e
  <2> QED BY <1>1, <1>2, <1>4, <2>1, <2>2, DoneKept, QuietStep
<1>10. \/ m.k = "note" /\ Note(m, d)
       \/ m.k = "ask" /\ cx' = d /\ cxCall' = [cxCall EXCEPT !.at = "asking"] /\ cxDone' = cxDone
  BY <1>3, <1>4 DEF ReadTurn
<1> QED BY <1>6, <1>7, <1>8, <1>9, <1>10

(* The messages of an interrupted turn are read until its end. *)
LEMMA CodexDrains ==
    ASSUME CodexInv, Drain
    PROVE  CodexInv'
<1>1. CanTake /\ TakeOne /\ UNCHANGED <<cxSrv, cxDone>> BY DEF Drain, TakeOne
<1>2. cxDown' \in Seq(GoodDowns) /\ CxTaken \in Downs BY <1>1, TakeFacts
<1>3. PICK m \in GoodDowns : m = CxTaken BY <1>1, TakeFacts
<1>4. PICK d \in Codexes : /\ d = Rest /\ d.next = cx.next /\ d.stage = cx.stage /\ d.pending = cx.pending
                           /\ d.active = cx.active /\ d.queue \in Seq(GoodDowns)
  BY <1>1, RestFacts
<1> DEFINE u == [k |-> "unsupported", id |-> 0, turn |-> 0, pid |-> m.pid]
           e == [d EXCEPT !.active = NoActive, !.completed = 0]
<1>5. u \in Ups /\ u.id = 0 BY <1>2, <1>3 DEF Ups, Downs
<1>6. /\ e \in Codexes /\ e.next = d.next /\ e.stage = d.stage /\ e.pending = d.pending
      /\ e.active = NoActive /\ e.queue = d.queue
  BY DoneKept DEF Codexes
<1>7. \/ cxUp' = Append(cxUp, u) /\ cx' = d /\ cxCall' = cxCall
      \/ cx' = d /\ UNCHANGED <<cxCall, cxUp>>
      \/ cx' = e /\ cxCall' = CxIdle /\ cxUp' = cxUp
  BY <1>3, <1>4 DEF Drain, Unsupported, Returns
<1> HIDE DEF u, e
<1>8. CASE cx' = d /\ cxCall' = cxCall /\ (cxUp' = Append(cxUp, u) \/ cxUp' = cxUp)
  BY <1>1, <1>2, <1>4, <1>5, <1>8, CodexFacts, DoneKept, QuietStep
<1>9. CASE cx' = e /\ cxCall' = CxIdle /\ cxUp' = cxUp
  BY <1>1, <1>2, <1>4, <1>6, <1>9, CodexFacts, DoneKept, QuietStep
<1> QED BY <1>7, <1>8, <1>9

(* A message that matches no active turn is queued, refused, or a broken protocol. *)
LEMMA CodexReadsOther ==
    ASSUME CodexInv, ReadOther
    PROVE  CodexInv'
<1>1. cxDown # <<>> /\ cxDown' = Tail(cxDown) /\ UNCHANGED <<cxSrv, cxDone>> BY DEF ReadOther, Head1
<1>2. cxDown' \in Seq(GoodDowns) /\ GoodDowns \subseteq Downs BY <1>1, CodexFacts, SeqFacts DEF GoodDowns
<1>3. PICK m \in GoodDowns : m = Head(cxDown) BY <1>1, CodexFacts, SeqFacts
<1> DEFINE u == [k |-> "unsupported", id |-> 0, turn |-> 0, pid |-> m.pid]
           p == [cx EXCEPT !.poisoned = TRUE]
           q == Append(cx.queue, m)
           e == [cx EXCEPT !.queue = q]
<1>4. u \in Ups /\ u.id = 0 BY <1>2, <1>3 DEF Ups, Downs
<1>5. /\ p \in Codexes /\ p.next = cx.next /\ p.stage = cx.stage /\ p.pending = cx.pending
      /\ p.active = cx.active /\ p.queue = cx.queue
  BY CodexShapes, CodexFacts
<1>6. q \in Seq(GoodDowns) /\ q \in Seq(Downs) BY <1>2, CodexFacts, SeqFacts
<1>7. \/ cx' = p /\ cxCall' = CxIdle /\ cxUp' = cxUp
      \/ cx' = cx /\ cxCall' = CxIdle /\ cxUp' = cxUp
      \/ cx' = e /\ UNCHANGED <<cxCall, cxUp>>
      \/ cxUp' = Append(cxUp, u) /\ UNCHANGED <<cx, cxCall>>
  BY <1>3 DEF ReadOther, Poison, Returns, Queue, Unsupported
<1> HIDE DEF u, p, q
<1>8. /\ e \in Codexes /\ e.next = cx.next /\ e.stage = cx.stage /\ e.pending = cx.pending
      /\ e.active = cx.active /\ e.queue = q
  BY <1>6, CodexFacts DEF Codexes
<1> HIDE DEF e
<1>9. CASE cx' = p /\ cxCall' = CxIdle /\ cxUp' = cxUp BY <1>1, <1>2, <1>5, <1>9, CodexFacts, DoneKept, QuietStep
<1>10. CASE cx' = cx /\ cxUp' = cxUp /\ cxCall' = CxIdle BY <1>1, <1>2, <1>10, CodexFacts, DoneKept, QuietStep
<1>11. CASE cx' = e /\ UNCHANGED <<cxCall, cxUp>> BY <1>1, <1>2, <1>6, <1>8, <1>11, CodexFacts, DoneKept, QuietStep
<1>12. CASE cxUp' = Append(cxUp, u) /\ UNCHANGED <<cx, cxCall>>
  BY <1>1, <1>2, <1>4, <1>12, CodexFacts, DoneKept, QuietStep
<1> QED BY <1>7, <1>9, <1>10, <1>11, <1>12

(* The answer to turn/start makes its turn the active one. *)
LEMMA CodexStarts ==
    ASSUME CodexInv, NEW m \in GoodDowns, cxCall.at = "response", m.k = "resp", m.id = cx.pending.id,
           cx.pending.method = "start", Started(m), cxDown' \in Seq(GoodDowns), UNCHANGED <<cxSrv, cxDone>>
    PROVE  CodexInv'
<1> DEFINE e == [cx EXCEPT !.pending = NoPending]
<1>1. /\ e \in Codexes /\ e.queue = cx.queue /\ e.active = cx.active
      /\ e.next = cx.next /\ e.stage = cx.stage /\ e.pending = NoPending
  BY CodexFacts, CodexShapes
<1>2. Answered = e BY DEF Answered
<1> HIDE DEF e
<1>3. CASE ~m.ok \/ m.pid \in cx.seen
  <2> DEFINE f == [e EXCEPT !.poisoned = TRUE]
  <2>1. /\ f \in Codexes /\ f.queue = e.queue /\ f.active = e.active
        /\ f.next = e.next /\ f.stage = e.stage /\ f.pending = e.pending
    BY <1>1, CodexShapes
  <2>2. cx' = f /\ cxCall' = CxIdle /\ cxUp' = cxUp BY <1>2, <1>3 DEF Started, Poison
  <2> HIDE DEF f
  <2> QED BY <1>1, <2>1, <2>2, CodexFacts, DoneKept, QuietStep
<1>4. CASE ~(~m.ok \/ m.pid \in cx.seen)
  <2> DEFINE a == [turn |-> cxCall.turn, pid |-> m.pid, content |-> {}]
             d == [e EXCEPT !.seen = e.seen \cup {m.pid}, !.completed = 0, !.active = a]
             c == [cxCall EXCEPT !.at = "read"]
  <2>1. m.pid \in Nat /\ m.pid \in GivenFor(cx.pending.turn) BY <1>4 DEF GoodDowns, Downs, Starts
  <2>2. cxCall.turn = cx.pending.turn BY CodexFacts DEF CallMatches
  <2>3. a \in Actives /\ ActiveTold(a) BY <2>1, <2>2, CodexFacts DEF Actives, ActiveTold
  <2>4. /\ cxCall.op = "interrupt" => Request(d, cxCall, "interrupt", cxCall.turn)
        /\ cxCall.op # "interrupt" => cx' = d /\ cxCall' = c /\ cxUp' = cxUp
    BY <1>2, <1>4, Zenon DEF Started
  <2> HIDE DEF a
  <2>5. PICK w \in SUBSET Nat : w = e.seen \cup {m.pid} BY <1>1, <2>1 DEF Codexes
  <2>6. /\ d \in Codexes /\ d.queue = e.queue /\ d.active = a
        /\ d.next = e.next /\ d.stage = e.stage /\ d.pending = e.pending
    <3>1. d = [e EXCEPT !.seen = w, !.completed = 0, !.active = a] BY <2>5
    <3> HIDE DEF d
    <3> QED BY <1>1, <2>3, <3>1 DEF Codexes
  <2>7. c \in CxCalls /\ c.at = "read" /\ c.op = cxCall.op BY CodexFacts DEF CxCalls
  <2> HIDE DEF c, d
  <2>8. CASE cxCall.op # "interrupt" BY <1>1, <2>3, <2>4, <2>6, <2>7, <2>8, CodexFacts, DoneKept, QuietStep
  <2>9. CASE cxCall.op = "interrupt" BY <1>1, <2>3, <2>4, <2>6, <2>9, CodexFacts, DoneKept, RequestStep
  <2> QED BY <2>8, <2>9
<1> QED BY <1>3, <1>4

(* attach goes on from one stage to the next. *)
LEMMA CodexAttaches ==
    ASSUME CodexInv, NEW m \in GoodDowns, cxCall.at = "response", cxCall.op = "attach", Attached(m.ok),
           cxDown' \in Seq(GoodDowns), UNCHANGED <<cxSrv, cxDone>>
    PROVE  CodexInv'
<1> DEFINE s == IF m.ok THEN NextStage[cx.stage] ELSE cx.stage
<1>1. s \in Stages BY CodexFacts DEF NextStage, Stages, CallMatches
<1>2. PICK r \in Stages : r = s BY <1>1
<1> DEFINE e == [cx EXCEPT !.pending = NoPending, !.stage = r]
<1>3. /\ e \in Codexes /\ e.queue = cx.queue /\ e.active = cx.active
      /\ e.next = cx.next /\ e.stage = r /\ e.pending = NoPending
  BY DoneKept, CodexFacts DEF Codexes
<1>4. [Answered EXCEPT !.stage = IF m.ok THEN NextStage[@] ELSE @] = e BY <1>2, CodexFacts DEF Answered, Codexes
<1>5. \/ ~m.ok /\ Poison(e) /\ cxUp' = cxUp
      \/ e.stage = "attached" /\ Returns(e) /\ cxUp' = cxUp
      \/ e.stage # "attached" /\ Request(e, cxCall, e.stage, 0)
  BY <1>4, Zenon DEF Attached
<1> HIDE DEF e, s
<1>6. CASE ~m.ok /\ Poison(e) /\ cxUp' = cxUp
  <2> DEFINE f == [e EXCEPT !.poisoned = TRUE]
  <2>1. /\ f \in Codexes /\ f.queue = e.queue /\ f.active = e.active
        /\ f.next = e.next /\ f.stage = e.stage /\ f.pending = e.pending
    BY <1>3, CodexShapes
  <2>2. cx' = f /\ cxCall' = CxIdle /\ cxUp' = cxUp /\ r = cx.stage BY <1>2, <1>6 DEF Poison, s
  <2> HIDE DEF f
  <2> QED BY <1>3, <2>1, <2>2, CodexFacts, DoneKept, QuietStep
<1>7. CASE e.stage = "attached" /\ Returns(e) /\ cxUp' = cxUp
  <2>1. cx' = e /\ cxCall' = CxIdle /\ cxUp' = cxUp BY <1>7 DEF Returns
  <2>2. cx.next \in Nat /\ cx.next > 0 BY CodexFacts DEF CallMatches
  <2>3. CallMatches' BY <1>3, <2>1, <2>2, DoneKept DEF CallMatches
  <2> QED BY <1>3, <2>1, <2>2, <2>3, CodexFacts, DoneKept, DriverStep
<1>8. CASE e.stage # "attached" /\ Request(e, cxCall, e.stage, 0)
  BY <1>3, <1>8, CodexFacts, DoneKept, RequestStep DEF Stages
<1> QED BY <1>5, <1>6, <1>7, <1>8

(* The answer to the pending request opens the turn it names. *)
LEMMA CodexAnswered ==
    ASSUME CodexInv, ReadResponse
    PROVE  CodexInv'
<1>1. cxDown # <<>> /\ cxDown' = Tail(cxDown) /\ UNCHANGED <<cxSrv, cxDone>> /\ cxCall.at = "response"
  BY DEF ReadResponse, Head1
<1>2. cxDown' \in Seq(GoodDowns) /\ GoodDowns \subseteq Downs BY <1>1, CodexFacts, SeqFacts DEF GoodDowns
<1>3. PICK m \in GoodDowns : m = Head(cxDown) BY <1>1, CodexFacts, SeqFacts
<1> DEFINE u == [k |-> "unsupported", id |-> 0, turn |-> 0, pid |-> m.pid]
           q == Append(cx.queue, m)
           e == [cx EXCEPT !.queue = q]
           g == [cx EXCEPT !.pending = NoPending]
           c == [cxCall EXCEPT !.at = "drain"]
<1>4. u \in Ups /\ u.id = 0 BY <1>2, <1>3 DEF Ups, Downs
<1>5. q \in Seq(GoodDowns) /\ q \in Seq(Downs) BY <1>2, CodexFacts, SeqFacts
<1>6. /\ g \in Codexes /\ g.queue = cx.queue /\ g.active = cx.active
      /\ g.next = cx.next /\ g.stage = cx.stage /\ g.pending = NoPending
  BY CodexFacts, CodexShapes
<1>7. c \in CxCalls /\ c.at = "drain" /\ c.op = cxCall.op BY CodexFacts DEF CxCalls
<1>8. \/ cx' = e /\ UNCHANGED <<cxCall, cxUp>>
      \/ cx' = cx /\ cxCall' = CxIdle /\ cxUp' = cxUp
      \/ cxUp' = Append(cxUp, u) /\ UNCHANGED <<cx, cxCall>>
      \/ m.k = "resp" /\ m.id = cx.pending.id /\ cx.pending.method = "start" /\ Started(m)
      \/ cx' = g /\ cxCall' = c /\ cxUp' = cxUp
      \/ cx' = g /\ cxCall' = CxIdle /\ cxUp' = cxUp
      \/ cxCall.op = "attach" /\ Attached(m.ok)
  BY <1>3 DEF ReadResponse, Returns, Queue, Unsupported, Interrupted, Answered
<1> HIDE DEF u, q, g, c
<1>9. /\ e \in Codexes /\ e.next = cx.next /\ e.stage = cx.stage /\ e.pending = cx.pending
      /\ e.active = cx.active /\ e.queue = q
  BY <1>5, CodexFacts DEF Codexes
<1> HIDE DEF e
<1>10. CASE cx' = e /\ UNCHANGED <<cxCall, cxUp>> BY <1>1, <1>2, <1>5, <1>9, <1>10, CodexFacts, DoneKept, QuietStep
<1>11. CASE cx' = cx /\ cxCall' = CxIdle /\ cxUp' = cxUp BY <1>1, <1>2, <1>11, CodexFacts, DoneKept, QuietStep
<1>12. CASE cxUp' = Append(cxUp, u) /\ UNCHANGED <<cx, cxCall>>
  BY <1>1, <1>2, <1>4, <1>12, CodexFacts, DoneKept, QuietStep
<1>13. CASE m.k = "resp" /\ m.id = cx.pending.id /\ cx.pending.method = "start" /\ Started(m)
  BY <1>1, <1>2, <1>13, CodexStarts
<1>14. CASE cx' = g /\ cxCall' = c /\ cxUp' = cxUp BY <1>1, <1>2, <1>6, <1>7, <1>14, CodexFacts, DoneKept, QuietStep
<1>15. CASE cx' = g /\ cxCall' = CxIdle /\ cxUp' = cxUp BY <1>1, <1>2, <1>6, <1>15, CodexFacts, DoneKept, QuietStep
<1>16. CASE cxCall.op = "attach" /\ Attached(m.ok) BY <1>1, <1>2, <1>16, CodexAttaches
<1> QED BY <1>8, <1>10, <1>11, <1>12, <1>13, <1>14, <1>15, <1>16

(* A step of the app-server. *)
LEMMA ServerStep ==
    ASSUME CodexInv, NEW s \in Servers, cxSrv' = s, UNCHANGED <<cx, cxCall, cxDone>>,
           Len(s.turns) >= Len(cxSrv.turns), \A p \in Given : s.turns[p] = cxSrv.turns[p],
           \A p \in Given : cxSrv.ended[p] = "completed" => s.ended[p] = "completed",
           cxUp' \in Seq(GoodUps),
           \/ cxDown' = cxDown
           \/ \E m \in GoodDowns' : cxDown' = Append(cxDown, m),
           ServerRuns',
           s.owed < cx.next, s.owed # 0 => Len(s.turns) # 0,
           s.owed # 0 /\ Starts(s.owed) => s.turns[Len(s.turns)] = cx.pending.turn
    PROVE  CodexInv'
<1>0. Len(s.turns) \in Nat /\ Len(cxSrv.turns) \in Nat BY CodexFacts DEF Servers
<1>1. Given \subseteq Given' /\ \A t : GivenFor(t) \subseteq GivenFor(t)' BY <1>0 DEF Given, GivenFor
<1>2. GoodUps' = GoodUps BY DEF GoodUps, Starts
<1>3. GoodDowns \subseteq GoodDowns' BY <1>1 DEF GoodDowns, Starts, GoodNote
<1>4. cxDown' \in Seq(GoodDowns') /\ cx.queue \in Seq(GoodDowns') BY <1>3, CodexFacts, SeqWider, SeqFacts
<1>5. cxUp' \in Seq(Ups) /\ cxDown' \in Seq(Downs) BY <1>4, SeqWider DEF GoodUps, GoodDowns
<1>6. CodexTypes' BY <1>5, CodexFacts DEF CodexTypes
<1>7. AnswersTold'
  <2>1. s.owed # 0 => Given' # {}
    <3>1. Len(s.turns) # 0 => Len(s.turns) \in 1..Len(s.turns) BY <1>0
    <3>2. Given' = 1..Len(s.turns) BY DEF Given
    <3> QED BY <3>1, <3>2
  <2>2. Starts(s.owed)' = Starts(s.owed) BY DEF Starts
  <2> QED BY <1>2, <1>4, <2>1, <2>2 DEF AnswersTold
<1>8. CallMatches' BY CodexFacts DEF CallMatches
<1>9. OutputsTold' BY <1>1, CodexFacts DEF ActiveTold, DoneTold, GivenFor, OutputsTold
<1> QED BY <1>6, <1>7, <1>8, <1>9 DEF CodexInv

(* The server as it is: its facts in the form ServerStep asks for. *)
LEMMA ServerFacts ==
    ASSUME CodexInv
    PROVE  /\ cxSrv \in Servers /\ ServerRuns /\ cxSrv.owed < cx.next
           /\ cxSrv.owed # 0 => Len(cxSrv.turns) # 0
           /\ cxSrv.owed # 0 /\ Starts(cxSrv.owed) => cxSrv.turns[Len(cxSrv.turns)] = cx.pending.turn
           /\ Len(cxSrv.turns) \in Nat /\ Len(cxSrv.turns) <= CxTurns /\ CxTurns \in Nat
           /\ cx.next \in Nat /\ cx.next > 0 /\ cxUp \in Seq(GoodUps) /\ cxDown \in Seq(GoodDowns)
           /\ ~Starts(0)
BY CodexFacts DEF CodexInv, AnswersTold, ServerRuns, Given, Starts, CallMatches

(* A message of the app-server that says what it did. *)
LEMMA SaidGood ==
    ASSUME CodexInv, NEW m \in Downs, m.id < cx.next,
           m.k = "resp" /\ m.ok /\ Starts(m.id) => m.pid \in GivenFor(cx.pending.turn)',
           m.k # "resp" => GoodNote(m)', cx' = cx
    PROVE  m \in GoodDowns'
BY DEF GoodDowns, Starts

(* A message of the app-server, with the turns as they are. *)
LEMMA ServerSays ==
    ASSUME CodexInv, NEW m \in Downs, CxSay(m), NEW s \in Servers, cxSrv' = s, UNCHANGED <<cx, cxCall, cxDone>>,
           cxUp' \in Seq(GoodUps), m.id < cx.next, m.k = "resp" /\ m.ok => ~Starts(m.id) \/ m.id = cxSrv.owed,
           m.k = "resp" /\ m.id = cxSrv.owed /\ m.ok => m.pid = Len(cxSrv.turns) \/ ~Starts(m.id),
           m.k = "resp" => s.ended = cxSrv.ended,
           m.k # "resp" => GoodNote(m)',
           s.turns = cxSrv.turns, s.owed \in {cxSrv.owed, 0}, ServerRuns',
           \A p \in Given : cxSrv.ended[p] = "completed" => s.ended[p] = "completed"
    PROVE  CodexInv'
<1>1. m.k = "resp" /\ m.ok /\ Starts(m.id) => m.pid \in GivenFor(cx.pending.turn)' BY ServerFacts DEF Given, GivenFor
<1>2. m \in GoodDowns' BY <1>1, SaidGood
<1>3. /\ s.owed < cx.next /\ (s.owed # 0 => Len(s.turns) # 0)
      /\ s.owed # 0 /\ Starts(s.owed) => s.turns[Len(s.turns)] = cx.pending.turn
  BY ServerFacts
<1>4. cxDown' = Append(cxDown, m) /\ Len(s.turns) >= Len(cxSrv.turns) BY ServerFacts DEF CxSay
<1> QED BY <1>2, <1>3, <1>4, ServerStep

(* The app-server takes the requests in the order they were written. *)
LEMMA CodexServes ==
    ASSUME CodexInv, ServerTakes
    PROVE  CodexInv'
<1>1. cxUp # <<>> /\ cxUp' = Tail(cxUp) /\ UNCHANGED <<cx, cxCall, cxDone>> BY DEF ServerTakes
<1>2. cxUp' \in Seq(GoodUps) BY <1>1, ServerFacts, SeqFacts
<1>3. PICK m \in GoodUps : m = Head(cxUp) BY <1>1, ServerFacts, SeqFacts
<1>4. m \in Ups /\ m.id \in Nat /\ m.turn \in Nat /\ m.id < cx.next
      /\ (Starts(m.id) => m.k = "start" /\ m.turn = cx.pending.turn)
  BY <1>3 DEF GoodUps, Ups
<1>5. \A ok \in BOOLEAN : /\ Reply(m.id, ok, 0) \in Downs /\ Reply(m.id, ok, 0).id = m.id
                          /\ Reply(m.id, ok, 0).k = "resp" /\ Reply(m.id, ok, 0).ok = ok
  BY <1>4 DEF Reply, Downs
<1>6. ServerRuns /\ cxSrv \in Servers BY ServerFacts
<1>7. ASSUME cxSrv' = cxSrv, NEW ok \in BOOLEAN, CxSay(Reply(m.id, ok, 0)), ~ok \/ m.k # "start"
      PROVE  CodexInv'
  BY <1>1, <1>6, <1>7, <1>5, <1>4, <1>2, ServerSays DEF ServerRuns, Given
<1>8. CASE /\ m.k = "start" /\ Len(cxSrv.turns) + 1 <= CxTurns /\ cxDown' = cxDown
           /\ cxSrv' = [cxSrv EXCEPT !.turns = Append(@, m.turn), !.running = Len(cxSrv.turns) + 1, !.owed = m.id,
                                     !.notes = 0, !.stopping = FALSE, !.asks = FALSE]
  <2>1. PICK n \in Nat : n = Len(cxSrv.turns) + 1 BY ServerFacts
  <2>2. PICK q \in Seq(Nat) : q = Append(cxSrv.turns, m.turn)
    <3>1. cxSrv.turns \in Seq(Nat) /\ m.turn \in Nat BY <1>4, CodexFacts
    <3>2. Append(cxSrv.turns, m.turn) \in Seq(Nat) BY <3>1
    <3> QED BY <3>2
  <2>3. Len(q) = n /\ q[n] = m.turn /\ \A p \in Given : q[p] = cxSrv.turns[p] BY <2>1, <2>2, CodexFacts DEF Given
  <2> DEFINE s == [cxSrv EXCEPT !.turns = q, !.running = n, !.owed = m.id,
                                !.notes = 0, !.stopping = FALSE, !.asks = FALSE]
  <2>4. cxSrv' = s BY <1>8, <2>1, <2>2
  <2>5. s \in Servers /\ s.turns = q /\ s.running = n /\ s.owed = m.id /\ s.ended = cxSrv.ended
    BY <1>4, CodexFacts DEF Servers
  <2> HIDE DEF s
  <2>6. n \in 1..CxTurns /\ n > Len(cxSrv.turns) BY <1>8, <2>1, ServerFacts
  <2>7. ServerRuns' BY <2>1, <2>3, <2>4, <2>5, <2>6, ServerFacts, SMTT(25) DEF ServerRuns, Given
  <2>8. Len(s.turns) >= Len(cxSrv.turns) /\ Len(s.turns) # 0 BY <2>1, <2>3, <2>5, ServerFacts
  <2> QED BY <1>1, <1>2, <1>4, <1>8, <2>3, <2>4, <2>5, <2>7, <2>8, ServerStep
<1>9. CASE /\ m.k = "interrupt" /\ CxSay(Reply(m.id, TRUE, 0))
           /\ cxSrv' = [cxSrv EXCEPT !.stopping = TRUE]
  <2> DEFINE s == [cxSrv EXCEPT !.stopping = TRUE]
  <2>1. /\ s \in Servers /\ s.turns = cxSrv.turns /\ s.running = cxSrv.running /\ s.owed = cxSrv.owed
        /\ s.ended = cxSrv.ended
    BY <1>6 DEF Servers
  <2>2. cxSrv' = s BY <1>9
  <2> HIDE DEF s
  <2>3. ServerRuns' BY <1>6, <2>1, <2>2 DEF ServerRuns, Given
  <2>4. PICK w \in Downs : w = Reply(m.id, TRUE, 0) BY <1>5
  <2>5. w.k = "resp" /\ w.id = m.id /\ ~Starts(w.id) /\ CxSay(w) BY <1>4, <1>5, <1>9, <2>4
  <2> QED BY <1>1, <1>2, <1>4, <2>1, <2>2, <2>3, <2>5, ServerSays
<1>10. CASE /\ cxDown' = cxDown
            /\ cxSrv' = [cxSrv EXCEPT !.asks = IF cxSrv.running = m.pid THEN FALSE ELSE @]
  <2>1. PICK a \in BOOLEAN : a = IF cxSrv.running = m.pid THEN FALSE ELSE cxSrv.asks BY <1>6 DEF Servers
  <2> DEFINE s == [cxSrv EXCEPT !.asks = a]
  <2>2. /\ s \in Servers /\ s.turns = cxSrv.turns /\ s.running = cxSrv.running /\ s.owed = cxSrv.owed
        /\ s.ended = cxSrv.ended
    BY <1>6 DEF Servers
  <2>3. cxSrv' = s BY <1>10, <2>1
  <2> HIDE DEF s
  <2>4. ServerRuns' BY <1>6, <2>2, <2>3 DEF ServerRuns, Given
  <2>5. Len(s.turns) >= Len(cxSrv.turns) BY <2>2, ServerFacts
  <2> QED BY <1>1, <1>2, <1>10, <2>2, <2>3, <2>4, <2>5, ServerFacts, ServerStep
<1>11. \/ /\ m.k \in {"initialize", "thread", "name"} /\ cxSrv' = cxSrv
          /\ \E ok \in BOOLEAN : CxSay(Reply(m.id, ok, 0))
       \/ /\ m.k = "start" /\ Len(cxSrv.turns) + 1 <= CxTurns /\ cxDown' = cxDown
          /\ cxSrv' = [cxSrv EXCEPT !.turns = Append(@, m.turn), !.running = Len(cxSrv.turns) + 1, !.owed = m.id,
                                    !.notes = 0, !.stopping = FALSE, !.asks = FALSE]
       \/ m.k = "start" /\ cxSrv' = cxSrv /\ CxSay(Reply(m.id, FALSE, 0))
       \/ /\ m.k = "interrupt" /\ CxSay(Reply(m.id, TRUE, 0))
          /\ cxSrv' = [cxSrv EXCEPT !.stopping = TRUE]
       \/ m.k = "interrupt" /\ cxSrv' = cxSrv /\ \E ok \in BOOLEAN : CxSay(Reply(m.id, ok, 0))
       \/ /\ cxDown' = cxDown
          /\ cxSrv' = [cxSrv EXCEPT !.asks = IF cxSrv.running = m.pid THEN FALSE ELSE @]
  BY <1>3, Zenon DEF ServerTakes
<1> QED BY <1>7, <1>8, <1>9, <1>10, <1>11

(* The app-server answers, works on its turn, repeats itself late or dies. *)
LEMMA CodexServerWorks ==
    ASSUME CodexInv, ServerReplies \/ ServerWorks \/ ServerLate \/ ServerDies
    PROVE  CodexInv'
<1>0. UNCHANGED <<cx, cxCall, cxUp, cxDone>> /\ cxUp' \in Seq(GoodUps)
  BY ServerFacts DEF ServerReplies, ServerWorks, ServerLate, ServerDies
<1>1. CASE ServerReplies
  <2> DEFINE s == [cxSrv EXCEPT !.owed = 0]
  <2>1. /\ s \in Servers /\ s.turns = cxSrv.turns /\ s.running = cxSrv.running /\ s.owed = 0
        /\ s.ended = cxSrv.ended
    BY ServerFacts DEF Servers
  <2>2. cxSrv' = s /\ CxSay(Reply(cxSrv.owed, TRUE, Len(cxSrv.turns))) BY <1>1 DEF ServerReplies
  <2> HIDE DEF s
  <2>3. ServerRuns' BY <2>1, <2>2, ServerFacts DEF ServerRuns, Given
  <2>4. PICK w \in Downs : /\ w = Reply(cxSrv.owed, TRUE, Len(cxSrv.turns)) /\ w.k = "resp"
                           /\ w.id = cxSrv.owed /\ w.pid = Len(cxSrv.turns)
    <3>1. Reply(cxSrv.owed, TRUE, Len(cxSrv.turns)) \in Downs BY CodexFacts DEF Reply, Downs
    <3> QED BY <3>1 DEF Reply
  <2> QED BY <1>0, <2>1, <2>2, <2>3, <2>4, ServerFacts, ServerSays
<1>2. CASE ServerWorks
  <2>1. cxSrv.running # 0 /\ cxSrv.running \in Given /\ cxSrv.running \in Nat
    BY <1>2, CodexFacts DEF ServerWorks, ServerRuns
  <2>2. PICK n \in Nat : n = cxSrv.notes + 1 BY ServerFacts DEF Servers
  <2>3. PICK a \in BOOLEAN, w \in Downs :
            /\ cxSrv' = [cxSrv EXCEPT !.notes = n, !.asks = a] /\ CxSay(w)
            /\ w.k # "resp" /\ w.id = 0 /\ w.pid = cxSrv.running /\ w.what # "completed"
    <3>1. CASE CxSay(Notice(cxSrv.running, "delta")) /\ cxSrv' = [cxSrv EXCEPT !.notes = @ + 1]
      <4>1. Notice(cxSrv.running, "delta") \in Downs BY <2>1 DEF Notice, Downs
      <4>2. cxSrv' = [cxSrv EXCEPT !.notes = n, !.asks = cxSrv.asks] /\ cxSrv.asks \in BOOLEAN
        BY <2>2, <3>1, ServerFacts DEF Servers
      <4> QED BY <3>1, <4>1, <4>2 DEF Notice
    <3>2. CASE /\ CxSay([Notice(cxSrv.running, "none") EXCEPT !.k = "ask"])
               /\ cxSrv' = [cxSrv EXCEPT !.notes = @ + 1, !.asks = TRUE]
      <4> DEFINE w == [Notice(cxSrv.running, "none") EXCEPT !.k = "ask"]
      <4>1. /\ w \in Downs /\ w.k = "ask" /\ w.id = 0 /\ w.pid = cxSrv.running /\ w.what = "none"
        BY <2>1 DEF Notice, Downs
      <4>2. cxSrv' = [cxSrv EXCEPT !.notes = n, !.asks = TRUE] /\ CxSay(w) BY <2>2, <3>2
      <4> HIDE DEF w
      <4> QED BY <4>1, <4>2
    <3> QED BY <1>2, <3>1, <3>2 DEF ServerWorks
  <2> DEFINE s == [cxSrv EXCEPT !.notes = n, !.asks = a]
  <2>4. /\ s \in Servers /\ s.turns = cxSrv.turns /\ s.running = cxSrv.running /\ s.owed = cxSrv.owed
        /\ s.ended = cxSrv.ended /\ cxSrv' = s
    BY <2>3, ServerFacts DEF Servers
  <2> HIDE DEF s
  <2>5. ServerRuns' BY <2>4, ServerFacts DEF ServerRuns, Given
  <2>6. GoodNote(w)' BY <2>1, <2>3, <2>4 DEF GoodNote, Given
  <2> QED BY <1>0, <2>3, <2>4, <2>5, <2>6, ServerFacts, ServerSays
<1>3. CASE ServerLate
  <2> DEFINE s == [cxSrv EXCEPT !.late = TRUE]
  <2>1. /\ s \in Servers /\ s.turns = cxSrv.turns /\ s.running = cxSrv.running /\ s.owed = cxSrv.owed
        /\ s.ended = cxSrv.ended
    BY ServerFacts DEF Servers
  <2>2. cxSrv' = s /\ CxSay(Notice(Len(cxSrv.turns), "delta")) /\ cxSrv.turns # <<>> BY <1>3 DEF ServerLate
  <2> HIDE DEF s
  <2>3. ServerRuns' BY <2>1, <2>2, ServerFacts DEF ServerRuns, Given
  <2>4. PICK w \in Downs : /\ w = Notice(Len(cxSrv.turns), "delta") /\ w.k = "note" /\ w.what = "delta"
                           /\ w.id = 0 /\ w.pid = Len(cxSrv.turns)
    <3>1. Notice(Len(cxSrv.turns), "delta") \in Downs BY CodexFacts DEF Notice, Downs
    <3> QED BY <3>1 DEF Notice
  <2>5. GoodNote(w)'
    <3>1. Len(cxSrv.turns) \in Given BY <2>2, CodexFacts DEF Given
    <3> QED BY <2>1, <2>2, <2>4, <3>1 DEF GoodNote, Given
  <2> QED BY <1>0, <2>1, <2>2, <2>3, <2>4, <2>5, ServerFacts, ServerSays
<1>4. CASE ServerDies
  <2> DEFINE s == [cxSrv EXCEPT !.dead = TRUE, !.running = 0]
  <2>1. /\ s \in Servers /\ s.turns = cxSrv.turns /\ s.running = 0 /\ s.owed = cxSrv.owed
        /\ s.ended = cxSrv.ended
    BY ServerFacts DEF Servers
  <2>2. cxSrv' = s /\ cxDown' = cxDown BY <1>4 DEF ServerDies
  <2> HIDE DEF s
  <2>3. ServerRuns' /\ Len(s.turns) >= Len(cxSrv.turns) BY <2>1, <2>2, ServerFacts DEF ServerRuns, Given
  <2> QED BY <1>0, <2>1, <2>2, <2>3, ServerFacts, ServerStep
<1> QED BY <1>1, <1>2, <1>3, <1>4

(* The app-server ends its turn, once. *)
LEMMA CodexEnds ==
    ASSUME CodexInv, NEW status \in {"completed", "failed", "interrupted"}, ServerEnds(status)
    PROVE  CodexInv'
<1>0. UNCHANGED <<cx, cxCall, cxUp, cxDone>> /\ cxUp' \in Seq(GoodUps) BY ServerFacts DEF ServerEnds
<1>1. PICK r \in Given : r = cxSrv.running /\ cxSrv.ended[r] = "no" /\ r \in Nat /\ r # 0
  BY CodexFacts DEF ServerEnds, ServerRuns
<1>2. PICK f \in [1..CxTurns -> {"no", "completed", "failed", "interrupted"}] :
          f = [cxSrv.ended EXCEPT ![r] = status]
  BY CodexFacts
<1> DEFINE s == [cxSrv EXCEPT !.running = 0, !.ended = f]
<1>3. cxSrv' = s /\ CxSay(Notice(r, status)) BY <1>1, <1>2 DEF ServerEnds
<1>4. s \in Servers /\ s.turns = cxSrv.turns /\ s.running = 0 /\ s.owed = cxSrv.owed /\ s.ended = f
  BY ServerFacts DEF Servers
<1> HIDE DEF s
<1>5. r \in 1..CxTurns /\ r <= Len(cxSrv.turns) BY <1>1, ServerFacts DEF Given
<1>6. f[r] = status /\ \A p \in 1..CxTurns : p # r => f[p] = cxSrv.ended[p] BY <1>2, <1>5, CodexFacts
<1>7. ServerRuns'
  <2>1. cxSrv'.running = 0 /\ cxSrv'.turns = cxSrv.turns /\ cxSrv'.ended = f BY <1>3, <1>4
  <2>2. ASSUME NEW p \in 1..CxTurns, p > Len(cxSrv.turns)
        PROVE  f[p] = "no"
    <3>1. p # r BY <1>5, <2>2, ServerFacts
    <3> QED BY <1>6, <2>2, <3>1, ServerFacts DEF ServerRuns
  <2> QED BY <2>1, <2>2, ServerFacts DEF ServerRuns
<1>8. \A p \in Given : cxSrv.ended[p] = "completed" => s.ended[p] = "completed"
  BY ServerFacts, <1>1, <1>4, <1>6 DEF Given
<1>9. PICK w \in Downs : /\ w = Notice(r, status) /\ w.k = "note" /\ w.what = status
                         /\ w.id = 0 /\ w.pid = r
  <2>1. Notice(r, status) \in Downs BY <1>1 DEF Notice, Downs
  <2> QED BY <2>1 DEF Notice
<1>10. GoodNote(w)' BY <1>1, <1>3, <1>4, <1>6, <1>9 DEF GoodNote, Given
<1> QED BY <1>0, <1>3, <1>4, <1>7, <1>8, <1>9, <1>10, ServerFacts, ServerSays

(* The invariant of the Codex driver, for any number of turns, notices and requests. *)
THEOREM CodexInvariant == CxSpec => []CodexInv
<1>1. CxInit => CodexInv
  BY CxAssumption DEF CxInit, NoPending, Pendings, Methods, NoActive, Actives, NoDone, Dones, CxIdle, CxCalls,
     Codexes, Stages, Servers, CodexTypes, AnswersTold, CallMatches, ServerRuns, OutputsTold, ActiveTold, DoneTold,
     CodexInv
<1>2. CodexInv /\ [CxNext]_cxVars => CodexInv'
  BY CodexCalls, CodexAnswered, CodexReads, CodexDrains, CodexReadsOther, CodexServes, CodexServerWorks,
     CodexSends, CodexEnds, CodexFacts, DoneKept, QuietStep DEF cxVars, CxNext
<1> QED BY <1>1, <1>2, PTL DEF CxSpec

(* What send_turn returns for a turn was produced by the provider turn started for it, which completed, and
   holds no text of another, however calls are dropped and notifications come early or late. *)
THEOREM CodexTrue == CxSpec => []CodexOwnOutput
<1>1. CodexInv => CodexOwnOutput BY CodexFacts DEF OutputsTold, DoneTold, GivenFor, CodexOwnOutput
<1> QED BY <1>1, CodexInvariant, PTL

------------------------
(* ClaudeDriver: a question is settled once, on both sides of the pipes. *)

Phases == {"none", "open", "answered", "responding", "delivered", "cancelled", "gone"}
Custody == {"none", "opening", "cancelling", "ready", "gone"}
Told == {"none", "answered", "denied", "both"}
Turns == [host : {"active", "closing", "ended", "failed"}, driver : {"running", "done", "failed"}]
DownKinds == {"request", "cancelled", "delivered", "result", "fatal"}
ToHost == [k : {"answer", "complete"}, q : ClRequests, ok : BOOLEAN]
ToDriver == {m \in [k : DownKinds, q : ClRequests \cup {0}, ok : BOOLEAN] :
                /\ m.k \in {"request", "cancelled", "delivered"} => m.q \in ClRequests
                /\ m.k = "result" => m.q = 0}

ClaudeTypes ==
    /\ clHost \in [ClRequests -> Phases] /\ clDriver \in [ClRequests -> Custody]
    /\ clRoom \in [ClRequests -> {"none", "answered", "closed"}] /\ clTold \in [ClRequests -> Told]
    /\ clTurn \in Turns /\ clFault \in BOOLEAN
    /\ clUp \in Seq(ToHost) /\ clDown \in Seq(ToDriver)

\* A message of the kind k about x is on the pipe.
On(s, k, x) == \E i \in 1..Len(s) : s[i].k = k /\ s[i].q = x
Once(s) == \A i, j \in 1..Len(s) : s[i].k = s[j].k /\ s[i].q = s[j].q => i = j
\* On the pipe, what is of the kind k comes before what is of the kind l.
InOrder(s, k, l) == \A i, j \in 1..Len(s) : s[i].k = k /\ s[j].k = l /\ s[i].q = s[j].q => i < j

\* A native decision is made once and grants what the room answered.
DecidedOnce ==
    \A q \in ClRequests :
        /\ clTold[q] # "both" /\ (clTold[q] = "answered" => clRoom[q] = "answered")
        /\ clTold[q] # "none" => clHost[q] \in {"cancelled", "responding", "delivered", "gone"}
        /\ clHost[q] = "answered" \/ On(clUp, "answer", q) => clRoom[q] = "answered"

\* The host ends its turn with every question settled, and asks nothing afterwards.
EndsSettled ==
    /\ On(clDown, "result", 0) => clTurn.host = "ended"
    /\ clTurn.host = "ended" => \A q \in ClRequests : clHost[q] \in {"none", "gone"}
    /\ clTurn.driver = "done" =>
          clTurn.host = "ended" /\ \A q \in ClRequests : clDriver[q] \in {"none", "gone"}

\* Where a question is at the host and at the driver, and what of it is on the pipes: its
\* request, its cancellation and its receipt to the driver, its answer and its completion
\* to the host.
Stands(h, d, request, cancelled, delivered, answer, complete) ==
    \/ /\ ~request /\ ~cancelled /\ ~delivered /\ ~answer /\ ~complete
       /\ \/ h = "none" /\ d = "none"
          \/ h = "open" /\ d = "opening"
          \/ h \in {"answered", "responding"} /\ d = "ready"
          \/ h = "cancelled" /\ d = "cancelling"
          \/ h = "gone" /\ d = "gone"
    \/ h = "open" /\ d = "none" /\ request /\ ~cancelled /\ ~delivered /\ ~answer /\ ~complete
    \/ h = "open" /\ d = "ready" /\ ~request /\ ~cancelled /\ ~delivered /\ answer /\ ~complete
    \/ h = "delivered" /\ d = "ready" /\ ~request /\ ~cancelled /\ delivered /\ ~answer /\ ~complete
    \/ h = "delivered" /\ d = "gone" /\ ~request /\ ~cancelled /\ ~delivered /\ ~answer /\ complete
    \/ h = "cancelled" /\ d = "none" /\ request /\ cancelled /\ ~delivered /\ ~answer /\ ~complete
    \/ h = "cancelled" /\ d = "opening" /\ ~request /\ cancelled /\ ~delivered /\ ~answer /\ ~complete
    \/ h = "cancelled" /\ d = "ready" /\ ~request /\ cancelled /\ ~delivered /\ ~complete
    \/ h = "cancelled" /\ d = "gone" /\ ~request /\ ~cancelled /\ ~delivered /\ complete

Row(x) ==
    Stands(clHost[x], clDriver[x], On(clDown, "request", x), On(clDown, "cancelled", x),
           On(clDown, "delivered", x), On(clUp, "answer", x), On(clUp, "complete", x))

\* Without a fault the two programs keep to the protocol.
Faultless ==
    /\ clTurn.host # "failed" /\ clTurn.driver # "failed"
    /\ Once(clDown) /\ Once(clUp)
    /\ InOrder(clDown, "request", "cancelled") /\ InOrder(clUp, "answer", "complete")
    /\ \A i \in 1..Len(clDown) : clDown[i].k # "fatal" /\ clDown[i].ok
    /\ \A x \in ClRequests : Row(x)

ClaudeInv ==
    /\ ClaudeTypes /\ DecidedOnce /\ EndsSettled
    /\ ~clFault => Faultless

(* What is on a pipe after a message was written to it, or read from it. *)
LEMMA PipeWritten ==
    ASSUME NEW S, NEW s \in Seq(S), NEW m \in S
    PROVE  /\ Append(s, m) \in Seq(S)
           /\ \A k, x : On(Append(s, m), k, x) <=> On(s, k, x) \/ (m.k = k /\ m.q = x)
           /\ Once(s) /\ ~On(s, m.k, m.q) => Once(Append(s, m))
           /\ \A k, l : InOrder(s, k, l) /\ (m.k = k => m.k # l /\ ~On(s, l, m.q)) => InOrder(Append(s, m), k, l)
<1> DEFINE t == Append(s, m)
<1>1. /\ t \in Seq(S) /\ Len(t) = Len(s) + 1 /\ Len(s) \in Nat /\ t[Len(s) + 1] = m
      /\ \A i \in 1..Len(s) : t[i] = s[i]
  OBVIOUS
<1> HIDE DEF t
<1>2. \A i : i \in 1..Len(t) <=> i \in 1..Len(s) \/ i = Len(s) + 1 BY <1>1
<1>3. \A k, x : On(t, k, x) <=> On(s, k, x) \/ (m.k = k /\ m.q = x) BY <1>1, <1>2 DEF On
<1>4. Once(s) /\ ~On(s, m.k, m.q) => Once(t) BY <1>1, <1>2 DEF On, Once
<1>5. ASSUME NEW k, NEW l, InOrder(s, k, l), m.k = k => m.k # l /\ ~On(s, l, m.q)
      PROVE  InOrder(t, k, l)
  BY <1>1, <1>5, <1>2 DEF InOrder, On
<1> QED BY <1>1, <1>3, <1>4, <1>5 DEF t

(* Reading the head of a Claude pipe: what is on the rest, and in which order. *)
LEMMA PipeRead ==
    ASSUME NEW S, NEW s \in Seq(S), s # <<>>
    PROVE  /\ Tail(s) \in Seq(S) /\ Head(s) \in S /\ On(s, Head(s).k, Head(s).q)
           /\ \A k, x : On(Tail(s), k, x) => On(s, k, x)
           /\ \A k, x : On(s, k, x) => On(Tail(s), k, x) \/ (Head(s).k = k /\ Head(s).q = x)
           /\ Once(s) => Once(Tail(s)) /\ ~On(Tail(s), Head(s).k, Head(s).q)
           /\ \A k, l : InOrder(s, k, l) => /\ InOrder(Tail(s), k, l)
                                            /\ Head(s).k = l => ~On(s, k, Head(s).q)
           /\ \A i \in 1..Len(Tail(s)) : \E j \in 1..Len(s) : Tail(s)[i] = s[j]
<1> DEFINE t == Tail(s)
<1>1. /\ t \in Seq(S) /\ Len(s) \in Nat /\ Len(s) > 0 /\ Len(t) = Len(s) - 1
      /\ \A i \in 1..Len(t) : t[i] = s[i + 1]
      /\ Head(s) = s[1] /\ s[1] \in S
  OBVIOUS
<1> HIDE DEF t
<1>2. \A i \in 1..Len(t) : i + 1 \in 1..Len(s) BY <1>1
<1>3. \A j \in 1..Len(s) : j = 1 \/ (j - 1 \in 1..Len(t) /\ s[j] = t[j - 1]) BY <1>1
<1>4. 1 \in 1..Len(s) BY <1>1
<1>5. \A k, x : /\ On(t, k, x) => On(s, k, x)
                /\ On(s, k, x) => On(t, k, x) \/ (s[1].k = k /\ s[1].q = x)
  BY <1>1, <1>2, <1>3 DEF On
<1>6. Once(s) => Once(t) /\ ~On(t, s[1].k, s[1].q)
  <2> SUFFICES ASSUME Once(s) PROVE Once(t) /\ ~On(t, s[1].k, s[1].q)
    OBVIOUS
  <2>1. ASSUME NEW i \in 1..Len(t), NEW j \in 1..Len(t), t[i].k = t[j].k, t[i].q = t[j].q
        PROVE  i = j
    BY <1>1, <1>2, <2>1 DEF Once
  <2>2. ASSUME NEW i \in 1..Len(t), t[i].k = s[1].k, t[i].q = s[1].q
        PROVE  FALSE
    BY <1>1, <1>2, <1>4, <2>2 DEF Once
  <2> QED BY <2>1, <2>2 DEF Once, On
<1>7. ASSUME NEW k, NEW l, InOrder(s, k, l)
      PROVE  InOrder(t, k, l) /\ (s[1].k = l => ~On(s, k, s[1].q))
  <2>1. ASSUME NEW i \in 1..Len(t), NEW j \in 1..Len(t), t[i].k = k, t[j].k = l, t[i].q = t[j].q
        PROVE  i < j
    <3>1. i + 1 < j + 1 BY <1>1, <1>2, <1>7, <2>1 DEF InOrder
    <3> QED BY <3>1
  <2>2. ASSUME NEW i \in 1..Len(s), s[1].k = l, s[i].k = k, s[i].q = s[1].q
        PROVE  FALSE
    BY <1>4, <1>7, <2>2 DEF InOrder
  <2> QED BY <2>1, <2>2 DEF InOrder, On
<1>8. On(s, s[1].k, s[1].q) BY <1>4 DEF On
<1>9. \A i \in 1..Len(t) : \E j \in 1..Len(s) : t[i] = s[j] BY <1>1, <1>2
<1> QED BY <1>1, <1>5, <1>6, <1>7, <1>8, <1>9 DEF t

(* What the invariant says of each side of the Claude driver, in the form the step lemmas cite it. *)
LEMMA ClaudeFacts ==
    ASSUME ClaudeInv
    PROVE  /\ clHost \in [ClRequests -> Phases] /\ clDriver \in [ClRequests -> Custody]
           /\ clRoom \in [ClRequests -> {"none", "answered", "closed"}] /\ clTold \in [ClRequests -> Told]
           /\ clTurn \in Turns /\ clFault \in BOOLEAN
           /\ clTurn.host \in {"active", "closing", "ended", "failed"}
           /\ clTurn.driver \in {"running", "done", "failed"}
           /\ clUp \in Seq(ToHost) /\ clDown \in Seq(ToDriver)
           /\ DecidedOnce /\ EndsSettled /\ (~clFault => Faultless)
BY DEF ClaudeInv, ClaudeTypes, Turns

(* A question no step is about stands as it stood. *)
LEMMA RowKept ==
    ASSUME NEW x, Row(x), clHost'[x] = clHost[x], clDriver'[x] = clDriver[x],
           \A k \in {"request", "cancelled", "delivered"} : On(clDown, k, x)' <=> On(clDown, k, x),
           \A k \in {"answer", "complete"} : On(clUp, k, x)' <=> On(clUp, k, x)
    PROVE  Row(x)'
BY DEF Row, Stands

(* A message to the driver. *)
LEMMA Emitted ==
    ASSUME ClaudeInv, NEW m \in ToDriver, Emit(m)
    PROVE  /\ clDown' \in Seq(ToDriver)
           /\ \A k, x : On(clDown, k, x)' <=> On(clDown, k, x) \/ (m.k = k /\ m.q = x)
           /\ Once(clDown) /\ ~On(clDown, m.k, m.q) => Once(clDown)'
           /\ InOrder(clDown, "request", "cancelled") /\ (m.k = "request" => ~On(clDown, "cancelled", m.q))
              => InOrder(clDown, "request", "cancelled")'
           /\ (\A i \in 1..Len(clDown) : clDown[i].k # "fatal" /\ clDown[i].ok) /\ m.k # "fatal" /\ m.ok
              => \A i \in 1..Len(clDown') : clDown'[i].k # "fatal" /\ clDown'[i].ok
BY ClaudeFacts, PipeWritten DEF Emit

(* A message to the host. *)
LEMMA Told1 ==
    ASSUME ClaudeInv, NEW m \in ToHost, Tell(m)
    PROVE  /\ clUp' \in Seq(ToHost)
           /\ \A k, x : On(clUp, k, x)' <=> On(clUp, k, x) \/ (m.k = k /\ m.q = x)
           /\ Once(clUp) /\ ~On(clUp, m.k, m.q) => Once(clUp)'
           /\ InOrder(clUp, "answer", "complete") /\ (m.k = "answer" => ~On(clUp, "complete", m.q))
              => InOrder(clUp, "answer", "complete")'
BY ClaudeFacts, PipeWritten DEF Tell

(* The kinds of message on the two pipes between the driver and its host. *)
LEMMA Messages ==
    ASSUME NEW q \in ClRequests, NEW b \in BOOLEAN
    PROVE  /\ \A k \in {"request", "cancelled", "delivered"} :
                 Msg(k, q, b) \in ToDriver /\ Msg(k, q, b).k = k /\ Msg(k, q, b).q = q /\ Msg(k, q, b).ok = b
           /\ \A k \in {"answer", "complete"} :
                 Msg(k, q, b) \in ToHost /\ Msg(k, q, b).k = k /\ Msg(k, q, b).q = q
           /\ \A k \in {"result", "fatal"} :
                 Msg(k, 0, b) \in ToDriver /\ Msg(k, 0, b).k = k /\ Msg(k, 0, b).q = 0 /\ Msg(k, 0, b).ok = b
BY DEF Msg, ToDriver, ToHost, DownKinds

(* The SDK asks for a permission: the host opens one request and writes it once. *)
LEMMA ClaudeAsks ==
    ASSUME ClaudeInv, NEW q \in ClRequests, NativeAsks(q)
    PROVE  ClaudeInv'
<1>0. PICK m : m = Msg("request", q, TRUE) OBVIOUS
<1>1. m \in ToDriver /\ m = Msg("request", q, TRUE) /\ m.k = "request" /\ m.q = q /\ m.ok
  BY <1>0 DEF Msg, ToDriver, DownKinds
<1>2. /\ clHost[q] = "none" /\ clTurn.host = "active" /\ clHost' = [clHost EXCEPT ![q] = "open"] /\ Emit(m)
      /\ UNCHANGED <<clTurn, clDriver, clRoom, clUp, clTold, clFault>>
  BY <1>1 DEF NativeAsks
<1>3. clHost' \in [ClRequests -> Phases] /\ clHost'[q] = "open" /\ \A x \in ClRequests : x # q => clHost'[x] = clHost[x]
  BY <1>2, ClaudeFacts DEF Phases
<1>4. clDown' \in Seq(ToDriver) /\ \A k, x : On(clDown, k, x)' <=> On(clDown, k, x) \/ (k = "request" /\ x = q)
  BY <1>1, <1>2, Emitted
<1>5. ClaudeTypes' BY <1>2, <1>3, <1>4, ClaudeFacts DEF ClaudeTypes
<1>6. \A k, x : On(clUp, k, x)' <=> On(clUp, k, x) BY <1>2 DEF On
<1>7. DecidedOnce' /\ EndsSettled' BY <1>2, <1>3, <1>6, ClaudeFacts, <1>4 DEF DecidedOnce, EndsSettled
<1>8. ASSUME ~clFault PROVE Faultless'
  <2>0. Faultless BY <1>8, ClaudeFacts
  <2>1. Row(q) /\ ~On(clDown, "request", q) /\ ~On(clDown, "cancelled", q) BY <1>2, <2>0 DEF Faultless, Row, Stands
  <2>2. Once(clDown)' /\ InOrder(clDown, "request", "cancelled")'
        /\ \A i \in 1..Len(clDown') : clDown'[i].k # "fatal" /\ clDown'[i].ok
    BY <1>1, <1>2, <2>0, <2>1, Emitted DEF Faultless
  <2>3. Row(q)' BY <1>2, <1>3, <1>4, <1>6, <2>1 DEF Row, Stands
  <2>4. \A x \in ClRequests : Row(x)' BY <1>2, <1>3, <1>4, <1>6, <2>0, <2>3, RowKept DEF Faultless
  <2> QED BY <1>2, <2>0, <2>2, <2>4 DEF Faultless, Once, InOrder
<1> QED BY <1>2, <1>5, <1>7, <1>8 DEF ClaudeInv

(* The SDK cancels a request: the host closes it whichever way the answer is travelling. *)
LEMMA ClaudeCancels ==
    ASSUME ClaudeInv, NEW q \in ClRequests, NativeCancels(q)
    PROVE  ClaudeInv'
<1>0. PICK m : m = Msg("cancelled", q, TRUE) OBVIOUS
<1>1. m \in ToDriver /\ m = Msg("cancelled", q, TRUE) /\ m.k = "cancelled" /\ m.q = q /\ m.ok
  BY <1>0 DEF Msg, ToDriver, DownKinds
<1>2. /\ clHost[q] \in {"open", "answered"} /\ clTurn.host \in {"active", "closing"}
      /\ clHost' = [clHost EXCEPT ![q] = "cancelled"] /\ Emit(m) /\ clTold' = [clTold EXCEPT ![q] = "denied"]
      /\ UNCHANGED <<clTurn, clDriver, clRoom, clUp, clFault>>
  BY <1>1 DEF NativeCancels, HostRuns
<1>3. clHost' \in [ClRequests -> Phases] /\ clHost'[q] = "cancelled" /\ \A x \in ClRequests : x # q => clHost'[x] = clHost[x]
  BY <1>2, ClaudeFacts DEF Phases
<1>4. clDown' \in Seq(ToDriver) /\ \A k, x : On(clDown, k, x)' <=> On(clDown, k, x) \/ (k = "cancelled" /\ x = q)
  BY <1>1, <1>2, Emitted
<1>5. clTold' \in [ClRequests -> Told] /\ clTold'[q] = "denied" /\ \A x \in ClRequests : x # q => clTold'[x] = clTold[x]
  BY <1>2, ClaudeFacts DEF Told
<1>6. \A k, x : On(clUp, k, x)' <=> On(clUp, k, x) BY <1>2 DEF On
<1>7. ClaudeTypes' BY <1>2, <1>3, <1>4, <1>5, ClaudeFacts DEF ClaudeTypes
<1>8. DecidedOnce' BY <1>2, <1>3, <1>5, <1>6, ClaudeFacts DEF DecidedOnce
<1>9. EndsSettled' BY <1>2, <1>3, <1>4, ClaudeFacts DEF EndsSettled
<1>10. ASSUME ~clFault PROVE Faultless'
  <2>0. Faultless BY <1>10, ClaudeFacts
  <2>1. Row(q) /\ ~On(clDown, "cancelled", q) BY <1>2, <2>0 DEF Faultless, Row, Stands
  <2>2. Once(clDown)' /\ InOrder(clDown, "request", "cancelled")'
        /\ \A i \in 1..Len(clDown') : clDown'[i].k # "fatal" /\ clDown'[i].ok
    BY <1>1, <1>2, <2>0, <2>1, Emitted DEF Faultless
  <2>3. Row(q)' BY <1>2, <1>3, <1>4, <1>6, <2>1 DEF Row, Stands
  <2>4. \A x \in ClRequests : Row(x)' BY <1>2, <1>3, <1>4, <1>6, <2>0, <2>3, RowKept DEF Faultless
  <2> QED BY <1>2, <2>0, <2>2, <2>4 DEF Faultless, Once, InOrder
<1> QED BY <1>2, <1>7, <1>8, <1>9, <1>10 DEF ClaudeInv

(* The host hands the room's answer to the SDK, unless the request was cancelled first. *)
LEMMA ClaudeResponds ==
    ASSUME ClaudeInv, NEW q \in ClRequests, HostResponds(q)
    PROVE  ClaudeInv'
<1>1. /\ clHost[q] = "answered" /\ clTurn.host \in {"active", "closing"}
      /\ clHost' = [clHost EXCEPT ![q] = "responding"]
      /\ clTold' = [clTold EXCEPT ![q] = IF @ = "none" THEN "answered" ELSE "both"]
      /\ UNCHANGED <<clTurn, clDriver, clRoom, clUp, clDown, clFault>>
  BY DEF HostResponds, HostRuns
<1>2. clHost' \in [ClRequests -> Phases] /\ clHost'[q] = "responding" /\ \A x \in ClRequests : x # q => clHost'[x] = clHost[x]
  BY <1>1, ClaudeFacts DEF Phases
<1>3. clTold[q] = "none" /\ clRoom[q] = "answered" BY ClaudeFacts, <1>1 DEF DecidedOnce
<1>4. clTold' = [clTold EXCEPT ![q] = "answered"] BY <1>1, <1>3
<1>5. clTold' \in [ClRequests -> Told] /\ clTold'[q] = "answered" /\ \A x \in ClRequests : x # q => clTold'[x] = clTold[x]
  BY <1>4, ClaudeFacts DEF Told
<1>6. \A k, x : (On(clUp, k, x)' <=> On(clUp, k, x)) /\ (On(clDown, k, x)' <=> On(clDown, k, x)) BY <1>1 DEF On
<1>7. ClaudeTypes' BY <1>1, <1>2, <1>5, ClaudeFacts DEF ClaudeTypes
<1>8. DecidedOnce' BY <1>1, <1>2, <1>3, <1>5, <1>6, ClaudeFacts DEF DecidedOnce
<1>9. EndsSettled' BY <1>1, <1>2, <1>6, ClaudeFacts DEF EndsSettled
<1>10. ASSUME ~clFault PROVE Faultless'
  BY <1>10, ClaudeFacts, <1>1, <1>2, <1>6, RowKept DEF Faultless, Row, Stands, Once, InOrder
<1> QED BY <1>1, <1>7, <1>8, <1>9, <1>10 DEF ClaudeInv

(* The host reports once how a response it wrote was delivered. *)
LEMMA ClaudeDelivers ==
    ASSUME ClaudeInv, NEW q \in ClRequests, NEW b \in BOOLEAN, HostDelivered(q, b)
    PROVE  ClaudeInv'
<1>1. PICK m \in ToDriver : m = Msg("delivered", q, b) /\ m.k = "delivered" /\ m.q = q /\ m.ok = b BY Messages
<1>2. /\ clHost[q] = "responding" /\ clTurn.host \in {"active", "closing"}
      /\ clHost' = [clHost EXCEPT ![q] = "delivered"] /\ Emit(m) /\ clFault' = (clFault \/ ~b)
      /\ UNCHANGED <<clTurn, clDriver, clRoom, clUp, clTold>>
  BY <1>1 DEF HostDelivered, HostRuns
<1>3. clHost' \in [ClRequests -> Phases] /\ clHost'[q] = "delivered" /\ \A x \in ClRequests : x # q => clHost'[x] = clHost[x]
  BY <1>2, ClaudeFacts DEF Phases
<1>4. clDown' \in Seq(ToDriver) /\ \A k, x : On(clDown, k, x)' <=> On(clDown, k, x) \/ (k = "delivered" /\ x = q)
  BY <1>1, <1>2, Emitted
<1>5. clFault' \in BOOLEAN BY <1>2
<1>6. \A k, x : On(clUp, k, x)' <=> On(clUp, k, x) BY <1>2 DEF On
<1>7. ClaudeTypes' BY <1>2, <1>3, <1>4, <1>5, ClaudeFacts DEF ClaudeTypes
<1>8. DecidedOnce' BY <1>2, <1>3, <1>6, ClaudeFacts DEF DecidedOnce
<1>9. EndsSettled' BY <1>2, <1>3, <1>4, ClaudeFacts DEF EndsSettled
<1>10. ASSUME ~clFault, b PROVE Faultless'
  <2>0. Faultless BY <1>10, ClaudeFacts
  <2>1. Row(q) /\ ~On(clDown, "delivered", q) BY <1>2, <2>0 DEF Faultless, Row, Stands
  <2>2. Once(clDown)' /\ InOrder(clDown, "request", "cancelled")'
        /\ \A i \in 1..Len(clDown') : clDown'[i].k # "fatal" /\ clDown'[i].ok
    BY <1>1, <1>2, <1>10, <2>0, <2>1, Emitted DEF Faultless
  <2>3. Row(q)' BY <1>2, <1>3, <1>4, <1>6, <2>1 DEF Row, Stands
  <2>4. \A x \in ClRequests : Row(x)' BY <1>2, <1>3, <1>4, <1>6, <2>0, <2>3, RowKept DEF Faultless
  <2> QED BY <1>2, <2>0, <2>2, <2>4 DEF Faultless, Once, InOrder
<1>11. ~clFault' => ~clFault /\ b BY <1>2
<1> QED BY <1>7, <1>8, <1>9, <1>10, <1>11 DEF ClaudeInv

(* The host fails its turn: without a fault it never does. *)
LEMMA ClaudeFails ==
    ASSUME ClaudeInv, HostFails, clTurn.host # "ended", clUp' \in Seq(ToHost),
           \A k, x : On(clUp, k, x)' => On(clUp, k, x),
           UNCHANGED <<clHost, clDriver, clRoom, clTold>>, clFault' = TRUE
    PROVE  ClaudeInv'
<1>1. PICK m \in ToDriver : m = Msg("fatal", 0, FALSE) /\ m.k = "fatal" /\ m.q = 0
  <2>1. ASSUME NEW b \in BOOLEAN PROVE Msg("fatal", 0, b) \in ToDriver BY DEF Msg, ToDriver, DownKinds
  <2> QED BY <2>1 DEF Msg
<1>2. clTurn' = [clTurn EXCEPT !.host = "failed"] /\ Emit(m) BY <1>1 DEF HostFails
<1>3. clTurn' \in Turns /\ clTurn'.host = "failed" /\ clTurn'.driver = clTurn.driver BY <1>2, ClaudeFacts DEF Turns
<1>4. clDown' \in Seq(ToDriver) /\ \A k, x : On(clDown, k, x)' <=> On(clDown, k, x) \/ (k = "fatal" /\ x = 0)
  BY <1>1, <1>2, Emitted
<1>5. ClaudeTypes' BY <1>3, <1>4, ClaudeFacts DEF ClaudeTypes
<1>6. DecidedOnce' BY ClaudeFacts DEF DecidedOnce
<1>7. EndsSettled' BY <1>3, <1>4, ClaudeFacts DEF EndsSettled
<1> QED BY <1>5, <1>6, <1>7 DEF ClaudeInv

(* What the host reads from the driver: an answer, or that a request is complete. *)
LEMMA ClaudeHostTakes ==
    ASSUME ClaudeInv, HostTakes
    PROVE  ClaudeInv'
<1>1. /\ clUp # <<>> /\ clTurn.host \in {"active", "closing"} /\ clUp' = Tail(clUp)
      /\ UNCHANGED <<clDriver, clRoom, clTold, clFault>>
  BY DEF HostTakes, HostRuns
<1>2. PICK m \in ToHost : m = Head(clUp) BY <1>1, ClaudeFacts, PipeRead
<1>3. PICK q \in ClRequests : q = m.q BY DEF ToHost
<1>4. /\ clUp' \in Seq(ToHost) /\ On(clUp, m.k, q)
      /\ \A k, x : On(clUp, k, x)' => On(clUp, k, x)
      /\ \A k, x : On(clUp, k, x) => On(clUp, k, x)' \/ (m.k = k /\ q = x)
      /\ Once(clUp) => Once(clUp)' /\ ~On(clUp, m.k, q)'
      /\ InOrder(clUp, "answer", "complete") =>
            InOrder(clUp, "answer", "complete")' /\ (m.k = "complete" => ~On(clUp, "answer", q))
  BY <1>1, <1>2, <1>3, ClaudeFacts, PipeRead
<1>5. \/ m.k = "answer" /\ Accepts(q)
      \/ m.k = "complete" /\ Completes(q)
  BY <1>2, <1>3 DEF HostTakes
<1>6. CASE HostFails /\ UNCHANGED clHost /\ clFault BY <1>1, <1>4, <1>6, ClaudeFails
<1>7. ASSUME ~clFault
      PROVE  /\ m.k = "answer" => clHost[q] \in {"open", "cancelled"}
             /\ m.k = "complete" => clHost[q] \in {"delivered", "cancelled"}
  BY <1>7, ClaudeFacts, <1>4 DEF Faultless, Row, Stands
<1>8. ASSUME NEW h \in Phases, clHost' = [clHost EXCEPT ![q] = h], UNCHANGED <<clTurn, clDown>>,
             \/ m.k = "answer" /\ clHost[q] = "cancelled" /\ h = "cancelled"
             \/ m.k = "answer" /\ clHost[q] = "open" /\ h = "answered"
             \/ m.k = "complete" /\ clHost[q] \in {"delivered", "cancelled"} /\ h = "gone"
      PROVE  ClaudeInv'
  <2>1. clHost' \in [ClRequests -> Phases] /\ clHost'[q] = h /\ \A x \in ClRequests : x # q => clHost'[x] = clHost[x]
    BY <1>8, ClaudeFacts
  <2>2. ClaudeTypes' BY <1>1, <1>4, <1>8, <2>1, ClaudeFacts DEF ClaudeTypes
  <2>3. DecidedOnce' BY ClaudeFacts, <1>4, <1>8, <2>1, <1>1 DEF DecidedOnce
  <2>4. \A k, x : On(clDown, k, x)' <=> On(clDown, k, x) BY <1>8 DEF On
  <2>5. EndsSettled' BY <1>1, <1>8, <2>1, <2>4, ClaudeFacts DEF EndsSettled
  <2>6. ASSUME ~clFault PROVE Faultless'
    BY <2>6, ClaudeFacts, <1>4, <1>1, <1>8, <2>1, <2>4, <1>5, RowKept DEF Faultless, Row, Stands, Once, InOrder
  <2> QED BY <1>1, <2>2, <2>3, <2>5, <2>6 DEF ClaudeInv
<1>9. CASE m.k = "answer" /\ Accepts(q) BY ClaudeFacts, <1>8, <1>9, <1>6, <1>7 DEF Phases, Accepts
<1>10. CASE m.k = "complete" /\ Completes(q) BY <1>8, <1>10, <1>6, <1>7 DEF Phases, Completes
<1> QED BY <1>5, <1>9, <1>10

(* The native result is refused while a question lacks its answer, and passed on once every question is
   settled. *)
LEMMA ClaudeResults ==
    ASSUME ClaudeInv, NativeResult \/ HostResult
    PROVE  ClaudeInv'
<1>1. CASE NativeResult
  <2>1. clTurn.host = "active" /\ UNCHANGED <<clHost, clDriver, clRoom, clUp, clTold>> BY <1>1 DEF NativeResult
  <2>2. \A k, x : On(clUp, k, x)' <=> On(clUp, k, x) BY <2>1 DEF On
  <2>3. CASE HostFails /\ clFault' = TRUE BY <2>1, <2>2, <2>3, ClaudeFacts, ClaudeFails
  <2>4. CASE clTurn' = [clTurn EXCEPT !.host = "closing"] /\ UNCHANGED <<clDown, clFault>>
    <3>1. clTurn' \in Turns /\ clTurn'.host = "closing" /\ clTurn'.driver = clTurn.driver
      BY <2>4, ClaudeFacts DEF Turns
    <3>2. \A k, x : On(clDown, k, x)' <=> On(clDown, k, x) BY <2>4 DEF On
    <3>3. ClaudeTypes' BY <2>1, <2>4, <3>1, ClaudeFacts DEF ClaudeTypes
    <3>4. DecidedOnce' BY <2>1, <2>2, ClaudeFacts DEF DecidedOnce
    <3>5. EndsSettled' BY <2>1, <2>4, <3>1, <3>2, ClaudeFacts DEF EndsSettled
    <3>6. ASSUME ~clFault PROVE Faultless'
      BY <3>6, ClaudeFacts, <2>1, <2>2, <3>2, RowKept, <2>4, <3>1 DEF Faultless, Once, InOrder
    <3> QED BY <2>4, <3>3, <3>4, <3>5, <3>6 DEF ClaudeInv
  <2> QED BY <1>1, <2>3, <2>4 DEF NativeResult
<1>2. CASE HostResult
  <2>1. PICK m \in ToDriver : m = Msg("result", 0, TRUE) /\ m.k = "result" /\ m.q = 0 /\ m.ok
    <3>1. Msg("result", 0, TRUE) \in ToDriver BY DEF Msg, ToDriver, DownKinds
    <3> QED BY <3>1 DEF Msg
  <2>2. /\ clTurn.host = "closing" /\ Settled /\ clTurn' = [clTurn EXCEPT !.host = "ended"] /\ Emit(m)
        /\ UNCHANGED <<clHost, clDriver, clRoom, clUp, clTold, clFault>>
    BY <1>2, <2>1 DEF HostResult
  <2>3. clTurn' \in Turns /\ clTurn'.host = "ended" /\ clTurn'.driver = clTurn.driver BY <2>2, ClaudeFacts DEF Turns
  <2>4. clDown' \in Seq(ToDriver) /\ \A k, x : On(clDown, k, x)' <=> On(clDown, k, x) \/ (k = "result" /\ x = 0)
    BY <2>1, <2>2, Emitted
  <2>5. \A k, x : On(clUp, k, x)' <=> On(clUp, k, x) BY <2>2 DEF On
  <2>6. ClaudeTypes' BY <2>2, <2>3, <2>4, ClaudeFacts DEF ClaudeTypes
  <2>7. DecidedOnce' BY <2>2, <2>5, ClaudeFacts DEF DecidedOnce
  <2>8. EndsSettled' BY <2>2, <2>3, <2>4, ClaudeFacts DEF EndsSettled, Settled
  <2>9. ASSUME ~clFault PROVE Faultless'
    <3>0. Faultless BY <2>9, ClaudeFacts
    <3>1. ~On(clDown, "result", 0) BY <2>2, ClaudeFacts DEF EndsSettled
    <3>2. Once(clDown)' /\ InOrder(clDown, "request", "cancelled")'
          /\ \A i \in 1..Len(clDown') : clDown'[i].k # "fatal" /\ clDown'[i].ok
      BY <2>1, <2>2, <3>0, <3>1, Emitted DEF Faultless
    <3>3. \A x \in ClRequests : Row(x)' BY <2>2, <2>4, <2>5, <3>0, RowKept DEF Faultless
    <3> QED BY <2>2, <2>3, <3>0, <3>2, <3>3 DEF Faultless, Once, InOrder
  <2> QED BY <2>2, <2>6, <2>7, <2>8, <2>9 DEF ClaudeInv
<1> QED BY <1>1, <1>2

(* The driver's side of a step: a question goes to another place in custody, and perhaps a *)
(* message to the host.                                                                    *)
LEMMA ClaudeRoomAnswers ==
    ASSUME ClaudeInv, NEW q \in ClRequests, NEW how \in {"answered", "closed"}, RoomAnswers(q, how)
    PROVE  ClaudeInv'
BY ClaudeFacts, RowKept DEF RoomAnswers, ClaudeTypes, DecidedOnce, On, EndsSettled, Faultless, Once, InOrder,
   ClaudeInv

\* After the driver failed its turn, which it does only after a fault.
LEMMA DriverBreaks ==
    ASSUME ClaudeInv, Broken, clTurn.driver = "running", clDown' \in Seq(ToDriver),
           \A k, x : On(clDown, k, x)' => On(clDown, k, x),
           UNCHANGED <<clHost, clDriver, clRoom, clUp, clTold>>, clFault' = TRUE
    PROVE  ClaudeInv'
<1>1. clTurn' \in Turns /\ clTurn'.driver = "failed" /\ clTurn'.host = clTurn.host BY ClaudeFacts DEF Turns, Broken
<1>2. ClaudeTypes' BY <1>1, ClaudeFacts DEF ClaudeTypes
<1>3. DecidedOnce' BY ClaudeFacts DEF DecidedOnce, On
<1>4. EndsSettled' BY <1>1, ClaudeFacts DEF EndsSettled
<1> QED BY <1>2, <1>3, <1>4 DEF ClaudeInv

(* The driver takes a question a place further, and perhaps tells the host. *)
LEMMA DriverMoves ==
    ASSUME ClaudeInv, NEW q \in ClRequests, NEW d \in Custody, clDriver' = [clDriver EXCEPT ![q] = d],
           clTurn.driver = "running", UNCHANGED <<clHost, clTurn, clRoom, clTold>>,
           clFault' = clFault, clDown' \in Seq(ToDriver), clUp' \in Seq(ToHost),
           \A k, x : On(clDown, k, x)' => On(clDown, k, x),
           \A x \in ClRequests : On(clUp, "answer", x)' => On(clUp, "answer", x) \/ clRoom[x] = "answered",
           ~clFault => /\ Once(clDown)' /\ Once(clUp)'
                       /\ InOrder(clDown, "request", "cancelled")' /\ InOrder(clUp, "answer", "complete")'
                       /\ \A i \in 1..Len(clDown') : clDown'[i].k # "fatal" /\ clDown'[i].ok
                       /\ Row(q)'
                       /\ \A x \in ClRequests : x # q =>
                             /\ \A k \in {"request", "cancelled", "delivered"} : On(clDown, k, x)' <=> On(clDown, k, x)
                             /\ \A k \in {"answer", "complete"} : On(clUp, k, x)' <=> On(clUp, k, x)
    PROVE  ClaudeInv'
BY ClaudeFacts, RowKept DEF ClaudeTypes, DecidedOnce, EndsSettled, Faultless, ClaudeInv

(* The room opened the request, or refused to: the driver keeps custody of it from here. *)
LEMMA ClaudeOpened ==
    ASSUME ClaudeInv, NEW q \in ClRequests, DriverOpened(q)
    PROVE  ClaudeInv'
<1>1. clTurn.driver = "running" /\ UNCHANGED <<clHost, clRoom, clDown, clTold>> BY DEF DriverOpened
<1>2. /\ clDown' \in Seq(ToDriver) /\ \A k, x : On(clDown, k, x)' <=> On(clDown, k, x)
      /\ Once(clDown) => Once(clDown)'
      /\ InOrder(clDown, "request", "cancelled") => InOrder(clDown, "request", "cancelled")'
      /\ (\A i \in 1..Len(clDown) : clDown[i].k # "fatal" /\ clDown[i].ok)
         => \A i \in 1..Len(clDown') : clDown'[i].k # "fatal" /\ clDown'[i].ok
  BY <1>1, ClaudeFacts DEF On, Once, InOrder
<1>3. ~clFault => Faultless /\ Row(q) BY ClaudeFacts DEF Faultless
<1>4. CASE /\ clDriver[q] = "cancelling" /\ clDriver' = [clDriver EXCEPT ![q] = "gone"]
           /\ Tell(Msg("complete", q, FALSE)) /\ UNCHANGED <<clTurn, clFault>>
  <2>1. PICK m \in ToHost : m = Msg("complete", q, FALSE) /\ m.k = "complete" /\ m.q = q BY Messages
  <2>2. Tell(m) BY <1>4, <2>1
  <2>3. clUp' \in Seq(ToHost) /\ \A k, x : On(clUp, k, x)' <=> On(clUp, k, x) \/ (k = "complete" /\ x = q)
    BY <2>1, <2>2, Told1
  <2>4. ~clFault => ~On(clUp, "complete", q) BY <1>3, <1>4 DEF Row, Stands
  <2>5. ~clFault => Once(clUp)' /\ InOrder(clUp, "answer", "complete")' BY <1>3, <2>1, <2>2, <2>4, Told1 DEF Faultless
  <2>6. clDriver'[q] = "gone" BY <1>4, ClaudeFacts
  <2>7. ~clFault => Row(q)' BY <1>1, <1>2, <1>3, <1>4, <2>3, <2>6 DEF Row, Stands
  <2>8. "gone" \in Custody BY DEF Custody
  <2>9. ~clFault => /\ Once(clDown)' /\ InOrder(clDown, "request", "cancelled")'
                    /\ \A i \in 1..Len(clDown') : clDown'[i].k # "fatal" /\ clDown'[i].ok
    BY <1>2, <1>3 DEF Faultless
  <2>10. /\ \A x \in ClRequests : On(clUp, "answer", x)' => On(clUp, "answer", x) \/ clRoom[x] = "answered"
         /\ \A x \in ClRequests : x # q =>
               /\ \A k \in {"request", "cancelled", "delivered"} : On(clDown, k, x)' <=> On(clDown, k, x)
               /\ \A k \in {"answer", "complete"} : On(clUp, k, x)' <=> On(clUp, k, x)
         /\ \A k, x : On(clDown, k, x)' => On(clDown, k, x)
    BY <1>2, <2>3
  <2> QED BY <1>1, <1>2, <1>4, <2>3, <2>5, <2>7, <2>8, <2>9, <2>10, DriverMoves
<1>5. CASE /\ clDriver[q] = "opening" /\ clRoom[q] = "answered" /\ clDriver' = [clDriver EXCEPT ![q] = "ready"]
           /\ Tell(Msg("answer", q, TRUE)) /\ UNCHANGED <<clTurn, clFault>>
  <2>0. PICK m : m = Msg("answer", q, TRUE) OBVIOUS
  <2>1. m \in ToHost /\ m = Msg("answer", q, TRUE) /\ m.k = "answer" /\ m.q = q BY <2>0 DEF Msg, ToHost
  <2>2. Tell(m) BY <1>5, <2>1
  <2>3. clUp' \in Seq(ToHost) /\ \A k, x : On(clUp, k, x)' <=> On(clUp, k, x) \/ (k = "answer" /\ x = q)
    BY <2>1, <2>2, Told1
  <2>4. ~clFault => ~On(clUp, "complete", q) /\ ~On(clUp, "answer", q) BY <1>3, <1>5 DEF Row, Stands
  <2>5. ~clFault => Once(clUp)' /\ InOrder(clUp, "answer", "complete")' BY <1>3, <2>1, <2>2, <2>4, Told1 DEF Faultless
  <2>6. clDriver'[q] = "ready" BY <1>5, ClaudeFacts
  <2>7. ~clFault => Row(q)' BY <1>1, <1>2, <1>3, <1>5, <2>3, <2>6 DEF Row, Stands
  <2>8. "ready" \in Custody BY DEF Custody
  <2>9. ~clFault => /\ Once(clDown)' /\ InOrder(clDown, "request", "cancelled")'
                    /\ \A i \in 1..Len(clDown') : clDown'[i].k # "fatal" /\ clDown'[i].ok
    BY <1>2, <1>3 DEF Faultless
  <2> QED BY <1>1, <1>2, <1>5, <2>3, <2>5, <2>7, <2>8, <2>9, DriverMoves
<1>6. CASE Broken /\ clFault' = TRUE /\ UNCHANGED <<clDriver, clUp>> BY <1>1, <1>2, <1>6, DriverBreaks
<1> QED BY <1>4, <1>5, <1>6 DEF DriverOpened

(* What the driver reads from its host: a request, its cancellation or delivery, the result, or a fatal fault. *)
LEMMA ClaudeDriverTakes ==
    ASSUME ClaudeInv, DriverTakes
    PROVE  ClaudeInv'
<1>1. /\ clDown # <<>> /\ clTurn.driver = "running" /\ clDown' = Tail(clDown)
      /\ UNCHANGED <<clHost, clRoom, clTold>>
  BY DEF DriverTakes
<1>2. PICK m \in ToDriver : m = Head(clDown) BY <1>1, ClaudeFacts, PipeRead
<1>3. PICK q \in ClRequests \cup {0} : q = m.q BY DEF ToDriver
<1>4. /\ clDown' \in Seq(ToDriver) /\ On(clDown, m.k, q)
      /\ \A k, x : On(clDown, k, x)' => On(clDown, k, x)
      /\ \A k, x : On(clDown, k, x) => On(clDown, k, x)' \/ (m.k = k /\ q = x)
      /\ Once(clDown) => Once(clDown)' /\ ~On(clDown, m.k, q)'
      /\ InOrder(clDown, "request", "cancelled") =>
            InOrder(clDown, "request", "cancelled")' /\ (m.k = "cancelled" => ~On(clDown, "request", q))
  BY <1>1, <1>2, <1>3, ClaudeFacts, PipeRead
<1>5. (\A i \in 1..Len(clDown) : clDown[i].k # "fatal" /\ clDown[i].ok)
      => m.k # "fatal" /\ m.ok /\ \A i \in 1..Len(clDown') : clDown'[i].k # "fatal" /\ clDown'[i].ok
  BY <1>1, ClaudeFacts, PipeRead, <1>2
<1>6. ~clFault => /\ Faultless /\ Once(clDown)' /\ InOrder(clDown, "request", "cancelled")' /\ m.k # "fatal" /\ m.ok
                  /\ \A i \in 1..Len(clDown') : clDown'[i].k # "fatal" /\ clDown'[i].ok
  BY <1>4, <1>5, ClaudeFacts DEF Faultless
<1>7. m.k \in {"request", "cancelled", "delivered"} => q \in ClRequests BY <1>3 DEF ToDriver
<1>8. m.k \in DownKinds BY DEF ToDriver
<1>9. CASE Broken /\ clFault' = TRUE /\ UNCHANGED <<clDriver, clUp>> BY <1>1, <1>4, <1>9, DriverBreaks
<1>10. ASSUME q \in ClRequests, NEW d \in Custody, clDriver' = [clDriver EXCEPT ![q] = d], UNCHANGED <<clTurn, clFault>>,
              \/ m.k = "request" /\ clDriver[q] \in {"none", "gone"} /\ d = "opening" /\ clUp' = clUp
              \/ m.k = "cancelled" /\ clDriver[q] = "opening" /\ d = "cancelling" /\ clUp' = clUp
              \/ /\ m.k = "cancelled" /\ clDriver[q] = "ready" /\ d = "gone"
                 /\ Tell(Msg("complete", q, FALSE))
              \/ /\ m.k = "delivered" /\ clDriver[q] = "ready" /\ d = "gone"
                 /\ Tell(Msg("complete", q, TRUE))
       PROVE  ClaudeInv'
  <2>1. clDriver'[q] = d BY <1>10, ClaudeFacts
  <2>2. ~clFault => /\ Row(q) /\ ~On(clDown, m.k, q)' /\ (m.k = "cancelled" => ~On(clDown, "request", q))
                    /\ Once(clUp) /\ InOrder(clUp, "answer", "complete")
    BY <1>4, <1>6, <1>10 DEF Faultless
  <2>3. \A x \in ClRequests : x # q =>
            \A k \in {"request", "cancelled", "delivered"} : On(clDown, k, x)' <=> On(clDown, k, x)
    BY <1>4
  <2>4. \A k : k # m.k => (On(clDown, k, q)' <=> On(clDown, k, q)) BY <1>4
  <2>5. CASE clUp' = clUp /\ d \in {"opening", "cancelling"}
    <3>1. \A k, x : On(clUp, k, x)' <=> On(clUp, k, x) BY <2>5 DEF On
    <3>2. ~clFault => Once(clUp)' /\ InOrder(clUp, "answer", "complete")' BY <2>2, <2>5 DEF Once, InOrder
    <3>3. CASE m.k = "request"
      <4>1. ~clFault => Row(q)' BY <1>1, <1>4, <1>10, <2>1, <2>2, <2>4, <2>5, <3>1, <3>3, Messages DEF Row, Stands
      <4> QED BY <1>1, <1>4, <1>6, <1>10, <2>3, <2>5, <3>1, <3>2, <4>1, ClaudeFacts, DriverMoves
    <3>4. CASE m.k = "cancelled"
      <4>1. ~clFault => Row(q)' BY <1>1, <1>4, <1>10, <2>1, <2>2, <2>4, <2>5, <3>1, <3>4, Messages DEF Row, Stands
      <4> QED BY <1>1, <1>4, <1>6, <1>10, <2>3, <2>5, <3>1, <3>2, <4>1, ClaudeFacts, DriverMoves
    <3> QED BY <1>10, <2>5, <3>3, <3>4
  <2>6. CASE d = "gone" /\ clDriver[q] = "ready" /\ m.k \in {"cancelled", "delivered"}
             /\ \E b \in BOOLEAN : Tell(Msg("complete", q, b))
    <3>1. PICK c \in ToHost : c.k = "complete" /\ c.q = q /\ Tell(c) BY <1>10, <2>6, Messages
    <3>2. clUp' \in Seq(ToHost) /\ \A k, x : On(clUp, k, x)' <=> On(clUp, k, x) \/ (k = "complete" /\ x = q)
      BY <3>1, Told1
    <3>3. ~clFault => ~On(clUp, "complete", q) BY <2>2, <2>6 DEF Row, Stands
    <3>4. ~clFault => Once(clUp)' /\ InOrder(clUp, "answer", "complete")' BY <2>2, <3>1, <3>3, Told1
    <3>5. ~clFault => Row(q)' BY <1>1, <1>4, <1>10, <2>1, <2>2, <2>4, <2>6, <3>2 DEF Row, Stands
    <3>6. /\ \A x \in ClRequests : On(clUp, "answer", x)' => On(clUp, "answer", x) \/ clRoom[x] = "answered"
          /\ \A x \in ClRequests : x # q =>
                /\ \A k \in {"request", "cancelled", "delivered"} : On(clDown, k, x)' <=> On(clDown, k, x)
                /\ \A k \in {"answer", "complete"} : On(clUp, k, x)' <=> On(clUp, k, x)
      BY <2>3, <3>2
    <3> QED BY <1>1, <1>4, <1>6, <1>10, <3>2, <3>4, <3>5, <3>6, DriverMoves
  <2> QED BY <1>10, <2>5, <2>6
<1>11. CASE m.k = "request" BY <1>2, <1>3, <1>11, <1>7, <1>9, <1>10 DEF DriverTakes, Custody
<1>12. CASE m.k = "cancelled"
  <2>1. \/ clDriver[q] = "opening" /\ clDriver' = [clDriver EXCEPT ![q] = "cancelling"] /\ UNCHANGED <<clTurn, clUp, clFault>>
        \/ /\ clDriver[q] = "ready" /\ clDriver' = [clDriver EXCEPT ![q] = "gone"]
           /\ Tell(Msg("complete", q, FALSE)) /\ UNCHANGED <<clTurn, clFault>>
        \/ clDriver[q] \notin {"opening", "ready"} /\ Broken /\ UNCHANGED <<clDriver, clUp, clFault>>
    BY <1>2, <1>3, <1>12 DEF DriverTakes
  <2>2. "cancelling" \in Custody /\ "gone" \in Custody BY DEF Custody
  <2>3. ~clFault => clDriver[q] \in {"opening", "ready"} BY <1>4, <1>6, <1>7, <1>12 DEF Faultless, Row, Stands
  <2>4. CASE clDriver[q] \notin {"opening", "ready"} /\ Broken /\ UNCHANGED <<clDriver, clUp, clFault>>
    BY <1>9, <2>3, <2>4, ClaudeFacts
  <2> QED BY <1>7, <1>10, <1>12, <2>1, <2>2, <2>4
<1>13. CASE m.k = "delivered"
  <2>1. \/ clDriver[q] = "ready" /\ clFault' = clFault /\ clDriver' = [clDriver EXCEPT ![q] = "gone"]
           /\ Tell(Msg("complete", q, TRUE)) /\ clTurn' = clTurn
        \/ (clFault' = TRUE \/ (clFault' = clFault /\ ~(clDriver[q] = "ready" /\ m.ok)))
           /\ Broken /\ UNCHANGED <<clDriver, clUp>>
    BY <1>2, <1>3, <1>13, ClaudeFacts DEF DriverTakes
  <2>2. ~clFault => clDriver[q] = "ready" /\ m.ok BY <1>4, <1>6, <1>7, <1>13 DEF Faultless, Row, Stands
  <2>3. "gone" \in Custody BY DEF Custody
  <2>4. CASE clDriver[q] = "ready" /\ clFault' = clFault /\ clDriver' = [clDriver EXCEPT ![q] = "gone"]
             /\ Tell(Msg("complete", q, TRUE)) /\ clTurn' = clTurn
    BY <1>7, <1>10, <1>13, <2>3, <2>4
  <2>5. CASE (clFault' = TRUE \/ (clFault' = clFault /\ ~(clDriver[q] = "ready" /\ m.ok)))
             /\ Broken /\ UNCHANGED <<clDriver, clUp>>
    BY <2>2, <2>5, ClaudeFacts, <1>9
  <2> QED BY <2>1, <2>4, <2>5
<1>14. CASE m.k = "result"
  <2>1. UNCHANGED <<clDriver, clUp, clFault>> BY <1>2, <1>14 DEF DriverTakes
  <2>2. \/ /\ \A p \in ClRequests : clDriver[p] \in {"none", "gone"}
           /\ clTurn' = [clTurn EXCEPT !.driver = "done"]
        \/ (\E p \in ClRequests : clDriver[p] \notin {"none", "gone"}) /\ Broken
    BY <1>2, <1>14 DEF DriverTakes
  <2>3. q = 0 /\ clTurn.host = "ended" /\ \A x \in ClRequests : clHost[x] \in {"none", "gone"}
    BY <1>3, <1>14, <1>4, ClaudeFacts DEF ToDriver, EndsSettled
  <2>4. ~clFault => \A x \in ClRequests : clDriver[x] \in {"none", "gone"} BY <1>6, <2>3 DEF Faultless, Row, Stands
  <2>5. CASE (\E p \in ClRequests : clDriver[p] \notin {"none", "gone"}) /\ Broken
    BY <1>9, <2>1, <2>4, <2>5, ClaudeFacts
  <2>6. CASE /\ \A p \in ClRequests : clDriver[p] \in {"none", "gone"}
             /\ clTurn' = [clTurn EXCEPT !.driver = "done"]
    <3>1. clTurn' \in Turns /\ clTurn'.driver = "done" /\ clTurn'.host = clTurn.host BY <2>6, ClaudeFacts DEF Turns
    <3>2. \A k, x : On(clUp, k, x)' <=> On(clUp, k, x) BY <2>1 DEF On
    <3>3. ClaudeTypes' BY <1>1, <1>4, <2>1, <3>1, ClaudeFacts DEF ClaudeTypes
    <3>4. DecidedOnce' BY <1>1, <2>1, <3>2, ClaudeFacts DEF DecidedOnce
    <3>5. EndsSettled' BY <1>1, <1>4, <2>1, <2>3, <2>6, <3>1, ClaudeFacts DEF EndsSettled
    <3>6. ASSUME ~clFault PROVE Faultless'
      BY <1>4, <1>14, <1>1, <1>6, <2>1, <3>2, <3>6, RowKept, <3>1 DEF Faultless, Once, InOrder
    <3> QED BY <2>1, <3>3, <3>4, <3>5, <3>6 DEF ClaudeInv
  <2> QED BY <2>2, <2>5, <2>6
<1>15. CASE m.k = "fatal" BY <1>2, <1>15, <1>6, <1>9, ClaudeFacts DEF DriverTakes
<1> QED BY <1>8, <1>11, <1>12, <1>13, <1>14, <1>15 DEF DownKinds

(* The invariant of the Claude driver and its host, for any questions and any capacity. *)
THEOREM ClaudeInvariant == ClSpec => []ClaudeInv
<1>1. ClInit => ClaudeInv
  <2> SUFFICES ASSUME ClInit PROVE ClaudeInv
    OBVIOUS
  <2>1. /\ clHost = [q \in ClRequests |-> "none"] /\ clTurn = [host |-> "active", driver |-> "running"]
        /\ clDriver = [q \in ClRequests |-> "none"] /\ clRoom = [q \in ClRequests |-> "none"]
        /\ clUp = <<>> /\ clDown = <<>> /\ clTold = [q \in ClRequests |-> "none"] /\ clFault = FALSE
    BY DEF ClInit
  <2>2. \A k, x : ~On(clUp, k, x) /\ ~On(clDown, k, x) BY <2>1 DEF On
  <2>3. ClaudeTypes
    <3>1. clUp \in Seq(ToHost) /\ clDown \in Seq(ToDriver) BY <2>1
    <3>2. clTurn \in Turns /\ clFault \in BOOLEAN BY <2>1 DEF Turns
    <3>3. clHost \in [ClRequests -> Phases] /\ clDriver \in [ClRequests -> Custody] BY <2>1 DEF Phases, Custody
    <3>4. clRoom \in [ClRequests -> {"none", "answered", "closed"}] /\ clTold \in [ClRequests -> Told]
      BY <2>1 DEF Told
    <3> QED BY <3>1, <3>2, <3>3, <3>4 DEF ClaudeTypes
  <2>4. DecidedOnce BY <2>1, <2>2 DEF DecidedOnce
  <2>5. EndsSettled BY <2>1, <2>2 DEF EndsSettled
  <2>6. \A x \in ClRequests : Row(x) BY <2>1, <2>2 DEF Row, Stands
  <2>7. Faultless BY <2>1, <2>6 DEF Faultless, Once, InOrder
  <2> QED BY <2>3, <2>4, <2>5, <2>7 DEF ClaudeInv
<1>2. ClaudeInv /\ [ClNext]_clVars => ClaudeInv'
  <2> SUFFICES ASSUME ClaudeInv, [ClNext]_clVars PROVE ClaudeInv'
    OBVIOUS
  <2>1. CASE HostTakes \/ NativeResult \/ HostResult \/ DriverTakes
    BY <2>1, ClaudeHostTakes, ClaudeResults, ClaudeDriverTakes
  <2>2. ASSUME NEW q \in ClRequests,
               NativeAsks(q) \/ NativeCancels(q) \/ HostResponds(q) \/ DriverOpened(q)
        PROVE  ClaudeInv'
    BY <2>2, ClaudeAsks, ClaudeCancels, ClaudeResponds, ClaudeOpened
  <2>3. ASSUME NEW q \in ClRequests, NEW delivered \in BOOLEAN, HostDelivered(q, delivered)
        PROVE  ClaudeInv'
    BY <2>3, ClaudeDelivers
  <2>4. ASSUME NEW q \in ClRequests, NEW how \in {"answered", "closed"}, RoomAnswers(q, how)
        PROVE  ClaudeInv'
    BY <2>4, ClaudeRoomAnswers
  <2>5. CASE UNCHANGED clVars
    BY <2>5 DEF clVars, Row, Stands, On, Faultless, Once, InOrder, ClaudeInv, ClaudeTypes, DecidedOnce,
       EndsSettled
  <2> QED BY <2>1, <2>2, <2>3, <2>4, <2>5, Zenon DEF ClNext
<1> QED BY <1>1, <1>2, PTL DEF ClSpec

(* The Claude host and driver settle every question: one native decision, granted only on an answer of the
   room, a turn accepted when every question was settled on both sides, and a driver that fails only after a
   fault. *)
THEOREM ClaudeTrue == ClSpec => []ClaudeSettles
<1>1. ClaudeInv => ClaudeSettles BY ClaudeFacts DEF DecidedOnce, EndsSettled, Faultless, ClaudeSettles
<1> QED BY <1>1, ClaudeInvariant, PTL
===============================================================================
