------------------------------ MODULE BridgeProofs ------------------------------
(***************************************************************************)
(* Proofs about the managed bridge (ManagedBridge): what the pipes between *)
(* the server and the worker carry of every call and of every exchange     *)
(* fits where both sides are; and, with the proofs of the drivers, what    *)
(* all of them promise together (ProviderDrivers).                         *)
(***************************************************************************)
EXTENDS ProviderDrivers, DriverProofs, TLAPS

------------------------
(* ManagedBridge: no message finds a side that does not expect it. *)

CallPlaces == {"idle", "IsAlive", "alive", "Prepare", "prepared", "Send", "completed", "Finish",
               "failed", "Abort", "Interrupt"}
CallOps == {"IsAlive", "Prepare", "Send", "Finish", "Abort", "Interrupt", "Stop"}
CallEvents == {"Alive", "Prepared", "Turn", "TurnCancelled", "Finished", "Aborted", "Interrupted", "Stopped"}
DownOps == {"ToolBegin", "ToolResult", "RequestOpened", "Resolution", "Receipt"}
UpOps == {"Tool", "Request", "ToolBegun", "Delivered"}

DownMsgs == {m \in [op : CallOps \cup DownOps, turn : Nat, x : Exchanges \cup {NoX}, ok : BOOLEAN] :
                m.op = "Prepare" => m.turn # 0}
UpMsgs == [op : CallEvents \cup UpOps, x : Exchanges \cup {NoX}, ok : BOOLEAN]
InnerAts == {"none", "queued", "asked", "begun", "refused", "open", "answering", "dropped", "reported", "done"}
Inners == [at : InnerAts, turn : Nat, answered : BOOLEAN]
Workers == [at : {"loop", "sending", "interrupting", "exited"}, turn : Nat,
            execution : {"none", "prepared", "entered", "returned"}, portal : Nat, closing : BOOLEAN,
            executing : SUBSET MbTools]
Actors == [pending : SUBSET CallOps, context : Nat, open : BOOLEAN]
BridgeCalls == [turn : Nat, at : CallPlaces \cup {"Stop", "stopped"}, next : {"none"}]

BridgeTypes ==
    /\ mbCall \in BridgeCalls /\ mbActor \in Actors /\ mbWorker \in Workers
    /\ mbDown \in Seq(DownMsgs) /\ mbUp \in Seq(UpMsgs)
    /\ mbInner \in [Exchanges -> Inners] /\ DOMAIN mbOuter = Exchanges

\* What a pipe carries about an exchange (of calls: about NoX), and of it what is affirmative.
Carried(s, x) == {s[i].op : i \in {j \in 1..Len(s) : s[j].x = x}}
Affirmed(s, x) == {s[i].op : i \in {j \in 1..Len(s) : s[j].x = x /\ s[j].ok}}
NoTwice(s) == \A i, j \in 1..Len(s) : s[i].op = s[j].op /\ s[i].x = s[j].x => i = j
Precedes(s, k, l) == \A i, j \in 1..Len(s) : s[i].op = k /\ s[j].op = l /\ s[i].x = s[j].x => i < j

\* A tool: what the pipes carry of it, and where it is on both sides.
ToolStands(i, o, d, dk, u, uk) ==
    \/ /\ d = {} /\ u = {}
       /\ \/ i \in {"none", "queued"} /\ o = "none"
          \/ i = "asked" /\ o \in {"submitted", "refused"}
          \/ i = "begun" /\ o = "executing"
          \/ i = "refused" /\ o = "refused"
          \/ i = "done" /\ o = "done"
    \/ i = "asked" /\ o = "none" /\ d = {} /\ u = {"Tool"}
    \/ i = "asked" /\ o = "beginning" /\ d = {"ToolBegin"} /\ u = {}
    \/ i = "begun" /\ o = "beginning" /\ d = {} /\ u = {"ToolBegun"} /\ uk = {"ToolBegun"}
    \/ i = "refused" /\ o = "beginning" /\ d = {} /\ u = {"ToolBegun"} /\ uk = {}
    \/ i = "begun" /\ o = "done" /\ d = {"ToolResult"} /\ u = {}
    \/ i \in {"asked", "refused"} /\ o = "done" /\ d = {"ToolResult"} /\ dk = {} /\ u = {}

\* A request, which more than one message may be about at a time.
RequestStands(i, answered, o, d, dk, u, uk) ==
    \/ /\ d = {} /\ u = {} /\ ~answered
       /\ \/ i \in {"none", "queued"} /\ o = "none"
          \/ i = "asked" /\ o \in {"submitted", "refused"}
          \/ i \in {"open", "dropped"} /\ o = "waiting"
    \/ /\ d = {} /\ u = {} /\ answered
       /\ \/ i = "answering" /\ o = "resolved"
          \/ i = "dropped" /\ o \in {"resolved", "closed"}
    \/ /\ d = {} /\ u = {}
       /\ \/ i = "reported" /\ o = "completing"
          \/ i = "done" /\ o = "done"
    \/ /\ i = "asked" /\ u = {} /\ ~answered
       /\ \/ o = "waiting" /\ d = {"RequestOpened"} /\ dk = {"RequestOpened"}
          \/ o = "done" /\ d = {"RequestOpened"} /\ dk = {}
          \/ o = "resolved" /\ d = {"RequestOpened", "Resolution"} /\ dk = {"RequestOpened", "Resolution"}
          \/ o = "closed" /\ d = {"RequestOpened", "Resolution"} /\ dk = {"RequestOpened"}
    \/ i = "asked" /\ o = "none" /\ d = {} /\ u = {"Request"} /\ ~answered
    \/ i \in {"open", "dropped"} /\ o = "resolved" /\ d = {"Resolution"} /\ dk = {"Resolution"} /\ u = {} /\ ~answered
    \/ i \in {"open", "dropped"} /\ o = "closed" /\ d = {"Resolution"} /\ dk = {} /\ u = {} /\ ~answered
    \/ /\ i = "reported" /\ u = {"Delivered"}
       /\ \/ answered /\ d = {} /\ o = "resolved"
          \/ answered /\ d = {} /\ o = "closed" /\ uk = {}
          \/ ~answered /\ d = {} /\ o = "waiting" /\ uk = {}
          \/ ~answered /\ d = {"Resolution"} /\ o \in {"resolved", "closed"} /\ uk = {}
    \/ i = "reported" /\ u = {} /\ o = "completing" /\ ~answered /\ d = {"Resolution"}
    \/ i = "reported" /\ u = {} /\ o = "done" /\ d = {"Receipt"}
    \/ i = "reported" /\ u = {} /\ o = "done" /\ d = {"Resolution", "Receipt"} /\ ~answered

ToolKept(x) ==
    ToolStands(mbInner[x].at, mbOuter[x], Carried(mbDown, x), Affirmed(mbDown, x), Carried(mbUp, x), Affirmed(mbUp, x))
RequestKept(x) ==
    RequestStands(mbInner[x].at, mbInner[x].answered, mbOuter[x], Carried(mbDown, x), Affirmed(mbDown, x),
                  Carried(mbUp, x), Affirmed(mbUp, x))

\* The portal serves the turn of the tools that run.
PortalHolds ==
    /\ \A x \in MbTools : x \in mbWorker.executing <=> mbInner[x].at = "begun"
    /\ \A x \in mbWorker.executing : mbWorker.portal = mbInner[x].turn
    /\ \A x \in Exchanges : mbInner[x].at # "none" => mbInner[x].turn # 0

\* The calls before a Stop: the place a of the turn task, the calls p it has pending, what the
\* pipes carry of them (u: events, uk: the affirmative ones) and what the worker does.
CallStands(a, p, d, u, uk, at, turn, execution) ==
    \/ a \in {"idle", "alive"} /\ p = {} /\ d = {} /\ u = {} /\ at = "loop" /\ turn = 0
    \/ a = "prepared" /\ p = {} /\ d = {} /\ u = {} /\ at = "loop" /\ turn # 0 /\ execution = "prepared"
    \/ a = "completed" /\ p = {} /\ d = {} /\ u = {} /\ at = "loop" /\ turn # 0 /\ execution = "returned"
    \/ a = "failed" /\ p = {} /\ d = {} /\ u = {} /\ at = "loop"
    \/ /\ a = "IsAlive" /\ p = {"IsAlive"} /\ at = "loop" /\ turn = 0
       /\ \/ d = {"IsAlive"} /\ u = {}
          \/ d = {} /\ u = {"Alive"}
    \/ /\ a = "Prepare" /\ p = {"Prepare"} /\ at = "loop"
       /\ \/ d = {"Prepare"} /\ u = {} /\ turn = 0
          \/ d = {} /\ u = {"Prepared"} /\ ("Prepared" \in uk => turn # 0 /\ execution = "prepared")
    \/ /\ a = "Send" /\ p = {"Send"} /\ turn # 0
       /\ \/ d = {"Send"} /\ u = {} /\ at = "loop" /\ execution = "prepared"
          \/ d = {} /\ u = {} /\ at = "sending"
          \/ d = {} /\ u = {"Turn"} /\ at = "loop" /\ execution = "returned"
    \/ /\ a = "Finish" /\ p = {"Finish"} /\ at = "loop"
       /\ \/ d = {"Finish"} /\ u = {} /\ turn # 0 /\ execution = "returned"
          \/ d = {} /\ u = {"Finished"} /\ ("Finished" \in uk => turn = 0)
    \/ /\ a = "Abort" /\ p = {"Abort"} /\ at = "loop"
       /\ \/ d = {"Abort"} /\ u = {}
          \/ d = {} /\ u = {"Aborted"} /\ turn = 0
    \/ /\ a = "Abort" /\ p = {"Send", "Abort"}
       /\ \/ d = {"Send", "Abort"} /\ u = {} /\ at = "loop" /\ turn # 0 /\ execution = "prepared"
          \/ d = {"Abort"} /\ u = {} /\ at = "sending" /\ turn # 0
          \/ d = {"Abort"} /\ u = {"Turn"} /\ at = "loop"
          \/ d = {} /\ u \in {{"Turn", "Aborted"}, {"TurnCancelled", "Aborted"}} /\ at = "loop" /\ turn = 0
    \/ /\ a = "Interrupt" /\ p = {"Interrupt"}
       /\ \/ d = {"Interrupt"} /\ u = {} /\ at = "loop" /\ turn # 0
          \/ d = {} /\ u = {} /\ at = "interrupting"
          \/ d = {} /\ u = {"Interrupted"} /\ at = "loop"
    \/ /\ a = "Interrupt" /\ p = {"Send", "Interrupt"}
       /\ \/ d = {"Send", "Interrupt"} /\ u = {} /\ at = "loop" /\ turn # 0 /\ execution = "prepared"
          \/ d = {"Interrupt"} /\ u = {} /\ at = "sending" /\ turn # 0
          \/ d = {"Interrupt"} /\ u = {"Turn"} /\ at = "loop" /\ turn # 0
          \/ d = {} /\ u \in {{"Turn"}, {"TurnCancelled"}} /\ at = "interrupting"
          \/ d = {} /\ u \in {{"Turn", "Interrupted"}, {"TurnCancelled", "Interrupted"}} /\ at = "loop"

\* A Stop may follow any of them: then only the worker and the actor go on with the call.
CallsRun ==
    /\ mbActor.open /\ mbCall.at # "stopped"
    /\ "Stop" \in mbActor.pending <=> mbCall.at = "Stop"
    /\ "Stop" \in Carried(mbDown, NoX) => mbCall.at = "Stop"
    /\ \E a \in CallPlaces :
          /\ mbCall.at # "Stop" => a = mbCall.at
          /\ CallStands(a, mbActor.pending \ {"Stop"}, Carried(mbDown, NoX) \ {"Stop"}, Carried(mbUp, NoX),
                        Affirmed(mbUp, NoX), mbWorker.at, mbWorker.turn, mbWorker.execution)

\* The worker is gone: the events it left answer calls that are pending.
CallsEnd ==
    /\ mbCall.at \in {"Stop", "stopped"}
    /\ mbActor.open =>
          /\ mbCall.at = "Stop" /\ Carried(mbUp, NoX) \subseteq CallEvents
          /\ ~({"Turn", "TurnCancelled"} \subseteq Carried(mbUp, NoX))
          /\ \A op \in Carried(mbUp, NoX) :
                /\ op = "Alive" => "IsAlive" \in mbActor.pending
                /\ op = "Prepared" => "Prepare" \in mbActor.pending
                /\ op \in {"Turn", "TurnCancelled"} => "Send" \in mbActor.pending
                /\ op = "Interrupted" => "Interrupt" \in mbActor.pending
                /\ op = "Finished" => "Finish" \in mbActor.pending
                /\ op = "Aborted" => "Abort" \in mbActor.pending
                /\ op = "Stopped" => "Stop" \in mbActor.pending

CallsHold == IF mbWorker.at = "exited" THEN CallsEnd ELSE CallsRun

CommandsInOrder(s) ==
    /\ NoTwice(s)
    /\ Precedes(s, "Send", "Abort") /\ Precedes(s, "Send", "Interrupt")
    /\ Precedes(s, "RequestOpened", "Resolution") /\ Precedes(s, "Resolution", "Receipt")
EventsInOrder(s) ==
    /\ NoTwice(s)
    /\ Precedes(s, "Turn", "Aborted") /\ Precedes(s, "Turn", "Interrupted")
    /\ Precedes(s, "TurnCancelled", "Aborted") /\ Precedes(s, "TurnCancelled", "Interrupted")
PipesHold == CommandsInOrder(mbDown) /\ EventsInOrder(mbUp)

BridgeInv ==
    /\ BridgeTypes /\ ~mbBroken /\ PipesHold /\ CallsHold /\ PortalHolds
    /\ \A x \in MbTools : ToolKept(x)
    /\ \A x \in MbRequests : RequestKept(x)

(* What is on a pipe after a message was written to it, or read from it. *)
LEMMA OpsWritten ==
    ASSUME NEW S, NEW s \in Seq(S), NEW m \in S
    PROVE  /\ Append(s, m) \in Seq(S)
           /\ Carried(Append(s, m), m.x) = Carried(s, m.x) \cup {m.op}
           /\ m.ok => Affirmed(Append(s, m), m.x) = Affirmed(s, m.x) \cup {m.op}
           /\ ~m.ok => Affirmed(Append(s, m), m.x) = Affirmed(s, m.x)
           /\ \A x : x # m.x => /\ Carried(Append(s, m), x) = Carried(s, x)
                                /\ Affirmed(Append(s, m), x) = Affirmed(s, x)
           /\ NoTwice(s) /\ m.op \notin Carried(s, m.x) => NoTwice(Append(s, m))
           /\ \A k, l : Precedes(s, k, l) /\ (m.op = k => m.op # l /\ l \notin Carried(s, m.x)) =>
                         Precedes(Append(s, m), k, l)
<1> DEFINE t == Append(s, m)
<1>1. /\ t \in Seq(S) /\ Len(t) = Len(s) + 1 /\ Len(s) \in Nat /\ t[Len(s) + 1] = m
      /\ \A i \in 1..Len(s) : t[i] = s[i]
  OBVIOUS
<1> HIDE DEF t
<1>2. \A i : i \in 1..Len(t) <=> i \in 1..Len(s) \/ i = Len(s) + 1 BY <1>1
<1>0. \A x, op : op \in Carried(t, x) <=> op \in Carried(s, x) \/ (m.op = op /\ m.x = x) BY <1>1, <1>2 DEF Carried
<1>3. \A x, op : op \in Affirmed(t, x) <=> op \in Affirmed(s, x) \/ (m.op = op /\ m.x = x /\ m.ok)
  BY <1>1, <1>2 DEF Affirmed
<1>4. /\ Carried(t, m.x) = Carried(s, m.x) \cup {m.op}
      /\ m.ok => Affirmed(t, m.x) = Affirmed(s, m.x) \cup {m.op}
      /\ ~m.ok => Affirmed(t, m.x) = Affirmed(s, m.x)
  <2>1. Carried(t, m.x) = Carried(s, m.x) \cup {m.op} BY <1>0
  <2>2. m.ok => Affirmed(t, m.x) = Affirmed(s, m.x) \cup {m.op} BY <1>3
  <2>3. ASSUME ~m.ok PROVE Affirmed(t, m.x) = Affirmed(s, m.x)
    <3>1. \A op : op \in Affirmed(t, m.x) <=> op \in Affirmed(s, m.x) BY <1>3, <2>3
    <3> QED BY <3>1, Zenon
  <2> QED BY <2>1, <2>2, <2>3
<1>5. ASSUME NEW x, x # m.x
      PROVE  Carried(t, x) = Carried(s, x) /\ Affirmed(t, x) = Affirmed(s, x)
  BY <1>5, <1>0, <1>3
<1>6. NoTwice(s) /\ m.op \notin Carried(s, m.x) => NoTwice(t) BY <1>1, <1>2 DEF Carried, NoTwice
<1>7. ASSUME NEW k, NEW l, Precedes(s, k, l), m.op = k => m.op # l /\ l \notin Carried(s, m.x)
      PROVE  Precedes(t, k, l)
  BY <1>1, <1>7, <1>2 DEF Precedes, Carried
<1> QED BY <1>1, <1>4, <1>5, <1>6, <1>7 DEF t

(* Reading the head of a pipe on which nothing is written twice: what it still carries afterwards, for each
   exchange. *)
LEMMA OpsRead ==
    ASSUME NEW S, NEW s \in Seq(S), s # <<>>, NoTwice(s)
    PROVE  /\ Tail(s) \in Seq(S) /\ Head(s) \in S /\ Head(s).op \in Carried(s, Head(s).x)
           /\ Carried(Tail(s), Head(s).x) = Carried(s, Head(s).x) \ {Head(s).op}
           /\ Affirmed(Tail(s), Head(s).x) = Affirmed(s, Head(s).x) \ {Head(s).op}
           /\ Head(s).ok <=> Head(s).op \in Affirmed(s, Head(s).x)
           /\ \A x : x # Head(s).x => /\ Carried(Tail(s), x) = Carried(s, x)
                                      /\ Affirmed(Tail(s), x) = Affirmed(s, x)
           /\ NoTwice(Tail(s))
           /\ \A k, l : Precedes(s, k, l) => /\ Precedes(Tail(s), k, l)
                                             /\ Head(s).op = l => k \notin Carried(s, Head(s).x)
<1> DEFINE t == Tail(s)
<1>1. /\ t \in Seq(S) /\ Len(s) \in Nat /\ Len(s) > 0 /\ Len(t) = Len(s) - 1
      /\ \A i \in 1..Len(t) : t[i] = s[i + 1]
      /\ Head(s) = s[1] /\ s[1] \in S
  OBVIOUS
<1> HIDE DEF t
<1>2. \A i \in 1..Len(t) : i + 1 \in 1..Len(s) BY <1>1
<1>3. \A j \in 1..Len(s) : j = 1 \/ (j - 1 \in 1..Len(t) /\ s[j] = t[j - 1]) BY <1>1
<1>4. 1 \in 1..Len(s) BY <1>1
<1>5. \A x, op : op \in Carried(s, x) <=> op \in Carried(t, x) \/ (s[1].op = op /\ s[1].x = x)
  <2>1. ASSUME NEW x, NEW j \in 1..Len(s), s[j].x = x
        PROVE  s[j].op \in Carried(t, x) \/ (s[1].op = s[j].op /\ s[1].x = x)
    BY <1>3, <2>1 DEF Carried
  <2>2. ASSUME NEW x, NEW i \in 1..Len(t), t[i].x = x
        PROVE  t[i].op \in Carried(s, x)
    BY <1>1, <1>2, <2>2 DEF Carried
  <2>3. s[1].op \in Carried(s, s[1].x) BY <1>4 DEF Carried
  <2> QED
    <3>1. ASSUME NEW x, NEW op \in Carried(s, x)
          PROVE  op \in Carried(t, x) \/ (s[1].op = op /\ s[1].x = x)
      <4>1. PICK j \in 1..Len(s) : s[j].x = x /\ s[j].op = op BY DEF Carried
      <4> QED BY <2>1, <4>1
    <3>2. ASSUME NEW x, NEW op \in Carried(t, x)
          PROVE  op \in Carried(s, x)
      <4>1. PICK i \in 1..Len(t) : t[i].x = x /\ t[i].op = op BY DEF Carried
      <4> QED BY <2>2, <4>1
    <3> QED BY <2>3, <3>1, <3>2
<1>12. \A x, op : op \in Affirmed(s, x) <=> op \in Affirmed(t, x) \/ (s[1].op = op /\ s[1].x = x /\ s[1].ok)
  BY <1>1, <1>2, <1>3, <1>4 DEF Affirmed
<1>13. \A x, op : op \in Affirmed(t, x) => op \in Carried(t, x) BY DEF Carried, Affirmed
<1>6. s[1].op \notin Carried(t, s[1].x)
  <2>1. ASSUME NEW i \in 1..Len(t), t[i].op = s[1].op, t[i].x = s[1].x
        PROVE  FALSE
    <3>1. i + 1 = 1 BY <1>1, <1>2, <1>4, <2>1 DEF NoTwice
    <3> QED BY <1>1, <3>1
  <2> QED BY <2>1 DEF Carried
<1>7. /\ s[1].op \in Carried(s, s[1].x)
      /\ s[1].ok => s[1].op \in Affirmed(s, s[1].x)
  BY <1>4 DEF Carried, Affirmed
<1>8. s[1].op \in Affirmed(s, s[1].x) => s[1].ok
  <2>1. ASSUME NEW i \in 1..Len(s), s[i].op = s[1].op, s[i].x = s[1].x, s[i].ok
        PROVE  s[1].ok
    BY <1>4, <2>1 DEF NoTwice
  <2> QED BY <2>1 DEF Affirmed
<1>9. /\ Carried(t, s[1].x) = Carried(s, s[1].x) \ {s[1].op}
      /\ Affirmed(t, s[1].x) = Affirmed(s, s[1].x) \ {s[1].op}
      /\ \A x : x # s[1].x => Carried(t, x) = Carried(s, x) /\ Affirmed(t, x) = Affirmed(s, x)
  <2>1. Carried(t, s[1].x) = Carried(s, s[1].x) \ {s[1].op}
    <3>1. \A op : op \in Carried(t, s[1].x) <=> op \in Carried(s, s[1].x) \ {s[1].op} BY <1>5, <1>6
    <3> QED BY <3>1, Zenon
  <2>2. Affirmed(t, s[1].x) = Affirmed(s, s[1].x) \ {s[1].op}
    <3>1. \A op : op \in Affirmed(t, s[1].x) <=> op \in Affirmed(s, s[1].x) \ {s[1].op} BY <1>12, <1>13, <1>6
    <3> QED BY <3>1, Zenon
  <2>3. ASSUME NEW x, x # s[1].x
        PROVE  Carried(t, x) = Carried(s, x) /\ Affirmed(t, x) = Affirmed(s, x)
    <3>1. \A op : op \in Carried(t, x) <=> op \in Carried(s, x) BY <1>5, <2>3
    <3>2. \A op : op \in Affirmed(t, x) <=> op \in Affirmed(s, x) BY <1>12, <2>3
    <3> QED BY <3>1, <3>2, Zenon
  <2> QED BY <2>1, <2>2, <2>3
<1>10. NoTwice(t)
  <2> SUFFICES ASSUME NEW i \in 1..Len(t), NEW j \in 1..Len(t), t[i].op = t[j].op, t[i].x = t[j].x
               PROVE  i = j
    BY DEF NoTwice
  <2>1. i + 1 = j + 1 BY <1>1, <1>2 DEF NoTwice
  <2> QED BY <1>1, <2>1
<1>11. ASSUME NEW k, NEW l, Precedes(s, k, l)
       PROVE  Precedes(t, k, l) /\ (s[1].op = l => k \notin Carried(s, s[1].x))
  <2>1. Precedes(t, k, l)
    <3> SUFFICES ASSUME NEW i \in 1..Len(t), NEW j \in 1..Len(t), t[i].op = k, t[j].op = l, t[i].x = t[j].x
                 PROVE  i < j
      BY DEF Precedes
    <3>1. i + 1 < j + 1 BY <1>1, <1>2, <1>11 DEF Precedes
    <3> QED BY <1>1, <3>1
  <2>2. ASSUME NEW i \in 1..Len(s), s[1].op = l, s[i].op = k, s[i].x = s[1].x
        PROVE  FALSE
    <3>1. i < 1 BY <1>4, <1>11, <2>2 DEF Precedes
    <3> QED BY <1>1, <3>1
  <2> QED BY <2>1, <2>2 DEF Carried
<1> QED BY <1>1, <1>7, <1>8, <1>9, <1>10, <1>11 DEF t

(* What a pipe affirms it carries. *)
LEMMA AffirmedCarried == \A s, x : Affirmed(s, x) \subseteq Carried(s, x)
BY DEF Affirmed, Carried

\* No exchange has the identifier of none.
LEMMA NoXOut == NoX \notin Exchanges /\ \A x \in MbTools : x \notin MbRequests
BY MbAssumption DEF NoX, Exchanges

(* What is only read, or not touched, by an action. *)
LEMMA ExchangesKept ==
    ASSUME BridgeInv,
           \A x \in Exchanges :
               /\ mbInner'[x] = mbInner[x] /\ mbOuter'[x] = mbOuter[x]
               /\ Carried(mbDown', x) = Carried(mbDown, x) /\ Affirmed(mbDown', x) = Affirmed(mbDown, x)
               /\ Carried(mbUp', x) = Carried(mbUp, x) /\ Affirmed(mbUp', x) = Affirmed(mbUp, x)
    PROVE  (\A x \in MbTools : ToolKept(x)') /\ (\A x \in MbRequests : RequestKept(x)')
BY DEF ToolKept, BridgeInv, Exchanges, RequestKept

(* A step that moves one exchange, and keeps what that one promises, keeps what all of them promise. *)
LEMMA OthersKept ==
    ASSUME BridgeInv, NEW x \in Exchanges,
           \A y \in Exchanges \ {x} :
               /\ mbInner'[y] = mbInner[y] /\ mbOuter'[y] = mbOuter[y]
               /\ Carried(mbDown', y) = Carried(mbDown, y) /\ Affirmed(mbDown', y) = Affirmed(mbDown, y)
               /\ Carried(mbUp', y) = Carried(mbUp, y) /\ Affirmed(mbUp', y) = Affirmed(mbUp, y),
           x \in MbTools => ToolKept(x)',
           x \in MbRequests => RequestKept(x)'
    PROVE  (\A y \in MbTools : ToolKept(y)') /\ (\A y \in MbRequests : RequestKept(y)')
BY DEF ToolKept, BridgeInv, Exchanges, RequestKept

(* A step that leaves the call, the actor and the worker's call alone keeps what is said of the call. *)
LEMMA CallsKept ==
    ASSUME BridgeInv, UNCHANGED <<mbCall, mbActor>>,
           mbWorker'.at = mbWorker.at, mbWorker'.turn = mbWorker.turn, mbWorker'.execution = mbWorker.execution,
           Carried(mbDown', NoX) = Carried(mbDown, NoX),
           Carried(mbUp', NoX) = Carried(mbUp, NoX), Affirmed(mbUp', NoX) = Affirmed(mbUp, NoX)
    PROVE  CallsHold'
BY DEF CallsRun, CallsEnd, BridgeInv, CallsHold

(* A step that begins or ends no execution at the worker's portal keeps what is said of it. *)
LEMMA PortalKept ==
    ASSUME BridgeInv, mbWorker'.executing = mbWorker.executing,
           mbWorker.executing # {} => mbWorker'.portal = mbWorker.portal,
           \A x \in Exchanges :
               /\ mbInner'[x].turn = mbInner[x].turn
               /\ mbInner'[x].at = "none" <=> mbInner[x].at = "none"
               /\ mbInner'[x].at = "begun" <=> mbInner[x].at = "begun"
    PROVE  PortalHolds'
BY DEF BridgeInv, BridgeTypes, Workers, PortalHolds, Exchanges

(* Where the turn task is while no Stop was called. *)
LEMMA CallsAt ==
    ASSUME BridgeInv, mbCall.at \in CallPlaces
    PROVE  /\ mbWorker.at # "exited" /\ mbActor.open
           /\ "Stop" \notin mbActor.pending /\ "Stop" \notin Carried(mbDown, NoX)
           /\ CallStands(mbCall.at, mbActor.pending, Carried(mbDown, NoX), Carried(mbUp, NoX),
                         Affirmed(mbUp, NoX), mbWorker.at, mbWorker.turn, mbWorker.execution)
BY DEF CallPlaces, BridgeInv, CallsHold, CallsEnd, CallsRun

(* A call of the turn task reaches the pipe of commands. *)
LEMMA CallWritten ==
    ASSUME BridgeInv, NEW op \in CallOps, NEW n \in Nat, op = "Prepare" => n # 0,
           op \notin Carried(mbDown, NoX), op = "Send" => Carried(mbDown, NoX) = {}, MbAdmits(op),
           mbDown' = Append(mbDown, [op |-> op, turn |-> n, x |-> NoX, ok |-> TRUE]), Rpc(op),
           mbCall' \in BridgeCalls
    PROVE  /\ BridgeTypes' /\ ~mbBroken' /\ PipesHold' /\ PortalHolds'
           /\ \A x \in MbTools : ToolKept(x)'
           /\ \A x \in MbRequests : RequestKept(x)'
           /\ Carried(mbDown', NoX) = Carried(mbDown, NoX) \cup {op}
           /\ mbActor'.pending = mbActor.pending \cup {op} /\ mbActor'.open = mbActor.open
<1> DEFINE m == [op |-> op, turn |-> n, x |-> NoX, ok |-> TRUE]
<1>1. m \in DownMsgs /\ m.op = op /\ m.x = NoX /\ m.ok BY DEF DownMsgs
<1>2. mbDown \in Seq(DownMsgs) /\ mbDown' = Append(mbDown, m) /\ NoTwice(mbDown)
  BY DEF BridgeInv, BridgeTypes, PipesHold, CommandsInOrder, EventsInOrder
<1>3. UNCHANGED <<mbUp, mbWorker, mbInner, mbOuter>> /\ mbActor' = [mbActor EXCEPT !.pending = @ \cup {op}] BY DEF Rpc
<1> HIDE DEF m
<1>4. /\ mbDown' \in Seq(DownMsgs) /\ NoTwice(mbDown')
      /\ Carried(mbDown', NoX) = Carried(mbDown, NoX) \cup {op}
      /\ \A x : x # NoX => /\ Carried(mbDown', x) = Carried(mbDown, x)
                           /\ Affirmed(mbDown', x) = Affirmed(mbDown, x)
      /\ \A k, l : Precedes(mbDown, k, l) /\ (op = k => op # l /\ l \notin Carried(mbDown, NoX)) => Precedes(mbDown', k, l)
  <2> DEFINE t == Append(mbDown, m)
  <2>1. /\ t \in Seq(DownMsgs)
        /\ Carried(t, m.x) = Carried(mbDown, m.x) \cup {m.op}
        /\ \A x : x # m.x => Carried(t, x) = Carried(mbDown, x) /\ Affirmed(t, x) = Affirmed(mbDown, x)
        /\ m.op \notin Carried(mbDown, m.x) => NoTwice(t)
        /\ \A k, l : Precedes(mbDown, k, l) /\ (m.op = k => m.op # l /\ l \notin Carried(mbDown, m.x)) => Precedes(t, k, l)
    BY <1>1, <1>2, OpsWritten
  <2>2. mbDown' = t BY <1>2
  <2> HIDE DEF t
  <2> QED BY <1>1, <2>1, <2>2
<1>5. mbActor' \in Actors /\ mbActor'.pending = mbActor.pending \cup {op} /\ mbActor'.open = mbActor.open
  BY <1>3 DEF BridgeInv, BridgeTypes, Actors
<1>6. BridgeTypes' BY <1>3, <1>4, <1>5 DEF BridgeInv, BridgeTypes
<1>7. ~mbBroken' BY DEF BridgeInv, Rpc
<1>8. PipesHold' BY <1>3, <1>4 DEF BridgeInv, PipesHold, CommandsInOrder, CallOps
<1>9. PortalHolds' BY <1>3, PortalKept
<1>10. (\A x \in MbTools : ToolKept(x)') /\ (\A x \in MbRequests : RequestKept(x)')
  BY <1>3, <1>4, NoXOut, ExchangesKept
<1> QED BY <1>4, <1>5, <1>6, <1>7, <1>8, <1>9, <1>10

(* The calls of the turn task. *)
LEMMA CallIsAliveStep ==
    ASSUME BridgeInv, CallIsAlive
    PROVE  BridgeInv'
<1>1. /\ mbWorker.at # "exited" /\ mbActor.open
      /\ "Stop" \notin mbActor.pending /\ "Stop" \notin Carried(mbDown, NoX)
      /\ CallStands("idle", mbActor.pending, Carried(mbDown, NoX), Carried(mbUp, NoX),
                    Affirmed(mbUp, NoX), mbWorker.at, mbWorker.turn, mbWorker.execution)
  BY CallsAt DEF CallIsAlive, CallPlaces
<1>2. mbActor.pending = {} /\ Carried(mbDown, NoX) = {} /\ MbAdmits("IsAlive") BY <1>1 DEF CallStands, MbAdmits
<1>3. mbCall' = [mbCall EXCEPT !.at = "IsAlive"] /\ mbCall' \in BridgeCalls /\ mbCall'.at = "IsAlive" /\ mbCall.turn \in Nat
  BY DEF CallIsAlive, BridgeInv, BridgeTypes, BridgeCalls, CallPlaces
<1>4. mbDown' = Append(mbDown, [op |-> "IsAlive", turn |-> mbCall.turn, x |-> NoX, ok |-> TRUE]) /\ Rpc("IsAlive")
  BY DEF CallIsAlive, Down, Cmd
<1>5. "IsAlive" \in CallOps /\ mbCall.turn \in Nat BY <1>3 DEF CallOps
<1>6. /\ BridgeTypes' /\ ~mbBroken' /\ PipesHold' /\ PortalHolds'
      /\ \A x \in MbTools : ToolKept(x)'
      /\ \A x \in MbRequests : RequestKept(x)'
      /\ Carried(mbDown', NoX) = {"IsAlive"}
      /\ mbActor'.pending = {"IsAlive"} /\ mbActor'.open
  BY <1>1, <1>2, <1>3, <1>4, <1>5, CallWritten
<1>7. UNCHANGED <<mbUp, mbWorker>> BY <1>4 DEF Rpc
<1>8. /\ mbActor'.pending \ {"Stop"} = {"IsAlive"} /\ "Stop" \notin mbActor'.pending
      /\ Carried(mbDown', NoX) \ {"Stop"} = {"IsAlive"} /\ "Stop" \notin Carried(mbDown', NoX)
  BY <1>6
<1>9. CallStands("IsAlive", {"IsAlive"}, {"IsAlive"}, Carried(mbUp, NoX), Affirmed(mbUp, NoX), mbWorker.at, mbWorker.turn,
                 mbWorker.execution)
  BY <1>1 DEF CallStands
<1>10. "IsAlive" \in CallPlaces /\ "IsAlive" # "Stop" /\ "IsAlive" # "stopped" BY DEF CallPlaces
<1>11. CallsRun' BY <1>3, <1>6, <1>7, <1>8, <1>9, <1>10 DEF CallsRun
<1>12. CallsHold' BY <1>1, <1>7, <1>11 DEF CallsHold
<1> QED BY <1>6, <1>12 DEF BridgeInv

(* The turn task prepares its next turn once the worker was found alive. *)
LEMMA CallPrepareStep ==
    ASSUME BridgeInv, CallPrepare
    PROVE  BridgeInv'
<1>1. /\ mbWorker.at # "exited" /\ mbActor.open
      /\ "Stop" \notin mbActor.pending /\ "Stop" \notin Carried(mbDown, NoX)
      /\ CallStands("alive", mbActor.pending, Carried(mbDown, NoX), Carried(mbUp, NoX),
                    Affirmed(mbUp, NoX), mbWorker.at, mbWorker.turn, mbWorker.execution)
  BY CallsAt DEF CallPrepare, CallPlaces
<1>2. mbActor.pending = {} /\ Carried(mbDown, NoX) = {} /\ MbAdmits("Prepare") BY <1>1 DEF CallStands, MbAdmits
<1>3. mbCall' \in BridgeCalls /\ mbCall'.at = "Prepare" /\ mbCall.turn \in Nat
  <2>1. mbCall \in BridgeCalls BY DEF BridgeInv, BridgeTypes
  <2>2. PICK n \in Nat : n = mbCall.turn BY <2>1 DEF BridgeCalls
  <2>3. mbCall' = [mbCall EXCEPT !.turn = n + 1, !.at = "Prepare"] /\ n + 1 \in Nat BY <2>2 DEF CallPrepare
  <2>4. "Prepare" \in CallPlaces BY DEF CallPlaces
  <2> QED BY <2>1, <2>2, <2>3, <2>4 DEF BridgeCalls
<1>4. mbDown' = Append(mbDown, [op |-> "Prepare", turn |-> mbCall.turn + 1, x |-> NoX, ok |-> TRUE]) /\ Rpc("Prepare")
  BY DEF CallPrepare, Down, Cmd
<1>5. "Prepare" \in CallOps /\ mbCall.turn + 1 \in Nat /\ mbCall.turn + 1 # 0 BY <1>3 DEF CallOps
<1>6. /\ BridgeTypes' /\ ~mbBroken' /\ PipesHold' /\ PortalHolds'
      /\ \A x \in MbTools : ToolKept(x)'
      /\ \A x \in MbRequests : RequestKept(x)'
      /\ Carried(mbDown', NoX) = {"Prepare"}
      /\ mbActor'.pending = {"Prepare"} /\ mbActor'.open
  BY <1>1, <1>2, <1>3, <1>4, <1>5, CallWritten
<1>7. UNCHANGED <<mbUp, mbWorker>> BY <1>4 DEF Rpc
<1>8. /\ mbActor'.pending \ {"Stop"} = {"Prepare"} /\ "Stop" \notin mbActor'.pending
      /\ Carried(mbDown', NoX) \ {"Stop"} = {"Prepare"} /\ "Stop" \notin Carried(mbDown', NoX)
  BY <1>6
<1>9. CallStands("Prepare", {"Prepare"}, {"Prepare"}, Carried(mbUp, NoX), Affirmed(mbUp, NoX), mbWorker.at, mbWorker.turn,
                 mbWorker.execution)
  BY <1>1 DEF CallStands
<1>10. "Prepare" \in CallPlaces /\ "Prepare" # "Stop" /\ "Prepare" # "stopped" BY DEF CallPlaces
<1>11. CallsRun' BY <1>3, <1>6, <1>7, <1>8, <1>9, <1>10 DEF CallsRun
<1>12. CallsHold' BY <1>1, <1>7, <1>11 DEF CallsHold
<1> QED BY <1>6, <1>12 DEF BridgeInv

(* A prepared turn is sent. *)
LEMMA CallSendStep ==
    ASSUME BridgeInv, CallSend
    PROVE  BridgeInv'
<1>1. /\ mbWorker.at # "exited" /\ mbActor.open
      /\ "Stop" \notin mbActor.pending /\ "Stop" \notin Carried(mbDown, NoX)
      /\ CallStands("prepared", mbActor.pending, Carried(mbDown, NoX), Carried(mbUp, NoX),
                    Affirmed(mbUp, NoX), mbWorker.at, mbWorker.turn, mbWorker.execution)
  BY CallsAt DEF CallSend, CallPlaces
<1>2. mbActor.pending = {} /\ Carried(mbDown, NoX) = {} /\ MbAdmits("Send") BY <1>1 DEF CallStands, MbAdmits
<1>3. mbCall' = [mbCall EXCEPT !.at = "Send"] /\ mbCall' \in BridgeCalls /\ mbCall'.at = "Send" /\ mbCall.turn \in Nat
  BY DEF CallSend, BridgeInv, BridgeTypes, BridgeCalls, CallPlaces
<1>4. mbDown' = Append(mbDown, [op |-> "Send", turn |-> mbCall.turn, x |-> NoX, ok |-> TRUE]) /\ Rpc("Send")
  BY DEF CallSend, Down, Cmd
<1>5. "Send" \in CallOps /\ mbCall.turn \in Nat BY <1>3 DEF CallOps
<1>6. /\ BridgeTypes' /\ ~mbBroken' /\ PipesHold' /\ PortalHolds'
      /\ \A x \in MbTools : ToolKept(x)'
      /\ \A x \in MbRequests : RequestKept(x)'
      /\ Carried(mbDown', NoX) = {"Send"}
      /\ mbActor'.pending = {"Send"} /\ mbActor'.open
  BY <1>1, <1>2, <1>3, <1>4, <1>5, CallWritten
<1>7. UNCHANGED <<mbUp, mbWorker>> BY <1>4 DEF Rpc
<1>8. /\ mbActor'.pending \ {"Stop"} = {"Send"} /\ "Stop" \notin mbActor'.pending
      /\ Carried(mbDown', NoX) \ {"Stop"} = {"Send"} /\ "Stop" \notin Carried(mbDown', NoX)
  BY <1>6
<1>9. CallStands("Send", {"Send"}, {"Send"}, Carried(mbUp, NoX), Affirmed(mbUp, NoX), mbWorker.at, mbWorker.turn,
                 mbWorker.execution)
  BY <1>1 DEF CallStands
<1>10. "Send" \in CallPlaces /\ "Send" # "Stop" /\ "Send" # "stopped" BY DEF CallPlaces
<1>11. CallsRun' BY <1>3, <1>6, <1>7, <1>8, <1>9, <1>10 DEF CallsRun
<1>12. CallsHold' BY <1>1, <1>7, <1>11 DEF CallsHold
<1> QED BY <1>6, <1>12 DEF BridgeInv

(* A completed turn is finished at the worker. *)
LEMMA CallFinishStep ==
    ASSUME BridgeInv, CallFinish
    PROVE  BridgeInv'
<1>1. /\ mbWorker.at # "exited" /\ mbActor.open
      /\ "Stop" \notin mbActor.pending /\ "Stop" \notin Carried(mbDown, NoX)
      /\ CallStands("completed", mbActor.pending, Carried(mbDown, NoX), Carried(mbUp, NoX),
                    Affirmed(mbUp, NoX), mbWorker.at, mbWorker.turn, mbWorker.execution)
  BY CallsAt DEF CallFinish, CallPlaces
<1>2. mbActor.pending = {} /\ Carried(mbDown, NoX) = {} /\ MbAdmits("Finish") BY <1>1 DEF CallStands, MbAdmits
<1>3. mbCall' = [mbCall EXCEPT !.at = "Finish"] /\ mbCall' \in BridgeCalls /\ mbCall'.at = "Finish" /\ mbCall.turn \in Nat
  BY DEF CallFinish, BridgeInv, BridgeTypes, BridgeCalls, CallPlaces
<1>4. mbDown' = Append(mbDown, [op |-> "Finish", turn |-> mbCall.turn, x |-> NoX, ok |-> TRUE]) /\ Rpc("Finish")
  BY DEF CallFinish, Down, Cmd
<1>5. "Finish" \in CallOps /\ mbCall.turn \in Nat BY <1>3 DEF CallOps
<1>6. /\ BridgeTypes' /\ ~mbBroken' /\ PipesHold' /\ PortalHolds'
      /\ \A x \in MbTools : ToolKept(x)'
      /\ \A x \in MbRequests : RequestKept(x)'
      /\ Carried(mbDown', NoX) = {"Finish"}
      /\ mbActor'.pending = {"Finish"} /\ mbActor'.open
  BY <1>1, <1>2, <1>3, <1>4, <1>5, CallWritten
<1>7. UNCHANGED <<mbUp, mbWorker>> BY <1>4 DEF Rpc
<1>8. /\ mbActor'.pending \ {"Stop"} = {"Finish"} /\ "Stop" \notin mbActor'.pending
      /\ Carried(mbDown', NoX) \ {"Stop"} = {"Finish"} /\ "Stop" \notin Carried(mbDown', NoX)
  BY <1>6
<1>9. CallStands("Finish", {"Finish"}, {"Finish"}, Carried(mbUp, NoX), Affirmed(mbUp, NoX), mbWorker.at, mbWorker.turn,
                 mbWorker.execution)
  BY <1>1 DEF CallStands
<1>10. "Finish" \in CallPlaces /\ "Finish" # "Stop" /\ "Finish" # "stopped" BY DEF CallPlaces
<1>11. CallsRun' BY <1>3, <1>6, <1>7, <1>8, <1>9, <1>10 DEF CallsRun
<1>12. CallsHold' BY <1>1, <1>7, <1>11 DEF CallsHold
<1> QED BY <1>6, <1>12 DEF BridgeInv

(* A failed turn is aborted at the worker. *)
LEMMA CallAbortStep ==
    ASSUME BridgeInv, CallAbort
    PROVE  BridgeInv'
<1>1. /\ mbWorker.at # "exited" /\ mbActor.open
      /\ "Stop" \notin mbActor.pending /\ "Stop" \notin Carried(mbDown, NoX)
      /\ CallStands("failed", mbActor.pending, Carried(mbDown, NoX), Carried(mbUp, NoX),
                    Affirmed(mbUp, NoX), mbWorker.at, mbWorker.turn, mbWorker.execution)
  BY CallsAt DEF CallAbort, CallPlaces
<1>2. mbActor.pending = {} /\ Carried(mbDown, NoX) = {} /\ MbAdmits("Abort") BY <1>1 DEF CallStands, MbAdmits
<1>3. mbCall' = [mbCall EXCEPT !.at = "Abort"] /\ mbCall' \in BridgeCalls /\ mbCall'.at = "Abort" /\ mbCall.turn \in Nat
  BY DEF CallAbort, BridgeInv, BridgeTypes, BridgeCalls, CallPlaces
<1>4. mbDown' = Append(mbDown, [op |-> "Abort", turn |-> mbCall.turn, x |-> NoX, ok |-> TRUE]) /\ Rpc("Abort")
  BY DEF CallAbort, Down, Cmd
<1>5. "Abort" \in CallOps /\ mbCall.turn \in Nat BY <1>3 DEF CallOps
<1>6. /\ BridgeTypes' /\ ~mbBroken' /\ PipesHold' /\ PortalHolds'
      /\ \A x \in MbTools : ToolKept(x)'
      /\ \A x \in MbRequests : RequestKept(x)'
      /\ Carried(mbDown', NoX) = {"Abort"}
      /\ mbActor'.pending = {"Abort"} /\ mbActor'.open
  BY <1>1, <1>2, <1>3, <1>4, <1>5, CallWritten
<1>7. UNCHANGED <<mbUp, mbWorker>> BY <1>4 DEF Rpc
<1>8. /\ mbActor'.pending \ {"Stop"} = {"Abort"} /\ "Stop" \notin mbActor'.pending
      /\ Carried(mbDown', NoX) \ {"Stop"} = {"Abort"} /\ "Stop" \notin Carried(mbDown', NoX)
  BY <1>6
<1>9. CallStands("Abort", {"Abort"}, {"Abort"}, Carried(mbUp, NoX), Affirmed(mbUp, NoX), mbWorker.at, mbWorker.turn,
                 mbWorker.execution)
  BY <1>1 DEF CallStands
<1>10. "Abort" \in CallPlaces /\ "Abort" # "Stop" /\ "Abort" # "stopped" BY DEF CallPlaces
<1>11. CallsRun' BY <1>3, <1>6, <1>7, <1>8, <1>9, <1>10 DEF CallsRun
<1>12. CallsHold' BY <1>1, <1>7, <1>11 DEF CallsHold
<1> QED BY <1>6, <1>12 DEF BridgeInv

(* send_turn is dropped, or was not called yet: an interruption or an abort follows it. *)
LEMMA DropSendStep ==
    ASSUME BridgeInv, DropSend
    PROVE  BridgeInv'
<1>1. PICK op \in {"Interrupt", "Abort"} :
         mbCall' = [mbCall EXCEPT !.at = op] /\ Down(Cmd(op, NoX)) /\ Rpc(op)
  BY DEF DropSend
<1>2. mbCall.at \in {"prepared", "Send"} /\ mbCall.at \in CallPlaces BY DEF DropSend, CallPlaces
<1>3. /\ mbWorker.at # "exited" /\ mbActor.open
      /\ "Stop" \notin mbActor.pending /\ "Stop" \notin Carried(mbDown, NoX)
      /\ CallStands(mbCall.at, mbActor.pending, Carried(mbDown, NoX), Carried(mbUp, NoX),
                    Affirmed(mbUp, NoX), mbWorker.at, mbWorker.turn, mbWorker.execution)
  BY <1>2, CallsAt
<1>4. mbActor.pending \in {{}, {"Send"}} /\ op \notin Carried(mbDown, NoX) /\ MbAdmits(op)
  BY <1>2, <1>3 DEF CallStands, MbAdmits
<1>5. mbCall' \in BridgeCalls /\ mbCall'.at = op /\ mbCall.turn \in Nat
  BY <1>1 DEF BridgeInv, BridgeTypes, BridgeCalls, CallPlaces
<1>6. mbDown' = Append(mbDown, [op |-> op, turn |-> mbCall.turn, x |-> NoX, ok |-> TRUE]) BY <1>1 DEF Down, Cmd
<1>7. op \in CallOps /\ op # "Send" /\ op # "Prepare" BY DEF CallOps
<1>8. /\ BridgeTypes' /\ ~mbBroken' /\ PipesHold' /\ PortalHolds'
      /\ \A x \in MbTools : ToolKept(x)'
      /\ \A x \in MbRequests : RequestKept(x)'
      /\ Carried(mbDown', NoX) = Carried(mbDown, NoX) \cup {op}
      /\ mbActor'.pending = mbActor.pending \cup {op} /\ mbActor'.open = mbActor.open
  BY <1>1, <1>4, <1>5, <1>6, <1>7, CallWritten
<1>9. UNCHANGED <<mbUp, mbWorker>> BY <1>1 DEF Rpc
<1>10. /\ mbActor'.pending \ {"Stop"} = mbActor.pending \cup {op} /\ "Stop" \notin mbActor'.pending
       /\ Carried(mbDown', NoX) \ {"Stop"} = Carried(mbDown, NoX) \cup {op} /\ "Stop" \notin Carried(mbDown', NoX)
  BY <1>3, <1>8
<1>11. CallStands(op, mbActor.pending \cup {op}, Carried(mbDown, NoX) \cup {op}, Carried(mbUp, NoX),
                  Affirmed(mbUp, NoX), mbWorker.at, mbWorker.turn, mbWorker.execution)
  <2>1. CASE mbCall.at = "prepared"
    <3>1. mbActor.pending \cup {op} = {op} /\ Carried(mbDown, NoX) \cup {op} = {op} BY <1>3, <2>1 DEF CallStands
    <3> QED BY <1>3, <2>1, <3>1 DEF CallStands
  <2>2. CASE mbCall.at = "Send"
    <3>1. mbActor.pending \cup {op} = {"Send", op} BY <1>3, <2>2 DEF CallStands
    <3>2. Carried(mbDown, NoX) \cup {op} = IF Carried(mbDown, NoX) = {} THEN {op} ELSE {"Send", op}
      BY <1>3, <2>2 DEF CallStands
    <3> QED BY <1>3, <2>2, <3>1, <3>2 DEF CallStands
  <2> QED BY <1>2, <2>1, <2>2
<1>12. op \in CallPlaces /\ op # "Stop" /\ op # "stopped" BY DEF CallPlaces
<1>13. CallsRun' BY <1>3, <1>5, <1>8, <1>9, <1>10, <1>11, <1>12 DEF CallsRun
<1>14. CallsHold' BY <1>3, <1>9, <1>13 DEF CallsHold
<1> QED BY <1>8, <1>14 DEF BridgeInv

(* stop takes the place of whatever the turn task awaits. *)
LEMMA StopRuntimeStep ==
    ASSUME BridgeInv, StopRuntime
    PROVE  BridgeInv'
BY CallWritten DEF StopRuntime, BridgeInv, CallsHold, CallsEnd, CallsRun, BridgeTypes, BridgeCalls, Down, Cmd,
   CallOps, MbAdmits, Rpc

(* What the worker and the parent write and read. *)
LEMMA UpWritten ==
    ASSUME NEW s \in Seq(UpMsgs), EventsInOrder(s),
           NEW op \in CallEvents \cup UpOps, NEW x \in Exchanges \cup {NoX}, NEW ok \in BOOLEAN,
           op \notin Carried(s, x),
           op \in {"Turn", "TurnCancelled"} => Carried(s, x) = {}
    PROVE  LET t == Append(s, Ev(op, x, ok)) IN
           /\ t \in Seq(UpMsgs) /\ EventsInOrder(t)
           /\ Carried(t, x) = Carried(s, x) \cup {op}
           /\ ok => Affirmed(t, x) = Affirmed(s, x) \cup {op}
           /\ ~ok => Affirmed(t, x) = Affirmed(s, x)
           /\ \A y : y # x => Carried(t, y) = Carried(s, y) /\ Affirmed(t, y) = Affirmed(s, y)
<1> DEFINE m == Ev(op, x, ok)
           t == Append(s, m)
<1>1. m \in UpMsgs /\ m.op = op /\ m.x = x /\ m.ok = ok BY DEF UpMsgs, Ev
<1> HIDE DEF m
<1>3. /\ t \in Seq(UpMsgs)
      /\ Carried(t, m.x) = Carried(s, m.x) \cup {m.op}
      /\ m.ok => Affirmed(t, m.x) = Affirmed(s, m.x) \cup {m.op}
      /\ ~m.ok => Affirmed(t, m.x) = Affirmed(s, m.x)
      /\ \A y : y # m.x => Carried(t, y) = Carried(s, y) /\ Affirmed(t, y) = Affirmed(s, y)
      /\ NoTwice(s) /\ m.op \notin Carried(s, m.x) => NoTwice(t)
      /\ \A k, l : Precedes(s, k, l) /\ (m.op = k => m.op # l /\ l \notin Carried(s, m.x)) => Precedes(t, k, l)
  BY <1>1, OpsWritten
<1> HIDE DEF t
<1>4. EventsInOrder(t) BY <1>1, <1>3 DEF EventsInOrder
<1> QED BY <1>1, <1>3, <1>4 DEF t, m

(* What the room writes down for an exchange that carries no such reply yet. *)
LEMMA DownReplied ==
    ASSUME BridgeInv, NEW op \in DownOps, NEW x \in Exchanges, NEW ok \in BOOLEAN,
           op \notin Carried(mbDown, x),
           op = "RequestOpened" => "Resolution" \notin Carried(mbDown, x),
           op = "Resolution" => "Receipt" \notin Carried(mbDown, x),
           Replies(op, x, ok), UNCHANGED mbUp
    PROVE  /\ mbDown' \in Seq(DownMsgs) /\ PipesHold'
           /\ Carried(mbDown', x) = Carried(mbDown, x) \cup {op}
           /\ ok => Affirmed(mbDown', x) = Affirmed(mbDown, x) \cup {op}
           /\ ~ok => Affirmed(mbDown', x) = Affirmed(mbDown, x)
           /\ \A y : y # x => /\ Carried(mbDown', y) = Carried(mbDown, y)
                              /\ Affirmed(mbDown', y) = Affirmed(mbDown, y)
<1>0. PICK s \in Seq(DownMsgs) : s = mbDown BY DEF BridgeInv, BridgeTypes
<1> DEFINE m == [op |-> op, turn |-> 0, x |-> x, ok |-> ok]
           t == Append(s, m)
<1>1. m \in DownMsgs /\ m.op = op /\ m.x = x /\ m.ok = ok BY DEF DownMsgs, DownOps
<1>2. NoTwice(mbDown) /\ mbDown' = t BY <1>0 DEF BridgeInv, PipesHold, CommandsInOrder, Replies
<1> HIDE DEF m
<1>3. /\ t \in Seq(DownMsgs)
      /\ Carried(t, m.x) = Carried(s, m.x) \cup {m.op}
      /\ m.ok => Affirmed(t, m.x) = Affirmed(s, m.x) \cup {m.op}
      /\ ~m.ok => Affirmed(t, m.x) = Affirmed(s, m.x)
      /\ \A y : y # m.x => Carried(t, y) = Carried(s, y) /\ Affirmed(t, y) = Affirmed(s, y)
      /\ NoTwice(s) /\ m.op \notin Carried(s, m.x) => NoTwice(t)
      /\ \A k, l : Precedes(s, k, l) /\ (m.op = k => m.op # l /\ l \notin Carried(s, m.x)) => Precedes(t, k, l)
  BY <1>1, OpsWritten
<1> HIDE DEF t
<1>4. CommandsInOrder(t) BY <1>0, <1>1, <1>3 DEF BridgeInv, PipesHold, CommandsInOrder, DownOps
<1>5. PipesHold' BY <1>2, <1>4 DEF BridgeInv, PipesHold
<1> QED BY <1>0, <1>1, <1>2, <1>3, <1>5

(* The actor reads the head of the pipe from the worker. *)
LEMMA UpRead ==
    ASSUME BridgeInv, mbUp # <<>>, mbUp' = Tail(mbUp), UNCHANGED mbDown,
           NEW m, m = Head(mbUp)
    PROVE  /\ m \in UpMsgs /\ m.op \in Carried(mbUp, m.x)
           /\ mbUp' \in Seq(UpMsgs) /\ PipesHold'
           /\ Carried(mbUp', m.x) = Carried(mbUp, m.x) \ {m.op}
           /\ Affirmed(mbUp', m.x) = Affirmed(mbUp, m.x) \ {m.op}
           /\ m.ok <=> m.op \in Affirmed(mbUp, m.x)
           /\ \A y : y # m.x => Carried(mbUp', y) = Carried(mbUp, y) /\ Affirmed(mbUp', y) = Affirmed(mbUp, y)
           /\ m.op \in {"Aborted", "Interrupted"} => Carried(mbUp, m.x) \cap {"Turn", "TurnCancelled"} = {}
<1>1. mbUp \in Seq(UpMsgs) /\ NoTwice(mbUp) BY DEF BridgeInv, BridgeTypes, PipesHold, CommandsInOrder, EventsInOrder
<1>2. /\ m \in UpMsgs /\ m.op \in Carried(mbUp, m.x)
      /\ mbUp' \in Seq(UpMsgs) /\ NoTwice(mbUp')
      /\ Carried(mbUp', m.x) = Carried(mbUp, m.x) \ {m.op}
      /\ Affirmed(mbUp', m.x) = Affirmed(mbUp, m.x) \ {m.op}
      /\ m.ok <=> m.op \in Affirmed(mbUp, m.x)
      /\ \A y : y # m.x => Carried(mbUp', y) = Carried(mbUp, y) /\ Affirmed(mbUp', y) = Affirmed(mbUp, y)
      /\ \A k, l : Precedes(mbUp, k, l) => /\ Precedes(mbUp', k, l)
                                           /\ m.op = l => k \notin Carried(mbUp, m.x)
  BY <1>1, OpsRead
<1>3. PipesHold' BY <1>2 DEF BridgeInv, PipesHold, CommandsInOrder, EventsInOrder
<1>4. m.op \in {"Aborted", "Interrupted"} => Carried(mbUp, m.x) \cap {"Turn", "TurnCancelled"} = {}
  BY <1>2 DEF BridgeInv, PipesHold, CommandsInOrder, EventsInOrder
<1> QED BY <1>2, <1>3, <1>4

(* What the head of the pipe to the worker says, before it is taken. *)
LEMMA DownRead ==
    ASSUME BridgeInv, mbDown # <<>>, NEW m, m = Head(mbDown)
    PROVE  /\ m \in DownMsgs /\ m.op \in Carried(mbDown, m.x)
           /\ Tail(mbDown) \in Seq(DownMsgs)
           /\ m.ok <=> m.op \in Affirmed(mbDown, m.x)
           /\ m.op \in {"Abort", "Interrupt"} => "Send" \notin Carried(mbDown, m.x)
           /\ m.op = "Resolution" => "RequestOpened" \notin Carried(mbDown, m.x)
           /\ m.op = "Receipt" => "Resolution" \notin Carried(mbDown, m.x)
BY OpsRead DEF BridgeInv, BridgeTypes, PipesHold, CommandsInOrder, EventsInOrder

(* The worker takes the head of the pipe to it. *)
LEMMA DownTaken ==
    ASSUME BridgeInv, mbDown # <<>>, mbDown' = Tail(mbDown), NEW m, m = Head(mbDown)
    PROVE  /\ Carried(mbDown', m.x) = Carried(mbDown, m.x) \ {m.op}
           /\ Affirmed(mbDown', m.x) = Affirmed(mbDown, m.x) \ {m.op}
           /\ \A y : y # m.x => /\ Carried(mbDown', y) = Carried(mbDown, y)
                                /\ Affirmed(mbDown', y) = Affirmed(mbDown, y)
           /\ CommandsInOrder(mbDown')
BY OpsRead DEF BridgeInv, BridgeTypes, PipesHold, CommandsInOrder, EventsInOrder

(* What of whom the pipes carry. *)
LEMMA ToolPipes ==
    ASSUME BridgeInv, NEW x \in MbTools
    PROVE  Carried(mbDown, x) \subseteq {"ToolBegin", "ToolResult"} /\ Carried(mbUp, x) \subseteq {"Tool", "ToolBegun"}
BY DEF BridgeInv, ToolKept, ToolStands

(* Only a request's own replies travel for a request. *)
LEMMA RequestPipes ==
    ASSUME BridgeInv, NEW x \in MbRequests
    PROVE  /\ Carried(mbDown, x) \subseteq {"RequestOpened", "Resolution", "Receipt"}
           /\ Carried(mbUp, x) \subseteq {"Request", "Delivered"}
BY DEF BridgeInv, RequestKept, RequestStands

(* While the worker runs the actor is open, and only the call's own commands and events travel for it. *)
LEMMA CallPipes ==
    ASSUME BridgeInv, mbWorker.at # "exited"
    PROVE  /\ mbActor.open /\ Carried(mbDown, NoX) \subseteq CallOps
           /\ Carried(mbUp, NoX) \subseteq CallEvents \ {"Stopped"}
           /\ ~({"Turn", "TurnCancelled"} \subseteq Carried(mbUp, NoX))
BY DEF BridgeInv, CallsHold, CallsRun, CallStands, CallOps, CallEvents

(* The worker's own steps. *)
LEMMA RelayStep ==
    ASSUME BridgeInv, NEW x \in Exchanges, Relay(x)
    PROVE  BridgeInv'
<1> DEFINE op == IF x \in MbTools THEN "Tool" ELSE "Request"
<1>0. PICK ok \in BOOLEAN : ok = TRUE OBVIOUS
<1>1. /\ mbInner[x].at = "queued" /\ mbInner' = [mbInner EXCEPT ![x].at = "asked"]
      /\ mbUp' = Append(mbUp, Ev(op, x, ok))
      /\ UNCHANGED <<mbCall, mbActor, mbDown, mbWorker, mbOuter, mbBroken>>
  BY <1>0 DEF Relay, Up
<1>2. mbInner \in [Exchanges -> Inners] /\ mbUp \in Seq(UpMsgs) /\ EventsInOrder(mbUp)
  BY DEF BridgeInv, BridgeTypes, PipesHold
<1>3. /\ mbInner' \in [Exchanges -> Inners] /\ mbInner'[x].at = "asked"
      /\ mbInner'[x].answered = mbInner[x].answered
      /\ \A y \in Exchanges : y # x => mbInner'[y] = mbInner[y]
      /\ \A y \in Exchanges : mbInner'[y].turn = mbInner[y].turn
  BY <1>1, <1>2 DEF Inners, InnerAts
<1>4. Carried(mbUp, x) = {} /\ op \in UpOps /\ op \notin {"Turn", "TurnCancelled"}
  BY <1>1, NoXOut DEF BridgeInv, ToolKept, ToolStands, UpOps, RequestKept, RequestStands, Exchanges
<1> HIDE DEF op
<1>5. /\ mbUp' \in Seq(UpMsgs) /\ EventsInOrder(mbUp')
      /\ Carried(mbUp', x) = {op}
      /\ \A y : y # x => Carried(mbUp', y) = Carried(mbUp, y) /\ Affirmed(mbUp', y) = Affirmed(mbUp, y)
  BY <1>1, <1>2, <1>4, UpWritten
<1>6. x \in MbTools => ToolKept(x)' BY <1>1, <1>3, <1>5 DEF op, BridgeInv, ToolKept, ToolStands
<1>7. x \in MbRequests => RequestKept(x)' BY NoXOut, <1>1, <1>3, <1>5 DEF op, BridgeInv, RequestKept, RequestStands
<1>8. (\A y \in MbTools : ToolKept(y)') /\ (\A y \in MbRequests : RequestKept(y)')
  BY <1>1, <1>3, <1>5, <1>6, <1>7, OthersKept
<1>9. CallsHold' BY <1>1, <1>5, NoXOut, CallsKept
<1>10. PortalHolds' BY <1>1, <1>3, PortalKept
<1>11. BridgeTypes' /\ ~mbBroken' /\ PipesHold' BY <1>1, <1>3, <1>5 DEF BridgeInv, BridgeTypes, PipesHold
<1> QED BY <1>8, <1>9, <1>10, <1>11 DEF BridgeInv

(* The agent calls a tool or asks for a permission within its turn: the exchange waits for the worker's loop. *)
LEMMA AgentCallsStep ==
    ASSUME BridgeInv, NEW x \in Exchanges, AgentCalls(x)
    PROVE  BridgeInv'
<1>1. /\ mbWorker.at = "sending" /\ mbInner[x].at = "none"
      /\ mbInner' = [mbInner EXCEPT ![x] = [at |-> "queued", turn |-> mbWorker.turn, answered |-> FALSE]]
      /\ UNCHANGED <<mbCall, mbActor, mbDown, mbUp, mbWorker, mbOuter, mbBroken>>
  BY DEF AgentCalls
<1>2. mbInner \in [Exchanges -> Inners] /\ mbWorker.turn \in Nat BY DEF BridgeInv, BridgeTypes, Workers
<1>3. /\ mbInner' \in [Exchanges -> Inners] /\ mbInner'[x].at = "queued"
      /\ ~mbInner'[x].answered /\ mbInner'[x].turn = mbWorker.turn
      /\ \A y \in Exchanges : y # x => mbInner'[y] = mbInner[y]
  BY <1>1, <1>2 DEF Inners, InnerAts
<1>4. mbWorker.turn # 0
  <2>1. CallsRun BY <1>1 DEF BridgeInv, CallsHold
  <2> QED BY <1>1, <2>1 DEF CallsRun, CallStands
<1>5. x \in MbTools => ToolKept(x)'
  <2> SUFFICES ASSUME x \in MbTools PROVE ToolKept(x)'
    OBVIOUS
  <2>1. ToolKept(x) BY DEF BridgeInv
  <2>2. mbOuter[x] = "none" /\ Carried(mbDown, x) = {} /\ Carried(mbUp, x) = {} BY <1>1, <2>1 DEF ToolKept, ToolStands
  <2> QED BY <1>1, <1>3, <2>2 DEF ToolKept, ToolStands
<1>6. x \in MbRequests => RequestKept(x)'
  <2> SUFFICES ASSUME x \in MbRequests PROVE RequestKept(x)'
    OBVIOUS
  <2>1. RequestKept(x) BY DEF BridgeInv
  <2>2. mbOuter[x] = "none" /\ Carried(mbDown, x) = {} /\ Carried(mbUp, x) = {}
    BY <1>1, <2>1 DEF RequestKept, RequestStands
  <2> QED BY <1>1, <1>3, <2>2 DEF RequestKept, RequestStands
<1>7. (\A y \in MbTools : ToolKept(y)') /\ (\A y \in MbRequests : RequestKept(y)')
  BY <1>1, <1>3, <1>5, <1>6, OthersKept
<1>8. CallsHold' BY <1>1, CallsKept
<1>9. PortalHolds'
  <2>1. x \notin mbWorker.executing BY <1>1 DEF BridgeInv, BridgeTypes, Workers, PortalHolds
  <2>2. mbWorker.executing \subseteq MbTools BY DEF BridgeInv, BridgeTypes, Workers
  <2>3. \A y \in MbTools : y \in mbWorker.executing <=> mbInner'[y].at = "begun"
    BY <1>3, <2>1 DEF BridgeInv, PortalHolds, Exchanges
  <2>4. \A y \in mbWorker.executing : mbWorker.portal = mbInner'[y].turn
    BY <1>3, <2>1, <2>2 DEF BridgeInv, PortalHolds, Exchanges
  <2>5. \A y \in Exchanges : mbInner'[y].at # "none" => mbInner'[y].turn # 0 BY <1>3, <1>4 DEF BridgeInv, PortalHolds
  <2> QED BY <1>1, <2>3, <2>4, <2>5 DEF PortalHolds
<1>10. BridgeTypes' /\ ~mbBroken' /\ PipesHold' BY <1>1, <1>3 DEF BridgeInv, BridgeTypes, PipesHold
<1> QED BY <1>7, <1>8, <1>9, <1>10 DEF BridgeInv

(* The worker's send returns: the turn's result is written up. *)
LEMMA SendReturnsStep ==
    ASSUME BridgeInv, SendReturns
    PROVE  BridgeInv'
<1>1. PICK ok \in BOOLEAN : mbUp' = Append(mbUp, Ev("Turn", NoX, ok)) BY DEF SendReturns, Up
<1>2. /\ mbWorker.at = "sending"
      /\ mbWorker' = [mbWorker EXCEPT !.at = "loop", !.execution = "returned"]
      /\ UNCHANGED <<mbCall, mbActor, mbDown, mbInner, mbOuter, mbBroken>>
  BY DEF SendReturns
<1>3. /\ mbWorker' \in Workers /\ mbWorker'.at = "loop" /\ mbWorker'.execution = "returned"
      /\ mbWorker'.turn = mbWorker.turn /\ mbWorker'.executing = mbWorker.executing
      /\ mbWorker'.portal = mbWorker.portal
  BY <1>2 DEF BridgeInv, BridgeTypes, Workers
<1>4. CallsRun BY <1>2 DEF BridgeInv, CallsHold
<1>5. PICK a \in CallPlaces :
         /\ mbCall.at # "Stop" => a = mbCall.at
         /\ CallStands(a, mbActor.pending \ {"Stop"}, Carried(mbDown, NoX) \ {"Stop"}, Carried(mbUp, NoX),
                       Affirmed(mbUp, NoX), mbWorker.at, mbWorker.turn, mbWorker.execution)
  BY <1>4 DEF CallsRun
<1>6. Carried(mbUp, NoX) = {} BY <1>2, <1>5 DEF CallStands
<1>7. mbUp \in Seq(UpMsgs) /\ EventsInOrder(mbUp) /\ "Turn" \in CallEvents
  BY DEF BridgeInv, BridgeTypes, PipesHold, CallEvents
<1>8. /\ mbUp' \in Seq(UpMsgs) /\ EventsInOrder(mbUp') /\ Carried(mbUp', NoX) = {"Turn"}
      /\ \A y : y # NoX => Carried(mbUp', y) = Carried(mbUp, y) /\ Affirmed(mbUp', y) = Affirmed(mbUp, y)
  <2>1. /\ mbUp \in Seq(UpMsgs) /\ EventsInOrder(mbUp)
        /\ "Turn" \in CallEvents \cup UpOps /\ NoX \in Exchanges \cup {NoX} /\ ok \in BOOLEAN
        /\ "Turn" \notin Carried(mbUp, NoX)
        /\ "Turn" \in {"Turn", "TurnCancelled"} => Carried(mbUp, NoX) = {}
        /\ mbUp' = Append(mbUp, Ev("Turn", NoX, ok))
    BY <1>1, <1>6, <1>7
  <2>2. /\ mbUp' \in Seq(UpMsgs) /\ EventsInOrder(mbUp')
        /\ Carried(mbUp', NoX) = Carried(mbUp, NoX) \cup {"Turn"}
        /\ \A y : y # NoX => Carried(mbUp', y) = Carried(mbUp, y) /\ Affirmed(mbUp', y) = Affirmed(mbUp, y)
    BY <2>1, UpWritten
  <2> QED BY <1>6, <2>2
<1>9. CallStands(a, mbActor.pending \ {"Stop"}, Carried(mbDown, NoX) \ {"Stop"}, {"Turn"},
                 Affirmed(mbUp', NoX), "loop", mbWorker.turn, "returned")
  BY <1>2, <1>5 DEF CallStands
<1>10. CallsRun' BY <1>2, <1>3, <1>4, <1>5, <1>8, <1>9 DEF CallsRun
<1>11. CallsHold' BY <1>3, <1>10 DEF CallsHold
<1>12. (\A x \in MbTools : ToolKept(x)') /\ (\A x \in MbRequests : RequestKept(x)')
  BY <1>2, <1>8, NoXOut, ExchangesKept
<1>13. PortalHolds' BY <1>2, <1>3, PortalKept
<1>14. BridgeTypes' /\ ~mbBroken' /\ PipesHold' BY <1>2, <1>3, <1>8 DEF BridgeInv, BridgeTypes, PipesHold
<1> QED BY <1>11, <1>12, <1>13, <1>14 DEF BridgeInv

(* The worker's interrupt returns. *)
LEMMA InterruptReturnsStep ==
    ASSUME BridgeInv, InterruptReturns
    PROVE  BridgeInv'
<1>1. PICK ok \in BOOLEAN : mbUp' = Append(mbUp, Ev("Interrupted", NoX, ok)) BY DEF InterruptReturns, Up
<1>2. /\ mbWorker.at = "interrupting" /\ mbWorker' = [mbWorker EXCEPT !.at = "loop"]
      /\ UNCHANGED <<mbCall, mbActor, mbDown, mbInner, mbOuter, mbBroken>>
  BY DEF InterruptReturns
<1>3. /\ mbWorker' \in Workers /\ mbWorker'.at = "loop" /\ mbWorker'.execution = mbWorker.execution
      /\ mbWorker'.turn = mbWorker.turn /\ mbWorker'.executing = mbWorker.executing
      /\ mbWorker'.portal = mbWorker.portal
  BY <1>2 DEF BridgeInv, BridgeTypes, Workers
<1>4. CallsRun BY <1>2 DEF BridgeInv, CallsHold
<1>5. PICK a \in CallPlaces :
         /\ mbCall.at # "Stop" => a = mbCall.at
         /\ CallStands(a, mbActor.pending \ {"Stop"}, Carried(mbDown, NoX) \ {"Stop"}, Carried(mbUp, NoX),
                       Affirmed(mbUp, NoX), mbWorker.at, mbWorker.turn, mbWorker.execution)
  BY <1>4 DEF CallsRun
<1>6. /\ Carried(mbUp, NoX) \in {{}, {"Turn"}, {"TurnCancelled"}} /\ "Interrupted" \notin Carried(mbUp, NoX)
      /\ a = "Interrupt" /\ Carried(mbDown, NoX) \ {"Stop"} = {}
      /\ Carried(mbUp, NoX) = {} => mbActor.pending \ {"Stop"} = {"Interrupt"}
      /\ Carried(mbUp, NoX) # {} => mbActor.pending \ {"Stop"} = {"Send", "Interrupt"}
  BY <1>2, <1>5 DEF CallStands
<1>7. mbUp \in Seq(UpMsgs) /\ EventsInOrder(mbUp) /\ "Interrupted" \in CallEvents
  BY DEF BridgeInv, BridgeTypes, PipesHold, CallEvents
<1>8. /\ mbUp' \in Seq(UpMsgs) /\ EventsInOrder(mbUp')
      /\ Carried(mbUp', NoX) = Carried(mbUp, NoX) \cup {"Interrupted"}
      /\ \A y : y # NoX => Carried(mbUp', y) = Carried(mbUp, y) /\ Affirmed(mbUp', y) = Affirmed(mbUp, y)
  <2>1. /\ mbUp \in Seq(UpMsgs) /\ EventsInOrder(mbUp)
        /\ "Interrupted" \in CallEvents \cup UpOps /\ NoX \in Exchanges \cup {NoX} /\ ok \in BOOLEAN
        /\ "Interrupted" \notin Carried(mbUp, NoX)
        /\ "Interrupted" \in {"Turn", "TurnCancelled"} => Carried(mbUp, NoX) = {}
        /\ mbUp' = Append(mbUp, Ev("Interrupted", NoX, ok))
    BY <1>1, <1>6, <1>7
  <2>2. /\ mbUp' \in Seq(UpMsgs) /\ EventsInOrder(mbUp')
        /\ Carried(mbUp', NoX) = Carried(mbUp, NoX) \cup {"Interrupted"}
        /\ \A y : y # NoX => Carried(mbUp', y) = Carried(mbUp, y) /\ Affirmed(mbUp', y) = Affirmed(mbUp, y)
    BY <2>1, UpWritten
  <2> QED BY <2>2
<1>9. CallStands(a, mbActor.pending \ {"Stop"}, Carried(mbDown, NoX) \ {"Stop"},
                 Carried(mbUp, NoX) \cup {"Interrupted"}, Affirmed(mbUp', NoX), "loop", mbWorker.turn, mbWorker.execution)
  <2>1. CASE Carried(mbUp, NoX) = {} BY <1>6, <2>1 DEF CallStands
  <2>2. CASE Carried(mbUp, NoX) # {}
    <3>1. Carried(mbUp, NoX) \cup {"Interrupted"} \in {{"Turn", "Interrupted"}, {"TurnCancelled", "Interrupted"}}
      BY <1>6, <2>2
    <3> QED BY <1>6, <2>2, <3>1 DEF CallStands
  <2> QED BY <2>1, <2>2
<1>10. CallsRun' BY <1>2, <1>3, <1>4, <1>5, <1>8, <1>9 DEF CallsRun
<1>11. CallsHold' BY <1>3, <1>10 DEF CallsHold
<1>12. (\A x \in MbTools : ToolKept(x)') /\ (\A x \in MbRequests : RequestKept(x)')
  BY <1>2, <1>8, NoXOut, ExchangesKept
<1>13. PortalHolds' BY <1>2, <1>3, PortalKept
<1>14. BridgeTypes' /\ ~mbBroken' /\ PipesHold' BY <1>2, <1>3, <1>8 DEF BridgeInv, BridgeTypes, PipesHold
<1> QED BY <1>11, <1>12, <1>13, <1>14 DEF BridgeInv

(* The worker reads a call. *)
LEMMA CallHead ==
    ASSUME BridgeInv, mbWorker.at # "exited", mbDown # <<>>, Head(mbDown).op \notin DownOps
    PROVE  Head(mbDown).x = NoX /\ Head(mbDown).op \in CallOps /\ Head(mbDown).op \in Carried(mbDown, NoX)
<1> DEFINE m == Head(mbDown)
<1>1. m \in DownMsgs /\ m.op \in Carried(mbDown, m.x) BY DownRead
<1> HIDE DEF m
<1>2. m.x \in Exchanges \cup {NoX} /\ m.op \in CallOps BY <1>1 DEF DownMsgs, m
<1>3. m.x \notin MbTools BY <1>1, ToolPipes DEF DownOps, m
<1>4. m.x \notin MbRequests BY <1>1, RequestPipes DEF DownOps, m
<1> QED BY <1>1, <1>2, <1>3, <1>4 DEF Exchanges, m

(* Where the turn task's call is, as the worker goes on with it. *)
CallPlace(a) ==
    /\ mbCall.at # "Stop" => a = mbCall.at
    /\ CallStands(a, mbActor.pending \ {"Stop"}, Carried(mbDown, NoX) \ {"Stop"}, Carried(mbUp, NoX),
                  Affirmed(mbUp, NoX), mbWorker.at, mbWorker.turn, mbWorker.execution)

(* No command reaches the worker at a point where its loop would refuse it. *)
LEMMA CallExpected ==
    ASSUME BridgeInv, mbWorker.at # "exited", mbDown # <<>>, NEW m, m = Head(mbDown), m.op \notin DownOps
    PROVE  ~Unexpected(m, mbWorker)
<1>1. m.op \in CallOps /\ m.op \in Carried(mbDown, NoX) /\ m.x = NoX BY CallHead
<1>2. m.op \in {"Abort", "Interrupt"} => "Send" \notin Carried(mbDown, NoX) BY <1>1, DownRead
<1>3. PICK a \in CallPlaces : CallPlace(a) BY DEF BridgeInv, CallsHold, CallsRun, CallPlace
<1>4. CASE m.op = "Stop" BY <1>4 DEF Unexpected
<1>5. CASE m.op # "Stop"
  <2>1. m.op \in Carried(mbDown, NoX) \ {"Stop"} BY <1>1, <1>5
  <2>2. m.op \in {"Abort", "Interrupt"} => "Send" \notin Carried(mbDown, NoX) \ {"Stop"} BY <1>2
  <2> DEFINE d == Carried(mbDown, NoX) \ {"Stop"}
             p == mbActor.pending \ {"Stop"}
             u == Carried(mbUp, NoX)
             uk == Affirmed(mbUp, NoX)
  <2>3. CallStands(a, p, d, u, uk, mbWorker.at, mbWorker.turn, mbWorker.execution) /\ m.op \in d
        /\ (m.op \in {"Abort", "Interrupt"} => "Send" \notin d)
    BY <1>3, <2>1, <2>2 DEF CallPlace
  <2> HIDE DEF d, p, u, uk
  <2>4. CASE m.op = "IsAlive" BY <2>3, <2>4 DEF CallStands, Unexpected
  <2>5. CASE m.op = "Prepare" BY <2>3, <2>5 DEF CallStands, Unexpected
  <2>6. CASE m.op = "Send" BY <2>3, <2>6 DEF CallStands, Unexpected
  <2>7. CASE m.op = "Finish" BY <2>3, <2>7 DEF CallStands, Unexpected
  <2>8. CASE m.op = "Abort" BY <2>3, <2>8 DEF CallStands, Unexpected
  <2>9. CASE m.op = "Interrupt" BY <2>3, <2>9 DEF CallStands, Unexpected
  <2> QED BY <1>1, <1>5, <2>4, <2>5, <2>6, <2>7, <2>8, <2>9 DEF CallOps
<1> QED BY <1>4, <1>5

(* The worker reads Send and enters the turn it prepared. *)
LEMMA CallReadSend ==
    ASSUME NEW a, NEW p, NEW d, NEW u, NEW uk, NEW at, NEW n, NEW e,
           CallStands(a, p, d, u, uk, at, n, e), "Send" \in d
    PROVE  CallStands(a, p, d \ {"Send"}, u, uk, "sending", n, "entered")
BY DEF CallStands

(* The worker reads Interrupt: a running send is cancelled first. *)
LEMMA CallReadInterrupt ==
    ASSUME NEW a, NEW p, NEW d, NEW u, NEW uk, NEW at, NEW n, NEW e, NEW v, NEW vk,
           CallStands(a, p, d, u, uk, at, n, e), "Interrupt" \in d, "Send" \notin d,
           v = IF at = "sending" THEN u \cup {"TurnCancelled"} ELSE u
    PROVE  CallStands(a, p, d \ {"Interrupt"}, v, vk, "interrupting", n, e)
BY DEF CallStands

(* The worker reads Abort: a running send is cancelled and the preparation forgotten. *)
LEMMA CallReadAbort ==
    ASSUME NEW a, NEW p, NEW d, NEW u, NEW uk, NEW at, NEW n, NEW e, NEW v, NEW vk,
           CallStands(a, p, d, u, uk, at, n, e), "Abort" \in d, "Send" \notin d,
           v = (IF at = "sending" THEN u \cup {"TurnCancelled"} ELSE u) \cup {"Aborted"}
    PROVE  CallStands(a, p, d \ {"Abort"}, v, vk, "loop", 0, "none")
BY DEF CallStands

(* The commands a worker answers at once: IsAlive, Prepare and Stop. *)
LEMMA CallReadOne ==
    ASSUME NEW a, NEW p, NEW d, NEW u, NEW uk, NEW at, NEW n, NEW e,
           CallStands(a, p, d, u, uk, at, n, e)
    PROVE  /\ "IsAlive" \in d => /\ u = {} /\ d = {"IsAlive"} /\ at = "loop"
                                 /\ \A vk : CallStands(a, p, {}, {"Alive"}, vk, at, n, e)
           /\ "Prepare" \in d => /\ u = {} /\ d = {"Prepare"} /\ at = "loop"
                                 /\ \A vk, k : k # 0 => CallStands(a, p, {}, {"Prepared"}, vk, at, k, "prepared")
                                 /\ \A vk : "Prepared" \notin vk => CallStands(a, p, {}, {"Prepared"}, vk, at, n, e)
           /\ "Finish" \in d => /\ u = {} /\ d = {"Finish"} /\ at = "loop"
                                /\ \A vk : CallStands(a, p, {}, {"Finished"}, vk, at, 0, "none")
                                /\ \A vk : "Finished" \notin vk => CallStands(a, p, {}, {"Finished"}, vk, at, n, e)
BY DEF CallStands

(* Writing one message is appending it. *)
LEMMA OneMore ==
    ASSUME NEW S, NEW s \in Seq(S), NEW e \in S
    PROVE  s \o <<e>> = Append(s, e)
OBVIOUS

(* The answers of the worker. *)
LEMMA AnswerAppended ==
    ASSUME NEW s \in Seq(UpMsgs), EventsInOrder(s), NEW op \in CallEvents \ {"Turn", "TurnCancelled"},
           NEW ok \in BOOLEAN, op \notin Carried(s, NoX)
    PROVE  LET t == s \o <<Ev(op, NoX, ok)>> IN
           /\ t \in Seq(UpMsgs) /\ EventsInOrder(t)
           /\ Carried(t, NoX) = Carried(s, NoX) \cup {op}
           /\ ~ok => op \notin Affirmed(t, NoX)
           /\ \A y : y # NoX => Carried(t, y) = Carried(s, y) /\ Affirmed(t, y) = Affirmed(s, y)
<1> DEFINE r == Append(s, Ev(op, NoX, ok))
<1>1. Ev(op, NoX, ok) \in UpMsgs BY DEF Ev, UpMsgs
<1>2. s \o <<Ev(op, NoX, ok)>> = r BY <1>1, OneMore
<1>3. /\ op \in CallEvents \cup UpOps /\ NoX \in Exchanges \cup {NoX}
      /\ op \in {"Turn", "TurnCancelled"} => Carried(s, NoX) = {}
  OBVIOUS
<1>4. /\ r \in Seq(UpMsgs) /\ EventsInOrder(r)
      /\ Carried(r, NoX) = Carried(s, NoX) \cup {op}
      /\ ~ok => Affirmed(r, NoX) = Affirmed(s, NoX)
      /\ \A y : y # NoX => Carried(r, y) = Carried(s, y) /\ Affirmed(r, y) = Affirmed(s, y)
  BY <1>3, UpWritten
<1>5. ~ok => op \notin Affirmed(r, NoX) BY <1>4, AffirmedCarried
<1> HIDE DEF r
<1> QED BY <1>2, <1>4, <1>5

(* The worker writes TurnCancelled when what it reads cuts a running send short. *)
LEMMA CancelWritten ==
    ASSUME BridgeInv, mbWorker.at # "exited",
           NEW s, s = (IF mbWorker.at = "sending" THEN Append(mbUp, Ev("TurnCancelled", NoX, TRUE)) ELSE mbUp)
    PROVE  /\ s \in Seq(UpMsgs) /\ EventsInOrder(s)
           /\ Carried(s, NoX) = (IF mbWorker.at = "sending" THEN Carried(mbUp, NoX) \cup {"TurnCancelled"}
                                 ELSE Carried(mbUp, NoX))
           /\ \A y : y # NoX => Carried(s, y) = Carried(mbUp, y) /\ Affirmed(s, y) = Affirmed(mbUp, y)
<1>1. mbUp \in Seq(UpMsgs) /\ EventsInOrder(mbUp) BY DEF BridgeInv, BridgeTypes, PipesHold
<1>2. mbWorker.at = "sending" => Carried(mbUp, NoX) = {} BY DEF BridgeInv, CallsHold, CallsRun, CallPlace, CallStands
<1>3. CASE mbWorker.at = "sending"
  <2>0. PICK k \in BOOLEAN : k = TRUE OBVIOUS
  <2>1. /\ "TurnCancelled" \in CallEvents \cup UpOps /\ NoX \in Exchanges \cup {NoX}
        /\ "TurnCancelled" \notin Carried(mbUp, NoX)
        /\ "TurnCancelled" \in {"Turn", "TurnCancelled"} => Carried(mbUp, NoX) = {}
        /\ s = Append(mbUp, Ev("TurnCancelled", NoX, k))
    BY <1>2, <1>3, <2>0 DEF CallEvents
  <2> DEFINE r == Append(mbUp, Ev("TurnCancelled", NoX, k))
  <2>2. /\ r \in Seq(UpMsgs) /\ EventsInOrder(r) /\ Carried(r, NoX) = Carried(mbUp, NoX) \cup {"TurnCancelled"}
        /\ \A y : y # NoX => Carried(r, y) = Carried(mbUp, y) /\ Affirmed(r, y) = Affirmed(mbUp, y)
    BY <1>1, <2>1, UpWritten
  <2>3. s = r BY <2>1
  <2> HIDE DEF r
  <2> QED BY <1>3, <2>2, <2>3
<1>4. CASE mbWorker.at # "sending" BY <1>1, <1>4
<1> QED BY <1>3, <1>4

(* The worker writes its answer, after the cancellation of a send if there was one. *)
LEMMA AnswerWritten ==
    ASSUME BridgeInv, mbWorker.at # "exited", NEW op \in CallEvents \ {"Turn", "TurnCancelled"}, NEW ok \in BOOLEAN,
           op \notin Carried(mbUp, NoX)
    PROVE  LET t == (IF mbWorker.at = "sending" THEN Append(mbUp, Ev("TurnCancelled", NoX, TRUE)) ELSE mbUp)
                      \o <<Ev(op, NoX, ok)>> IN
           /\ t \in Seq(UpMsgs) /\ EventsInOrder(t)
           /\ Carried(t, NoX) = (IF mbWorker.at = "sending" THEN Carried(mbUp, NoX) \cup {"TurnCancelled"}
                                 ELSE Carried(mbUp, NoX)) \cup {op}
           /\ ~ok => op \notin Affirmed(t, NoX)
           /\ \A y : y # NoX => Carried(t, y) = Carried(mbUp, y) /\ Affirmed(t, y) = Affirmed(mbUp, y)
<1> DEFINE s == IF mbWorker.at = "sending" THEN Append(mbUp, Ev("TurnCancelled", NoX, TRUE)) ELSE mbUp
<1>1. /\ s \in Seq(UpMsgs) /\ EventsInOrder(s)
      /\ Carried(s, NoX) = (IF mbWorker.at = "sending" THEN Carried(mbUp, NoX) \cup {"TurnCancelled"}
                            ELSE Carried(mbUp, NoX))
      /\ \A y : y # NoX => Carried(s, y) = Carried(mbUp, y) /\ Affirmed(s, y) = Affirmed(mbUp, y)
  BY CancelWritten
<1> DEFINE r == s \o <<Ev(op, NoX, ok)>>
<1> HIDE DEF s
<1>3. op \notin Carried(s, NoX) BY <1>1
<1>4. /\ r \in Seq(UpMsgs) /\ EventsInOrder(r)
      /\ Carried(r, NoX) = Carried(s, NoX) \cup {op}
      /\ ~ok => op \notin Affirmed(r, NoX)
      /\ \A y : y # NoX => Carried(r, y) = Carried(s, y) /\ Affirmed(r, y) = Affirmed(s, y)
  BY <1>1, <1>3, AnswerAppended
<1> HIDE DEF r
<1>5. /\ r \in Seq(UpMsgs) /\ EventsInOrder(r)
      /\ Carried(r, NoX) = (IF mbWorker.at = "sending" THEN Carried(mbUp, NoX) \cup {"TurnCancelled"}
                            ELSE Carried(mbUp, NoX)) \cup {op}
      /\ ~ok => op \notin Affirmed(r, NoX)
      /\ \A y : y # NoX => Carried(r, y) = Carried(mbUp, y) /\ Affirmed(r, y) = Affirmed(mbUp, y)
  BY <1>1, <1>4
<1> QED BY <1>5, Zenon DEF r, s

(* A request the worker dropped stands whatever was still travelling for it. *)
LEMMA DroppedStands ==
    ASSUME NEW i, NEW answered, NEW o, NEW d, NEW dk, NEW u, NEW uk,
           RequestStands(i, answered, o, d, dk, u, uk), i \in {"open", "answering"}
    PROVE  RequestStands("dropped", answered, o, d, dk, u, uk)
BY DEF RequestStands

(* When the worker's turn is cut short its open requests are dropped, and each still stands. *)
LEMMA TurnDroppedKept ==
    ASSUME BridgeInv, mbInner' \in {mbInner, TurnDropped(mbInner)}, UNCHANGED mbOuter,
           \A x \in Exchanges :
               /\ Carried(mbDown', x) = Carried(mbDown, x) /\ Affirmed(mbDown', x) = Affirmed(mbDown, x)
               /\ Carried(mbUp', x) = Carried(mbUp, x) /\ Affirmed(mbUp', x) = Affirmed(mbUp, x)
    PROVE  /\ mbInner' \in [Exchanges -> Inners]
           /\ \A x \in Exchanges :
                 /\ mbInner'[x].turn = mbInner[x].turn
                 /\ mbInner'[x].at = "none" <=> mbInner[x].at = "none"
                 /\ mbInner'[x].at = "begun" <=> mbInner[x].at = "begun"
           /\ \A x \in MbTools : ToolKept(x)'
           /\ \A x \in MbRequests : RequestKept(x)'
<1>1. mbInner \in [Exchanges -> Inners] BY DEF BridgeInv, BridgeTypes
<1>2. CASE mbInner' = mbInner BY <1>1, <1>2, ExchangesKept
<1>3. CASE mbInner' = TurnDropped(mbInner)
  BY <1>3, <1>1, NoXOut, DroppedStands DEF TurnDropped, Inners, InnerAts, Exchanges, BridgeInv, ToolKept,
     RequestKept
<1> QED BY <1>2, <1>3

(* A call that was read leaves the exchanges as they are. *)
LEMMA CallTaken ==
    ASSUME BridgeInv, mbWorker.at # "exited", mbDown # <<>>, Head(mbDown).op \notin DownOps,
           mbDown' = Tail(mbDown), UNCHANGED <<mbCall, mbActor, mbOuter, mbBroken>>,
           mbInner' \in {mbInner, TurnDropped(mbInner)}, mbWorker' \in Workers,
           mbUp' \in Seq(UpMsgs), EventsInOrder(mbUp'),
           \A y : y # NoX => Carried(mbUp', y) = Carried(mbUp, y) /\ Affirmed(mbUp', y) = Affirmed(mbUp, y),
           mbWorker'.executing = mbWorker.executing,
           mbWorker.executing # {} => mbWorker'.portal = mbWorker.portal,
           CallsHold'
    PROVE  BridgeInv'
BY CallHead, DownTaken, DownRead, NoXOut, TurnDroppedKept, PortalKept DEF BridgeInv, BridgeTypes, PipesHold

(* The calls hold as soon as the worker's new place fits where the turn task is. *)
LEMMA CallsGoOn ==
    ASSUME BridgeInv, mbWorker.at # "exited", UNCHANGED <<mbCall, mbActor>>,
           NEW a \in CallPlaces, CallPlace(a), mbWorker'.at # "exited",
           NEW op, op # "Stop", Carried(mbDown', NoX) = Carried(mbDown, NoX) \ {op},
           CallStands(a, mbActor.pending \ {"Stop"}, (Carried(mbDown, NoX) \ {"Stop"}) \ {op}, Carried(mbUp', NoX),
                      Affirmed(mbUp', NoX), mbWorker'.at, mbWorker'.turn, mbWorker'.execution)
    PROVE  CallsHold'
BY DEF BridgeInv, CallsHold, CallsRun, CallPlace

(* The worker reads a command of the call: every branch of its loop. *)
LEMMA WorkerReadsStep ==
    ASSUME BridgeInv, WorkerReads
    PROVE  BridgeInv'
<1>1. PICK m : m = Head(mbDown) OBVIOUS
<1>2. /\ mbWorker.at \in {"loop", "sending", "interrupting"} /\ mbWorker.at # "exited"
      /\ mbDown # <<>> /\ m.op \notin DownOps
  BY <1>1 DEF WorkerReads, DownOps
<1>3. /\ m.op \in CallOps /\ m.op \in Carried(mbDown, NoX) /\ m.x = NoX
      /\ m \in DownMsgs
      /\ m.op \in {"Abort", "Interrupt"} => "Send" \notin Carried(mbDown, NoX)
  BY <1>1, <1>2, CallHead, DownRead
<1>4. ~Unexpected(m, mbWorker) BY <1>1, <1>2, CallExpected
<1>5. /\ mbDown' = Tail(mbDown) /\ UNCHANGED <<mbCall, mbActor, mbOuter, mbBroken>>
      /\ \/ /\ m.op = "Send"
            /\ mbWorker' = [mbWorker EXCEPT !.at = "sending", !.execution = "entered"]
            /\ UNCHANGED <<mbUp, mbInner>>
         \/ /\ m.op = "Interrupt"
            /\ mbUp' = IF mbWorker.at = "sending" THEN Append(mbUp, Ev("TurnCancelled", NoX, TRUE)) ELSE mbUp
            /\ mbWorker' = [mbWorker EXCEPT !.at = "interrupting"]
            /\ mbInner' = TurnDropped(mbInner)
         \/ /\ m.op \notin {"Send", "Interrupt"} /\ Handles(m, mbWorker)
            /\ mbInner' = IF mbWorker.at = "sending" THEN TurnDropped(mbInner) ELSE mbInner
  BY <1>1, <1>4 DEF WorkerReads
<1>6. /\ Carried(mbDown', NoX) = Carried(mbDown, NoX) \ {m.op}
      /\ mbInner' \in {mbInner, TurnDropped(mbInner)}
  BY <1>1, <1>2, <1>5, DownTaken, <1>3
<1>7. /\ mbWorker \in Workers /\ mbUp \in Seq(UpMsgs) /\ EventsInOrder(mbUp)
      /\ PortalHolds /\ m.turn \in Nat /\ (m.op = "Prepare" => m.turn # 0)
  BY <1>3 DEF BridgeInv, BridgeTypes, PipesHold, DownMsgs
<1>8. PICK a \in CallPlaces : CallPlace(a) BY <1>2 DEF BridgeInv, CallsHold, CallsRun, CallPlace
<1>9. /\ Carried(mbUp, NoX) \subseteq CallEvents \ {"Stopped"} /\ mbActor.open
      /\ ~({"Turn", "TurnCancelled"} \subseteq Carried(mbUp, NoX))
  BY <1>2, CallPipes
<1> DEFINE p == mbActor.pending \ {"Stop"}
           d == Carried(mbDown, NoX) \ {"Stop"}
<1>10. /\ CallStands(a, p, d, Carried(mbUp, NoX), Affirmed(mbUp, NoX), mbWorker.at, mbWorker.turn, mbWorker.execution)
       /\ m.op # "Stop" => m.op \in d
       /\ m.op \in {"Abort", "Interrupt"} => "Send" \notin d
  BY <1>3, <1>8 DEF CallPlace
\* What is left to show of a call that was read.
<1>11. ASSUME mbWorker' \in Workers, mbUp' \in Seq(UpMsgs), EventsInOrder(mbUp'),
              \A y : y # NoX => Carried(mbUp', y) = Carried(mbUp, y) /\ Affirmed(mbUp', y) = Affirmed(mbUp, y),
              mbWorker'.executing = mbWorker.executing,
              mbWorker.executing # {} => mbWorker'.portal = mbWorker.portal,
              mbWorker'.at # "exited", m.op # "Stop",
              CallStands(a, p, d \ {m.op}, Carried(mbUp', NoX), Affirmed(mbUp', NoX), mbWorker'.at, mbWorker'.turn,
                         mbWorker'.execution)
       PROVE  BridgeInv'
  <2>1. CallsHold' BY <1>2, <1>5, <1>6, <1>8, <1>11, CallsGoOn
  <2> QED BY <1>1, <1>2, <1>5, <1>6, <1>11, <2>1, CallTaken
<1> HIDE DEF d, p
<1>12. CASE m.op = "Send"
  <2>1. mbWorker' = [mbWorker EXCEPT !.at = "sending", !.execution = "entered"] /\ UNCHANGED mbUp BY <1>5, <1>12
  <2>2. /\ mbWorker' \in Workers /\ mbWorker'.at = "sending" /\ mbWorker'.execution = "entered"
        /\ mbWorker'.turn = mbWorker.turn /\ mbWorker'.executing = mbWorker.executing
        /\ mbWorker'.portal = mbWorker.portal
    BY <1>7, <2>1 DEF Workers
  <2>3. CallStands(a, p, d \ {"Send"}, Carried(mbUp, NoX), Affirmed(mbUp, NoX), "sending", mbWorker.turn, "entered")
    BY <1>10, <1>12, CallReadSend
  <2> QED BY <1>7, <1>11, <1>12, <2>1, <2>2, <2>3
<1>13. CASE m.op = "Interrupt"
  <2>1. /\ mbUp' = IF mbWorker.at = "sending" THEN Append(mbUp, Ev("TurnCancelled", NoX, TRUE)) ELSE mbUp
        /\ mbWorker' = [mbWorker EXCEPT !.at = "interrupting"]
    BY <1>5, <1>13
  <2>2. /\ mbWorker' \in Workers /\ mbWorker'.at = "interrupting" /\ mbWorker'.execution = mbWorker.execution
        /\ mbWorker'.turn = mbWorker.turn /\ mbWorker'.executing = mbWorker.executing
        /\ mbWorker'.portal = mbWorker.portal
    BY <1>7, <2>1 DEF Workers
  <2>3. /\ mbUp' \in Seq(UpMsgs) /\ EventsInOrder(mbUp')
        /\ Carried(mbUp', NoX) = (IF mbWorker.at = "sending" THEN Carried(mbUp, NoX) \cup {"TurnCancelled"}
                                  ELSE Carried(mbUp, NoX))
        /\ \A y : y # NoX => Carried(mbUp', y) = Carried(mbUp, y) /\ Affirmed(mbUp', y) = Affirmed(mbUp, y)
    BY <1>2, <2>1, CancelWritten
  <2>4. CallStands(a, p, d \ {"Interrupt"}, Carried(mbUp', NoX), Affirmed(mbUp', NoX), "interrupting", mbWorker.turn,
                   mbWorker.execution)
    BY <1>10, <1>13, <2>3, CallReadInterrupt
  <2> QED BY <1>11, <1>13, <2>2, <2>3, <2>4
<1> DEFINE answer(op, ok) ==
              mbUp' = (IF mbWorker.at = "sending" THEN Append(mbUp, Ev("TurnCancelled", NoX, TRUE)) ELSE mbUp)
                      \o <<Ev(op, NoX, ok)>>
<1>14. ASSUME NEW op \in CallEvents \ {"Turn", "TurnCancelled"}, NEW ok \in BOOLEAN,
              op \notin Carried(mbUp, NoX), answer(op, ok)
       PROVE  /\ mbUp' \in Seq(UpMsgs) /\ EventsInOrder(mbUp')
              /\ Carried(mbUp', NoX) = (IF mbWorker.at = "sending" THEN Carried(mbUp, NoX) \cup {"TurnCancelled"}
                                        ELSE Carried(mbUp, NoX)) \cup {op}
              /\ ~ok => op \notin Affirmed(mbUp', NoX)
              /\ \A y : y # NoX => Carried(mbUp', y) = Carried(mbUp, y) /\ Affirmed(mbUp', y) = Affirmed(mbUp, y)
  <2> DEFINE r == (IF mbWorker.at = "sending" THEN Append(mbUp, Ev("TurnCancelled", NoX, TRUE)) ELSE mbUp)
                  \o <<Ev(op, NoX, ok)>>
  <2>1. mbUp' = r BY <1>14
  <2> HIDE DEF answer
  <2>2. /\ r \in Seq(UpMsgs) /\ EventsInOrder(r)
        /\ Carried(r, NoX) = (IF mbWorker.at = "sending" THEN Carried(mbUp, NoX) \cup {"TurnCancelled"}
                              ELSE Carried(mbUp, NoX)) \cup {op}
        /\ ~ok => op \notin Affirmed(r, NoX)
        /\ \A y : y # NoX => Carried(r, y) = Carried(mbUp, y) /\ Affirmed(r, y) = Affirmed(mbUp, y)
    BY <1>2, <1>14, AnswerWritten
  <2> HIDE DEF r
  <2> QED BY <2>1, <2>2
<1>15. PICK yes \in BOOLEAN, no \in BOOLEAN : yes = TRUE /\ no = FALSE OBVIOUS
<1>16. m.op \notin {"Send", "Interrupt"} => Handles(m, mbWorker) BY <1>5
<1>17. CASE m.op = "IsAlive"
  <2>1. answer("Alive", yes) /\ mbWorker' = mbWorker BY <1>15, <1>16, <1>17 DEF Handles
  <2>2. /\ Carried(mbUp, NoX) = {} /\ d = {"IsAlive"} /\ mbWorker.at = "loop"
        /\ \A vk : CallStands(a, p, {}, {"Alive"}, vk, mbWorker.at, mbWorker.turn, mbWorker.execution)
    BY <1>10, <1>17, CallReadOne
  <2> HIDE DEF answer
  <2>3. /\ mbUp' \in Seq(UpMsgs) /\ EventsInOrder(mbUp') /\ Carried(mbUp', NoX) = {"Alive"}
        /\ \A y : y # NoX => Carried(mbUp', y) = Carried(mbUp, y) /\ Affirmed(mbUp', y) = Affirmed(mbUp, y)
    BY <1>14, <2>1, <2>2 DEF CallEvents
  <2>4. d \ {m.op} = {} BY <1>17, <2>2
  <2> QED BY <1>7, <1>2, <1>11, <1>17, <2>1, <2>2, <2>3, <2>4
<1>18. CASE m.op = "Prepare"
  <2>1. /\ Carried(mbUp, NoX) = {} /\ d = {"Prepare"} /\ mbWorker.at = "loop"
        /\ \A vk, k : k # 0 => CallStands(a, p, {}, {"Prepared"}, vk, mbWorker.at, k, "prepared")
        /\ \A vk : "Prepared" \notin vk =>
                CallStands(a, p, {}, {"Prepared"}, vk, mbWorker.at, mbWorker.turn, mbWorker.execution)
    BY <1>10, <1>18, CallReadOne
  <2>2. d \ {m.op} = {} /\ "Prepared" \in CallEvents \ {"Turn", "TurnCancelled"} BY <1>18, <2>1 DEF CallEvents
  <2>3. CASE mbWorker.portal = 0
    <3>1. answer("Prepared", yes)
          /\ mbWorker' = [mbWorker EXCEPT !.turn = m.turn, !.portal = m.turn, !.execution = "prepared"]
      BY <1>15, <1>16, <1>18, <2>3 DEF Handles
    <3> HIDE DEF answer
    <3>2. /\ mbWorker' \in Workers /\ mbWorker'.at = mbWorker.at /\ mbWorker'.execution = "prepared"
          /\ mbWorker'.turn = m.turn /\ mbWorker'.executing = mbWorker.executing
      BY <1>7, <3>1 DEF Workers
    <3>3. mbWorker.executing = {} BY <1>7, <2>3 DEF PortalHolds, Workers, Exchanges
    <3>4. /\ mbUp' \in Seq(UpMsgs) /\ EventsInOrder(mbUp') /\ Carried(mbUp', NoX) = {"Prepared"}
          /\ \A y : y # NoX => Carried(mbUp', y) = Carried(mbUp, y) /\ Affirmed(mbUp', y) = Affirmed(mbUp, y)
      BY <1>14, <2>1, <2>2, <3>1
    <3>5. CallStands(a, p, {}, {"Prepared"}, Affirmed(mbUp', NoX), mbWorker.at, m.turn, "prepared")
      BY <1>7, <1>18, <2>1
    <3> QED BY <1>2, <1>11, <1>18, <2>2, <3>2, <3>3, <3>4, <3>5
  <2>4. CASE mbWorker.portal # 0
    <3>1. answer("Prepared", no) /\ mbWorker' = mbWorker BY <1>15, <1>16, <1>18, <2>4 DEF Handles
    <3> HIDE DEF answer
    <3>2. /\ mbUp' \in Seq(UpMsgs) /\ EventsInOrder(mbUp') /\ Carried(mbUp', NoX) = {"Prepared"}
          /\ "Prepared" \notin Affirmed(mbUp', NoX)
          /\ \A y : y # NoX => Carried(mbUp', y) = Carried(mbUp, y) /\ Affirmed(mbUp', y) = Affirmed(mbUp, y)
      BY <1>14, <1>15, <2>1, <2>2, <3>1
    <3>3. CallStands(a, p, {}, {"Prepared"}, Affirmed(mbUp', NoX), mbWorker.at, mbWorker.turn, mbWorker.execution)
      BY <2>1, <3>2
    <3> QED BY <1>2, <1>7, <1>11, <1>18, <2>2, <3>1, <3>2, <3>3
  <2> QED BY <2>3, <2>4
<1>19. CASE m.op = "Finish"
  <2>1. /\ Carried(mbUp, NoX) = {} /\ d = {"Finish"} /\ mbWorker.at = "loop"
        /\ \A vk : CallStands(a, p, {}, {"Finished"}, vk, mbWorker.at, 0, "none")
        /\ \A vk : "Finished" \notin vk =>
                CallStands(a, p, {}, {"Finished"}, vk, mbWorker.at, mbWorker.turn, mbWorker.execution)
    BY <1>10, <1>19, CallReadOne
  <2>2. d \ {m.op} = {} /\ "Finished" \in CallEvents \ {"Turn", "TurnCancelled"} BY <1>19, <2>1 DEF CallEvents
  <2>3. \/ /\ mbWorker.executing = {} /\ answer("Finished", yes)
           /\ mbWorker' = [mbWorker EXCEPT !.turn = 0, !.portal = 0, !.execution = "none"]
        \/ answer("Finished", no) /\ mbWorker' = mbWorker
    BY <1>15, <1>16, <1>19 DEF Handles
  <2> HIDE DEF answer
  <2>4. CASE /\ mbWorker.executing = {} /\ answer("Finished", yes)
             /\ mbWorker' = [mbWorker EXCEPT !.turn = 0, !.portal = 0, !.execution = "none"]
    <3>1. /\ mbWorker' \in Workers /\ mbWorker'.at = mbWorker.at /\ mbWorker'.execution = "none"
          /\ mbWorker'.turn = 0 /\ mbWorker'.executing = mbWorker.executing
      BY <1>7, <2>4 DEF Workers
    <3>2. /\ mbUp' \in Seq(UpMsgs) /\ EventsInOrder(mbUp') /\ Carried(mbUp', NoX) = {"Finished"}
          /\ \A y : y # NoX => Carried(mbUp', y) = Carried(mbUp, y) /\ Affirmed(mbUp', y) = Affirmed(mbUp, y)
      BY <1>14, <2>1, <2>2, <2>4
    <3>3. CallStands(a, p, {}, {"Finished"}, Affirmed(mbUp', NoX), mbWorker.at, 0, "none") BY <2>1
    <3> QED BY <1>2, <1>11, <1>19, <2>2, <2>4, <3>1, <3>2, <3>3
  <2>5. CASE answer("Finished", no) /\ mbWorker' = mbWorker
    <3>1. /\ mbUp' \in Seq(UpMsgs) /\ EventsInOrder(mbUp') /\ Carried(mbUp', NoX) = {"Finished"}
          /\ "Finished" \notin Affirmed(mbUp', NoX)
          /\ \A y : y # NoX => Carried(mbUp', y) = Carried(mbUp, y) /\ Affirmed(mbUp', y) = Affirmed(mbUp, y)
      BY <1>14, <1>15, <2>1, <2>2, <2>5
    <3>2. CallStands(a, p, {}, {"Finished"}, Affirmed(mbUp', NoX), mbWorker.at, mbWorker.turn, mbWorker.execution)
      BY <2>1, <3>1
    <3> QED BY <1>2, <1>7, <1>11, <1>19, <2>2, <2>5, <3>1, <3>2
  <2> QED BY <2>3, <2>4, <2>5
<1>20. CASE m.op = "Abort"
  <2>1. /\ answer("Aborted", yes)
        /\ mbWorker' = [PortalEnds(mbWorker) EXCEPT !.turn = 0, !.execution = "none", !.at = "loop"]
    BY <1>15, <1>16, <1>20 DEF Handles
  <2> HIDE DEF answer
  <2>2. /\ PortalEnds(mbWorker) \in Workers /\ PortalEnds(mbWorker).executing = mbWorker.executing
        /\ mbWorker.executing # {} => PortalEnds(mbWorker).portal = mbWorker.portal
    <3>1. PICK k \in Nat : k = IF mbWorker.executing = {} THEN 0 ELSE mbWorker.portal BY <1>7 DEF Workers
    <3>2. PICK c \in BOOLEAN : c = (mbWorker.executing # {}) OBVIOUS
    <3>3. PortalEnds(mbWorker) = [mbWorker EXCEPT !.portal = k, !.closing = c]
      BY <1>7, <3>1, <3>2 DEF PortalEnds, Workers
    <3> QED BY <1>7, <3>1, <3>3 DEF Workers
  <2>3. /\ mbWorker' \in Workers /\ mbWorker'.at = "loop" /\ mbWorker'.execution = "none"
        /\ mbWorker'.turn = 0 /\ mbWorker'.executing = mbWorker.executing
        /\ mbWorker.executing # {} => mbWorker'.portal = mbWorker.portal
    BY <2>1, <2>2 DEF Workers
  <2>4. "Aborted" \notin Carried(mbUp, NoX) /\ "Aborted" \in CallEvents \ {"Turn", "TurnCancelled"}
    BY <1>10, <1>20 DEF CallStands, CallEvents
  <2>5. /\ mbUp' \in Seq(UpMsgs) /\ EventsInOrder(mbUp')
        /\ Carried(mbUp', NoX) = (IF mbWorker.at = "sending" THEN Carried(mbUp, NoX) \cup {"TurnCancelled"}
                                  ELSE Carried(mbUp, NoX)) \cup {"Aborted"}
        /\ \A y : y # NoX => Carried(mbUp', y) = Carried(mbUp, y) /\ Affirmed(mbUp', y) = Affirmed(mbUp, y)
    BY <1>14, <2>1, <2>4
  <2>6. CallStands(a, p, d \ {"Abort"}, Carried(mbUp', NoX), Affirmed(mbUp', NoX), "loop", 0, "none")
    BY <1>10, <1>20, <2>5, CallReadAbort
  <2> QED BY <1>11, <1>20, <2>3, <2>5, <2>6
<1>21. CASE m.op = "Stop"
  <2>1. answer("Stopped", yes) /\ mbWorker' = [mbWorker EXCEPT !.at = "exited", !.turn = 0]
    BY <1>15, <1>16, <1>21 DEF Handles
  <2> HIDE DEF answer
  <2>2. /\ mbWorker' \in Workers /\ mbWorker'.at = "exited" /\ mbWorker'.executing = mbWorker.executing
        /\ mbWorker'.portal = mbWorker.portal
    BY <1>7, <2>1 DEF Workers
  <2>3. "Stopped" \notin Carried(mbUp, NoX) /\ "Stopped" \in CallEvents \ {"Turn", "TurnCancelled"}
    BY <1>9 DEF CallEvents
  <2>4. /\ mbUp' \in Seq(UpMsgs) /\ EventsInOrder(mbUp')
        /\ Carried(mbUp', NoX) = (IF mbWorker.at = "sending" THEN Carried(mbUp, NoX) \cup {"TurnCancelled"}
                                  ELSE Carried(mbUp, NoX)) \cup {"Stopped"}
        /\ \A y : y # NoX => Carried(mbUp', y) = Carried(mbUp, y) /\ Affirmed(mbUp', y) = Affirmed(mbUp, y)
    BY <1>14, <2>1, <2>3
  <2>5. CallsHold'
    <3>1. mbCall.at = "Stop" /\ "Stop" \in mbActor.pending BY <1>2, <1>3, <1>21 DEF BridgeInv, CallsHold, CallsRun
    <3>2. mbWorker.at = "sending" => Carried(mbUp, NoX) = {} /\ "Send" \in mbActor.pending BY <1>10 DEF CallStands, p
    <3>3. \A op \in Carried(mbUp, NoX) :
             /\ op = "Alive" => "IsAlive" \in mbActor.pending
             /\ op = "Prepared" => "Prepare" \in mbActor.pending
             /\ op \in {"Turn", "TurnCancelled"} => "Send" \in mbActor.pending
             /\ op = "Interrupted" => "Interrupt" \in mbActor.pending
             /\ op = "Finished" => "Finish" \in mbActor.pending
             /\ op = "Aborted" => "Abort" \in mbActor.pending
             /\ op = "Stopped" => "Stop" \in mbActor.pending
      <4> DEFINE u == Carried(mbUp, NoX)
      <4>1. /\ "Alive" \in u => "IsAlive" \in p
            /\ "Prepared" \in u => "Prepare" \in p
            /\ "Turn" \in u \/ "TurnCancelled" \in u => "Send" \in p
            /\ "Interrupted" \in u => "Interrupt" \in p
            /\ "Finished" \in u => "Finish" \in p
            /\ "Aborted" \in u => "Abort" \in p
        BY <1>10 DEF CallStands
      <4> QED BY <3>1, <4>1 DEF p
    <3>4. CallsEnd' BY <1>5, <1>9, <2>4, <3>1, <3>2, <3>3 DEF CallsEnd, CallEvents
    <3> QED BY <2>2, <3>4 DEF CallsHold
  <2> QED BY <1>1, <1>2, <1>5, <1>6, <2>2, <2>4, <2>5, CallTaken
<1> QED BY <1>3, <1>12, <1>13, <1>17, <1>18, <1>19, <1>20, <1>21 DEF CallOps

(* The room's answers to an exchange. *)
LEMMA OuterReplies ==
    ASSUME BridgeInv, NEW x \in Exchanges, NEW from, NEW to, OuterStep(x, from, to),
           NEW op \in DownOps, NEW ok \in BOOLEAN, Replies(op, x, ok),
           op \notin Carried(mbDown, x),
           op = "RequestOpened" => "Resolution" \notin Carried(mbDown, x),
           op = "Resolution" => "Receipt" \notin Carried(mbDown, x),
           NEW dk, dk = (IF ok THEN Affirmed(mbDown, x) \cup {op} ELSE Affirmed(mbDown, x)),
           x \in MbTools => ToolStands(mbInner[x].at, to, Carried(mbDown, x) \cup {op}, dk,
                                      Carried(mbUp, x), Affirmed(mbUp, x)),
           x \in MbRequests => RequestStands(mbInner[x].at, mbInner[x].answered, to, Carried(mbDown, x) \cup {op}, dk,
                                            Carried(mbUp, x), Affirmed(mbUp, x))
    PROVE  BridgeInv'
<1>1. /\ mbOuter' = [mbOuter EXCEPT ![x] = to]
      /\ UNCHANGED <<mbCall, mbActor, mbUp, mbWorker, mbInner, mbBroken>>
  BY DEF OuterStep
<1>2. DOMAIN mbOuter' = Exchanges /\ mbOuter'[x] = to /\ \A y \in Exchanges : y # x => mbOuter'[y] = mbOuter[y]
  BY <1>1 DEF BridgeInv, BridgeTypes
<1>3. /\ mbDown' \in Seq(DownMsgs) /\ PipesHold'
      /\ Carried(mbDown', x) = Carried(mbDown, x) \cup {op}
      /\ Affirmed(mbDown', x) = dk
      /\ \A y : y # x => Carried(mbDown', y) = Carried(mbDown, y) /\ Affirmed(mbDown', y) = Affirmed(mbDown, y)
  <2>1. /\ mbDown' \in Seq(DownMsgs) /\ PipesHold'
        /\ Carried(mbDown', x) = Carried(mbDown, x) \cup {op}
        /\ ok => Affirmed(mbDown', x) = Affirmed(mbDown, x) \cup {op}
        /\ ~ok => Affirmed(mbDown', x) = Affirmed(mbDown, x)
        /\ \A y : y # x => Carried(mbDown', y) = Carried(mbDown, y) /\ Affirmed(mbDown', y) = Affirmed(mbDown, y)
    BY <1>1, DownReplied
  <2> QED BY <2>1
<1>4. x \in MbTools => ToolKept(x)' BY <1>1, <1>2, <1>3 DEF ToolKept
<1>5. x \in MbRequests => RequestKept(x)' BY <1>1, <1>2, <1>3 DEF RequestKept
<1>6. (\A y \in MbTools : ToolKept(y)') /\ (\A y \in MbRequests : RequestKept(y)')
  BY <1>1, <1>2, <1>3, <1>4, <1>5, OthersKept
<1>7. CallsHold' BY <1>1, <1>3, NoXOut, CallsKept
<1>8. PortalHolds' BY <1>1, PortalKept
<1>9. BridgeTypes' /\ ~mbBroken' BY <1>1, <1>2, <1>3 DEF BridgeInv, BridgeTypes
<1> QED BY <1>3, <1>6, <1>7, <1>8, <1>9 DEF BridgeInv

(* The room takes a tool call and asks the worker for its reservation. *)
LEMMA RoomBeginsStep ==
    ASSUME BridgeInv, NEW x \in Exchanges, RoomBegins(x)
    PROVE  BridgeInv'
<1>1. PICK ok \in BOOLEAN : Replies("ToolBegin", x, ok) /\ ok = TRUE BY DEF RoomBegins
<1>2. x \in MbTools /\ x \notin MbRequests /\ OuterStep(x, {"submitted"}, "beginning") /\ mbOuter[x] \in {"submitted"}
  BY NoXOut DEF RoomBegins, OuterStep
<1>3. ToolKept(x) /\ "ToolBegin" \in DownOps BY <1>2 DEF BridgeInv, DownOps
<1>4. Carried(mbDown, x) = {} /\ Affirmed(mbDown, x) = {} BY <1>2, <1>3, AffirmedCarried DEF ToolKept, ToolStands
<1> DEFINE dk == IF ok THEN Affirmed(mbDown, x) \cup {"ToolBegin"} ELSE Affirmed(mbDown, x)
<1>5. Carried(mbDown, x) \cup {"ToolBegin"} = {"ToolBegin"} /\ (~ok => dk = {}) BY <1>4
<1> HIDE DEF dk
<1>6. ToolStands(mbInner[x].at, "beginning", Carried(mbDown, x) \cup {"ToolBegin"}, dk, Carried(mbUp, x), Affirmed(mbUp, x))
  BY <1>1, <1>2, <1>3, <1>5 DEF ToolKept, ToolStands
<1> QED BY <1>1, <1>2, <1>3, <1>4, <1>6, OuterReplies DEF dk

(* The room executes the call and writes its result down. *)
LEMMA RoomExecutesStep ==
    ASSUME BridgeInv, NEW x \in Exchanges, RoomExecutes(x)
    PROVE  BridgeInv'
<1>1. PICK ok \in BOOLEAN : Replies("ToolResult", x, ok) BY DEF RoomExecutes
<1>2. x \in MbTools /\ x \notin MbRequests /\ OuterStep(x, {"executing"}, "done") /\ mbOuter[x] \in {"executing"}
  BY NoXOut DEF RoomExecutes, OuterStep
<1>3. ToolKept(x) /\ "ToolResult" \in DownOps BY <1>2 DEF BridgeInv, DownOps
<1>4. Carried(mbDown, x) = {} /\ Affirmed(mbDown, x) = {} BY <1>2, <1>3, AffirmedCarried DEF ToolKept, ToolStands
<1> DEFINE dk == IF ok THEN Affirmed(mbDown, x) \cup {"ToolResult"} ELSE Affirmed(mbDown, x)
<1>5. Carried(mbDown, x) \cup {"ToolResult"} = {"ToolResult"} /\ (~ok => dk = {}) BY <1>4
<1> HIDE DEF dk
<1>6. ToolStands(mbInner[x].at, "done", Carried(mbDown, x) \cup {"ToolResult"}, dk, Carried(mbUp, x), Affirmed(mbUp, x))
  BY <1>1, <1>2, <1>3, <1>5 DEF ToolKept, ToolStands
<1> QED BY <1>1, <1>2, <1>3, <1>4, <1>6, OuterReplies DEF dk

(* The room refuses the call. *)
LEMMA RoomRefusesStep ==
    ASSUME BridgeInv, NEW x \in Exchanges, RoomRefuses(x)
    PROVE  BridgeInv'
<1>1. PICK ok \in BOOLEAN : Replies("ToolResult", x, ok) /\ ok = FALSE BY DEF RoomRefuses
<1>2. x \in MbTools /\ x \notin MbRequests /\ OuterStep(x, {"submitted", "refused"}, "done") /\ mbOuter[x] \in {"submitted", "refused"}
  BY NoXOut DEF RoomRefuses, OuterStep
<1>3. ToolKept(x) /\ "ToolResult" \in DownOps BY <1>2 DEF BridgeInv, DownOps
<1>4. Carried(mbDown, x) = {} /\ Affirmed(mbDown, x) = {} BY <1>2, <1>3, AffirmedCarried DEF ToolKept, ToolStands
<1> DEFINE dk == IF ok THEN Affirmed(mbDown, x) \cup {"ToolResult"} ELSE Affirmed(mbDown, x)
<1>5. Carried(mbDown, x) \cup {"ToolResult"} = {"ToolResult"} /\ (~ok => dk = {}) BY <1>4
<1> HIDE DEF dk
<1>6. ToolStands(mbInner[x].at, "done", Carried(mbDown, x) \cup {"ToolResult"}, dk, Carried(mbUp, x), Affirmed(mbUp, x))
  BY <1>1, <1>2, <1>3, <1>5 DEF ToolKept, ToolStands
<1> QED BY <1>1, <1>2, <1>3, <1>4, <1>6, OuterReplies DEF dk

(* The room opens the request. *)
LEMMA RequestOpensStep ==
    ASSUME BridgeInv, NEW x \in Exchanges, RequestOpens(x)
    PROVE  BridgeInv'
<1>1. PICK ok \in BOOLEAN : Replies("RequestOpened", x, ok) /\ ok = TRUE BY DEF RequestOpens
<1>2. x \in MbRequests /\ x \notin MbTools /\ OuterStep(x, {"submitted"}, "waiting") /\ mbOuter[x] \in {"submitted"}
  BY NoXOut DEF RequestOpens, OuterStep
<1>3. RequestKept(x) /\ "RequestOpened" \in DownOps BY <1>2 DEF BridgeInv, DownOps
<1> DEFINE i == mbInner[x].at
           n == mbInner[x].answered
           o == mbOuter[x]
           d == Carried(mbDown, x)
           dk == Affirmed(mbDown, x)
           u == Carried(mbUp, x)
           uk == Affirmed(mbUp, x)
<1>4. RequestStands(i, n, o, d, dk, u, uk) /\ o \in {"submitted"} /\ dk \subseteq d
  BY <1>2, <1>3, AffirmedCarried DEF RequestKept
<1> HIDE DEF i, n, o, d, dk, u, uk
<1>5. i = "asked" /\ d = {} /\ u = {} /\ ~n /\ dk = {} BY <1>4 DEF RequestStands
<1>6. d \cup {"RequestOpened"} = {"RequestOpened"} /\ dk \cup {"RequestOpened"} = {"RequestOpened"} BY <1>5
<1>7. RequestStands(i, n, "waiting", d \cup {"RequestOpened"}, dk \cup {"RequestOpened"}, u, uk)
  BY <1>5, <1>6 DEF RequestStands
<1>8. /\ "RequestOpened" \notin d /\ "Resolution" \notin d
      /\ "Receipt" \notin d
  BY <1>5
<1>9. RequestStands(i, n, "waiting", d \cup {"RequestOpened"}, IF ok THEN dk \cup {"RequestOpened"} ELSE dk, u, uk)
  BY <1>1, <1>7
<1> QED BY <1>1, <1>2, <1>3, <1>8, <1>9, OuterReplies DEF i, n, o, d, dk, u, uk

(* The room refuses to open the request. *)
LEMMA RequestRefusedStep ==
    ASSUME BridgeInv, NEW x \in Exchanges, RequestRefused(x)
    PROVE  BridgeInv'
<1>1. PICK ok \in BOOLEAN : Replies("RequestOpened", x, ok) /\ ok = FALSE BY DEF RequestRefused
<1>2. x \in MbRequests /\ x \notin MbTools /\ OuterStep(x, {"submitted", "refused"}, "done") /\ mbOuter[x] \in {"submitted", "refused"}
  BY NoXOut DEF RequestRefused, OuterStep
<1>3. RequestKept(x) /\ "RequestOpened" \in DownOps BY <1>2 DEF BridgeInv, DownOps
<1> DEFINE i == mbInner[x].at
           n == mbInner[x].answered
           o == mbOuter[x]
           d == Carried(mbDown, x)
           dk == Affirmed(mbDown, x)
           u == Carried(mbUp, x)
           uk == Affirmed(mbUp, x)
<1>4. RequestStands(i, n, o, d, dk, u, uk) /\ o \in {"submitted", "refused"} /\ dk \subseteq d
  BY <1>2, <1>3, AffirmedCarried DEF RequestKept
<1> HIDE DEF i, n, o, d, dk, u, uk
<1>5. i = "asked" /\ d = {} /\ u = {} /\ ~n /\ dk = {} BY <1>4 DEF RequestStands
<1>6. d \cup {"RequestOpened"} = {"RequestOpened"} /\ dk = {} BY <1>5
<1>7. RequestStands(i, n, "done", d \cup {"RequestOpened"}, dk, u, uk) BY <1>5, <1>6 DEF RequestStands
<1>8. /\ "RequestOpened" \notin d /\ "Resolution" \notin d
      /\ "Receipt" \notin d
  BY <1>5
<1>9. RequestStands(i, n, "done", d \cup {"RequestOpened"}, IF ok THEN dk \cup {"RequestOpened"} ELSE dk, u, uk)
  BY <1>1, <1>7
<1> QED BY <1>1, <1>2, <1>3, <1>8, <1>9, OuterReplies DEF i, n, o, d, dk, u, uk

(* The room resolves an open request with an answer. *)
LEMMA RoomResolvesStep ==
    ASSUME BridgeInv, NEW x \in Exchanges, RoomResolves(x)
    PROVE  BridgeInv'
<1>1. PICK ok \in BOOLEAN : Replies("Resolution", x, ok) /\ ok = TRUE BY DEF RoomResolves
<1>2. x \in MbRequests /\ x \notin MbTools /\ OuterStep(x, {"waiting"}, "resolved") /\ mbOuter[x] \in {"waiting"}
  BY NoXOut DEF RoomResolves, OuterStep
<1>3. RequestKept(x) /\ "Resolution" \in DownOps BY <1>2 DEF BridgeInv, DownOps
<1> DEFINE i == mbInner[x].at
           n == mbInner[x].answered
           o == mbOuter[x]
           d == Carried(mbDown, x)
           dk == Affirmed(mbDown, x)
           u == Carried(mbUp, x)
           uk == Affirmed(mbUp, x)
<1>4. RequestStands(i, n, o, d, dk, u, uk) /\ o \in {"waiting"} /\ dk \subseteq d
  BY <1>2, <1>3, AffirmedCarried DEF RequestKept
<1> HIDE DEF i, n, o, d, dk, u, uk
<1>5. \/ i \in {"open", "dropped"} /\ d = {} /\ dk = {} /\ u = {} /\ ~n
      \/ i = "asked" /\ d = {"RequestOpened"} /\ dk = {"RequestOpened"} /\ u = {} /\ ~n
      \/ i = "reported" /\ d = {} /\ u = {"Delivered"} /\ uk = {} /\ ~n
  BY <1>4 DEF RequestStands
<1>6. \/ i \in {"open", "dropped"} /\ d \cup {"Resolution"} = {"Resolution"} /\ dk \cup {"Resolution"} = {"Resolution"} /\ u = {} /\ ~n
      \/ i = "asked" /\ d \cup {"Resolution"} = {"RequestOpened", "Resolution"} /\ dk \cup {"Resolution"} = {"RequestOpened", "Resolution"} /\ u = {} /\ ~n
      \/ i = "reported" /\ d \cup {"Resolution"} = {"Resolution"} /\ u = {"Delivered"} /\ uk = {} /\ ~n
  BY <1>5
<1>7. RequestStands(i, n, "resolved", d \cup {"Resolution"}, dk \cup {"Resolution"}, u, uk) BY <1>6 DEF RequestStands
<1>8. /\ "Resolution" \notin d
      /\ "Receipt" \notin d
  BY <1>5
<1>9. RequestStands(i, n, "resolved", d \cup {"Resolution"}, IF ok THEN dk \cup {"Resolution"} ELSE dk, u, uk)
  BY <1>1, <1>7
<1> QED BY <1>1, <1>2, <1>3, <1>8, <1>9, OuterReplies DEF i, n, o, d, dk, u, uk

(* The room closes an open request without one. *)
LEMMA RoomClosesStep ==
    ASSUME BridgeInv, NEW x \in Exchanges, RoomCloses(x)
    PROVE  BridgeInv'
<1>1. PICK ok \in BOOLEAN : Replies("Resolution", x, ok) /\ ok = FALSE BY DEF RoomCloses
<1>2. x \in MbRequests /\ x \notin MbTools /\ OuterStep(x, {"waiting"}, "closed") /\ mbOuter[x] \in {"waiting"}
  BY NoXOut DEF RoomCloses, OuterStep
<1>3. RequestKept(x) /\ "Resolution" \in DownOps BY <1>2 DEF BridgeInv, DownOps
<1> DEFINE i == mbInner[x].at
           n == mbInner[x].answered
           o == mbOuter[x]
           d == Carried(mbDown, x)
           dk == Affirmed(mbDown, x)
           u == Carried(mbUp, x)
           uk == Affirmed(mbUp, x)
<1>4. RequestStands(i, n, o, d, dk, u, uk) /\ o \in {"waiting"} /\ dk \subseteq d
  BY <1>2, <1>3, AffirmedCarried DEF RequestKept
<1> HIDE DEF i, n, o, d, dk, u, uk
<1>5. \/ i \in {"open", "dropped"} /\ d = {} /\ dk = {} /\ u = {} /\ ~n
      \/ i = "asked" /\ d = {"RequestOpened"} /\ dk = {"RequestOpened"} /\ u = {} /\ ~n
      \/ i = "reported" /\ d = {} /\ u = {"Delivered"} /\ uk = {} /\ ~n
  BY <1>4 DEF RequestStands
<1>6. \/ i \in {"open", "dropped"} /\ d \cup {"Resolution"} = {"Resolution"} /\ dk = {} /\ u = {} /\ ~n
      \/ i = "asked" /\ d \cup {"Resolution"} = {"RequestOpened", "Resolution"} /\ dk = {"RequestOpened"} /\ u = {} /\ ~n
      \/ i = "reported" /\ d \cup {"Resolution"} = {"Resolution"} /\ u = {"Delivered"} /\ uk = {} /\ ~n
  BY <1>5
<1>7. RequestStands(i, n, "closed", d \cup {"Resolution"}, dk, u, uk) BY <1>6 DEF RequestStands
<1>8. /\ "Resolution" \notin d
      /\ "Receipt" \notin d
  BY <1>5
<1>9. RequestStands(i, n, "closed", d \cup {"Resolution"}, IF ok THEN dk \cup {"Resolution"} ELSE dk, u, uk)
  BY <1>1, <1>7
<1> QED BY <1>1, <1>2, <1>3, <1>8, <1>9, OuterReplies DEF i, n, o, d, dk, u, uk

(* The room writes its receipt of the delivery. *)
LEMMA RoomReceiptsStep ==
    ASSUME BridgeInv, NEW x \in Exchanges, RoomReceipts(x)
    PROVE  BridgeInv'
<1>1. PICK ok \in BOOLEAN : Replies("Receipt", x, ok) /\ ok = TRUE BY DEF RoomReceipts
<1>2. x \in MbRequests /\ x \notin MbTools /\ OuterStep(x, {"completing"}, "done") /\ mbOuter[x] \in {"completing"}
  BY NoXOut DEF RoomReceipts, OuterStep
<1>3. RequestKept(x) /\ "Receipt" \in DownOps BY <1>2 DEF BridgeInv, DownOps
<1> DEFINE i == mbInner[x].at
           n == mbInner[x].answered
           o == mbOuter[x]
           d == Carried(mbDown, x)
           dk == Affirmed(mbDown, x)
           u == Carried(mbUp, x)
           uk == Affirmed(mbUp, x)
<1>4. RequestStands(i, n, o, d, dk, u, uk) /\ o \in {"completing"} /\ dk \subseteq d
  BY <1>2, <1>3, AffirmedCarried DEF RequestKept
<1> HIDE DEF i, n, o, d, dk, u, uk
<1>5. \/ i = "reported" /\ d = {} /\ u = {}
      \/ i = "reported" /\ d = {"Resolution"} /\ u = {} /\ ~n
  BY <1>4 DEF RequestStands
<1>6. \/ i = "reported" /\ d \cup {"Receipt"} = {"Receipt"} /\ u = {}
      \/ i = "reported" /\ d \cup {"Receipt"} = {"Resolution", "Receipt"} /\ u = {} /\ ~n
  BY <1>5
<1>7. RequestStands(i, n, "done", d \cup {"Receipt"}, dk \cup {"Receipt"}, u, uk) BY <1>6 DEF RequestStands
<1>8. /\ "Receipt" \notin d
      /\ "Receipt" \notin d
  BY <1>5
<1>9. RequestStands(i, n, "done", d \cup {"Receipt"}, IF ok THEN dk \cup {"Receipt"} ELSE dk, u, uk) BY <1>1, <1>7
<1> QED BY <1>1, <1>2, <1>3, <1>8, <1>9, OuterReplies DEF i, n, o, d, dk, u, uk

(* The worker reports that the answer reached the agent, and waits for the receipt. *)
LEMMA ReportDeliveredStep ==
    ASSUME BridgeInv, NEW x \in Exchanges, ReportDelivered(x)
    PROVE  BridgeInv'
<1>1. PICK ok \in BOOLEAN : (ok => mbInner[x].at = "answering") /\ mbUp' = Append(mbUp, Ev("Delivered", x, ok))
  BY DEF ReportDelivered, Up
<1>2. /\ mbInner[x].at \in {"answering", "dropped"} /\ mbInner' = [mbInner EXCEPT ![x].at = "reported"]
      /\ UNCHANGED <<mbCall, mbActor, mbDown, mbWorker, mbOuter, mbBroken>>
  BY DEF ReportDelivered
<1>3. mbInner \in [Exchanges -> Inners] /\ mbUp \in Seq(UpMsgs) /\ EventsInOrder(mbUp)
  BY DEF BridgeInv, BridgeTypes, PipesHold
<1>4. /\ mbInner' \in [Exchanges -> Inners] /\ mbInner'[x].at = "reported"
      /\ mbInner'[x].answered = mbInner[x].answered
      /\ \A y \in Exchanges : y # x => mbInner'[y] = mbInner[y]
      /\ \A y \in Exchanges : mbInner'[y].turn = mbInner[y].turn
  BY <1>2, <1>3 DEF Inners, InnerAts
<1>5. x \in MbRequests /\ x \notin MbTools /\ RequestKept(x) BY <1>2 DEF BridgeInv, ToolKept, ToolStands, Exchanges
<1> DEFINE i == mbInner[x].at
           n == mbInner[x].answered
           o == mbOuter[x]
           d == Carried(mbDown, x)
           dk == Affirmed(mbDown, x)
           u == Carried(mbUp, x)
           uk == Affirmed(mbUp, x)
<1>6. RequestStands(i, n, o, d, dk, u, uk) /\ uk \subseteq u /\ i \in {"answering", "dropped"}
      /\ (ok => i = "answering")
  BY <1>1, <1>2, <1>5, AffirmedCarried DEF RequestKept
<1> HIDE DEF i, n, o, d, dk, u, uk
<1>7. /\ u = {} /\ uk = {}
      /\ \/ n /\ d = {} /\ o = "resolved"
         \/ n /\ d = {} /\ o = "closed" /\ ~ok
         \/ ~n /\ d = {} /\ o = "waiting" /\ ~ok
         \/ ~n /\ d = {"Resolution"} /\ o \in {"resolved", "closed"} /\ ~ok
  BY <1>6 DEF RequestStands
<1>8. /\ "Delivered" \in CallEvents \cup UpOps /\ x \in Exchanges \cup {NoX}
      /\ "Delivered" \notin Carried(mbUp, x)
      /\ "Delivered" \in {"Turn", "TurnCancelled"} => Carried(mbUp, x) = {}
  BY <1>7 DEF UpOps, u
<1>9. /\ mbUp' \in Seq(UpMsgs) /\ EventsInOrder(mbUp')
      /\ Carried(mbUp', x) = u \cup {"Delivered"}
      /\ ~ok => Affirmed(mbUp', x) = uk
      /\ \A y : y # x => Carried(mbUp', y) = Carried(mbUp, y) /\ Affirmed(mbUp', y) = Affirmed(mbUp, y)
  BY <1>1, <1>3, <1>8, UpWritten DEF u, uk
<1>10. Carried(mbUp', x) = {"Delivered"} /\ (~ok => Affirmed(mbUp', x) = {}) BY <1>7, <1>9
<1>11. RequestStands("reported", n, o, d, dk, {"Delivered"}, Affirmed(mbUp', x)) BY <1>7, <1>10 DEF RequestStands
<1>12. RequestKept(x)' BY <1>2, <1>4, <1>10, <1>11 DEF RequestKept, n, o, d, dk
<1>13. (\A y \in MbTools : ToolKept(y)') /\ (\A y \in MbRequests : RequestKept(y)')
  BY <1>2, <1>4, <1>5, <1>9, <1>12, OthersKept
<1>14. CallsHold' BY <1>2, <1>9, NoXOut, CallsKept
<1>15. PortalHolds' BY <1>2, <1>4, PortalKept
<1>16. BridgeTypes' /\ ~mbBroken' /\ PipesHold' BY <1>2, <1>4, <1>9 DEF BridgeInv, BridgeTypes, PipesHold
<1> QED BY <1>13, <1>14, <1>15, <1>16 DEF BridgeInv

(* The outer portal reads a tool call, a request or a delivery from the worker. *)
LEMMA OuterReadsStep ==
    ASSUME BridgeInv, OuterReads
    PROVE  BridgeInv'
<1>1. PICK m : m = Head(mbUp) OBVIOUS
<1>2. PICK x : x = m.x OBVIOUS
<1>3. mbUp # <<>> /\ x # NoX BY <1>1, <1>2 DEF OuterReads
<1>4. m \in UpMsgs /\ m.op \in Carried(mbUp, x) /\ (m.ok <=> m.op \in Affirmed(mbUp, x))
  BY <1>1, <1>2, <1>3, OpsRead DEF BridgeInv, BridgeTypes, PipesHold, EventsInOrder
<1>5. x \in Exchanges BY <1>2, <1>3, <1>4 DEF UpMsgs
<1> DEFINE i == mbInner[x].at
           n == mbInner[x].answered
           o == mbOuter[x]
           d == Carried(mbDown, x)
           dk == Affirmed(mbDown, x)
           u == Carried(mbUp, x)
           uk == Affirmed(mbUp, x)
           to == CASE m.op \in {"Tool", "Request"} -> (IF mbActor.context = 0 THEN "refused" ELSE "submitted")
                   [] m.op = "ToolBegun" -> (IF m.ok THEN "executing" ELSE "refused")
                   [] m.op = "Delivered" -> "completing"
           fits == \/ m.op \in {"Tool", "Request"} /\ o = "none"
                   \/ m.op = "ToolBegun" /\ o = "beginning"
                   \/ m.op = "Delivered" /\ (o = "resolved" \/ (o \in {"waiting", "closed"} /\ ~m.ok))
<1>6. /\ x \in MbTools => ToolStands(i, o, d, dk, u, uk)
      /\ x \in MbRequests => RequestStands(i, n, o, d, dk, u, uk)
      /\ uk \subseteq u /\ m.op \in u /\ (m.ok <=> m.op \in uk)
  BY <1>4, AffirmedCarried DEF BridgeInv, ToolKept, RequestKept
<1> HIDE DEF i, n, o, d, dk, u, uk
<1>7. fits BY <1>6, <1>5 DEF ToolStands, RequestStands, Exchanges
<1>8. /\ mbUp' = Tail(mbUp) /\ mbOuter' = [mbOuter EXCEPT ![x] = to]
      /\ UNCHANGED <<mbCall, mbActor, mbDown, mbWorker, mbInner, mbBroken>>
  BY <1>1, <1>2, <1>7 DEF OuterReads, o
<1>9. DOMAIN mbOuter' = Exchanges /\ mbOuter'[x] = to /\ \A y \in Exchanges : y # x => mbOuter'[y] = mbOuter[y]
  BY <1>5, <1>8 DEF BridgeInv, BridgeTypes
<1>10. /\ mbUp' \in Seq(UpMsgs) /\ PipesHold'
       /\ Carried(mbUp', x) = u \ {m.op} /\ Affirmed(mbUp', x) = uk \ {m.op}
       /\ \A y : y # x => Carried(mbUp', y) = Carried(mbUp, y) /\ Affirmed(mbUp', y) = Affirmed(mbUp, y)
  BY <1>1, <1>3, <1>8, UpRead, <1>2 DEF u, uk
<1>11. ASSUME x \in MbTools
       PROVE  ToolKept(x)'
  <2>1. /\ m.op \in {"Tool", "ToolBegun"} /\ u = {m.op}
        /\ m.op = "Tool" => i = "asked" /\ d = {}
        /\ m.op = "ToolBegun" => d = {} /\ (IF m.ok THEN i = "begun" ELSE i = "refused")
    BY <1>6, <1>11 DEF ToolStands
  <2>2. u \ {m.op} = {} BY <2>1
  <2>3. /\ m.op = "Tool" => to \in {"refused", "submitted"}
        /\ m.op = "ToolBegun" => to = IF m.ok THEN "executing" ELSE "refused"
    OBVIOUS
  <2> HIDE DEF to
  <2>4. ToolStands(i, to, d, dk, {}, uk \ {m.op}) BY <2>1, <2>3 DEF ToolStands
  <2> QED BY <1>8, <1>9, <1>10, <2>2, <2>4 DEF ToolKept, i, d, dk
<1>12. ASSUME x \in MbRequests
       PROVE  RequestKept(x)'
  <2>1. /\ m.op \in {"Request", "Delivered"} /\ u = {m.op}
        /\ m.op = "Request" => i = "asked" /\ d = {} /\ ~n
        /\ m.op = "Delivered" => i = "reported" /\ (d = {} \/ (~n /\ d = {"Resolution"}))
    BY <1>6, <1>12 DEF RequestStands
  <2>2. u \ {m.op} = {} BY <2>1
  <2>3. /\ m.op = "Request" => to \in {"refused", "submitted"}
        /\ m.op = "Delivered" => to = "completing"
    OBVIOUS
  <2> HIDE DEF to
  <2>4. RequestStands(i, n, to, d, dk, {}, uk \ {m.op}) BY <2>1, <2>3 DEF RequestStands
  <2> QED BY <1>8, <1>9, <1>10, <2>2, <2>4 DEF RequestKept, i, n, d, dk
<1>13. (\A y \in MbTools : ToolKept(y)') /\ (\A y \in MbRequests : RequestKept(y)')
  BY <1>5, <1>8, <1>9, <1>10, <1>11, <1>12, OthersKept
<1>14. CallsHold' BY <1>3, <1>8, <1>10, CallsKept
<1>15. PortalHolds' BY <1>8, PortalKept
<1>16. BridgeTypes' /\ ~mbBroken' BY <1>8, <1>9, <1>10 DEF BridgeInv, BridgeTypes
<1> QED BY <1>10, <1>13, <1>14, <1>15, <1>16 DEF BridgeInv

(* The parent reads the answer of a call. *)
LEMMA CallAnswered ==
    ASSUME NEW a, NEW p, NEW d, NEW u, NEW uk, NEW at, NEW n, NEW e, NEW m,
           CallStands(a, p, d, u, uk, at, n, e), m.op \in u, m.op \in CallEvents \ {"Stopped"}, m.ok <=> m.op \in uk,
           m.op \in {"Aborted", "Interrupted"} => u \cap {"Turn", "TurnCancelled"} = {}
    PROVE  /\ Answers(m) \in p /\ (m.op = "TurnCancelled" => a # Answers(m))
           /\ CallStands(IF a = Answers(m) THEN Continues(m) ELSE a, p \ {Answers(m)}, d, u \ {m.op}, uk \ {m.op},
                         at, n, e)
BY DEF CallStands, Answers, Continues, CallEvents

(* The actor reads an event of the call from the worker. *)
LEMMA ActorReadsStep ==
    ASSUME BridgeInv, ActorReads
    PROVE  BridgeInv'
<1>1. PICK m : m = Head(mbUp) OBVIOUS
<1>2. PICK op : op = Answers(m) OBVIOUS
<1>3. mbActor.open /\ mbUp # <<>> /\ m.x = NoX BY <1>1 DEF ActorReads
<1>4. /\ m \in UpMsgs /\ m.op \in Carried(mbUp, NoX) /\ (m.ok <=> m.op \in Affirmed(mbUp, NoX))
      /\ m.op \in {"Aborted", "Interrupted"} => Carried(mbUp, NoX) \cap {"Turn", "TurnCancelled"} = {}
  <2>1. /\ mbUp \in Seq(UpMsgs) /\ NoTwice(mbUp)
        /\ Precedes(mbUp, "Turn", "Aborted") /\ Precedes(mbUp, "Turn", "Interrupted")
        /\ Precedes(mbUp, "TurnCancelled", "Aborted") /\ Precedes(mbUp, "TurnCancelled", "Interrupted")
    BY DEF BridgeInv, BridgeTypes, PipesHold, EventsInOrder
  <2>2. /\ m \in UpMsgs /\ m.op \in Carried(mbUp, m.x) /\ (m.ok <=> m.op \in Affirmed(mbUp, m.x))
        /\ \A k, l : Precedes(mbUp, k, l) => (m.op = l => k \notin Carried(mbUp, m.x))
    BY <1>1, <1>3, <2>1, OpsRead
  <2>3. m.op \in {"Aborted", "Interrupted"} => "Turn" \notin Carried(mbUp, m.x) /\ "TurnCancelled" \notin Carried(mbUp, m.x)
    BY <2>1, <2>2
  <2> QED BY <1>3, <2>2, <2>3
<1>5. mbCall \in BridgeCalls /\ mbActor \in Actors BY DEF BridgeInv, BridgeTypes
<1>6. ASSUME mbWorker.at # "exited"
      PROVE  /\ op \in mbActor.pending /\ op # "Stop" /\ m.op \in CallEvents \ {"Stopped"}
             /\ "Stop" \in mbActor.pending <=> mbCall.at = "Stop"
             /\ "Stop" \in Carried(mbDown, NoX) => mbCall.at = "Stop"
             /\ mbCall.at # "stopped"
             /\ \E a \in CallPlaces :
                   /\ mbCall.at # "Stop" => a = mbCall.at
                   /\ m.op = "TurnCancelled" => a # op
                   /\ CallStands(IF a = op THEN Continues(m) ELSE a, (mbActor.pending \ {op}) \ {"Stop"},
                                 Carried(mbDown, NoX) \ {"Stop"}, Carried(mbUp, NoX) \ {m.op},
                                 Affirmed(mbUp, NoX) \ {m.op}, mbWorker.at, mbWorker.turn, mbWorker.execution)
  <2>1. PICK a \in CallPlaces : CallPlace(a) BY <1>6 DEF BridgeInv, CallsHold, CallsRun, CallPlace
  <2>2. m.op \in CallEvents \ {"Stopped"} BY <1>4, <1>6, CallPipes
  <2>3. /\ op \in mbActor.pending \ {"Stop"} /\ (m.op = "TurnCancelled" => a # op)
        /\ CallStands(IF a = op THEN Continues(m) ELSE a, (mbActor.pending \ {"Stop"}) \ {op},
                      Carried(mbDown, NoX) \ {"Stop"}, Carried(mbUp, NoX) \ {m.op},
                      Affirmed(mbUp, NoX) \ {m.op}, mbWorker.at, mbWorker.turn, mbWorker.execution)
    <3> DEFINE p == mbActor.pending \ {"Stop"}
               d == Carried(mbDown, NoX) \ {"Stop"}
               u == Carried(mbUp, NoX)
               uk == Affirmed(mbUp, NoX)
    <3>1. /\ CallStands(a, p, d, u, uk, mbWorker.at, mbWorker.turn, mbWorker.execution)
          /\ m.op \in u /\ (m.ok <=> m.op \in uk)
          /\ m.op \in {"Aborted", "Interrupted"} => u \cap {"Turn", "TurnCancelled"} = {}
      BY <1>4, <2>1 DEF CallPlace
    <3> HIDE DEF p, d, u, uk
    <3>2. /\ Answers(m) \in p /\ (m.op = "TurnCancelled" => a # Answers(m))
          /\ CallStands(IF a = Answers(m) THEN Continues(m) ELSE a, p \ {Answers(m)}, d, u \ {m.op}, uk \ {m.op},
                        mbWorker.at, mbWorker.turn, mbWorker.execution)
      BY <2>2, <3>1, CallAnswered
    <3> QED BY <1>2, <3>2 DEF p, d, u, uk
  <2>4. (mbActor.pending \ {"Stop"}) \ {op} = (mbActor.pending \ {op}) \ {"Stop"} OBVIOUS
  <2>5. CallsRun BY <1>6 DEF BridgeInv, CallsHold
  <2> QED BY <2>1, <2>2, <2>3, <2>4, <2>5 DEF CallsRun, CallPlace
<1>7. ASSUME mbWorker.at = "exited"
      PROVE  /\ op \in mbActor.pending /\ m.op \in CallEvents /\ mbCall.at = "Stop"
             /\ op = "Stop" <=> m.op = "Stopped"
  <2>1. CallsEnd BY <1>7 DEF BridgeInv, CallsHold
  <2>2. m.op \in CallEvents /\ mbCall.at = "Stop" BY <1>3, <1>4, <2>1 DEF CallsEnd
  <2>3. op = "Stop" <=> m.op = "Stopped" BY <1>2, <2>2 DEF Answers, CallEvents
  <2>4. op \in mbActor.pending BY <1>2, <1>3, <1>4, <2>1, <2>2 DEF CallsEnd, CallEvents, Answers
  <2> QED BY <2>2, <2>3, <2>4
<1>8. op \in mbActor.pending /\ m.op \in CallEvents BY <1>6, <1>7
<1>9. /\ mbUp' = Tail(mbUp) /\ UNCHANGED <<mbDown, mbWorker, mbInner, mbOuter, mbBroken>>
      /\ mbActor' = [mbActor EXCEPT
            !.pending = @ \ {op},
            !.context = IF m.op = "Prepared" /\ m.ok THEN mbCall.turn
                        ELSE IF m.op \in {"Finished", "Aborted"} /\ m.ok THEN 0 ELSE @,
            !.open = m.op # "Stopped"]
      /\ mbCall' = IF mbCall.at = op THEN [mbCall EXCEPT !.at = Continues(m)] ELSE mbCall
  BY <1>1, <1>2, <1>8 DEF ActorReads
<1>10. /\ mbActor' \in Actors /\ mbActor'.pending = mbActor.pending \ {op}
       /\ mbActor'.open <=> m.op # "Stopped"
  <2>1. PICK k \in Nat : k = (IF m.op = "Prepared" /\ m.ok THEN mbCall.turn
                             ELSE IF m.op \in {"Finished", "Aborted"} /\ m.ok THEN 0 ELSE mbActor.context)
    BY <1>5 DEF Actors, BridgeCalls
  <2>2. PICK b \in BOOLEAN : b = (m.op # "Stopped") OBVIOUS
  <2>3. mbActor' = [mbActor EXCEPT !.pending = @ \ {op}, !.context = k, !.open = b]
    BY <1>5, <1>9, <2>1, <2>2 DEF Actors
  <2> QED BY <1>5, <2>2, <2>3 DEF Actors
<1>11. /\ m.op \notin {"TurnCancelled", "Stopped"} => Continues(m) \in CallPlaces
       /\ (m.op = "Stopped" => Continues(m) = "stopped")
  <2>1. m.op \in {"Alive", "Interrupted", "Aborted", "Stopped"} =>
           Continues(m) = (CASE m.op = "Alive" -> "alive" [] m.op = "Interrupted" -> "failed"
                             [] m.op = "Aborted" -> "idle" [] m.op = "Stopped" -> "stopped")
    BY DEF Continues
  <2>2. m.op = "Prepared" => Continues(m) \in {"prepared", "failed"} BY DEF Continues
  <2>3. m.op = "Turn" => Continues(m) \in {"completed", "failed"} BY DEF Continues
  <2>4. m.op = "Finished" => Continues(m) \in {"idle", "failed"} BY DEF Continues
  <2> QED BY <1>8, <2>1, <2>2, <2>3, <2>4 DEF CallEvents, CallPlaces
<1>18. m.op = "TurnCancelled" => mbCall.at # op
  <2>1. CASE mbWorker.at # "exited" BY <1>6, <2>1
  <2>2. CASE mbWorker.at = "exited" BY <1>7, <2>2
  <2> QED BY <2>1, <2>2
<1>12. /\ mbCall' \in BridgeCalls
       /\ mbCall.at = op => mbCall'.at = Continues(m)
       /\ mbCall.at # op => mbCall'.at = mbCall.at
  BY <1>5, <1>8, <1>9, <1>11, <1>18 DEF BridgeCalls
<1>13. /\ mbUp' \in Seq(UpMsgs) /\ PipesHold'
       /\ Carried(mbUp', NoX) = Carried(mbUp, NoX) \ {m.op}
       /\ Affirmed(mbUp', NoX) = Affirmed(mbUp, NoX) \ {m.op}
       /\ \A y : y # NoX => Carried(mbUp', y) = Carried(mbUp, y) /\ Affirmed(mbUp', y) = Affirmed(mbUp, y)
  <2>1. /\ mbUp' \in Seq(UpMsgs) /\ PipesHold'
        /\ Carried(mbUp', m.x) = Carried(mbUp, m.x) \ {m.op}
        /\ Affirmed(mbUp', m.x) = Affirmed(mbUp, m.x) \ {m.op}
        /\ \A y : y # m.x => Carried(mbUp', y) = Carried(mbUp, y) /\ Affirmed(mbUp', y) = Affirmed(mbUp, y)
    BY <1>1, <1>3, <1>9, UpRead
  <2> QED BY <1>3, <2>1
<1>14. CallsHold'
  <2>1. CASE mbWorker.at # "exited"
    <3>1. PICK a \in CallPlaces :
             /\ mbCall.at # "Stop" => a = mbCall.at
             /\ m.op = "TurnCancelled" => a # op
             /\ CallStands(IF a = op THEN Continues(m) ELSE a, (mbActor.pending \ {op}) \ {"Stop"},
                           Carried(mbDown, NoX) \ {"Stop"}, Carried(mbUp, NoX) \ {m.op},
                           Affirmed(mbUp, NoX) \ {m.op}, mbWorker.at, mbWorker.turn, mbWorker.execution)
      BY <1>6, <2>1
    <3>2. PICK b : b = IF a = op THEN Continues(m) ELSE a OBVIOUS
    <3>3. /\ op # "Stop" /\ m.op # "Stopped" /\ mbCall.at # "stopped"
          /\ "Stop" \in mbActor.pending <=> mbCall.at = "Stop"
          /\ "Stop" \in Carried(mbDown, NoX) => mbCall.at = "Stop"
      BY <1>6, <2>1
    <3>4. b \in CallPlaces /\ b # "Stop" /\ b # "stopped" BY <1>11, <3>1, <3>2, <3>3 DEF CallPlaces
    <3>5. /\ mbCall'.at # "Stop" => b = mbCall'.at
          /\ mbCall'.at = "Stop" <=> mbCall.at = "Stop"
          /\ mbCall'.at # "stopped"
      <4>1. CASE mbCall.at = "Stop" BY <1>12, <3>3, <4>1
      <4>2. CASE mbCall.at # "Stop" BY <1>12, <3>1, <3>2, <3>3, <3>4, <4>2
      <4> QED BY <4>1, <4>2
    <3>6. CallsRun' BY <1>9, <1>10, <1>13, <3>1, <3>2, <3>3, <3>4, <3>5 DEF CallsRun
    <3> QED BY <1>9, <2>1, <3>6 DEF CallsHold
  <2>2. CASE mbWorker.at = "exited"
    <3>1. CallsEnd BY <2>2 DEF BridgeInv, CallsHold
    <3>2. mbCall'.at \in {"Stop", "stopped"} /\ (m.op # "Stopped" => mbCall'.at = "Stop") BY <1>7, <1>11, <1>12, <2>2
    <3>3. ASSUME m.op # "Stopped"
          PROVE  CallsEnd'
      <4>1. op \in {"IsAlive", "Prepare", "Send", "Interrupt", "Finish", "Abort"}
            /\ (op = "IsAlive" => m.op = "Alive") /\ (op = "Prepare" => m.op = "Prepared")
            /\ (op = "Send" => m.op \in {"Turn", "TurnCancelled"}) /\ (op = "Interrupt" => m.op = "Interrupted")
            /\ (op = "Finish" => m.op = "Finished") /\ (op = "Abort" => m.op = "Aborted")
        BY <1>2, <1>8, <3>3 DEF Answers, CallEvents
      <4>2. /\ Carried(mbUp', NoX) \subseteq CallEvents
            /\ ~({"Turn", "TurnCancelled"} \subseteq Carried(mbUp', NoX))
            /\ op = "Send" => "Turn" \notin Carried(mbUp', NoX) /\ "TurnCancelled" \notin Carried(mbUp', NoX)
        BY <1>3, <1>4, <1>13, <3>1, <4>1 DEF CallsEnd
      <4>3. \A k \in Carried(mbUp', NoX) : k \in Carried(mbUp, NoX) /\ k # m.op BY <1>13
      <4>4. \A k \in Carried(mbUp', NoX) :
               /\ k = "Alive" => "IsAlive" \in mbActor'.pending
               /\ k = "Prepared" => "Prepare" \in mbActor'.pending
               /\ k \in {"Turn", "TurnCancelled"} => "Send" \in mbActor'.pending
               /\ k = "Interrupted" => "Interrupt" \in mbActor'.pending
               /\ k = "Finished" => "Finish" \in mbActor'.pending
               /\ k = "Aborted" => "Abort" \in mbActor'.pending
               /\ k = "Stopped" => "Stop" \in mbActor'.pending
        BY <1>3, <1>10, <3>1, <4>1, <4>2, <4>3 DEF CallsEnd
      <4> QED BY <3>2, <3>3, <4>2, <4>4 DEF CallsEnd
    <3>4. ASSUME m.op = "Stopped"
          PROVE  CallsEnd'
      BY <1>10, <3>2, <3>4 DEF CallsEnd
    <3> QED BY <1>9, <2>2, <3>3, <3>4 DEF CallsHold
  <2> QED BY <2>1, <2>2
<1>15. (\A x \in MbTools : ToolKept(x)') /\ (\A x \in MbRequests : RequestKept(x)')
  BY <1>9, <1>13, NoXOut, ExchangesKept
<1>16. PortalHolds' BY <1>9, PortalKept
<1>17. BridgeTypes' /\ ~mbBroken' BY <1>9, <1>10, <1>12, <1>13 DEF BridgeInv, BridgeTypes
<1> QED BY <1>13, <1>14, <1>15, <1>16, <1>17 DEF BridgeInv

(* The worker reads an answer about an exchange: what it expects of a tool and of a request. *)
LEMMA ToolAnswered ==
    ASSUME NEW i, NEW o, NEW d, NEW dk, NEW u, NEW uk, NEW op, NEW ok,
           ToolStands(i, o, d, dk, u, uk), op \in d, ok <=> op \in dk, uk \subseteq u
    PROVE  /\ op \in {"ToolBegin", "ToolResult"}
           /\ op = "ToolBegin" => /\ i = "asked" /\ u = {} /\ uk = {}
                                  /\ \A dj : ToolStands("begun", o, {}, dj, {"ToolBegun"}, {"ToolBegun"})
                                  /\ \A dj : ToolStands("refused", o, {}, dj, {"ToolBegun"}, {})
           /\ op = "ToolResult" => /\ i = "begun" \/ (i \in {"asked", "refused"} /\ ~ok)
                                   /\ \A dj : ToolStands("done", o, {}, dj, u, uk)
           /\ d \ {op} = {}
BY DEF ToolStands

(* The worker reads whether its request was opened. *)
LEMMA OpenedRead ==
    ASSUME NEW i, NEW n, NEW o, NEW d, NEW dk, NEW u, NEW uk, NEW ok \in BOOLEAN,
           RequestStands(i, n, o, d, dk, u, uk), "RequestOpened" \in d, ok <=> "RequestOpened" \in dk, dk \subseteq d
    PROVE  /\ i = "asked"
           /\ ok => /\ RequestStands("open", n, o, d \ {"RequestOpened"}, dk \ {"RequestOpened"}, u, uk)
                    /\ RequestStands("dropped", n, o, d \ {"RequestOpened"}, dk \ {"RequestOpened"}, u, uk)
           /\ ~ok => RequestStands("done", n, o, d \ {"RequestOpened"}, dk \ {"RequestOpened"}, u, uk)
<1>1. /\ i = "asked" /\ u = {} /\ ~n
      /\ \/ o = "waiting" /\ d = {"RequestOpened"} /\ ok
         \/ o = "done" /\ d = {"RequestOpened"} /\ ~ok
         \/ o = "resolved" /\ d = {"RequestOpened", "Resolution"} /\ dk = {"RequestOpened", "Resolution"} /\ ok
         \/ o = "closed" /\ d = {"RequestOpened", "Resolution"} /\ dk = {"RequestOpened"} /\ ok
  BY DEF RequestStands
<1>2. \/ o = "waiting" /\ d \ {"RequestOpened"} = {} /\ ok
      \/ o = "done" /\ d \ {"RequestOpened"} = {} /\ ~ok
      \/ o = "resolved" /\ d \ {"RequestOpened"} = {"Resolution"} /\ dk \ {"RequestOpened"} = {"Resolution"} /\ ok
      \/ o = "closed" /\ d \ {"RequestOpened"} = {"Resolution"} /\ dk \ {"RequestOpened"} = {} /\ ok
  BY <1>1
<1> DEFINE e == d \ {"RequestOpened"}
           ek == dk \ {"RequestOpened"}
<1>3. \/ o = "waiting" /\ e = {} /\ ok
      \/ o = "done" /\ e = {} /\ ~ok
      \/ o = "resolved" /\ e = {"Resolution"} /\ ek = {"Resolution"} /\ ok
      \/ o = "closed" /\ e = {"Resolution"} /\ ek = {} /\ ok
  BY <1>2
<1> HIDE DEF e, ek
<1>4. /\ ok => RequestStands("open", n, o, e, ek, u, uk) /\ RequestStands("dropped", n, o, e, ek, u, uk)
      /\ ~ok => RequestStands("done", n, o, e, ek, u, uk)
  BY <1>1, <1>3 DEF RequestStands
<1> QED BY <1>1, <1>4 DEF e, ek

(* Where a resolution leaves the call that asked. *)
Granted(i) == IF i = "open" THEN "answering" ELSE i
Denied(i) == IF i = "open" THEN "dropped" ELSE i

(* The receipt ends an exchange that was reported. *)
LEMMA ReceiptRead ==
    ASSUME NEW i, NEW n, NEW o, NEW d, NEW dk, NEW u, NEW uk, NEW ok \in BOOLEAN,
           RequestStands(i, n, o, d, dk, u, uk), "Receipt" \in d, ok <=> "Receipt" \in dk, dk \subseteq d,
           "Resolution" \notin d
    PROVE  i = "reported" /\ RequestStands("done", n, o, d \ {"Receipt"}, dk \ {"Receipt"}, u, uk)
BY DEF RequestStands

(* A reply that the worker's portal reads belongs to an exchange. *)
LEMMA ExchangeHead ==
    ASSUME BridgeInv, mbWorker.at # "exited", mbDown # <<>>, Head(mbDown).op \in DownOps
    PROVE  Head(mbDown).x \in Exchanges
<1> DEFINE m == Head(mbDown)
<1>1. m \in DownMsgs /\ m.op \in Carried(mbDown, m.x) BY DownRead
<1> HIDE DEF m
<1>2. m.x \in Exchanges \cup {NoX} /\ m.op \in DownOps BY <1>1 DEF DownMsgs, m
<1>3. m.x # NoX BY <1>1, <1>2, CallPipes DEF DownOps, CallOps
<1> QED BY <1>2, <1>3 DEF m

(* An exchange that was read: what is left to show is where it stands, and the portal. *)
LEMMA ExchangeTaken ==
    ASSUME BridgeInv, mbWorker.at # "exited", mbDown # <<>>, Head(mbDown).op \in DownOps,
           mbDown' = Tail(mbDown), UNCHANGED <<mbCall, mbActor, mbOuter, mbBroken>>,
           NEW x, x = Head(mbDown).x, mbInner' \in [Exchanges -> Inners],
           \A y \in Exchanges : y # x => mbInner'[y] = mbInner[y],
           mbWorker' \in Workers, mbWorker'.at = mbWorker.at, mbWorker'.turn = mbWorker.turn,
           mbWorker'.execution = mbWorker.execution,
           mbUp' \in Seq(UpMsgs), EventsInOrder(mbUp'),
           \A y : y # x => Carried(mbUp', y) = Carried(mbUp, y) /\ Affirmed(mbUp', y) = Affirmed(mbUp, y),
           x \in MbTools => ToolKept(x)', x \in MbRequests => RequestKept(x)', PortalHolds'
    PROVE  BridgeInv'
<1>1. x \in Exchanges BY ExchangeHead
<1>2. /\ \A y : y # x => Carried(mbDown', y) = Carried(mbDown, y) /\ Affirmed(mbDown', y) = Affirmed(mbDown, y)
      /\ CommandsInOrder(mbDown') /\ mbDown' \in Seq(DownMsgs)
  BY DownTaken, DownRead
<1>3. (\A y \in MbTools : ToolKept(y)') /\ (\A y \in MbRequests : RequestKept(y)') BY <1>1, <1>2, OthersKept
<1>4. CallsHold' BY <1>1, <1>2, NoXOut, CallsKept
<1>5. BridgeTypes' /\ ~mbBroken' /\ PipesHold' BY <1>2 DEF BridgeInv, BridgeTypes, PipesHold
<1> QED BY <1>3, <1>4, <1>5 DEF BridgeInv

(* The worker's portal reads a reply of the room: every branch. *)
LEMMA InnerReadsStep ==
    ASSUME BridgeInv, InnerReads
    PROVE  BridgeInv'
<1>1. PICK m : m = Head(mbDown) OBVIOUS
<1>2. PICK x : x = m.x OBVIOUS
<1>3. mbWorker.at \in {"loop", "sending", "interrupting"} /\ mbWorker.at # "exited" /\ mbDown # <<>> /\ m.op \in DownOps
  BY <1>1 DEF InnerReads, DownOps
<1>4. x \in Exchanges BY <1>1, <1>2, <1>3, ExchangeHead
<1>5. /\ m \in DownMsgs /\ m.op \in Carried(mbDown, x)
      /\ m.ok <=> m.op \in Affirmed(mbDown, x)
      /\ m.op = "Resolution" => "RequestOpened" \notin Carried(mbDown, x)
      /\ m.op = "Receipt" => "Resolution" \notin Carried(mbDown, x)
  BY <1>1, <1>2, <1>3, DownRead
<1>0. PICK yes \in BOOLEAN : yes = TRUE OBVIOUS
<1> DEFINE i == mbInner[x].at
           n == mbInner[x].answered
           o == mbOuter[x]
           d == Carried(mbDown, x)
           dk == Affirmed(mbDown, x)
           u == Carried(mbUp, x)
           uk == Affirmed(mbUp, x)
           fits == \/ m.op = "ToolBegin" /\ i = "asked"
                   \/ m.op = "ToolResult" /\ i = "asked" /\ ~m.ok
                   \/ m.op = "ToolResult" /\ i = "begun"
                   \/ m.op = "ToolResult" /\ i = "refused" /\ ~m.ok
                   \/ m.op = "RequestOpened" /\ i = "asked"
                   \/ m.op = "Resolution" /\ (i \in {"open", "dropped"} \/ LateResolution(x))
                   \/ m.op = "Receipt" /\ i = "reported"
           becomes(at) == mbInner' = [mbInner EXCEPT ![x].at = at]
<1>6. /\ mbInner \in [Exchanges -> Inners] /\ mbWorker \in Workers
      /\ mbUp \in Seq(UpMsgs) /\ EventsInOrder(mbUp) /\ PortalHolds
  BY DEF BridgeInv, BridgeTypes, PipesHold
<1>7. fits =>
        /\ mbDown' = Tail(mbDown) /\ UNCHANGED <<mbCall, mbActor, mbOuter, mbBroken>>
        /\ \/ /\ m.op = "ToolBegin"
              /\ IF Reserved(x)
                 THEN becomes("begun") /\ mbWorker' = [mbWorker EXCEPT !.executing = @ \cup {x}]
                 ELSE becomes("refused") /\ UNCHANGED mbWorker
              /\ Up(Ev("ToolBegun", x, Reserved(x)))
           \/ m.op = "ToolResult" /\ becomes("done") /\ mbWorker' = Released(x) /\ UNCHANGED mbUp
           \/ /\ m.op = "RequestOpened" /\ UNCHANGED <<mbWorker, mbUp>>
              /\ becomes(IF ~m.ok THEN "done"
                         ELSE IF mbWorker.at = "sending" /\ mbWorker.turn = mbInner[x].turn THEN "open" ELSE "dropped")
           \/ /\ m.op = "Resolution" /\ UNCHANGED <<mbWorker, mbUp>>
              /\ mbInner' = [mbInner EXCEPT ![x].answered = TRUE,
                                            ![x].at = IF @ = "open" THEN IF m.ok THEN "answering" ELSE "dropped" ELSE @]
           \/ m.op = "Receipt" /\ becomes("done") /\ UNCHANGED <<mbWorker, mbUp>>
  <2> SUFFICES ASSUME fits
               PROVE  /\ mbDown' = Tail(mbDown) /\ UNCHANGED <<mbCall, mbActor, mbOuter, mbBroken>>
                      /\ \/ /\ m.op = "ToolBegin"
                            /\ IF Reserved(x)
                               THEN becomes("begun") /\ mbWorker' = [mbWorker EXCEPT !.executing = @ \cup {x}]
                               ELSE becomes("refused") /\ UNCHANGED mbWorker
                            /\ Up(Ev("ToolBegun", x, Reserved(x)))
                         \/ m.op = "ToolResult" /\ becomes("done") /\ mbWorker' = Released(x) /\ UNCHANGED mbUp
                         \/ /\ m.op = "RequestOpened" /\ UNCHANGED <<mbWorker, mbUp>>
                            /\ becomes(IF ~m.ok THEN "done"
                                       ELSE IF mbWorker.at = "sending" /\ mbWorker.turn = mbInner[x].turn THEN "open"
                                       ELSE "dropped")
                         \/ /\ m.op = "Resolution" /\ UNCHANGED <<mbWorker, mbUp>>
                            /\ mbInner' = [mbInner EXCEPT ![x].answered = TRUE,
                                                   ![x].at = IF @ = "open" THEN IF m.ok THEN "answering" ELSE "dropped" ELSE @]
                         \/ m.op = "Receipt" /\ becomes("done") /\ UNCHANGED <<mbWorker, mbUp>>
    OBVIOUS
  <2> QED BY <1>1, <1>2, ZenonT(40) DEF InnerReads
<1>8. ASSUME NEW at \in InnerAts, becomes(at)
      PROVE  /\ mbInner' \in [Exchanges -> Inners] /\ mbInner'[x].at = at
             /\ mbInner'[x].answered = mbInner[x].answered
             /\ \A y \in Exchanges : y # x => mbInner'[y] = mbInner[y]
             /\ \A y \in Exchanges : mbInner'[y].turn = mbInner[y].turn
  BY <1>4, <1>6, <1>8 DEF Inners
<1>9. ASSUME mbDown' = Tail(mbDown)
      PROVE  Carried(mbDown', x) = d \ {m.op} /\ Affirmed(mbDown', x) = dk \ {m.op}
  BY <1>1, <1>2, <1>3, <1>9, DownTaken
<1>10. dk \subseteq d /\ uk \subseteq u BY AffirmedCarried
<1>13. n \in BOOLEAN BY <1>4, <1>6 DEF Inners
<1>11. CASE x \in MbTools
  <2>1. ToolStands(i, o, d, dk, u, uk) /\ x \notin MbRequests BY <1>11, NoXOut DEF BridgeInv, ToolKept
  <2> HIDE DEF i, n, o, d, dk, u, uk, becomes
  <2>2. /\ m.op \in {"ToolBegin", "ToolResult"}
        /\ m.op = "ToolBegin" => /\ i = "asked" /\ u = {} /\ uk = {}
                                 /\ \A dj : ToolStands("begun", o, {}, dj, {"ToolBegun"}, {"ToolBegun"})
                                 /\ \A dj : ToolStands("refused", o, {}, dj, {"ToolBegun"}, {})
        /\ m.op = "ToolResult" => /\ i = "begun" \/ (i \in {"asked", "refused"} /\ ~m.ok)
                                  /\ \A dj : ToolStands("done", o, {}, dj, u, uk)
        /\ d \ {m.op} = {}
    <3>1. m.op \in d /\ (m.ok <=> m.op \in dk) BY <1>5 DEF d, dk
    <3> QED BY <1>10, <2>1, <3>1, ToolAnswered
  <2>3. fits BY <2>2
  <2>4. /\ mbDown' = Tail(mbDown) /\ UNCHANGED <<mbCall, mbActor, mbOuter, mbBroken>>
        /\ Carried(mbDown', x) = {}
    BY <1>7, <1>9, <2>2, <2>3
  <2>5. CASE m.op = "ToolBegin"
    <3>1. PICK ok \in BOOLEAN : ok = Reserved(x) BY DEF Reserved
    <3>2. PICK at \in InnerAts : at = IF ok THEN "begun" ELSE "refused" BY DEF InnerAts
    <3>3. /\ becomes(at) /\ mbUp' = Append(mbUp, Ev("ToolBegun", x, ok))
          /\ ok => mbWorker' = [mbWorker EXCEPT !.executing = @ \cup {x}]
          /\ ~ok => mbWorker' = mbWorker
      BY <1>7, <2>3, <2>5, <3>1, <3>2 DEF Up
    <3>4. /\ mbInner' \in [Exchanges -> Inners] /\ mbInner'[x].at = at
          /\ \A y \in Exchanges : y # x => mbInner'[y] = mbInner[y]
          /\ \A y \in Exchanges : mbInner'[y].turn = mbInner[y].turn
      BY <1>8, <3>3
    <3>5. /\ mbWorker' \in Workers /\ mbWorker'.at = mbWorker.at /\ mbWorker'.turn = mbWorker.turn
          /\ mbWorker'.execution = mbWorker.execution /\ mbWorker'.portal = mbWorker.portal
          /\ mbWorker'.executing = IF ok THEN mbWorker.executing \cup {x} ELSE mbWorker.executing
      <4>1. CASE ok
        <5>1. mbWorker.executing \cup {x} \in SUBSET MbTools BY <1>6, <1>11 DEF Workers
        <5> QED BY <1>6, <3>3, <4>1, <5>1 DEF Workers
      <4>2. CASE ~ok BY <1>6, <3>3, <4>2
      <4> QED BY <4>1, <4>2
    <3>6. /\ "ToolBegun" \in CallEvents \cup UpOps /\ x \in Exchanges \cup {NoX}
          /\ "ToolBegun" \notin Carried(mbUp, x)
          /\ "ToolBegun" \in {"Turn", "TurnCancelled"} => Carried(mbUp, x) = {}
      BY <1>4, <2>2, <2>5 DEF UpOps, u
    <3>7. /\ mbUp' \in Seq(UpMsgs) /\ EventsInOrder(mbUp')
          /\ Carried(mbUp', x) = Carried(mbUp, x) \cup {"ToolBegun"}
          /\ ok => Affirmed(mbUp', x) = Affirmed(mbUp, x) \cup {"ToolBegun"}
          /\ ~ok => Affirmed(mbUp', x) = Affirmed(mbUp, x)
          /\ \A y : y # x => Carried(mbUp', y) = Carried(mbUp, y) /\ Affirmed(mbUp', y) = Affirmed(mbUp, y)
      BY <1>6, <3>3, <3>6, UpWritten
    <3>8. Carried(mbUp', x) = {"ToolBegun"} /\ Affirmed(mbUp', x) = IF ok THEN {"ToolBegun"} ELSE {}
      BY <2>2, <2>5, <3>7 DEF u, uk
    <3>9. ToolStands(at, o, {}, Affirmed(mbDown', x), {"ToolBegun"}, Affirmed(mbUp', x)) BY <2>2, <2>5, <3>2, <3>8
    <3>10. ToolKept(x)' BY <2>4, <3>4, <3>8, <3>9 DEF ToolKept, o
    <3>11. PortalHolds'
      <4>1. x \notin mbWorker.executing /\ mbInner[x].at = "asked" BY <1>6, <1>11, <2>2, <2>5 DEF PortalHolds, i
      <4>2. mbWorker.executing \subseteq MbTools /\ MbTools \subseteq Exchanges BY <1>6 DEF Workers, Exchanges
      <4>3. \A y \in MbTools : y \in mbWorker'.executing <=> mbInner'[y].at = "begun"
        BY <1>6, <3>2, <3>4, <3>5, <4>1, <4>2 DEF PortalHolds
      <4>4. \A y \in mbWorker'.executing : mbWorker'.portal = mbInner'[y].turn
        <5>1. ASSUME NEW y \in mbWorker.executing PROVE mbWorker.portal = mbInner'[y].turn
          BY <1>6, <3>4, <4>2 DEF PortalHolds
        <5>2. ok => mbWorker.portal = mbInner'[x].turn BY <1>4, <3>1, <3>4 DEF Reserved
        <5> QED BY <3>5, <5>1, <5>2
      <4>5. \A y \in Exchanges : mbInner'[y].at # "none" => mbInner'[y].turn # 0 BY <1>6, <3>4, <4>1 DEF PortalHolds
      <4> QED BY <4>3, <4>4, <4>5 DEF PortalHolds
    <3> QED BY <1>1, <1>2, <1>3, <2>1, <2>4, <3>4, <3>5, <3>7, <3>10, <3>11, ExchangeTaken
  <2>6. CASE m.op = "ToolResult"
    <3>1. becomes("done") /\ mbWorker' = Released(x) /\ UNCHANGED mbUp /\ "done" \in InnerAts
      BY <1>7, <2>3, <2>6 DEF InnerAts
    <3>2. /\ mbInner' \in [Exchanges -> Inners] /\ mbInner'[x].at = "done"
          /\ \A y \in Exchanges : y # x => mbInner'[y] = mbInner[y]
          /\ \A y \in Exchanges : mbInner'[y].turn = mbInner[y].turn
      BY <1>8, <3>1
    <3>3. /\ mbWorker' \in Workers /\ mbWorker'.at = mbWorker.at /\ mbWorker'.turn = mbWorker.turn
          /\ mbWorker'.execution = mbWorker.execution
          /\ mbWorker'.executing = mbWorker.executing \ {x}
          /\ mbWorker'.executing # {} => mbWorker'.portal = mbWorker.portal
      <4> DEFINE left == mbWorker.executing \ {x}
      <4>1. PICK k \in Nat : k = IF mbWorker.closing /\ left = {} THEN 0 ELSE mbWorker.portal BY <1>6 DEF Workers
      <4>2. PICK b \in BOOLEAN : b = (mbWorker.closing /\ left # {}) OBVIOUS
      <4>3. mbWorker' = [mbWorker EXCEPT !.executing = left, !.portal = k, !.closing = b]
        BY <1>6, <3>1, <4>1, <4>2 DEF Released, Workers
      <4> QED BY <1>6, <4>1, <4>3 DEF Workers
    <3>4. ToolStands("done", o, {}, Affirmed(mbDown', x), u, uk) BY <2>2, <2>6
    <3>5. ToolKept(x)' BY <2>4, <3>1, <3>2, <3>4 DEF ToolKept, o, u, uk
    <3>6. PortalHolds'
      <4>1. mbWorker.executing \subseteq MbTools /\ MbTools \subseteq Exchanges BY <1>6 DEF Workers, Exchanges
      <4>2. \A y \in MbTools : y \in mbWorker'.executing <=> mbInner'[y].at = "begun"
        BY <1>6, <3>2, <3>3, <4>1 DEF PortalHolds
      <4>3. \A y \in mbWorker'.executing : mbWorker'.portal = mbInner'[y].turn
        BY <1>6, <3>2, <3>3, <4>1 DEF PortalHolds
      <4>4. \A y \in Exchanges : mbInner'[y].at # "none" => mbInner'[y].turn # 0
        <5>1. mbInner[x].at # "none" BY <2>2, <2>6 DEF i
        <5> QED BY <1>6, <3>2, <5>1 DEF PortalHolds
      <4> QED BY <4>2, <4>3, <4>4 DEF PortalHolds
    <3> QED BY <1>1, <1>2, <1>3, <1>6, <2>1, <2>4, <3>1, <3>2, <3>3, <3>5, <3>6, ExchangeTaken
  <2> QED BY <2>2, <2>5, <2>6
<1>12. CASE x \in MbRequests
  <2>1. RequestStands(i, n, o, d, dk, u, uk) /\ x \notin MbTools BY <1>12, NoXOut DEF BridgeInv, RequestKept
  <2> HIDE DEF i, n, o, d, dk, u, uk, becomes
  <2>2. /\ m.op \in {"RequestOpened", "Resolution", "Receipt"}
        /\ m.op = "RequestOpened" =>
              /\ i = "asked"
              /\ m.ok => /\ RequestStands("open", n, o, d \ {m.op}, dk \ {m.op}, u, uk)
                         /\ RequestStands("dropped", n, o, d \ {m.op}, dk \ {m.op}, u, uk)
              /\ ~m.ok => RequestStands("done", n, o, d \ {m.op}, dk \ {m.op}, u, uk)
        /\ m.op = "Resolution" =>
              /\ i \in {"open", "dropped"} \/ (i = "reported" /\ n = FALSE)
              /\ m.ok => RequestStands(Granted(i), yes, o, d \ {m.op}, dk \ {m.op}, u, uk)
              /\ ~m.ok => RequestStands(Denied(i), yes, o, d \ {m.op}, dk \ {m.op}, u, uk)
        /\ m.op = "Receipt" => i = "reported" /\ RequestStands("done", n, o, d \ {m.op}, dk \ {m.op}, u, uk)
    <3>1. /\ m.op \in d /\ (m.ok <=> m.op \in dk)
          /\ m.op = "Resolution" => "RequestOpened" \notin d
          /\ m.op = "Receipt" => "Resolution" \notin d
      BY <1>5 DEF d, dk
    <3> QED
      <4>1. PICK ok \in BOOLEAN : ok = m.ok BY <1>5 DEF DownMsgs
      <4>2. m.op \in {"RequestOpened", "Resolution", "Receipt"} BY <2>1, <3>1 DEF RequestStands
      <4>3. CASE m.op = "RequestOpened"
        <5>1. "RequestOpened" \in d /\ (ok <=> "RequestOpened" \in dk) BY <3>1, <4>1, <4>3
        <5>2. /\ i = "asked"
              /\ ok => /\ RequestStands("open", n, o, d \ {"RequestOpened"}, dk \ {"RequestOpened"}, u, uk)
                       /\ RequestStands("dropped", n, o, d \ {"RequestOpened"}, dk \ {"RequestOpened"}, u, uk)
              /\ ~ok => RequestStands("done", n, o, d \ {"RequestOpened"}, dk \ {"RequestOpened"}, u, uk)
          BY <1>10, <2>1, <5>1, OpenedRead
        <5> QED BY <4>1, <4>3, <5>2
      <4>4. CASE m.op = "Resolution"
        <5>1. "Resolution" \in d /\ (ok <=> "Resolution" \in dk) /\ "RequestOpened" \notin d BY <3>1, <4>1, <4>4
        <5>2. /\ i \in {"open", "dropped"} \/ (i = "reported" /\ n = FALSE)
              /\ ok => RequestStands(Granted(i), yes, o, d \ {"Resolution"}, dk \ {"Resolution"}, u, uk)
              /\ ~ok => RequestStands(Denied(i), yes, o, d \ {"Resolution"}, dk \ {"Resolution"}, u, uk)
          <6>1. /\ n = FALSE
                /\ \/ i \in {"open", "dropped"} /\ o = "resolved" /\ d = {"Resolution"} /\ u = {} /\ ok
                   \/ i \in {"open", "dropped"} /\ o = "closed" /\ d = {"Resolution"} /\ u = {} /\ ~ok
                   \/ /\ i = "reported" /\ u = {"Delivered"} /\ d = {"Resolution"} /\ o \in {"resolved", "closed"}
                      /\ uk = {}
                   \/ i = "reported" /\ u = {} /\ o = "completing" /\ d = {"Resolution"}
                   \/ i = "reported" /\ u = {} /\ o = "done" /\ d = {"Resolution", "Receipt"}
            BY <1>10, <1>13, <2>1, <5>1 DEF RequestStands
          <6> DEFINE e == d \ {"Resolution"}
                     ek == dk \ {"Resolution"}
                     j == IF ok THEN Granted(i) ELSE Denied(i)
          <6>2. \/ i \in {"open", "dropped"} /\ o = "resolved" /\ e = {} /\ u = {} /\ j \in {"answering", "dropped"}
                \/ i \in {"open", "dropped"} /\ o = "closed" /\ e = {} /\ u = {} /\ j = "dropped"
                \/ i = "reported" /\ u = {"Delivered"} /\ e = {} /\ o \in {"resolved", "closed"} /\ uk = {} /\ j = "reported"
                \/ i = "reported" /\ u = {} /\ o = "completing" /\ e = {} /\ j = "reported"
                \/ i = "reported" /\ u = {} /\ o = "done" /\ e = {"Receipt"} /\ j = "reported"
            BY <6>1 DEF Granted, Denied
          <6> HIDE DEF e, ek, j
          <6>3. RequestStands(j, yes, o, e, ek, u, uk) BY <1>0, <6>2 DEF RequestStands
          <6> QED BY <6>1, <6>3 DEF e, ek, j
        <5> QED BY <4>1, <4>4, <5>2
      <4>5. CASE m.op = "Receipt"
        <5>1. "Receipt" \in d /\ (ok <=> "Receipt" \in dk) /\ "Resolution" \notin d BY <3>1, <4>1, <4>5
        <5>2. i = "reported" /\ RequestStands("done", n, o, d \ {"Receipt"}, dk \ {"Receipt"}, u, uk)
          BY <1>10, <2>1, <5>1, ReceiptRead
        <5> QED BY <4>5, <5>2
      <4> QED BY <4>2, <4>3, <4>4, <4>5
  <2>3. fits BY <2>2 DEF LateResolution, i, n
  <2>4. /\ mbDown' = Tail(mbDown) /\ UNCHANGED <<mbCall, mbActor, mbOuter, mbBroken, mbWorker, mbUp>>
        /\ Carried(mbDown', x) = d \ {m.op} /\ Affirmed(mbDown', x) = dk \ {m.op}
    BY <1>7, <1>9, <2>2, <2>3
  <2>5. PICK at \in InnerAts :
           /\ at \notin {"none", "begun"}
           /\ mbInner' \in [Exchanges -> Inners] /\ mbInner'[x].at = at
           /\ \A y \in Exchanges : y # x => mbInner'[y] = mbInner[y]
           /\ \A y \in Exchanges : mbInner'[y].turn = mbInner[y].turn
           /\ RequestStands(at, mbInner'[x].answered, o, d \ {m.op}, dk \ {m.op}, u, uk)
    <3>1. CASE m.op = "RequestOpened"
      <4>1. PICK at \in InnerAts \ {"none", "begun"} :
               at = IF ~m.ok THEN "done"
                    ELSE IF mbWorker.at = "sending" /\ mbWorker.turn = mbInner[x].turn THEN "open" ELSE "dropped"
        BY DEF InnerAts
      <4>2. becomes(at) BY <1>7, <2>3, <3>1, <4>1
      <4>3. /\ mbInner' \in [Exchanges -> Inners] /\ mbInner'[x].at = at
            /\ mbInner'[x].answered = mbInner[x].answered
            /\ \A y \in Exchanges : y # x => mbInner'[y] = mbInner[y]
            /\ \A y \in Exchanges : mbInner'[y].turn = mbInner[y].turn
        BY <1>8, <4>2
      <4>4. RequestStands(at, n, o, d \ {m.op}, dk \ {m.op}, u, uk) BY <2>2, <3>1, <4>1
      <4> QED BY <4>1, <4>3, <4>4 DEF n
    <3>2. CASE m.op = "Resolution"
      <4>1. PICK at \in InnerAts \ {"none", "begun"} :
               at = IF m.ok THEN Granted(mbInner[x].at) ELSE Denied(mbInner[x].at)
        BY <2>2, <3>2 DEF InnerAts, Granted, Denied, i
      <4>2. mbInner' = [mbInner EXCEPT ![x].answered = TRUE, ![x].at = at]
        BY <1>4, <1>6, <1>7, <2>3, <3>2, <4>1 DEF Granted, Denied
      <4>3. /\ mbInner' \in [Exchanges -> Inners] /\ mbInner'[x].at = at
            /\ mbInner'[x].answered = yes
            /\ \A y \in Exchanges : y # x => mbInner'[y] = mbInner[y]
            /\ \A y \in Exchanges : mbInner'[y].turn = mbInner[y].turn
        BY <1>0, <1>4, <1>6, <4>2 DEF Inners
      <4>4. RequestStands(at, yes, o, d \ {m.op}, dk \ {m.op}, u, uk) BY <2>2, <3>2, <4>1 DEF i
      <4> QED BY <4>1, <4>3, <4>4
    <3>3. CASE m.op = "Receipt"
      <4>1. becomes("done") /\ "done" \in InnerAts BY <1>7, <2>3, <3>3 DEF InnerAts
      <4>2. /\ mbInner' \in [Exchanges -> Inners] /\ mbInner'[x].at = "done"
            /\ mbInner'[x].answered = mbInner[x].answered
            /\ \A y \in Exchanges : y # x => mbInner'[y] = mbInner[y]
            /\ \A y \in Exchanges : mbInner'[y].turn = mbInner[y].turn
        BY <1>8, <4>1
      <4>3. RequestStands("done", n, o, d \ {m.op}, dk \ {m.op}, u, uk) BY <2>2, <3>3
      <4> QED BY <4>1, <4>2, <4>3 DEF n
    <3> QED BY <2>2, <3>1, <3>2, <3>3
  <2>6. RequestKept(x)' BY <2>4, <2>5 DEF RequestKept, o, u, uk
  <2>7. mbInner[x].at \notin {"none", "begun"} BY <2>2 DEF i
  <2>8. PortalHolds' BY <2>4, <2>5, <2>7, PortalKept
  <2> QED BY <1>1, <1>2, <1>3, <1>6, <2>1, <2>4, <2>5, <2>6, <2>8, ExchangeTaken
<1> QED BY <1>4, <1>11, <1>12 DEF Exchanges

(* At the start both pipes are empty and no exchange was begun. *)
LEMMA BridgeInitially ==
    ASSUME MbInit
    PROVE  BridgeInv
<1>1. BridgeTypes /\ ~mbBroken BY DEF MbInit, BridgeTypes, BridgeCalls, CallPlaces, Actors, Workers, Inners, InnerAts
<1>2. /\ mbDown = <<>> /\ mbUp = <<>>
      /\ \A x : Carried(<<>>, x) = {} /\ Affirmed(<<>>, x) = {}
  BY DEF MbInit, Carried, Affirmed
<1>3. PipesHold BY <1>2 DEF PipesHold, CommandsInOrder, EventsInOrder, NoTwice, Precedes
<1>4. CallsHold
  <2>1. CallStands("idle", {}, {}, {}, {}, "loop", 0, "none") BY DEF CallStands
  <2>2. /\ mbCall.at = "idle" /\ mbActor.pending = {} /\ mbActor.open
        /\ mbWorker.at = "loop" /\ mbWorker.turn = 0 /\ mbWorker.execution = "none"
    BY DEF MbInit
  <2>3. mbActor.pending \ {"Stop"} = {} /\ Carried(mbDown, NoX) \ {"Stop"} = {}
        /\ Carried(mbUp, NoX) = {} /\ Affirmed(mbUp, NoX) = {}
    BY <1>2, <2>2
  <2>4. CallStands("idle", mbActor.pending \ {"Stop"}, Carried(mbDown, NoX) \ {"Stop"}, Carried(mbUp, NoX),
                   Affirmed(mbUp, NoX), mbWorker.at, mbWorker.turn, mbWorker.execution)
    BY <2>1, <2>2, <2>3
  <2> QED BY <1>2, <2>2, <2>4 DEF CallsHold, CallsRun, CallPlaces
<1>5. \A x \in Exchanges : mbInner[x] = [at |-> "none", turn |-> 0, answered |-> FALSE] /\ mbOuter[x] = "none"
  BY DEF MbInit
<1>6. PortalHolds BY <1>5 DEF PortalHolds, MbInit, Exchanges
<1>7. \A x \in MbTools : ToolKept(x) BY <1>2, <1>5 DEF ToolKept, ToolStands, Exchanges
<1>8. \A x \in MbRequests : RequestKept(x) BY <1>2, <1>5 DEF RequestKept, RequestStands, Exchanges
<1> QED BY <1>1, <1>3, <1>4, <1>6, <1>7, <1>8 DEF BridgeInv

(* A step that changes none of the bridge's variables keeps its invariant. *)
LEMMA BridgeStutters ==
    ASSUME BridgeInv, UNCHANGED mbVars
    PROVE  BridgeInv'
BY DEF mbVars, BridgeInv, BridgeTypes, PipesHold, CallsHold, CallsRun, CallsEnd, PortalHolds, ToolKept,
   RequestKept

(* The invariant of the bridge, over every action of the parent, the worker, the agent and the room. *)
THEOREM BridgeInvariant == MbSpec => []BridgeInv
<1>1. MbInit => BridgeInv BY BridgeInitially
<1>2. BridgeInv /\ [MbNext]_mbVars => BridgeInv'
  <2> SUFFICES ASSUME BridgeInv, [MbNext]_mbVars PROVE BridgeInv'
    OBVIOUS
  <2>1. CASE CallIsAlive BY <2>1, CallIsAliveStep
  <2>2. CASE CallPrepare BY <2>2, CallPrepareStep
  <2>3. CASE CallSend BY <2>3, CallSendStep
  <2>4. CASE DropSend BY <2>4, DropSendStep
  <2>5. CASE CallFinish BY <2>5, CallFinishStep
  <2>6. CASE CallAbort BY <2>6, CallAbortStep
  <2>7. CASE StopRuntime BY <2>7, StopRuntimeStep
  <2>8. CASE SendReturns BY <2>8, SendReturnsStep
  <2>9. CASE WorkerReads BY <2>9, WorkerReadsStep
  <2>10. CASE InterruptReturns BY <2>10, InterruptReturnsStep
  <2>11. CASE InnerReads BY <2>11, InnerReadsStep
  <2>12. CASE ActorReads BY <2>12, ActorReadsStep
  <2>13. CASE OuterReads BY <2>13, OuterReadsStep
  <2>14. ASSUME NEW x \in Exchanges,
               \/ Relay(x) \/ AgentCalls(x) \/ ReportDelivered(x)
               \/ RoomBegins(x) \/ RoomExecutes(x) \/ RoomRefuses(x)
               \/ RequestOpens(x) \/ RequestRefused(x) \/ RoomResolves(x) \/ RoomCloses(x) \/ RoomReceipts(x)
        PROVE  BridgeInv'
    BY <2>14, RelayStep, AgentCallsStep, ReportDeliveredStep, RoomBeginsStep, RoomExecutesStep, RoomRefusesStep,
       RequestOpensStep, RequestRefusedStep, RoomResolvesStep, RoomClosesStep, RoomReceiptsStep
  <2>15. CASE UNCHANGED mbVars BY <2>15, BridgeStutters
  <2> QED BY <2>1, <2>2, <2>3, <2>4, <2>5, <2>6, <2>7, <2>8, <2>9, <2>10, <2>11, <2>12, <2>13, <2>14, <2>15 DEF MbNext
<1> QED BY <1>1, <1>2, PTL DEF MbSpec

(* BridgeHolds: neither side ever meets a call, an event or a message of an exchange it does not *)
(* expect, and a tool the room executes holds the portal of the turn that called it.             *)
THEOREM BridgeTrue == MbSpec => []BridgeHolds
<1>1. BridgeInv => BridgeHolds BY DEF BridgeInv, BridgeHolds, ToolKept, ToolStands, PortalHolds
<1> QED BY <1>1, BridgeInvariant, PTL

------------------------
(* OwnTurnOnly: what the drivers, the portal and the bridge promise together.  Each takes *)
(* its own steps, so the promise is that of each.                                         *)
THEOREM DriversOwnTurn == DriversSpec => []OwnTurnOnly
<1>1. DriversSpec =>
        [](CodexOwnOutput /\ AcpWithinTurn /\ OpenCodeOwnTurn /\ ClaudeSettles /\ ToolsWithinTurn /\ BridgeHolds)
  BY CodexTrue, AcpTrue, OpenCodeTrue, ClaudeTrue, PortalTrue, RemotePortalTrue, BridgeTrue, PTL DEF DriversSpec
<1>2. (CodexOwnOutput /\ AcpWithinTurn /\ OpenCodeOwnTurn /\ ClaudeSettles /\ ToolsWithinTurn /\ BridgeHolds) =>
        OwnTurnOnly
  BY DEF OwnTurnOnly
<1> QED BY <1>1, <1>2, PTL
===============================================================================
