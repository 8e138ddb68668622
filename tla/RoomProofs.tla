----------------------------- MODULE RoomProofs -----------------------------
(***************************************************************************)
(* What is proved of the commands and the subscribers of a room.           *)
(*                                                                         *)
(* The inductive invariant has three parts.  The books: every event of a   *)
(* client is accounted for by a stored result or by a tombstone, under an  *)
(* identity no other event has, and every result is in the log.  The       *)
(* sockets: whatever the room task has sent beyond what a connection       *)
(* delivered is still on its way to that connection.  The guests: all that *)
(* reaches a session in force is in the log, and all that can still reach  *)
(* a session that ended was in the log when it ended.                      *)
(***************************************************************************)
EXTENDS RoomCommands, SequenceTheorems, TLAPS

------------------------
(* The shape of the state. *)

\* How many events are stored, and how many have been sent: an event is sent
\* before the cursor moves past it.
Logged == Len(log)
Sent   == IF actor.pc = "ack" THEN cursor + 1 ELSE cursor

Keys       == {Key[r] : r \in Requests} \cup {"create", "work"}
EventKinds == {"message", "leave", "closed", "created", "work"}
Events     == [by : Clients \cup {"server"}, key : Keys, kind : EventKinds]
Rows       == [req : Requests, live : BOOLEAN, debit : Nat, uid : Nat]
Deletions  == {r \in Requests : Kind[r] = "delete"}
Tombs      == [uid : Nat, req : Deletions, seq : Nat, state : {"pending", "complete"}]
Windows    == [count : [Requests -> Nat], retryable : [Requests -> Nat],
               last : [Requests -> Nat], refused : SUBSET Requests]
Notices    == [uid : Nat, seq : Nat]
Phases     == {"off", "joined", "snapshot", "first", "catching", "live"}
Socks      == [pc : Phases, uid : Nat, at : Nat, high : Nat, buf : Seq(Notices),
               lag : BOOLEAN, shut : BOOLEAN, checked : BOOLEAN, signal : BOOLEAN]
Status     == {"active", "closed", "absent"}
Steps      == {"idle", "drain", "ack", "reply", "finalize"}
Outcomes   == {"none", "ok", "unresolved", "rejected"}
Hands      == [pc : Steps, req : Requests \cup {NoRequest}, live : BOOLEAN, debit : Nat,
               out : Outcomes, cut : SUBSET Clients, fin : BOOLEAN]
Actors     == {a \in Hands : a.pc = "reply" => a.req \in Requests}

StoreTypes == /\ log \in Seq(Events) /\ cursor \in Nat
              /\ room \in [uid : Nat, status : Status]
              /\ results \subseteq Requests \ Deletions
              /\ tombs \subseteq Tombs /\ valid \subseteq Clients
TaskTypes  == /\ queue \in Seq(Rows) /\ window \in Windows /\ actor \in Actors
SockTypes  == /\ sock \in [Clients -> Socks]
              /\ seen \in [Clients -> Notices] /\ revoked \in [Clients -> Notices]

------------------------
(* The inductive invariant. *)

Position == /\ cursor <= Logged
            /\ actor.pc = "ack" => cursor < Logged
Absent   == room.status = "absent" => results = {} /\ Logged = 0
Buried   == \A t \in tombs : t.uid <= room.uid /\ (t.uid = room.uid => room.status # "active")
Barred   == room.status # "active" => Sessions \cap valid = {}

\* Every event of a client comes from a stored result or from a tombstone.
Accounted ==
    \A i \in 1..Logged : log[i].by \in Clients =>
       \/ \E r \in results : log[i] = Event(Issuer[r], Key[r], Kind[r])
       \/ \E t \in tombs : log[i] = Event(Issuer[t.req], Key[t.req], "closed")
Unique    == \A i, j \in 1..Logged :
               log[i].by \in Clients /\ log[i].by = log[j].by /\ log[i].key = log[j].key
                 => i = j
Stored    == \A r \in results : \E i \in 1..Logged : log[i] = Event(Issuer[r], Key[r], Kind[r])
Books     == Position /\ Absent /\ Buried /\ Barred /\ Accounted /\ Unique /\ Stored

\* What a connection k of a room in incarnation u owes its client: of the s
\* events sent, those beyond what it delivered.
Filled(b)        == b # <<>>
Held(b, u, q)    == \E i \in DOMAIN b : b[i].uid = u /\ b[i].seq = q
Below(b, m)      == \A i \in DOMAIN b : b[i].seq <= m
Follows(k, u)    == /\ k.pc \in {"snapshot", "first", "catching", "live"}
                    /\ ~k.lag /\ ~k.shut /\ k.uid = u
Covered(k, u, q) == \/ Held(k.buf, u, q)
                    \/ k.checked /\ k.pc = "live" /\ q = k.at + 1
                    \/ k.pc # "live" /\ q <= k.high
SockOk(k, u, s)  ==
    /\ k.uid <= u
    /\ k.pc \in {"off", "joined", "snapshot"} => ~k.checked
    /\ Follows(k, u) => \A q \in Nat : k.at < q /\ q <= s => Covered(k, u, q)

\* The frame a passed check is for.
NextSeq(k) == IF k.pc = "first" THEN k.at ELSE k.at + 1

\* A session in force: what it was shown, n, and what its connection holds are
\* among the m events of the log.
InsideOk(k, n, u, m) ==
    /\ n.uid <= u /\ n.seq <= m
    /\ k.at <= m /\ k.high <= m /\ Below(k.buf, m)
    /\ k.checked => NextSeq(k) <= m

\* A session that ended where the log stood at v.
OutsideOk(k, n, v, u) ==
    /\ v.uid <= u /\ n.uid <= v.uid
    /\ n.uid = v.uid => n.seq <= v.seq
    /\ k.checked => k.uid <= v.uid /\ (k.uid = v.uid => NextSeq(k) <= v.seq)
Silent(c) == revoked[c].uid = room.uid => \A i \in 1..Logged : log[i].by = c => i <= revoked[c].seq

SockHolds(c)  == SockOk(sock[c], room.uid, Sent)
GuestHolds(c) ==
    c \in Sessions =>
      IF c \in valid THEN InsideOk(sock[c], seen[c], room.uid, Logged)
      ELSE OutsideOk(sock[c], seen[c], revoked[c], room.uid) /\ Silent(c)

RcTypes == StoreTypes /\ TaskTypes /\ SockTypes
RcInv   == /\ RcTypes /\ Books
           /\ \A c \in Clients : SockHolds(c) /\ GuestHolds(c)

------------------------
(* Sequences. *)

(* The log is counted by Logged, and its rows are events.                              *)
LEMMA LogRows ==
    ASSUME log \in Seq(Events)
    PROVE  /\ Logged \in Nat /\ DOMAIN log = 1..Logged
           /\ \A i \in 1..Logged : log[i] \in Events
BY LenProperties, ElementOfSeq DEF Logged

(* What a commit does to the log: one more row at its end.                             *)
LEMMA LogGrows ==
    ASSUME log \in Seq(Events), NEW e \in Events, log' = Append(log, e)
    PROVE  /\ log' \in Seq(Events) /\ Logged' = Logged + 1
           /\ \A i \in 1..Logged : log'[i] = log[i]
           /\ log'[Logged + 1] = e
<1> QED BY AppendProperties, SMTT(30) DEF Logged

(* What an event that is received does to a buffer.                                    *)
LEMMA BufGrows ==
    ASSUME NEW b \in Seq(Notices), NEW e \in Notices
    PROVE  /\ Append(b, e) \in Seq(Notices)
           /\ Held(Append(b, e), e.uid, e.seq)
           /\ \A u, q : Held(b, u, q) => Held(Append(b, e), u, q)
           /\ \A m : Below(b, m) /\ e.seq <= m => Below(Append(b, e), m)
<1> DEFINE d == Append(b, e)
<1>0. Len(b) \in Nat BY LenProperties, Zenon
<1>a. Append(b, e) \in Seq(Notices) /\ Len(Append(b, e)) = Len(b) + 1 BY AppendProperties, Zenon
<1>b. ASSUME NEW i \in 1..Len(b) PROVE Append(b, e)[i] = b[i] BY <1>b, AppendProperties, SMTT(30)
<1>c. Append(b, e)[Len(b) + 1] = e BY AppendProperties, Zenon
<1>1. /\ d \in Seq(Notices) /\ Len(d) = Len(b) + 1
      /\ \A i \in 1..Len(b) : d[i] = b[i]
      /\ d[Len(b) + 1] = e
  BY <1>a, <1>b, <1>c, Zenon
<1>2. DOMAIN d = 1..Len(d) /\ DOMAIN b = 1..Len(b) BY <1>1, LenProperties, Zenon
<1> DEFINE n == Len(b)
<1>3. /\ DOMAIN d = 1..(n + 1) /\ DOMAIN b = 1..n /\ n \in Nat
      /\ \A i \in 1..n : d[i] = b[i]
      /\ d[n + 1] = e
  BY <1>0, <1>1, <1>2, Zenon
<1> HIDE DEF n, d
<1>4. n + 1 \in DOMAIN d /\ \A i \in DOMAIN b : i \in DOMAIN d /\ d[i] = b[i] BY <1>3
<1>5. \A i \in DOMAIN d : i \in DOMAIN b \/ i = n + 1 BY <1>3
<1>6. Held(d, e.uid, e.seq) /\ \A u, q : Held(b, u, q) => Held(d, u, q) BY <1>3, <1>4, Zenon DEF Held
<1>7. \A m : Below(b, m) /\ e.seq <= m => Below(d, m) BY <1>3, <1>4, <1>5, Zenon DEF Below
<1> QED BY <1>1, <1>6, <1>7, Zenon DEF d

(* What taking the oldest event does to a buffer.                                      *)
LEMMA BufTaken ==
    ASSUME NEW b \in Seq(Notices), Filled(b)
    PROVE  /\ Head(b) \in Notices /\ Tail(b) \in Seq(Notices)
           /\ \A u, q : Held(b, u, q) => \/ Held(Tail(b), u, q)
                                         \/ Head(b).uid = u /\ Head(b).seq = q
           /\ \A m : Below(b, m) => Head(b).seq <= m /\ Below(Tail(b), m)
<1> DEFINE d == Tail(b)  h == Head(b)
<1>1. /\ h \in Notices /\ d \in Seq(Notices) /\ Len(d) = Len(b) - 1 /\ Len(b) \in Nat
      /\ \A i \in 1..Len(d) : d[i] = b[i + 1]
  BY HeadTailProperties, LenProperties, Zenon DEF Filled
<1>2. DOMAIN d = 1..Len(d) /\ DOMAIN b = 1..Len(b) /\ Len(d) \in Nat BY <1>1, LenProperties, Zenon
<1>3. h = b[1] BY SMT
<1> DEFINE n == Len(b)  o == Len(d)
<1>4. /\ n \in Nat /\ o \in Nat /\ o = n - 1 /\ DOMAIN d = 1..o /\ DOMAIN b = 1..n
      /\ \A i \in 1..o : d[i] = b[i + 1]
  BY <1>1, <1>2, Zenon
<1> HIDE DEF n, o, d, h
<1>5. /\ \A i \in DOMAIN d : i + 1 \in DOMAIN b /\ d[i] = b[i + 1]
      /\ 1 \in DOMAIN b
  BY <1>4
<1>6. ASSUME NEW i \in DOMAIN b, i # 1
      PROVE  \E j \in DOMAIN d : d[j] = b[i]
  <2>1. i - 1 \in DOMAIN d /\ (i - 1) + 1 = i BY <1>4, <1>6
  <2> QED BY <1>5, <2>1, Zenon
<1>7. \A u, q : Held(b, u, q) => Held(d, u, q) \/ (h.uid = u /\ h.seq = q) BY <1>3, <1>6, Zenon DEF Held
<1>8. \A m : Below(b, m) => h.seq <= m /\ Below(d, m) BY <1>3, <1>5, Zenon DEF Below
<1> QED BY <1>1, <1>7, <1>8, Zenon DEF d, h

------------------------
(* Connections. *)

(* A connection that is closed.                                                        *)
LEMMA OffFacts ==
    /\ Off \in Socks /\ Off.pc = "off" /\ Off.uid = 0 /\ Off.at = 0 /\ Off.high = 0
    /\ Off.checked = FALSE /\ \A m : Below(Off.buf, m)
BY EmptySeq DEF Socks, Phases, Below, Off

(* A closed connection owes and is owed nothing.                                       *)
LEMMA OffOk ==
    ASSUME NEW u \in Nat, NEW s \in Nat, NEW m \in Nat, NEW n \in Notices, NEW v \in Notices
    PROVE  /\ SockOk(Off, u, s)
           /\ n.uid <= u /\ n.seq <= m => InsideOk(Off, n, u, m)
           /\ v.uid <= u /\ n.uid <= v.uid /\ (n.uid = v.uid => n.seq <= v.seq)
                => OutsideOk(Off, n, v, u)
BY OffFacts DEF Follows, SockOk, InsideOk, OutsideOk

\* A connection that differs only in its signal, or now lags or is shut.
Alike(k2, k) ==
    /\ k2.pc = k.pc /\ k2.uid = k.uid /\ k2.at = k.at /\ k2.high = k.high
    /\ k2.buf = k.buf /\ k2.checked = k.checked
    /\ k.lag => k2.lag
    /\ k.shut => k2.shut

(* Such a connection holds what it held, and owes no more when no more was sent.       *)
LEMMA AlikeOk ==
    ASSUME NEW k \in Socks, NEW k2 \in Socks, Alike(k2, k),
           NEW u \in Nat, NEW s \in Nat, NEW s2 \in Nat, s2 <= s, NEW m \in Nat,
           NEW n \in Notices, NEW v \in Notices
    PROVE  /\ SockOk(k, u, s) => SockOk(k2, u, s2)
           /\ InsideOk(k, n, u, m) => InsideOk(k2, n, u, m)
           /\ OutsideOk(k, n, v, u) => OutsideOk(k2, n, v, u)
BY DEF Follows, Alike, Covered, SockOk, Socks, NextSeq, InsideOk, OutsideOk

------------------------
(* What no step of a client or of a timer changes. *)

(* The parts of the state, one by one.                                                 *)
LEMMA RcFacts ==
    ASSUME RcInv
    PROVE  /\ StoreTypes /\ TaskTypes /\ SockTypes /\ Books
           /\ Logged \in Nat /\ DOMAIN log = 1..Logged
           /\ \A i \in 1..Logged : log[i] \in Events
           /\ cursor \in Nat /\ cursor <= Logged /\ Sent \in Nat /\ Sent <= Logged
           /\ room.uid \in Nat /\ room.status \in Status
           /\ \A c \in Clients : sock[c] \in Socks /\ seen[c] \in Notices /\ revoked[c] \in Notices
           /\ \A c \in Clients : SockHolds(c) /\ GuestHolds(c)
           /\ queue \in Seq(Rows) /\ window \in Windows /\ actor \in Actors
BY LogRows DEF RcInv, RcTypes, StoreTypes, Books, Position, Sent, SockTypes, TaskTypes

(* The books stand while the store does and no event is sent.                          *)
LEMMA BooksKept ==
    ASSUME RcInv, UNCHANGED <<room, log, cursor, results, tombs, valid>>,
           actor'.pc = "ack" => actor.pc = "ack"
    PROVE  StoreTypes' /\ Books' /\ Logged' = Logged /\ Sent' \in Nat /\ Sent' <= Sent
BY RcFacts DEF StoreTypes, Logged, Books, Position, Absent, Buried, Barred, Accounted, Unique, Stored, Sent

(* The sockets and the guests keep what they have when connections only close, are     *)
(* signalled or shut.                                                                  *)
LEMMA SocketsKept ==
    ASSUME RcInv, UNCHANGED <<room, log, valid, seen, revoked>>,
           Sent' \in Nat, Sent' <= Sent, Logged' = Logged,
           sock' \in [Clients -> Socks],
           \A c \in Clients : sock'[c] = Off \/ Alike(sock'[c], sock[c])
    PROVE  SockTypes' /\ \A c \in Clients : SockHolds(c)' /\ GuestHolds(c)'
<1>1. SockTypes' BY RcFacts DEF SockTypes
<1>2. ASSUME NEW c \in Clients
      PROVE  SockHolds(c)' /\ GuestHolds(c)'
  <2> DEFINE k == sock[c]  k2 == sock'[c]
  <2>1. /\ k \in Socks /\ k2 \in Socks /\ seen[c] \in Notices /\ revoked[c] \in Notices
        /\ room.uid \in Nat /\ Sent \in Nat /\ Logged \in Nat
        /\ SockOk(k, room.uid, Sent) /\ GuestHolds(c)
    BY RcFacts DEF SockHolds
  <2>2. SockOk(k2, room.uid, Sent')
    <3>1. CASE k2 = Off BY <2>1, <3>1, OffOk
    <3>2. CASE Alike(k2, k)
      <4> HIDE DEF k, k2
      <4> QED BY <2>1, <3>2, AlikeOk
    <3> QED BY <3>1, <3>2
  <2>3. ASSUME InsideOk(k, seen[c], room.uid, Logged)
        PROVE  InsideOk(k2, seen[c], room.uid, Logged)
    <3>1. CASE k2 = Off BY <2>1, <2>3, <3>1, OffOk DEF InsideOk
    <3>2. CASE Alike(k2, k)
      <4> HIDE DEF k, k2
      <4> QED BY <2>1, <2>3, <3>2, AlikeOk
    <3> QED BY <3>1, <3>2
  <2>4. ASSUME OutsideOk(k, seen[c], revoked[c], room.uid)
        PROVE  OutsideOk(k2, seen[c], revoked[c], room.uid)
    <3>1. CASE k2 = Off BY <2>1, <2>4, <3>1, OffOk DEF OutsideOk
    <3>2. CASE Alike(k2, k)
      <4> HIDE DEF k, k2
      <4> QED BY <2>1, <2>4, <3>2, AlikeOk
    <3> QED BY <3>1, <3>2
  <2>5. Silent(c) => Silent(c)' BY DEF Silent
  <2>6. SockHolds(c)' BY <2>2 DEF SockHolds
  <2>7. GuestHolds(c)' BY <2>1, <2>3, <2>4, <2>5 DEF GuestHolds
  <2> QED BY <2>6, <2>7
<1> QED BY <1>1, <1>2

(* The frame of the steps that commit nothing and send nothing.                        *)
LEMMA Kept ==
    ASSUME RcInv, UNCHANGED <<room, log, cursor, results, tombs, valid, seen, revoked>>,
           actor'.pc = "ack" => actor.pc = "ack", TaskTypes',
           sock' \in [Clients -> Socks],
           \A c \in Clients : sock'[c] = Off \/ Alike(sock'[c], sock[c])
    PROVE  RcInv'
BY BooksKept, SocketsKept DEF RcInv, RcTypes

------------------------
(* The room task, its queue and the mutation windows. *)

(* The room task at rest, and on its way to a drain.                                   *)
LEMMA IdleFacts ==
    /\ Idle \in Actors /\ Idle.pc = "idle"
    /\ \A f \in BOOLEAN : LET a == [Idle EXCEPT !.pc = "drain", !.fin = f]
                          IN  a \in Actors /\ a.pc = "drain"
    /\ LET a == [Idle EXCEPT !.pc = "drain"] IN a \in Actors /\ a.pc = "drain"
  BY DEF Idle, Actors, Hands, Steps, Outcomes

(* The room task with a command in hand.                                               *)
LEMMA InHandFacts ==
    ASSUME NEW e \in Rows, NEW pc \in Steps, NEW out \in Outcomes, NEW cut \in SUBSET Clients
    PROVE  InHand(e, pc, out, cut) \in Actors /\ InHand(e, pc, out, cut).pc = pc
  BY DEF InHand, Idle, Actors, Hands, Rows, Outcomes

(* The task is started to drain, if at all.                                            *)
LEMMA EnsureFacts ==
    ASSUME actor \in Actors, EnsureTask
    PROVE  actor' \in Actors /\ (actor'.pc = "ack" => actor.pc = "ack")
BY IdleFacts DEF EnsureTask

(* What the task takes is a command, and its queue keeps the others.                   *)
LEMMA TakeFacts ==
    ASSUME queue \in Seq(Rows), Take
    PROVE  /\ Head(queue) \in Rows /\ queue' \in Seq(Rows) /\ actor.pc = "idle"
           /\ Head(queue).req \in Requests
<1>1. queue # <<>> /\ queue' = Tail(queue) /\ actor.pc = "idle" BY Zenon DEF Take
<1>2. Head(queue) \in Rows /\ Tail(queue) \in Seq(Rows) BY <1>1, HeadTailProperties, Zenon
<1>3. Head(queue).req \in Requests BY <1>2 DEF Rows
<1> QED BY <1>1, <1>2, <1>3, Zenon

(* An empty queue, and one with another command.                                       *)
LEMMA QueueFacts ==
    /\ <<>> \in Seq(Rows)
    /\ \A q \in Seq(Rows), e \in Rows : Append(q, e) \in Seq(Rows)
BY AppendProperties, EmptySeq

(* The windows keep their shape whatever is charged, resolved or refused.              *)
LEMMA WindowFacts ==
    ASSUME NEW w \in Windows, NEW r \in Requests
    PROVE  /\ w.retryable[r] \in Nat
           /\ \A d : Resolved(w, r, d) \in Windows
           /\ [w EXCEPT !.refused = @ \cup {r}] \in Windows
BY DEF Windows, Resolved

(* One more charge.                                                                    *)
LEMMA ChargedFacts ==
    ASSUME window \in Windows, NEW r \in Requests
    PROVE  Charged(r) \in Windows
<1>1. /\ window.retryable \in [Requests -> Nat] /\ window.count \in [Requests -> Nat]
      /\ window.last \in [Requests -> Nat] /\ window.refused \in SUBSET Requests
  BY DEF Windows
<1>2. window.count[r] + 1 \in Nat /\ window.last[r] + 1 \in Nat BY <1>1
<1> QED BY <1>1, <1>2 DEF Windows, Charged

(* A connection that closes, and connections nothing happens to.                       *)
LEMMA CloseFacts ==
    ASSUME RcInv, NEW c \in Clients, Close(c)
    PROVE  /\ sock' \in [Clients -> Socks]
           /\ \A d \in Clients : sock'[d] = Off \/ Alike(sock'[d], sock[d])
BY RcFacts, OffFacts DEF SockTypes, Close, Alike

(* Connections that nothing happens to are alike.                                      *)
LEMMA SockSame ==
    ASSUME RcInv, sock' = sock
    PROVE  /\ sock' \in [Clients -> Socks]
           /\ \A d \in Clients : sock'[d] = Off \/ Alike(sock'[d], sock[d])
BY RcFacts DEF SockTypes, Alike

------------------------
(* The steps that commit nothing and send nothing. *)

(* A charge expires.                                                                   *)
LEMMA RcChargesExpire ==
    ASSUME RcInv, NEW r \in Requests, ChargesExpire(r)
    PROVE  RcInv'
BY RcFacts, SockSame, Kept DEF ChargesExpire, store, memory, history, Windows, TaskTypes

(* A command meets a socket whose session or room has ended.                           *)
LEMMA RcIssueCloses ==
    ASSUME RcInv, RoomCommandsAssumption, NEW r \in Requests, IssueCloses(r)
    PROVE  RcInv'
BY RcFacts, CloseFacts, Kept DEF IssueCloses, store, memory, history, RoomCommandsAssumption, TaskTypes

(* A command is refused, left unresolved or admitted.                                  *)
LEMMA RcIssued ==
    ASSUME RcInv, NEW r \in Requests, IssueRefused(r) \/ IssueUnresolved(r) \/ IssueAdmitted(r)
    PROVE  RcInv'
<1>1. UNCHANGED <<room, log, cursor, results, tombs, valid, seen, revoked, actor, queue, sock>>
  BY Zenon DEF IssueRefused, IssueUnresolved, IssueAdmitted, store, memory, history
<1>2. window' \in Windows
  <2>1. window \in Windows /\ Charged(r) \in Windows BY RcFacts, ChargedFacts
  <2>2. CASE IssueRefused(r) BY <2>2, <2>1, WindowFacts DEF IssueRefused
  <2>3. CASE IssueUnresolved(r) BY <2>1, <2>3, Zenon DEF IssueUnresolved
  <2>4. CASE IssueAdmitted(r) BY <2>1, <2>4, Zenon DEF IssueAdmitted
  <2> QED BY <2>2, <2>3, <2>4
<1>3. TaskTypes' BY <1>1, <1>2, RcFacts DEF TaskTypes
<1>4. sock' \in [Clients -> Socks] /\ \A d \in Clients : sock'[d] = Off \/ Alike(sock'[d], sock[d]) BY <1>1, SockSame
<1> QED BY <1>1, <1>3, <1>4, Kept

(* A completed deletion answers its request.                                           *)
LEMMA RcEnqueueReplayed ==
    ASSUME RcInv, NEW r \in Requests, EnqueueReplayed(r)
    PROVE  RcInv'
BY RcFacts, WindowFacts, SockSame, Kept DEF EnqueueReplayed, store, memory, history, TaskTypes

(* A command joins the queue of the room task.                                         *)
LEMMA RcEnqueue ==
    ASSUME RcInv, RoomCommandsAssumption, NEW r \in Requests, Enqueue(r)
    PROVE  RcInv'
<1> DEFINE e == [req |-> r, live |-> TRUE, debit |-> Debit(r),
                 uid |-> IF ViaSocket(r) THEN sock[Issuer[r]].uid ELSE 0]
<1>1. /\ UNCHANGED <<room, log, cursor, results, tombs, valid, seen, revoked, window, sock>>
      /\ EnsureTask /\ (queue' = queue \/ queue' = Append(queue, e))
  BY Zenon DEF Enqueue, store, history
<1>2. actor' \in Actors /\ (actor'.pc = "ack" => actor.pc = "ack") BY <1>1, RcFacts, EnsureFacts
<1>3. Debit(r) \in Nat BY RcFacts, WindowFacts DEF Debit
<1>4. (IF ViaSocket(r) THEN sock[Issuer[r]].uid ELSE 0) \in Nat BY RcFacts DEF RoomCommandsAssumption, Socks
<1>5. e \in Rows BY <1>3, <1>4 DEF Rows
<1>6. queue' \in Seq(Rows)
  <2> HIDE DEF e
  <2> QED BY <1>1, <1>5, RcFacts, QueueFacts, Zenon
<1>7. TaskTypes' BY <1>1, <1>2, <1>6, RcFacts DEF TaskTypes
<1>8. sock' \in [Clients -> Socks] /\ \A d \in Clients : sock'[d] = Off \/ Alike(sock'[d], sock[d]) BY <1>1, SockSame
<1> QED BY <1>1, <1>2, <1>7, <1>8, Kept

(* The rows of a queue whose caller is gone are still rows.                            *)
LEMMA QueueGone ==
    ASSUME NEW q \in Seq(Rows), NEW r,
           NEW p, p = [i \in DOMAIN q |-> IF q[i].req = r THEN [q[i] EXCEPT !.live = FALSE]
                                          ELSE q[i]]
    PROVE  p \in Seq(Rows)
<1>1. Len(q) \in Nat /\ DOMAIN q = 1..Len(q) BY LenProperties, Zenon
<1>2. \A i \in 1..Len(q) : q[i] \in Rows BY ElementOfSeq, Zenon
<1>3. \A x \in Rows : [x EXCEPT !.live = FALSE] \in Rows BY DEF Rows
<1>4. \A i \in 1..Len(q) : (IF q[i].req = r THEN [q[i] EXCEPT !.live = FALSE] ELSE q[i]) \in Rows BY <1>2, <1>3, Zenon
<1>5. p \in [1..Len(q) -> Rows] BY <1>1, <1>4, Zenon
<1> QED BY <1>1, <1>5

(* The caller of a queued command goes away.                                           *)
LEMMA RcCallerGone ==
    ASSUME RcInv, RoomCommandsAssumption, NEW r \in Requests, CallerGone(r)
    PROVE  RcInv'
<1>1. UNCHANGED <<room, log, cursor, results, tombs, valid, seen, revoked, window>>
  BY Zenon DEF CallerGone, store, history
<1>2. queue' \in Seq(Rows) BY RcFacts, QueueGone DEF CallerGone
<1>3. actor' \in Actors /\ actor'.pc = actor.pc BY RcFacts DEF Actors, Hands, CallerGone
<1>4. TaskTypes' BY <1>1, <1>2, <1>3, RcFacts DEF TaskTypes
<1>5. Issuer[r] \in Clients BY DEF RoomCommandsAssumption
<1>6. sock' \in [Clients -> Socks] /\ \A d \in Clients : sock'[d] = Off \/ Alike(sock'[d], sock[d])
  BY <1>5, CloseFacts, SockSame DEF CallerGone
<1> QED BY <1>1, <1>3, <1>4, <1>6, Kept

(* A command fails, is rejected, or is answered from the store.                        *)
LEMMA RcExecuteIdle ==
    ASSUME RcInv, ExecuteFails \/ ExecuteRejected \/ ExecuteReplayed
    PROVE  RcInv'
BY RcFacts, TakeFacts, InHandFacts, SockSame, Kept DEF ExecuteFails, ExecuteRejected, ExecuteReplayed, store,
   history, Outcomes, Steps, TaskTypes

(* What the task turns to after a drain.                                               *)
LEMMA AfterDrainFacts ==
    ASSUME actor \in Actors, NEW d \in BOOLEAN
    PROVE  AfterDrain(d) \in Actors /\ AfterDrain(d).pc # "ack"
BY IdleFacts DEF Actors, Hands, Steps, AfterDrain

(* A drain ends, or fails.                                                             *)
LEMMA RcDrained ==
    ASSUME RcInv, DrainDone \/ PublishFails
    PROVE  RcInv'
BY RcFacts, AfterDrainFacts, SockSame, Kept DEF DrainDone, PublishFails, store, history, TaskTypes

(* A signal or a closed channel leaves a connection what it is.                        *)
LEMMA SignalFacts ==
    ASSUME NEW k \in Socks
    PROVE  /\ \A b \in BOOLEAN : LET k2 == [k EXCEPT !.signal = b]
                                 IN  k2 \in Socks /\ Alike(k2, k)
           /\ LET k2 == [k EXCEPT !.shut = TRUE] IN k2 \in Socks /\ Alike(k2, k)
BY DEF Socks, Alike

(* Some connections are signalled, or some are shut.                                   *)
LEMMA SocketsSignalled ==
    ASSUME RcInv, NEW S,
           \/ sock' = [c \in Clients |-> IF c \in S THEN [sock[c] EXCEPT !.signal = TRUE]
                                         ELSE sock[c]]
           \/ sock' = [c \in Clients |-> IF c \in S THEN [sock[c] EXCEPT !.shut = TRUE]
                                         ELSE sock[c]]
    PROVE  /\ sock' \in [Clients -> Socks]
           /\ \A d \in Clients : sock'[d] = Off \/ Alike(sock'[d], sock[d])
<1>1. \A c \in Clients : /\ sock[c] \in Socks
                         /\ [sock[c] EXCEPT !.signal = TRUE] \in Socks
                         /\ Alike([sock[c] EXCEPT !.signal = TRUE], sock[c])
                         /\ [sock[c] EXCEPT !.shut = TRUE] \in Socks
                         /\ Alike([sock[c] EXCEPT !.shut = TRUE], sock[c])
  BY RcFacts, SignalFacts
<1>2. \A c \in Clients : Alike(sock[c], sock[c]) BY DEF Alike
<1> QED BY <1>1, <1>2, Zenon

(* The task replies.                                                                   *)
LEMMA RcReply ==
    ASSUME RcInv, Reply
    PROVE  RcInv'
<1> DEFINE r == actor.req
<1>1. /\ UNCHANGED <<room, log, cursor, results, tombs, valid, seen, revoked, queue>>
      /\ actor.pc = "reply" /\ actor' = Idle
      /\ sock' = [c \in Clients |-> IF c \in actor.cut \cap Attached
                                    THEN [sock[c] EXCEPT !.signal = TRUE] ELSE sock[c]]
  BY Zenon DEF Reply, store, history
<1>2. \/ window' = window
      \/ window' = [Resolved(window, r, actor.debit) EXCEPT
                      !.refused = IF actor.out = "rejected" THEN @ \cup {r} ELSE @]
  BY Zenon DEF Reply
<1>3. window' \in Windows
  <2>1. window \in Windows BY RcFacts
  <2>2. \A w \in Windows : [w EXCEPT !.refused = @] \in Windows BY DEF Windows
  <2>3. ASSUME window' # window
        PROVE  window' \in Windows
    <3> DEFINE w == Resolved(window, r, actor.debit)
    <3>1. PICK x : /\ window' = [w EXCEPT !.refused = x]
                   /\ x = w.refused \/ x = w.refused \cup {r}
      BY <1>2, <2>3
    <3>2. r \in Requests BY <1>1, RcFacts DEF Actors
    <3>3. w \in Windows BY <2>1, <3>2, WindowFacts
    <3>4. x \in SUBSET Requests BY <3>1, <3>2, <3>3 DEF Windows
    <3> QED BY <3>1, <3>3, <3>4 DEF Windows
  <2> QED BY <2>1, <2>3
<1>4. TaskTypes' BY <1>1, <1>3, RcFacts, IdleFacts DEF TaskTypes
<1>5. sock' \in [Clients -> Socks] /\ \A d \in Clients : sock'[d] = Off \/ Alike(sock'[d], sock[d])
  BY <1>1, SocketsSignalled
<1>6. actor'.pc # "ack" BY <1>1, IdleFacts
<1> QED BY <1>1, <1>4, <1>5, <1>6, Kept

(* The task is woken to drain.                                                         *)
LEMMA RcWakeUp ==
    ASSUME RcInv, WakeUp
    PROVE  RcInv'
BY IdleFacts, RcFacts, SockSame, Kept DEF WakeUp, store, history, TaskTypes

(* The task dies with its queue.                                                       *)
LEMMA RcTaskDies ==
    ASSUME RcInv, TaskDies
    PROVE  RcInv'
BY QueueFacts, RcFacts, SockSame, Kept DEF TaskDies, QueueDropped, store, history, TaskTypes

(* A runtime is cleaned up, an owner wakes the task, a deletion asks to be finalized.  *)
LEMMA RcWoken ==
    ASSUME RcInv, CleanupDone \/ WorkerNotifies \/ RequestFinalize
    PROVE  RcInv'
BY RcFacts, EnsureFacts, SockSame, Kept DEF CleanupDone, WorkerNotifies, RequestFinalize, store, memory,
   history, TaskTypes

(* A connection ends, by the server or by its client.                                  *)
LEMMA RcSocketGone ==
    ASSUME RcInv, NEW c \in Clients, SocketEnds(c) \/ Disconnect(c)
    PROVE  RcInv'
BY RcFacts, CloseFacts, Kept DEF SocketEnds, Disconnect, store, memory, history, TaskTypes

(* The server dies and starts again.                                                   *)
LEMMA RcCrash ==
    ASSUME RcInv, Crash
    PROVE  RcInv'
BY QueueFacts, RcFacts, IdleFacts, OffFacts, Kept DEF Crash, store, history, Windows, NoCharges, TaskTypes

------------------------
(* The steps of one connection. *)

(* The frame of a step of one connection: the store is untouched, and what the         *)
(* connection and its client now have holds.                                           *)
LEMMA OneSocket ==
    ASSUME RcInv, NEW c \in Clients, NEW k2 \in Socks, NEW n2 \in Notices,
           UNCHANGED <<room, log, cursor, results, tombs, valid, revoked>>,
           actor'.pc = "ack" => actor.pc = "ack", TaskTypes',
           sock' = [sock EXCEPT ![c] = k2], seen' = [seen EXCEPT ![c] = n2],
           SockOk(k2, room.uid, Sent),
           c \in Sessions /\ c \in valid => InsideOk(k2, n2, room.uid, Logged),
           c \in Sessions /\ c \notin valid => OutsideOk(k2, n2, revoked[c], room.uid)
    PROVE  RcInv'
<1>1. StoreTypes' /\ Books' /\ Logged' = Logged /\ Sent' \in Nat /\ Sent' <= Sent BY BooksKept
<1>2. SockTypes' BY RcFacts DEF SockTypes
<1>3. /\ sock'[c] = k2 /\ seen'[c] = n2
      /\ \A d \in Clients : d # c => sock'[d] = sock[d] /\ seen'[d] = seen[d]
  BY RcFacts DEF SockTypes
<1>4. ASSUME NEW d \in Clients
      PROVE  SockHolds(d)' /\ GuestHolds(d)'
  <2>1. Silent(d) => Silent(d)' BY <1>1 DEF Silent
  <2>2. /\ room.uid \in Nat /\ Sent \in Nat /\ Logged \in Nat /\ revoked[d] \in Notices
        /\ sock[d] \in Socks /\ seen[d] \in Notices /\ SockHolds(d) /\ GuestHolds(d)
    BY RcFacts
  <2>3. CASE d = c BY <1>1, <2>2, AlikeOk, <1>3, <2>3, <2>1 DEF Alike, SockHolds, GuestHolds
  <2>4. CASE d # c BY <1>1, <2>2, AlikeOk, <1>3, <2>4, <2>1 DEF Alike, SockHolds, GuestHolds
  <2> QED BY <2>3, <2>4
<1> QED BY <1>1, <1>2, <1>4 DEF RcInv, RcTypes

(* What a step of connection c starts from.                                            *)
LEMMA ConnectionFacts ==
    ASSUME RcInv, NEW c \in Clients
    PROVE  /\ sock[c] \in Socks /\ seen[c] \in Notices /\ revoked[c] \in Notices
           /\ SockOk(sock[c], room.uid, Sent)
           /\ c \in Sessions /\ c \in valid => InsideOk(sock[c], seen[c], room.uid, Logged)
           /\ c \in Sessions /\ c \notin valid
                => OutsideOk(sock[c], seen[c], revoked[c], room.uid)
           /\ room.uid \in Nat /\ Sent \in Nat /\ Logged \in Nat /\ Sent <= Logged
           /\ seen = [seen EXCEPT ![c] = seen[c]]
BY RcFacts DEF SockTypes, SockHolds, GuestHolds

(* A connection that has only joined.                                                  *)
LEMMA JoinedFacts ==
    LET k == [Off EXCEPT !.pc = "joined"]
    IN  /\ k \in Socks /\ k.pc = "joined" /\ k.uid = 0 /\ k.at = 0 /\ k.high = 0
        /\ k.checked = FALSE /\ \A m : Below(k.buf, m)
BY OffFacts DEF Socks, Phases

(* A client attaches its receiver.                                                     *)
LEMMA RcSubscribe ==
    ASSUME RcInv, NEW c \in Clients, Subscribe(c)
    PROVE  RcInv'
<1> DEFINE k2 == [Off EXCEPT !.pc = "joined"]
<1>1. /\ UNCHANGED <<room, log, cursor, results, tombs, valid, revoked, seen, queue, window>>
      /\ EnsureTask /\ MayRead(c) /\ sock' = [sock EXCEPT ![c] = k2]
  BY Zenon DEF Subscribe, store, history
<1>2. actor' \in Actors /\ (actor'.pc = "ack" => actor.pc = "ack") BY <1>1, RcFacts, EnsureFacts
<1>3. TaskTypes' BY <1>1, <1>2, RcFacts DEF TaskTypes
<1>4. /\ k2 \in Socks /\ k2.pc = "joined" /\ k2.uid = 0 /\ k2.at = 0 /\ k2.high = 0
      /\ k2.checked = FALSE /\ \A m : Below(k2.buf, m)
  BY JoinedFacts
<1> HIDE DEF k2
<1>5. SockOk(k2, room.uid, Sent) BY <1>4, ConnectionFacts DEF SockOk, Follows
<1>6. c \in Sessions /\ c \in valid => InsideOk(k2, seen[c], room.uid, Logged) BY <1>4, ConnectionFacts DEF InsideOk
<1>7. c \in valid BY <1>1 DEF MayRead
<1> QED BY <1>1, <1>2, <1>3, <1>4, <1>5, <1>6, <1>7, ConnectionFacts, OneSocket

(* A connection reads its snapshot: what is stored is what it has.                     *)
LEMMA RcReadSnapshot ==
    ASSUME RcInv, NEW c \in Clients, ReadSnapshot(c)
    PROVE  RcInv'
<1> DEFINE k == sock[c]
           k2 == [k EXCEPT !.pc = "snapshot", !.uid = room.uid, !.at = Logged]
<1>1. /\ UNCHANGED <<room, log, cursor, results, tombs, valid, revoked, actor, queue, window>>
      /\ k.pc = "joined"
      /\ \/ MayRead(c) /\ sock' = [sock EXCEPT ![c] = k2] /\ seen' = seen
         \/ MayRead(c) /\ sock' = [sock EXCEPT ![c] = Off] /\ seen' = [seen EXCEPT ![c] = Nowhere]
         \/ sock' = [sock EXCEPT ![c] = Off] /\ seen' = seen
  BY Zenon DEF ReadSnapshot, Close, Logged, store, memory
<1>2. TaskTypes' BY <1>1, RcFacts DEF TaskTypes
<1>3. k.checked = FALSE BY <1>1, ConnectionFacts DEF SockOk, Socks
<1>4. /\ k2 \in Socks /\ k2.pc = "snapshot" /\ k2.uid = room.uid /\ k2.at = Logged
      /\ k2.high = k.high /\ k2.buf = k.buf /\ k2.checked = FALSE
  BY <1>3, ConnectionFacts DEF Socks, Phases
<1> HIDE DEF k2
<1>5. SockOk(k2, room.uid, Sent) BY <1>4, ConnectionFacts DEF SockOk
<1>6. c \in Sessions /\ c \in valid => InsideOk(k2, seen[c], room.uid, Logged) BY <1>4, ConnectionFacts DEF InsideOk
<1>7. Nowhere \in Notices /\ Nowhere.uid = 0 /\ Nowhere.seq = 0 BY DEF Nowhere, Notices
<1>8. CASE MayRead(c) /\ sock' = [sock EXCEPT ![c] = k2] /\ seen' = seen
  BY <1>8, <1>1, <1>2, <1>4, <1>5, <1>6, ConnectionFacts, OneSocket DEF MayRead
<1>9. CASE MayRead(c) /\ sock' = [sock EXCEPT ![c] = Off] /\ seen' = [seen EXCEPT ![c] = Nowhere]
  <2>1. c \in valid BY <1>9 DEF MayRead
  <2>2. SockOk(Off, room.uid, Sent) /\ InsideOk(Off, Nowhere, room.uid, Logged) BY <1>7, ConnectionFacts, OffOk
  <2> QED BY <1>1, <1>2, <1>7, <1>9, <2>1, <2>2, OffFacts, OneSocket
<1>10. CASE sock' = [sock EXCEPT ![c] = Off] /\ seen' = seen BY <1>10, CloseFacts, <1>1, <1>2, Kept DEF Close
<1> QED BY <1>1, <1>8, <1>9, <1>10

(* A connection reads what it must catch up with: all that was ever sent and is not    *)
(* in its receiver is within that.                                                     *)
LEMMA RcReadCatchUp ==
    ASSUME RcInv, NEW c \in Clients, ReadCatchUp(c)
    PROVE  RcInv'
<1> DEFINE k == sock[c]  k2 == [k EXCEPT !.pc = "first", !.high = Logged]
<1>1. /\ UNCHANGED <<room, log, cursor, results, tombs, valid, revoked, seen, actor, queue, window>>
      /\ k.pc = "snapshot"
      /\ \/ MayRead(c) /\ sock[c].at <= Logged /\ sock' = [sock EXCEPT ![c] = k2]
         \/ sock' = [sock EXCEPT ![c] = Off]
  BY Zenon DEF ReadCatchUp, Logged, store, memory, history
<1>2. TaskTypes' BY <1>1, RcFacts DEF TaskTypes
<1>3. k.checked = FALSE BY <1>1, ConnectionFacts DEF SockOk, Socks
<1>4. /\ k2 \in Socks /\ k2.pc = "first" /\ k2.uid = k.uid /\ k2.at = k.at
      /\ k2.high = Logged /\ k2.buf = k.buf /\ k2.checked = FALSE
  BY <1>3, ConnectionFacts DEF Socks, Phases
<1> HIDE DEF k2
<1>5. SockOk(k2, room.uid, Sent) BY <1>4, ConnectionFacts DEF Covered, SockOk
<1>6. c \in Sessions /\ c \in valid => InsideOk(k2, seen[c], room.uid, Logged) BY <1>4, ConnectionFacts DEF InsideOk
<1>7. CASE MayRead(c) /\ sock' = [sock EXCEPT ![c] = k2]
  BY <1>7, <1>1, <1>2, <1>4, <1>5, <1>6, ConnectionFacts, OneSocket DEF MayRead
<1>8. CASE sock' = [sock EXCEPT ![c] = Off] BY <1>8, CloseFacts, <1>1, <1>2, Kept DEF Close
<1> QED BY <1>1, <1>7, <1>8

(* The next event is at the head of the receiver.                                      *)
LEMMA NextFacts ==
    ASSUME NEW k, Next_(k)
    PROVE  Filled(k.buf) /\ Head(k.buf).seq = k.at + 1
  BY Zenon DEF Next_, Filled

(* A passed check takes nothing away from what is still on its way.                    *)
LEMMA Checked ==
    ASSUME NEW k \in Socks, NEW k2 \in Socks, NEW u \in Nat, NEW s \in Nat, SockOk(k, u, s),
           k2.pc = k.pc, k2.uid = k.uid, k2.at = k.at, k2.high = k.high, k2.lag = k.lag,
           k2.shut = k.shut, k2.checked = TRUE,
           k.pc \in {"first", "catching", "live"},
           \/ k2.buf = k.buf /\ k.pc # "live"
           \/ /\ Filled(k.buf) /\ Head(k.buf).seq = k.at + 1 /\ k2.buf = Tail(k.buf)
              /\ k.pc = "live"
    PROVE  SockOk(k2, u, s)
<1>1. Follows(k2, u) => Follows(k, u) BY DEF Follows
<1>2. ASSUME Follows(k2, u), NEW q \in Nat, k2.at < q, q <= s
      PROVE  Covered(k2, u, q)
  <2>1. Covered(k, u, q) BY <1>1, <1>2 DEF SockOk
  <2>2. CASE k2.buf = k.buf /\ k.pc # "live" BY <2>1, <2>2 DEF Covered
  <2>3. CASE /\ Filled(k.buf) /\ Head(k.buf).seq = k.at + 1 /\ k2.buf = Tail(k.buf)
              /\ k.pc = "live"
    BY <2>3, BufTaken, <2>1 DEF Socks, Covered
  <2> QED BY <2>2, <2>3
<1> QED BY <1>1, <1>2 DEF SockOk

(* A frame is due: its authority is checked, and a live event leaves the receiver.     *)
LEMMA RcRefresh ==
    ASSUME RcInv, NEW c \in Clients, Refresh(c)
    PROVE  RcInv'
<1> DEFINE k  == sock[c]
           b  == IF k.pc = "live" THEN Tail(k.buf) ELSE k.buf
           k2 == [k EXCEPT !.checked = TRUE, !.buf = b]
<1>1. /\ UNCHANGED <<room, log, cursor, results, tombs, valid, revoked, seen, actor, queue, window>>
      /\ \/ k.pc = "first"
         \/ k.pc = "catching" /\ k.at < k.high
         \/ k.pc = "live" /\ Next_(k)
      /\ \/ sock' = [sock EXCEPT ![c] = Off]
         \/ StillAuthorized(c) /\ sock' = [sock EXCEPT ![c] = k2]
  BY Zenon DEF Refresh, store, memory, history
<1>2. TaskTypes' BY <1>1, RcFacts DEF TaskTypes
<1>3. CASE sock' = [sock EXCEPT ![c] = Off] BY <1>3, CloseFacts, <1>1, <1>2, Kept DEF Close
<1>4. CASE StillAuthorized(c) /\ sock' = [sock EXCEPT ![c] = k2]
  <2>1. k.pc = "live" => Filled(k.buf) /\ Head(k.buf).seq = k.at + 1 BY <1>1, NextFacts
  <2>2. k \in Socks /\ k.buf \in Seq(Notices) BY ConnectionFacts DEF Socks
  <2>3. b \in Seq(Notices) BY <2>1, <2>2, BufTaken
  <2>4. \A m : Below(k.buf, m) => Below(b, m) /\ (k.pc = "live" => k.at + 1 <= m) BY <2>1, <2>2, BufTaken
  <2>5. (b = k.buf /\ k.pc # "live") \/ (b = Tail(k.buf) /\ k.pc = "live") OBVIOUS
  <2> HIDE DEF b
  <2>6. /\ k2 \in Socks /\ k2.pc = k.pc /\ k2.uid = k.uid /\ k2.at = k.at /\ k2.high = k.high
        /\ k2.lag = k.lag /\ k2.shut = k.shut /\ k2.checked = TRUE /\ k2.buf = b
    BY <2>2, <2>3 DEF Socks
  <2> HIDE DEF k2, k
  <2>7. SockOk(k, room.uid, Sent) /\ room.uid \in Nat /\ Sent \in Nat /\ Logged \in Nat BY ConnectionFacts DEF k
  <2>8. SockOk(k2, room.uid, Sent) BY <1>1, <2>1, <2>2, <2>5, <2>6, <2>7, Checked
  <2>9. c \in Sessions => c \in valid BY <1>4 DEF StillAuthorized
  <2>10. ASSUME c \in Sessions
         PROVE  InsideOk(k2, seen[c], room.uid, Logged)
    BY <2>9, <2>10, ConnectionFacts, <2>2, <2>4, <1>1, <2>6, <2>7 DEF k, InsideOk, Socks, NextSeq
  <2>11. k2 \in Socks /\ seen[c] \in Notices /\ seen' = [seen EXCEPT ![c] = seen[c]] BY <1>1, <2>6, ConnectionFacts
  <2> QED BY <1>1, <1>2, <1>4, <2>8, <2>9, <2>10, <2>11, OneSocket
<1> QED BY <1>1, <1>3, <1>4

(* A frame is sent on the authority that was checked for it.                           *)
LEMMA RcSend ==
    ASSUME RcInv, NEW c \in Clients, Send(c)
    PROVE  RcInv'
<1> DEFINE k   == sock[c]
           seq == IF k.pc = "first" THEN k.at ELSE k.at + 1
           ph  == IF k.pc = "first" THEN "catching" ELSE k.pc
           k2  == [k EXCEPT !.checked = FALSE, !.at = seq, !.pc = ph]
           n2  == [uid |-> k.uid, seq |-> seq]
<1>1. /\ UNCHANGED <<room, log, cursor, results, tombs, valid, revoked, actor, queue, window>>
      /\ k.checked /\ sock' = [sock EXCEPT ![c] = k2] /\ seen' = [seen EXCEPT ![c] = n2]
  BY Zenon DEF Send, store, memory
<1>2. TaskTypes' BY <1>1, RcFacts DEF TaskTypes
<1>3. k \in Socks /\ k.at \in Nat /\ k.uid \in Nat /\ k.pc \in Phases BY ConnectionFacts DEF Socks
<1>4. k.pc \in {"first", "catching", "live"} BY <1>1, <1>3, ConnectionFacts DEF SockOk, Phases
<1>5. /\ seq \in Nat /\ seq = NextSeq(k) /\ k.at <= seq /\ ph \in Phases
      /\ k.pc = "live" => seq = k.at + 1 /\ ph = "live"
      /\ k.pc # "live" => ph = "catching"
  BY <1>3, <1>4 DEF NextSeq, Phases
<1> HIDE DEF seq, ph
<1>6. /\ k2 \in Socks /\ k2.pc = ph /\ k2.uid = k.uid /\ k2.at = seq /\ k2.high = k.high
      /\ k2.lag = k.lag /\ k2.shut = k.shut /\ k2.checked = FALSE /\ k2.buf = k.buf
      /\ n2 \in Notices /\ n2.uid = k.uid /\ n2.seq = seq
  BY <1>3, <1>5 DEF Socks, Notices
<1> HIDE DEF k2, k, n2
<1>7. SockOk(k, room.uid, Sent) /\ room.uid \in Nat /\ Sent \in Nat /\ Logged \in Nat BY ConnectionFacts DEF k
<1>8. SockOk(k2, room.uid, Sent) BY <1>4, <1>6, <1>3, <1>5, <1>7 DEF Follows, SockOk, Covered
<1>9. c \in Sessions /\ c \in valid => InsideOk(k2, n2, room.uid, Logged)
  BY ConnectionFacts, <1>1, <1>5, <1>7, <1>6 DEF k, InsideOk, SockOk
<1>10. c \in Sessions /\ c \notin valid => OutsideOk(k2, n2, revoked[c], room.uid)
  BY ConnectionFacts, <1>1, <1>5, <1>6 DEF k, OutsideOk
<1> QED BY <1>1, <1>2, <1>6, <1>8, <1>9, <1>10, OneSocket

(* The catch-up is over: what is beyond it waits in the receiver.                      *)
LEMMA RcGoLive ==
    ASSUME RcInv, NEW c \in Clients, GoLive(c)
    PROVE  RcInv'
<1> DEFINE k == sock[c]  k2 == [k EXCEPT !.pc = "live"]
<1>1. /\ UNCHANGED <<room, log, cursor, results, tombs, valid, revoked, seen, actor, queue, window>>
      /\ k.pc = "catching" /\ k.at = k.high /\ sock' = [sock EXCEPT ![c].pc = "live"]
  BY Zenon DEF GoLive, store, memory, history
<1>2. TaskTypes' BY <1>1, RcFacts DEF TaskTypes
<1>3. sock' = [sock EXCEPT ![c] = k2] BY <1>1
<1>4. /\ k2 \in Socks /\ k2.pc = "live" /\ k2.uid = k.uid /\ k2.at = k.at /\ k2.high = k.high
      /\ k2.lag = k.lag /\ k2.shut = k.shut /\ k2.checked = k.checked /\ k2.buf = k.buf
      /\ k \in Socks
  BY ConnectionFacts DEF Socks, Phases
<1>5. k.at \in Nat /\ SockOk(k, room.uid, Sent) BY ConnectionFacts DEF Socks
<1> HIDE DEF k2
<1>6. SockOk(k2, room.uid, Sent) BY <1>1, <1>4, <1>5 DEF Follows, SockOk, Covered
<1>7. NextSeq(k2) = NextSeq(k) BY <1>1, <1>4 DEF NextSeq
<1>8. c \in Sessions /\ c \in valid => InsideOk(k2, seen[c], room.uid, Logged)
  BY <1>4, <1>7, ConnectionFacts DEF InsideOk
<1>9. c \in Sessions /\ c \notin valid => OutsideOk(k2, seen[c], revoked[c], room.uid)
  BY <1>4, <1>7, ConnectionFacts DEF OutsideOk
<1>10. seen[c] \in Notices /\ seen' = [seen EXCEPT ![c] = seen[c]] BY <1>1, ConnectionFacts
<1> QED BY <1>1, <1>2, <1>3, <1>4, <1>6, <1>8, <1>9, <1>10, OneSocket, ZenonT(60)

(* A live event already delivered leaves the receiver.                                 *)
LEMMA StaleDropped ==
    ASSUME NEW k \in Socks, NEW k2 \in Socks, NEW u \in Nat, NEW s \in Nat, SockOk(k, u, s),
           k2.pc = k.pc, k2.uid = k.uid, k2.at = k.at, k2.high = k.high, k2.lag = k.lag,
           k2.shut = k.shut, k2.checked = k.checked, k2.buf = Tail(k.buf),
           Filled(k.buf), Head(k.buf).seq <= k.at
    PROVE  SockOk(k2, u, s)
BY BufTaken DEF Follows, Socks, SockOk, Notices, Covered

(* A live event is skipped, found to follow a gap, or the last of the room.            *)
LEMMA RcDrop ==
    ASSUME RcInv, NEW c \in Clients, Drop(c)
    PROVE  RcInv'
<1> DEFINE k == sock[c]  k2 == [k EXCEPT !.buf = Tail(@)]
           n2 == [uid |-> k.uid, seq |-> k.at + 1]
<1>1. /\ UNCHANGED <<room, log, cursor, results, tombs, valid, revoked, actor, queue, window>>
      /\ ~k.checked
      /\ \/ Close(c) /\ seen' = seen
         \/ /\ Filled(k.buf) /\ Contiguous(k) /\ ~Next_(k)
            /\ sock' = [sock EXCEPT ![c].buf = Tail(@)] /\ seen' = seen
         \/ Terminal(c, k) /\ Close(c) /\ seen' = [seen EXCEPT ![c] = n2]
  BY Zenon DEF Drop, Filled, store, memory
<1>2. TaskTypes' BY <1>1, RcFacts DEF TaskTypes
<1>3. CASE Close(c) /\ seen' = seen BY <1>3, CloseFacts, <1>1, <1>2, Kept
<1>4. CASE /\ Filled(k.buf) /\ Contiguous(k) /\ ~Next_(k)
           /\ sock' = [sock EXCEPT ![c].buf = Tail(@)] /\ seen' = seen
  <2>1. /\ k \in Socks /\ k.buf \in Seq(Notices) /\ k.at \in Nat
        /\ SockOk(k, room.uid, Sent) /\ room.uid \in Nat /\ Sent \in Nat /\ Logged \in Nat
    BY ConnectionFacts DEF Socks
  <2>2. Head(k.buf) \in Notices /\ Tail(k.buf) \in Seq(Notices) BY <1>4, <2>1, BufTaken
  <2>3. Head(k.buf).seq # k.at + 1 BY <1>4, Zenon DEF Next_, Filled
  <2>4. Head(k.buf).seq <= k.at
    <3>1. Head(k.buf).seq <= k.at + 1 BY <1>4, Zenon DEF Contiguous
    <3>2. Head(k.buf).seq \in Nat /\ k.at \in Nat BY <2>1, <2>2, Zenon DEF Notices
    <3> QED BY <2>3, <3>1, <3>2
  <2>5. \A m : Below(k.buf, m) => Below(Tail(k.buf), m) BY <1>4, <2>1, BufTaken
  <2>6. sock' = [sock EXCEPT ![c] = k2] BY <1>4
  <2>7. /\ k2 \in Socks /\ k2.pc = k.pc /\ k2.uid = k.uid /\ k2.at = k.at /\ k2.high = k.high
        /\ k2.lag = k.lag /\ k2.shut = k.shut /\ k2.checked = k.checked /\ k2.buf = Tail(k.buf)
    BY <2>1, <2>2 DEF Socks
  <2> HIDE DEF k2
  <2>8. SockOk(k2, room.uid, Sent) BY <1>4, <2>1, <2>4, <2>7, StaleDropped
  <2>9. NextSeq(k2) = NextSeq(k) BY <2>7 DEF NextSeq
  <2>10. c \in Sessions /\ c \in valid => InsideOk(k2, seen[c], room.uid, Logged)
    BY <2>5, <2>7, <2>9, ConnectionFacts DEF InsideOk
  <2>11. c \in Sessions /\ c \notin valid => OutsideOk(k2, seen[c], revoked[c], room.uid)
    BY <2>7, <2>9, ConnectionFacts DEF OutsideOk
  <2>12. seen[c] \in Notices /\ seen' = [seen EXCEPT ![c] = seen[c]] BY <1>4, ConnectionFacts
  <2> QED BY <1>1, <1>2, <2>6, <2>7, <2>8, <2>10, <2>11, <2>12, OneSocket
<1>5. CASE Terminal(c, k) /\ Close(c) /\ seen' = [seen EXCEPT ![c] = n2]
  <2>1. c \notin Sessions BY <1>5 DEF Terminal
  <2>2. n2 \in Notices BY ConnectionFacts DEF Socks, Notices
  <2>3. SockOk(Off, room.uid, Sent) /\ Off \in Socks BY ConnectionFacts, OffFacts, OffOk
  <2>4. sock' = [sock EXCEPT ![c] = Off] BY <1>5 DEF Close
  <2> HIDE DEF n2, k
  <2> QED BY <1>1, <1>2, <1>5, <2>1, <2>2, <2>3, <2>4, OneSocket
<1> QED BY <1>1, <1>3, <1>4, <1>5

------------------------
(* Publication. *)

(* What a receiver does with an event it is sent: unless it lags, it now holds it.     *)
LEMMA ReceivedFacts ==
    ASSUME RoomCommandsAssumption, NEW k \in Socks, NEW e \in Notices,
           NEW k2, k2 = Received(k, e)
    PROVE  /\ k2 \in Socks /\ k2.pc = k.pc /\ k2.uid = k.uid /\ k2.at = k.at
           /\ k2.high = k.high /\ k2.checked = k.checked /\ k2.shut = k.shut
           /\ k.lag => k2.lag
           /\ ~k2.lag => k2.buf = Append(k.buf, e)
           /\ \A m : Below(k.buf, m) /\ e.seq <= m => Below(k2.buf, m)
<1>1. k.buf \in Seq(Notices) BY DEF Socks
<1>2. \/ k2 = [k EXCEPT !.buf = Append(k.buf, e)]
      \/ Filled(k.buf) /\ k2 = [k EXCEPT !.buf = Append(Tail(k.buf), e), !.lag = TRUE]
  BY EmptySeq DEF Received, RoomCommandsAssumption, Filled
<1>3. /\ Append(k.buf, e) \in Seq(Notices)
      /\ \A m : Below(k.buf, m) /\ e.seq <= m => Below(Append(k.buf, e), m)
  BY <1>1, BufGrows, Zenon
<1>4. CASE k2 = [k EXCEPT !.buf = Append(k.buf, e)] BY <1>3, <1>4 DEF Socks
<1>5. CASE Filled(k.buf) /\ k2 = [k EXCEPT !.buf = Append(Tail(k.buf), e), !.lag = TRUE]
  <2>1. Tail(k.buf) \in Seq(Notices) /\ \A m : Below(k.buf, m) => Below(Tail(k.buf), m) BY <1>1, <1>5, BufTaken, Zenon
  <2>2. /\ Append(Tail(k.buf), e) \in Seq(Notices)
        /\ \A m : Below(Tail(k.buf), m) /\ e.seq <= m => Below(Append(Tail(k.buf), e), m)
    BY <2>1, BufGrows, Zenon
  <2>3. /\ k2 \in Socks /\ k2.pc = k.pc /\ k2.uid = k.uid /\ k2.at = k.at
        /\ k2.high = k.high /\ k2.checked = k.checked /\ k2.shut = k.shut
        /\ k2.lag = TRUE /\ k2.buf = Append(Tail(k.buf), e)
    BY <1>5, <2>2 DEF Socks
  <2> QED BY <2>1, <2>2, <2>3, Zenon
<1> QED BY <1>2, <1>4, <1>5

(* Such a receiver still covers all that was sent.                                     *)
LEMMA ReceivedOk ==
    ASSUME RoomCommandsAssumption, NEW k \in Socks, NEW u \in Nat, NEW s \in Nat,
           SockOk(k, u, s), NEW e \in Notices, e.uid = u, e.seq = s + 1,
           NEW k2, k2 = Received(k, e)
    PROVE  SockOk(k2, u, s + 1)
<1>1. /\ k2 \in Socks /\ k2.pc = k.pc /\ k2.uid = k.uid /\ k2.at = k.at
      /\ k2.high = k.high /\ k2.checked = k.checked /\ k2.shut = k.shut
      /\ k.lag => k2.lag
      /\ ~k2.lag => k2.buf = Append(k.buf, e)
  BY ReceivedFacts
<1>2. k.buf \in Seq(Notices) BY DEF Socks
<1>3. /\ Held(Append(k.buf, e), u, s + 1)
      /\ \A q : Held(k.buf, u, q) => Held(Append(k.buf, e), u, q)
  BY <1>2, BufGrows
<1>4. Follows(k2, u) => Follows(k, u) /\ k2.buf = Append(k.buf, e) BY <1>1 DEF Follows
<1>5. ASSUME Follows(k2, u), NEW q \in Nat, k2.at < q, q <= s + 1
      PROVE  Covered(k2, u, q)
  <2>1. Held(k2.buf, u, s + 1) /\ (Held(k.buf, u, q) => Held(k2.buf, u, q)) BY <1>3, <1>4, <1>5, Zenon
  <2>2. CASE q = s + 1 BY <2>1, <2>2 DEF Covered
  <2>3. CASE q <= s BY <1>1, <1>4, <1>5, <2>3, <2>1 DEF SockOk, Covered
  <2> QED BY <1>5, <2>2, <2>3
<1> QED BY <1>1, <1>5 DEF SockOk

(* The task sends the next event to every open receiver.                               *)
LEMMA RcPublishSend ==
    ASSUME RcInv, RoomCommandsAssumption, PublishSend
    PROVE  RcInv'
<1> DEFINE e == [uid |-> room.uid, seq |-> cursor + 1]
<1>1. /\ UNCHANGED <<room, log, cursor, results, tombs, valid, revoked, seen, queue, window>>
      /\ actor.pc = "drain" /\ cursor < Logged /\ actor' = [actor EXCEPT !.pc = "ack"]
      /\ sock' = [c \in Clients |-> IF c \in Attached /\ ~sock[c].shut
                                    THEN Received(sock[c], e) ELSE sock[c]]
  BY Zenon DEF PublishSend, Logged, store, history
<1>2. actor' \in Actors /\ actor'.pc = "ack" BY RcFacts, <1>1 DEF Actors, Hands, Steps
<1>3. TaskTypes' BY <1>1, <1>2, RcFacts DEF TaskTypes
<1>4. Logged' = Logged BY <1>1, Zenon DEF Logged
<1>5. Sent = cursor /\ Sent' = cursor + 1 BY <1>1, <1>2 DEF Sent
<1>6. StoreTypes' /\ Books'
  BY <1>1, RcFacts, <1>4 DEF StoreTypes, Position, Books, Absent, Buried, Barred, Accounted, Unique, Stored
<1>7. e \in Notices /\ e.uid = room.uid /\ e.seq = cursor + 1 /\ e.seq <= Logged BY <1>1, RcFacts DEF Notices
<1> HIDE DEF e
<1>8. \A c \in Clients : \/ sock'[c] = Received(sock[c], e)
                         \/ sock'[c] = sock[c] /\ (sock[c].pc = "off" \/ sock[c].shut)
  BY <1>1, Zenon DEF Attached
<1>9. sock' \in [Clients -> Socks] BY <1>7, RcFacts, ReceivedFacts, <1>1
<1>10. SockTypes' BY <1>1, <1>9, RcFacts DEF SockTypes
<1>11. ASSUME NEW c \in Clients
       PROVE  SockHolds(c)' /\ GuestHolds(c)'
  <2> DEFINE k == sock[c]  k2 == sock'[c]
  <2>1. /\ k \in Socks /\ SockOk(k, room.uid, cursor) /\ room.uid \in Nat /\ cursor \in Nat
        /\ Logged \in Nat /\ k.buf \in Seq(Notices)
    BY <1>5, ConnectionFacts, RcFacts DEF Socks
  <2>2. Silent(c) => Silent(c)' BY <1>1, <1>4 DEF Silent
  <2>3. CASE k2 = Received(k, e)
    <3>1. /\ k2 \in Socks /\ k2.pc = k.pc /\ k2.uid = k.uid /\ k2.at = k.at
          /\ k2.high = k.high /\ k2.checked = k.checked /\ k2.shut = k.shut
          /\ k.lag => k2.lag
          /\ ~k2.lag => k2.buf = Append(k.buf, e)
          /\ \A m : Below(k.buf, m) /\ e.seq <= m => Below(k2.buf, m)
      <4>1. k \in Socks /\ e \in Notices BY <1>7, <2>1
      <4> HIDE DEF k
      <4> QED BY <2>3, <4>1, ReceivedFacts, Zenon
    <3>2. SockOk(k2, room.uid, cursor + 1) BY <1>7, <2>1, <2>3, ReceivedOk
    <3> HIDE DEF k, k2
    <3>3. NextSeq(k2) = NextSeq(k) BY <3>1 DEF NextSeq
    <3>4. InsideOk(k, seen[c], room.uid, Logged) => InsideOk(k2, seen[c], room.uid, Logged)
      BY <1>7, <3>1, <3>3 DEF InsideOk
    <3>5. OutsideOk(k, seen[c], revoked[c], room.uid) => OutsideOk(k2, seen[c], revoked[c], room.uid)
      BY <3>1, <3>3 DEF OutsideOk
    <3>6. SockHolds(c)' BY <1>1, <1>5, <3>2 DEF SockHolds, k2
    <3>7. GuestHolds(c)' BY <1>1, <1>4, <2>2, <3>4, <3>5, RcFacts DEF GuestHolds, k, k2
    <3> QED BY <3>6, <3>7
  <2>4. CASE k2 = k /\ (k.pc = "off" \/ k.shut)
    BY <2>4, <2>1, <1>1, <1>5, <1>4, <2>2, RcFacts DEF Follows, SockOk, SockHolds, GuestHolds
  <2> QED BY <1>8, <2>3, <2>4
<1> QED BY <1>3, <1>6, <1>10, <1>11 DEF RcInv, RcTypes

(* The task acknowledges what it sent.                                                 *)
LEMMA RcPublishAck ==
    ASSUME RcInv, PublishAck
    PROVE  RcInv'
<1>1. /\ UNCHANGED <<room, log, results, tombs, valid, revoked, seen, queue, window, sock>>
      /\ actor.pc = "ack" /\ cursor' = cursor + 1 /\ actor' = [actor EXCEPT !.pc = "drain"]
  BY Zenon DEF PublishAck, history
<1>2. actor' \in Actors /\ actor'.pc = "drain" BY RcFacts, <1>1 DEF Actors, Hands, Steps
<1>3. TaskTypes' BY <1>1, <1>2, RcFacts DEF TaskTypes
<1>4. Logged' = Logged BY <1>1, Zenon DEF Logged
<1>5. Sent' = Sent BY <1>1, <1>2 DEF Sent
<1>6. StoreTypes' /\ Books'
  BY <1>1, RcFacts, <1>2, <1>4 DEF StoreTypes, Books, Position, Absent, Buried, Barred, Accounted, Unique,
     Stored
<1>7. sock' \in [Clients -> Socks] /\ \A d \in Clients : sock'[d] = Off \/ Alike(sock'[d], sock[d]) BY <1>1, SockSame
<1>8. Sent' \in Nat /\ Sent' <= Sent BY <1>5, RcFacts
<1>9. SockTypes' /\ \A c \in Clients : SockHolds(c)' /\ GuestHolds(c)' BY <1>1, <1>4, <1>7, <1>8, SocketsKept
<1> QED BY <1>3, <1>6, <1>9 DEF RcInv, RcTypes

------------------------
(* Commits. *)

(* What is inside the log is inside a longer one; a session that ends now ends with    *)
(* all of that behind it.                                                              *)
LEMMA LongerLog ==
    ASSUME NEW k \in Socks, NEW n \in Notices, NEW u \in Nat, NEW m \in Nat,
           k.uid <= u, InsideOk(k, n, u, m), NEW o \in Nat, m <= o
    PROVE  InsideOk(k, n, u, o) /\ OutsideOk(k, n, [uid |-> u, seq |-> o], u)
<1>1. k.at \in Nat /\ k.high \in Nat /\ n.uid \in Nat /\ n.seq \in Nat /\ k.buf \in Seq(Notices)
      /\ k.uid \in Nat
  BY DEF Socks, Notices
<1>2. NextSeq(k) \in Nat BY <1>1 DEF NextSeq
<1>3. Below(k.buf, o)
  <2>1. \A i \in DOMAIN k.buf : k.buf[i].seq \in Nat
    <3>1. DOMAIN k.buf = 1..Len(k.buf) BY <1>1, LenProperties, Zenon
    <3>2. \A i \in DOMAIN k.buf : k.buf[i] \in Notices BY <1>1, <3>1, ElementOfSeq, Zenon
    <3> QED BY <3>2 DEF Notices
  <2>2. \A i \in DOMAIN k.buf : k.buf[i].seq <= m BY DEF InsideOk, Below
  <2> QED BY <2>1, <2>2 DEF Below
<1>4. InsideOk(k, n, u, o) BY <1>1, <1>2, <1>3 DEF InsideOk
<1>5. OutsideOk(k, n, [uid |-> u, seq |-> o], u) BY <1>1, <1>2 DEF InsideOk, OutsideOk
<1> QED BY <1>4, <1>5

\* What a session is left with when the sessions cs end.
Ends(cs) == /\ valid' = valid \ cs
            /\ \A c \in Clients : revoked'[c] = IF c \in cs \cap valid
                                                THEN [uid |-> room.uid, seq |-> Logged']
                                                ELSE revoked[c]

(* Sessions end, and other clients keep what they have, when the log only grows and    *)
(* no session that has already ended writes in it.                                     *)
LEMMA GuestsKept ==
    ASSUME RcInv, NEW cs, Ends(cs), room'.uid = room.uid,
           Logged' \in Nat, Logged <= Logged',
           \A i \in 1..Logged : log'[i] = log[i],
           \A i \in 1..Logged' : i \in 1..Logged \/ (log'[i].by \in Sessions => log'[i].by \in valid),
           NEW c \in Clients, seen'[c] = seen[c], sock'[c] \in Socks, Alike(sock'[c], sock[c])
    PROVE  GuestHolds(c)'
<1> DEFINE k == sock[c]  k2 == sock'[c]
<1>1. /\ k \in Socks /\ k2 \in Socks /\ seen[c] \in Notices /\ revoked[c] \in Notices
      /\ room.uid \in Nat /\ Logged \in Nat /\ SockOk(k, room.uid, Sent) /\ Sent \in Nat
  BY ConnectionFacts
<1>2. k.uid <= room.uid BY <1>1 DEF SockOk
<1>3. CASE c \notin Sessions BY <1>3 DEF GuestHolds
<1>4. CASE c \in Sessions /\ c \in valid
  BY <1>4, ConnectionFacts, <1>1, <1>2, LongerLog, AlikeOk DEF Notices, Ends, Silent, GuestHolds
<1>5. CASE c \in Sessions /\ c \notin valid BY <1>5, RcFacts, <1>1, AlikeOk DEF GuestHolds, Ends, Silent
<1> QED BY <1>3, <1>4, <1>5

(* A session ends by another surface than the room's own commands.                     *)
LEMMA RcSessionEnds ==
    ASSUME RcInv, NEW c \in Clients, SessionEnds(c)
    PROVE  RcInv'
<1> DEFINE k2 == [sock[c] EXCEPT !.signal = (sock[c].pc # "off")]
<1>1. /\ UNCHANGED <<room, log, cursor, results, tombs, seen, actor, queue, window>>
      /\ valid' = valid \ {c}
      /\ revoked' = [d \in Clients |-> IF d \in {c} \cap valid
                                       THEN [uid |-> room.uid, seq |-> Logged'] ELSE revoked[d]]
      /\ sock' = [sock EXCEPT ![c].signal = (sock[c].pc # "off")]
  BY Zenon DEF SessionEnds, Revoke, Logged, memory
<1>2. TaskTypes' BY <1>1, RcFacts DEF TaskTypes
<1>3. Logged' = Logged BY <1>1, Zenon DEF Logged
<1>4. sock' = [sock EXCEPT ![c] = k2] BY <1>1
<1>5. k2 \in Socks /\ Alike(k2, sock[c]) BY ConnectionFacts, SignalFacts
<1> HIDE DEF k2
<1>6. sock' \in [Clients -> Socks] /\ \A d \in Clients : Alike(sock'[d], sock[d])
  BY <1>4, <1>5, RcFacts DEF SockTypes, Alike
<1>7. SockTypes' BY <1>3, RcFacts, <1>1, <1>6 DEF Notices, SockTypes
<1>8. StoreTypes' /\ Books'
  BY <1>1, RcFacts, <1>3 DEF StoreTypes, Books, Position, Absent, Buried, Barred, Accounted, Unique, Stored
<1>9. Ends({c}) BY <1>1 DEF Ends
<1>10. ASSUME NEW d \in Clients
       PROVE  SockHolds(d)' /\ GuestHolds(d)'
  <2>1. sock'[d] \in Socks /\ Alike(sock'[d], sock[d]) /\ seen'[d] = seen[d] BY <1>1, <1>6
  <2>2. Sent' = Sent BY <1>1 DEF Sent
  <2>3. SockHolds(d)' BY <1>1, <2>1, <2>2, ConnectionFacts, AlikeOk DEF SockHolds
  <2>4. GuestHolds(d)' BY <1>1, <1>3, RcFacts, <1>9, <2>1, GuestsKept
  <2> QED BY <2>3, <2>4
<1> QED BY <1>2, <1>7, <1>8, <1>10 DEF RcInv, RcTypes

\* One more event, e: nothing stored under its identity, and accounted for.
Commits(e) ==
    /\ e \in Events /\ log' = Append(log, e) /\ cursor' = cursor
    /\ room' \in [uid : Nat, status : Status] /\ room'.uid = room.uid /\ room'.status # "absent"
    /\ results' \subseteq Requests \ Deletions /\ results \subseteq results'
    /\ \A r \in results' \ results : e = Event(Issuer[r], Key[r], Kind[r])
    /\ tombs' \subseteq Tombs /\ tombs \subseteq tombs' /\ Buried' /\ Barred'
    /\ e.by \in Clients =>
         /\ \/ \E r \in results' : e = Event(Issuer[r], Key[r], Kind[r])
            \/ \E t \in tombs' : e = Event(Issuer[t.req], Key[t.req], "closed")
         /\ \A i \in 1..Logged : ~(log[i].by = e.by /\ log[i].key = e.key)
    /\ e.by \in Sessions => e.by \in valid

(* The frame of the steps that commit an event.                                        *)
LEMMA Committed ==
    ASSUME RcInv, NEW e, Commits(e), NEW cs, Ends(cs), valid' \subseteq Clients,
           revoked' \in [Clients -> Notices], actor'.pc = "ack" => actor.pc = "ack",
           TaskTypes', UNCHANGED <<sock, seen>>
    PROVE  RcInv'
<1>1. /\ log' \in Seq(Events) /\ Logged' = Logged + 1
      /\ \A i \in 1..Logged : log'[i] = log[i]
      /\ log'[Logged + 1] = e
  BY RcFacts, LogGrows DEF Commits, StoreTypes
<1>2. Logged \in Nat /\ Logged' \in Nat /\ Logged <= Logged' BY <1>1, RcFacts
<1>3. \A i \in 1..Logged' : i \in 1..Logged \/ i = Logged + 1 BY <1>1, <1>2
<1>4. Logged + 1 \in 1..Logged' /\ \A i \in 1..Logged : i \in 1..Logged' BY <1>1, <1>2
<1>5. StoreTypes' BY <1>1, RcFacts DEF Commits, StoreTypes
<1>6. Position' BY <1>1, RcFacts DEF Commits, Books, Position
<1>7. Absent' /\ Buried' /\ Barred' BY DEF Commits, Absent
<1>8. Accounted' BY <1>1, RcFacts, <1>3 DEF Accounted, Books, Commits
<1>9. Unique' BY <1>1, RcFacts, <1>3 DEF Unique, Books, Commits
<1>10. Stored' BY RcFacts, <1>1, <1>4 DEF Stored, Books, Commits
<1>11. SockTypes' BY RcFacts DEF SockTypes
<1>12. Sent' \in Nat /\ Sent' <= Sent BY RcFacts DEF Commits, Sent
<1>13. ASSUME NEW c \in Clients
       PROVE  SockHolds(c)' /\ GuestHolds(c)'
  BY RcFacts, <1>12, ConnectionFacts, AlikeOk, <1>1, <1>3, <1>2, GuestsKept DEF Alike, Commits, SockHolds
<1> QED BY <1>5, <1>6, <1>7, <1>8, <1>9, <1>10, <1>11, <1>13 DEF RcInv, RcTypes, Books

(* When no session ends, nothing is recorded of one.                                   *)
LEMMA NoneEnds ==
    ASSUME RcInv, UNCHANGED <<valid, revoked>>
    PROVE  Ends({}) /\ valid' \subseteq Clients /\ revoked' \in [Clients -> Notices]
  BY RcFacts DEF Ends, StoreTypes, SockTypes

(* Another owner commits an event.                                                     *)
LEMMA RcWorkerCommits ==
    ASSUME RcInv, RoomCommandsAssumption, WorkerCommits
    PROVE  RcInv'
<1> DEFINE e == Event("server", "work", "work")
<1>1. /\ UNCHANGED <<room, cursor, results, tombs, valid, revoked, seen, actor, queue, window, sock>>
      /\ room.status # "absent" /\ log' = Append(log, e)
  BY Zenon DEF WorkerCommits, memory, history
<1>2. TaskTypes' BY <1>1, RcFacts DEF TaskTypes
<1>3. e \in Events /\ e.by = "server" /\ e.by \notin Clients /\ e.by \notin Sessions
  BY DEF Event, Events, EventKinds, Keys, RoomCommandsAssumption
<1> HIDE DEF e
<1>4. Buried' /\ Barred' BY <1>1, RcFacts DEF Books, Buried, Barred
<1>5. Commits(e) BY <1>1, <1>3, <1>4, RcFacts DEF Commits, StoreTypes
<1> QED BY <1>1, <1>2, <1>5, NoneEnds, Committed

(* What a command that is not refused says of the books: nothing is stored under its   *)
(* identity but its own deletion or its own result.                                    *)
LEMMA FreshIdentity ==
    ASSUME RcInv, NEW r \in Requests, ~Conflict(r), r \notin results,
           Kind[r] = "delete" => ~DeletionReplay(r),
           NEW i \in 1..Logged
    PROVE  ~(log[i].by = Issuer[r] /\ log[i].key = Key[r] /\ log[i].by \in Clients)
<1>1. ASSUME NEW q \in results, log[i] = Event(Issuer[q], Key[q], Kind[q])
      PROVE  ~(log[i].by = Issuer[r] /\ log[i].key = Key[r])
  BY <1>1 DEF Event, Conflict
<1>2. ASSUME NEW t \in tombs, log[i] = Event(Issuer[t.req], Key[t.req], "closed")
      PROVE  ~(log[i].by = Issuer[r] /\ log[i].key = Key[r])
  <2>1. Kind[t.req] = "delete" BY RcFacts DEF StoreTypes, Tombs, Deletions
  <2>2. t.req # r BY <2>1 DEF DeletionReplay
  <2> QED BY <1>2, <2>2 DEF Event, Conflict, SpentByDeletion
<1> QED BY <1>1, <1>2, RcFacts DEF Books, Accounted

(* A command that may commit: who issues it is in force, and its room is open.         *)
LEMMA InForce ==
    ASSUME RoomCommandsAssumption, NEW e, e.req \in Requests, CommandAuthority(e),
           Kind[e.req] = "delete" => ~DeletionReplay(e.req)
    PROVE  /\ Issuer[e.req] \in valid /\ Issuer[e.req] \in Clients /\ room.status = "active"
           /\ Kind[e.req] = "delete" => Issuer[e.req] \notin Sessions
  BY DEF CommandAuthority, Authorized, DeletionReplay, RoomCommandsAssumption

(* A message is committed.                                                             *)
LEMMA RcExecuteMessage ==
    ASSUME RcInv, RoomCommandsAssumption, ExecuteMessage
    PROVE  RcInv'
<1> DEFINE h == Head(queue)  r == h.req  e == Event(Issuer[r], Key[r], "message")
<1>1. /\ UNCHANGED <<room, cursor, tombs, valid, revoked, seen, window, sock>>
      /\ Take /\ CommandAuthority(h) /\ ~Conflict(r) /\ Kind[r] = "message" /\ r \notin results
      /\ log' = Append(log, e) /\ results' = results \cup {r}
      /\ actor' = InHand(h, "drain", "ok", {})
  BY Zenon DEF ExecuteMessage, IsReplay, history
<1>2. h \in Rows /\ queue' \in Seq(Rows) /\ r \in Requests BY <1>1, RcFacts, TakeFacts
<1>3. actor' \in Actors /\ actor'.pc = "drain" BY <1>1, <1>2, InHandFacts DEF Steps, Outcomes
<1>4. TaskTypes' BY <1>1, <1>2, <1>3, RcFacts DEF TaskTypes
<1> HIDE DEF h, r
<1>5. Issuer[r] \in valid /\ Issuer[r] \in Clients /\ room.status = "active" BY <1>1, <1>2, InForce DEF r
<1>6. e \in Events /\ e.by = Issuer[r] /\ e.key = Key[r] /\ e = Event(Issuer[r], Key[r], Kind[r])
  BY <1>1, <1>2, <1>5 DEF Event, Events, EventKinds, Keys
<1> HIDE DEF e
<1>7. \A i \in 1..Logged : ~(log[i].by = e.by /\ log[i].key = e.key) BY <1>1, <1>2, <1>5, <1>6, FreshIdentity
<1>8. Buried' /\ Barred' BY <1>1, RcFacts DEF Books, Buried, Barred
<1>9. results' \subseteq Requests \ Deletions BY <1>1, <1>2, RcFacts DEF StoreTypes, Deletions
<1>10. Commits(e) BY <1>1, <1>5, <1>6, <1>7, <1>8, <1>9, RcFacts DEF Commits, StoreTypes
<1> QED BY <1>1, <1>3, <1>4, <1>10, NoneEnds, Committed

(* The sessions that Revoke names end with what is then in the log.                    *)
LEMMA RevokeEnds ==
    ASSUME RcInv, NEW cs, Revoke(cs), room' = room \/ room'.uid = room.uid, Logged' \in Nat
    PROVE  Ends(cs) /\ valid' \subseteq Clients /\ revoked' \in [Clients -> Notices]
BY RcFacts DEF Revoke, Logged, Notices, Ends, StoreTypes

(* A client leaves: its last event is the last it may see.                             *)
LEMMA RcExecuteLeave ==
    ASSUME RcInv, RoomCommandsAssumption, ExecuteLeave
    PROVE  RcInv'
<1> DEFINE h == Head(queue)  r == h.req  e == Event(Issuer[r], Key[r], "leave")
<1>1. /\ UNCHANGED <<room, cursor, tombs, seen, window, sock>>
      /\ Take /\ CommandAuthority(h) /\ ~Conflict(r) /\ Kind[r] = "leave" /\ r \notin results
      /\ log' = Append(log, e) /\ results' = results \cup {r} /\ Revoke({Issuer[r]})
      /\ actor' = InHand(h, "drain", "ok", {Issuer[r]})
  BY Zenon DEF ExecuteLeave, IsReplay
<1>2. h \in Rows /\ queue' \in Seq(Rows) /\ r \in Requests BY <1>1, RcFacts, TakeFacts
<1> HIDE DEF h, r
<1>3. Issuer[r] \in valid /\ Issuer[r] \in Clients /\ room.status = "active" BY <1>1, <1>2, InForce DEF r
<1>4. actor' \in Actors /\ actor'.pc = "drain" BY <1>1, <1>2, <1>3, InHandFacts DEF Steps, Outcomes
<1>5. TaskTypes' BY <1>1, <1>2, <1>4, RcFacts DEF TaskTypes
<1>6. e \in Events /\ e.by = Issuer[r] /\ e.key = Key[r] /\ e = Event(Issuer[r], Key[r], Kind[r])
  BY <1>1, <1>2, <1>3 DEF Event, Events, EventKinds, Keys
<1> HIDE DEF e
<1>7. \A i \in 1..Logged : ~(log[i].by = e.by /\ log[i].key = e.key) BY <1>1, <1>2, <1>3, <1>6, FreshIdentity
<1>8. Logged' \in Nat BY <1>1, <1>6, RcFacts, LogGrows DEF StoreTypes
<1>9. Ends({Issuer[r]}) /\ valid' \subseteq Clients /\ revoked' \in [Clients -> Notices] BY <1>1, <1>8, RevokeEnds
<1>10. Buried' /\ Barred' BY <1>1, <1>3, RcFacts DEF Books, Buried, Barred
<1>11. results' \subseteq Requests \ Deletions BY <1>1, <1>2, RcFacts DEF StoreTypes, Deletions
<1>12. Commits(e) BY <1>1, <1>3, <1>6, <1>7, <1>10, <1>11, RcFacts DEF Commits, StoreTypes
<1> QED BY <1>1, <1>4, <1>5, <1>9, <1>12, Committed

(* A room closes: every session ends.                                                  *)
LEMMA RcExecuteDelete ==
    ASSUME RcInv, RoomCommandsAssumption, ExecuteDelete
    PROVE  RcInv'
<1> DEFINE h == Head(queue)  r == h.req  e == Event(Issuer[r], Key[r], "closed")
           t == [uid |-> room.uid, req |-> r, seq |-> Logged + 1, state |-> "pending"]
<1>1. /\ UNCHANGED <<cursor, results, seen, window, sock>>
      /\ Take /\ CommandAuthority(h) /\ ~Conflict(r) /\ Kind[r] = "delete" /\ ~DeletionReplay(r)
      /\ room' = [room EXCEPT !.status = "closed"] /\ log' = Append(log, e)
      /\ tombs' = tombs \cup {t} /\ Revoke(Sessions)
      /\ actor' = InHand(h, "drain", "unresolved", Sessions \cap valid)
  BY Zenon DEF ExecuteDelete, Logged
<1>2. h \in Rows /\ queue' \in Seq(Rows) /\ r \in Requests BY <1>1, RcFacts, TakeFacts
<1> HIDE DEF h, r
<1>3. /\ Issuer[r] \in valid /\ Issuer[r] \in Clients /\ room.status = "active"
      /\ Issuer[r] \notin Sessions
  BY <1>1, <1>2, InForce DEF r
<1>4. actor' \in Actors /\ actor'.pc = "drain" BY RcFacts, <1>1, <1>2, InHandFacts DEF StoreTypes, Steps, Outcomes
<1>5. TaskTypes' BY <1>1, <1>2, <1>4, RcFacts DEF TaskTypes
<1>6. e \in Events /\ e.by = Issuer[r] /\ e.key = Key[r] BY <1>2, <1>3 DEF Event, Events, EventKinds, Keys
<1>7. t \in Tombs /\ t.uid = room.uid /\ t.req = r BY <1>1, <1>2, RcFacts DEF Tombs, Deletions
<1>8. e = Event(Issuer[t.req], Key[t.req], "closed") BY <1>7
<1> HIDE DEF e, t
<1>9. /\ room' \in [uid : Nat, status : Status] /\ room'.uid = room.uid
      /\ room'.status = "closed"
  BY <1>1, RcFacts DEF StoreTypes, Status
<1>10. Logged' \in Nat
  <2>1. Logged' = Logged + 1 BY <1>1, <1>6, RcFacts, LogGrows DEF StoreTypes
  <2> QED BY <2>1, RcFacts
<1>11. r \notin results BY <1>1, <1>2, RcFacts DEF StoreTypes, Deletions
<1>12. \A i \in 1..Logged : ~(log[i].by = e.by /\ log[i].key = e.key) BY <1>1, <1>2, <1>3, <1>6, <1>11, FreshIdentity
<1>13. Ends(Sessions) /\ valid' \subseteq Clients /\ revoked' \in [Clients -> Notices]
  BY <1>1, <1>9, <1>10, RevokeEnds
<1>14. Buried' BY <1>1, <1>7, <1>9, RcFacts DEF Books, Buried
<1>15. Barred' BY <1>13 DEF Barred, Ends
<1>16. Commits(e) BY <1>1, <1>3, <1>6, <1>7, <1>8, <1>9, <1>12, <1>14, <1>15, RcFacts DEF Commits, StoreTypes
<1> QED BY <1>1, <1>4, <1>5, <1>13, <1>16, Committed

------------------------
(* The room goes and comes back. *)

(* An empty log, and a log of one event.                                               *)
LEMMA ShortLogs ==
    /\ <<>> \in Seq(Events) /\ Len(<<>>) = 0
    /\ \A e \in Events : <<e>> \in Seq(Events) /\ Len(<<e>>) = 1 /\ <<e>>[1] = e
BY EmptySeq

(* A log that holds nothing of a client says nothing of one.                           *)
LEMMA NoBooks ==
    ASSUME cursor' = 0, Logged' \in Nat, actor'.pc # "ack", results' = {},
           room'.status = "absent" => Logged' = 0, Buried', Barred',
           \A i \in 1..Logged' : log'[i].by \notin Clients
    PROVE  Books'
BY DEF Position, Absent, Accounted, Unique, Stored, Books

(* The rows of a deleted room go: nothing is left to see or to follow.                 *)
LEMMA RcFinalize ==
    ASSUME RcInv, Finalize
    PROVE  RcInv'
<1>1. actor' = Idle /\ UNCHANGED <<window, seen, revoked>> BY Zenon DEF Finalize, history
<1>2. actor' \in Actors /\ actor'.pc # "ack" BY <1>1, IdleFacts
<1>3. CASE UNCHANGED <<room, log, cursor, results, tombs, valid, queue, sock>>
  BY <1>1, <1>2, <1>3, RcFacts, SockSame, Kept DEF TaskTypes
<1>4. CASE ~UNCHANGED <<room, log, cursor, results, tombs, valid, queue, sock>>
  <2>1. /\ \E t \in tombs : t.uid = room.uid
        /\ room' = [room EXCEPT !.status = "absent"]
        /\ cursor' = 0 /\ results' = {} /\ valid' = {}
        /\ tombs' = {[t EXCEPT !.state = "complete"] : t \in tombs}
        /\ sock' = [c \in Clients |-> IF c \in Attached THEN [sock[c] EXCEPT !.shut = TRUE]
                                      ELSE sock[c]]
    BY <1>4, Zenon DEF Finalize
  <2>a. log' = <<>> /\ queue' = <<>> BY <1>4, Zenon DEF Finalize, QueueDropped
  <2>2. log' \in Seq(Events) /\ Logged' = 0 BY <2>a, ShortLogs, Zenon DEF Logged
  <2>3. queue' \in Seq(Rows) BY <2>a, QueueFacts, Zenon
  <2>4. TaskTypes' BY <1>1, <1>2, <2>3, RcFacts DEF TaskTypes
  <2>5. /\ room' \in [uid : Nat, status : Status] /\ room'.uid = room.uid
        /\ room'.status = "absent"
    BY <2>1, RcFacts DEF StoreTypes, Status
  <2>6. /\ tombs' \subseteq Tombs
        /\ \A t \in tombs' : \E s \in tombs : t.uid = s.uid
    <3>1. \A s \in Tombs : LET t == [s EXCEPT !.state = "complete"]
                           IN  t \in Tombs /\ t.uid = s.uid
      BY DEF Tombs
    <3>2. tombs \subseteq Tombs /\ tombs' = {[t EXCEPT !.state = "complete"] : t \in tombs}
      BY <2>1, RcFacts DEF StoreTypes
    <3> QED BY <3>1, <3>2
  <2>7. StoreTypes' BY <2>1, <2>2, <2>5, <2>6 DEF StoreTypes
  <2>8. Sessions \cap valid = {} BY <2>1, RcFacts DEF Books, Buried, Barred
  <2>9. Buried' /\ Barred' BY <2>1, RcFacts, <2>5, <2>6 DEF Books, Buried, Barred
  <2>10. Books' BY <2>1, <2>2, <1>2, <2>9, NoBooks
  <2>11. sock' \in [Clients -> Socks] /\ \A c \in Clients : Alike(sock'[c], sock[c])
    BY <2>1, SocketsSignalled, RcFacts, SignalFacts DEF Alike
  <2>12. SockTypes' BY <1>1, <2>11, RcFacts DEF SockTypes
  <2>13. Sent' = 0 BY <2>1, <1>2 DEF Sent
  <2>14. ASSUME NEW c \in Clients
         PROVE  SockHolds(c)' /\ GuestHolds(c)'
    BY <1>1, <2>11, ConnectionFacts, AlikeOk, <2>5, <2>13, <2>1, <2>8, <2>2 DEF SockHolds, GuestHolds, Silent
  <2> QED BY <2>4, <2>7, <2>10, <2>12, <2>14 DEF RcInv, RcTypes
<1> QED BY <1>3, <1>4

(* The room is created again: a new incarnation that nobody follows yet.               *)
LEMMA RcCreateAgain ==
    ASSUME RcInv, RoomCommandsAssumption, CreateAgain
    PROVE  RcInv'
<1> DEFINE e == Event("server", "create", "created")
<1>1. /\ UNCHANGED <<results, tombs, actor, queue, window, sock, seen, revoked>>
      /\ room.status = "absent"
      /\ room' = [uid |-> room.uid + 1, status |-> "active"]
      /\ cursor' = 0 /\ valid' = Clients \ Sessions
  BY Zenon DEF CreateAgain, memory, history
<1>a. log' = <<e>> BY Zenon DEF CreateAgain
<1>2. e \in Events /\ e.by = "server" /\ e.by \notin Clients
  BY DEF Event, Events, EventKinds, Keys, RoomCommandsAssumption
<1> HIDE DEF e
<1>3. log' \in Seq(Events) /\ Logged' = 1 /\ log'[1] = e BY <1>a, <1>2, ShortLogs, Zenon DEF Logged
<1>4. TaskTypes' BY <1>1, RcFacts DEF TaskTypes
<1>5. /\ room' \in [uid : Nat, status : Status] /\ room'.uid = room.uid + 1
      /\ room'.status = "active" /\ room.uid \in Nat
  BY <1>1, RcFacts DEF Status
<1>6. results = {} /\ Logged = 0 /\ Sessions \cap valid = {} /\ actor.pc # "ack"
  BY <1>1, RcFacts DEF Books, Absent, Barred, Position
<1>7. results' = {} /\ tombs' = tombs /\ cursor' = 0 /\ actor' = actor BY <1>1, <1>6
<1>8. StoreTypes' BY <1>1, <1>3, <1>5, <1>7, RcFacts DEF StoreTypes
<1>9. Buried' /\ Barred' BY RcFacts, <1>5, <1>7 DEF Books, Buried, StoreTypes, Tombs, Barred
<1>10. Books' BY <1>2, <1>3, <1>5, <1>6, <1>7, <1>9, NoBooks
<1>11. SockTypes' BY <1>1, RcFacts DEF SockTypes
<1>12. ASSUME NEW c \in Clients
       PROVE  SockHolds(c)' /\ GuestHolds(c)'
  <2>1. /\ sock'[c] = sock[c] /\ seen'[c] = seen[c] /\ revoked'[c] = revoked[c]
        /\ sock[c] \in Socks /\ revoked[c] \in Notices /\ SockOk(sock[c], room.uid, Sent)
    BY <1>1, ConnectionFacts
  <2>2. sock[c].uid <= room.uid /\ sock[c].uid \in Nat BY <2>1 DEF SockOk, Socks
  <2>3. ~Follows(sock[c], room.uid + 1) BY <1>5, <2>2 DEF Follows
  <2>4. SockOk(sock[c], room.uid + 1, Sent') BY <1>5, <2>1, <2>2, <2>3 DEF SockOk
  <2>5. SockHolds(c)' BY <1>5, <2>1, <2>4 DEF SockHolds
  <2>6. GuestHolds(c)' BY <1>1, <1>6, ConnectionFacts, <2>1, <1>5 DEF GuestHolds, OutsideOk, Notices, Silent
  <2> QED BY <2>5, <2>6
<1> QED BY <1>4, <1>8, <1>10, <1>11, <1>12 DEF RcInv, RcTypes

------------------------
(* The invariant. *)

(* A server that starts has published nothing, and nobody follows it.                  *)
LEMMA RcInitial ==
    ASSUME RoomCommandsAssumption, RoomCommandsInit
    PROVE  RcInv
<1> DEFINE e == Event("server", "create", "created")
<1>1. /\ room = [uid |-> 1, status |-> "active"] /\ cursor = 0
      /\ results = {} /\ tombs = {} /\ valid = Clients
      /\ actor = Idle /\ window = NoCharges
      /\ sock = [c \in Clients |-> Off]
      /\ seen = [c \in Clients |-> Nowhere] /\ revoked = [c \in Clients |-> Nowhere]
  BY Zenon DEF RoomCommandsInit
<1>a. log = <<e>> /\ queue = <<>> BY Zenon DEF RoomCommandsInit
<1>2. e \in Events /\ e.by = "server" /\ e.by \notin Clients
  BY DEF Event, Events, EventKinds, Keys, RoomCommandsAssumption
<1> HIDE DEF e
<1>3. log \in Seq(Events) /\ Logged = 1 /\ log[1] = e BY <1>a, <1>2, ShortLogs, Zenon DEF Logged
<1>4. room.uid = 1 /\ room.status = "active" /\ room \in [uid : Nat, status : Status] BY <1>1 DEF Status
<1>5. StoreTypes BY <1>1, <1>3, <1>4 DEF StoreTypes
<1>6. TaskTypes BY <1>a, QueueFacts, <1>1, IdleFacts DEF NoCharges, Windows, TaskTypes
<1>7. Nowhere \in Notices /\ Nowhere.uid = 0 /\ Nowhere.seq = 0 BY DEF Nowhere, Notices
<1>8. SockTypes BY <1>1, <1>7, OffFacts DEF SockTypes
<1>9. Sent = 0 BY <1>1, IdleFacts DEF Sent
<1>10. Books
  <2>0. actor.pc # "ack" BY <1>1, IdleFacts
  <2>1. Position /\ Absent /\ Buried /\ Barred BY <1>1, <1>3, <1>4, <2>0 DEF Position, Absent, Buried, Barred
  <2>2. \A i \in 1..Logged : log[i].by \notin Clients BY <1>2, <1>3
  <2>3. Accounted /\ Unique /\ Stored BY <1>1, <2>2 DEF Accounted, Unique, Stored
  <2> QED BY <2>1, <2>3 DEF Books
<1>11. ASSUME NEW c \in Clients
       PROVE  SockHolds(c) /\ GuestHolds(c)
  <2>1. sock[c] = Off /\ seen[c] = Nowhere /\ c \in valid BY <1>1
  <2>2. 0 \in Nat /\ 1 \in Nat OBVIOUS
  <2>3. SockOk(Off, 1, 0) /\ InsideOk(Off, Nowhere, 1, 1)
    <3>1. Nowhere.uid <= 1 /\ Nowhere.seq <= 1 BY <1>7
    <3>2. SockOk(Off, 1, 0) BY <1>7, <2>2, OffOk, ZenonT(60)
    <3>3. InsideOk(Off, Nowhere, 1, 1) BY <1>7, <2>2, <3>1, OffOk, ZenonT(60)
    <3> QED BY <3>2, <3>3
  <2> QED BY <1>3, <1>4, <1>9, <2>1, <2>3 DEF SockHolds, GuestHolds
<1> QED BY <1>5, <1>6, <1>8, <1>10, <1>11 DEF RcInv, RcTypes

(* Every step keeps the books, what is owed and what is over.                          *)
LEMMA RcStep ==
    ASSUME RoomCommandsAssumption, RcInv, [RoomCommandsNext]_rcVars
    PROVE  RcInv'
<1>1. ASSUME NEW r \in Requests, ClientStep(r) \/ Admitted(r)
      PROVE  RcInv'
  BY <1>1, RcIssueCloses, RcIssued, RcCallerGone, RcChargesExpire, RcEnqueueReplayed, RcEnqueue
     DEF ClientStep, Admitted
<1>2. ASSUME NEW c \in Clients, Subscribe(c) \/ SocketStep(c) \/ Disconnect(c) \/ SessionEnds(c)
      PROVE  RcInv'
  BY <1>2, RcSubscribe, RcReadSnapshot, RcReadCatchUp, RcRefresh, RcSend, RcGoLive, RcDrop,
     RcSocketGone, RcSessionEnds DEF SocketStep
<1>3. CASE Execute BY <1>3, RcExecuteIdle, RcExecuteMessage, RcExecuteLeave, RcExecuteDelete DEF Execute
<1>4. CASE RoomTask /\ ~Execute
  BY <1>4, RcPublishSend, RcPublishAck, RcDrained, RcReply, RcWakeUp, RcFinalize DEF RoomTask
<1>5. CASE TaskDies \/ CleanupDone \/ WorkerNotifies \/ RequestFinalize \/ Crash BY <1>5, RcTaskDies, RcWoken, RcCrash
<1>6. CASE WorkerCommits \/ CreateAgain BY <1>6, RcWorkerCommits, RcCreateAgain
<1>7. CASE UNCHANGED rcVars BY <1>7, RcFacts, SockSame, Kept DEF rcVars, store, memory, history, TaskTypes
<1> QED BY <1>1, <1>2, <1>3, <1>4, <1>5, <1>6, <1>7, Zenon DEF RoomCommandsNext

(* The books, what is owed to the subscribers and what is over for the guests are an   *)
(* inductive invariant of one room's commands, crashes and deletions.                  *)
THEOREM RoomInvariant == RoomCommandsSpec => []RcInv
<1>1. RoomCommandsInit => RcInv BY RoomCommandsAssumption, RcInitial
<1>2. RcInv /\ [RoomCommandsNext]_rcVars => RcInv' BY RoomCommandsAssumption, RcStep
<1> QED BY <1>1, <1>2, PTL DEF RoomCommandsSpec

------------------------
(* The properties. *)

(* A connection that follows the room misses nothing without knowing, however commits, *)
(* publication, its snapshot and its catch-up interleave.                              *)
THEOREM SubscribersMissNothing == RoomCommandsSpec => []NothingMissed
<1>1. ASSUME RcInv
      PROVE  NothingMissed
  <2> SUFFICES ASSUME NEW c \in Clients,
                      sock[c].pc \in {"snapshot", "first", "catching", "live"},
                      ~sock[c].lag, ~sock[c].shut, sock[c].uid = room.uid,
                      NEW q \in (sock[c].at + 1)..cursor
               PROVE  \/ \E i \in DOMAIN sock[c].buf :
                            sock[c].buf[i] = [uid |-> room.uid, seq |-> q]
                      \/ sock[c].checked /\ sock[c].pc = "live" /\ q = sock[c].at + 1
                      \/ sock[c].pc # "live" /\ q <= sock[c].high
    BY DEF NothingMissed
  <2>1. sock[c].at \in Nat /\ sock[c].buf \in Seq(Notices) /\ cursor \in Nat /\ cursor <= Sent
        /\ SockOk(sock[c], room.uid, Sent) /\ Sent \in Nat
    BY <1>1, RcFacts, ConnectionFacts DEF Sent, Socks
  <2>2. q \in Nat /\ sock[c].at < q /\ q <= Sent BY <2>1
  <2>3. Covered(sock[c], room.uid, q) BY <2>1, <2>2 DEF SockOk, Follows
  <2>4. ASSUME Held(sock[c].buf, room.uid, q)
        PROVE  \E i \in DOMAIN sock[c].buf : sock[c].buf[i] = [uid |-> room.uid, seq |-> q]
    <3>1. PICK i \in DOMAIN sock[c].buf : /\ sock[c].buf[i].uid = room.uid
                                          /\ sock[c].buf[i].seq = q
      BY <2>4, Zenon DEF Held
    <3>2. sock[c].buf[i] \in Notices BY <2>1, LenProperties, <3>1, ElementOfSeq
    <3>3. \A n \in Notices : n.uid = room.uid /\ n.seq = q => n = [uid |-> room.uid, seq |-> q] BY DEF Notices
    <3> QED BY <3>1, <3>2, <3>3, Zenon
  <2> QED BY <2>3, <2>4 DEF Covered
<1> QED BY <1>1, RoomInvariant, PTL

(* A command takes effect at most once, and what a stored result says of it is in the  *)
(* log.                                                                                *)
THEOREM CommandsTakeEffectOnce == RoomCommandsSpec => []CommittedOnce
<1>1. ASSUME RcInv
      PROVE  CommittedOnce
  BY <1>1, RcFacts DEF Books, Events, Unique, Stored, CommittedOnce
<1> QED BY <1>1, RoomInvariant, PTL

(* A client that lost its authority is shown nothing committed afterwards and commits  *)
(* nothing afterwards, whatever was in flight.                                         *)
THEOREM RevokedStaysOut == RoomCommandsSpec => []RevokedIsOut
<1>1. ASSUME RcInv
      PROVE  RevokedIsOut
  BY RoomCommandsAssumption, <1>1, RcFacts DEF RevokedIsOut, RoomCommandsAssumption, GuestHolds, OutsideOk,
     Silent
<1> QED BY <1>1, RoomInvariant, PTL

(* The rows of a closed room go only when no runtime of it is left to clean up and its *)
(* close event was published.                                                          *)
THEOREM RoomsGoQuietly == RoomCommandsSpec => DeletedWhenQuiet
<1> DEFINE Quiet == room.status = "closed" /\ room'.status = "absent"
                      => ~cleanup /\ \E t \in tombs : t.uid = room.uid /\ cursor >= t.seq
<1>1. ASSUME RcInv, RoomCommandsNext
      PROVE  Quiet
  <2>1. ASSUME room' = room
        PROVE  Quiet
    BY <2>1
  <2>2. ASSUME NEW r \in Requests, ClientStep(r) \/ Admitted(r)
        PROVE  room' = room
    BY <2>2, Zenon DEF ClientStep, Admitted, IssueCloses, IssueRefused, IssueUnresolved,
       IssueAdmitted, CallerGone, ChargesExpire, EnqueueReplayed, Enqueue, store
  <2>3. ASSUME NEW c \in Clients, Subscribe(c) \/ SocketStep(c) \/ Disconnect(c) \/ SessionEnds(c)
        PROVE  room' = room
    BY <2>3, Zenon DEF Subscribe, SocketStep, Disconnect, SessionEnds, ReadSnapshot, ReadCatchUp,
       Refresh, Send, GoLive, Drop, SocketEnds, store
  <2>4. CASE Execute
    BY <1>1, RcFacts, <2>4, <2>1 DEF ExecuteDelete, StoreTypes, Execute, ExecuteFails, ExecuteRejected,
       ExecuteReplayed, ExecuteMessage, ExecuteLeave, store
  <2>5. CASE Finalize BY <2>5, <2>1 DEF Finalize, MayFinish
  <2>6. CASE PublishSend \/ PublishAck \/ DrainDone \/ PublishFails \/ Reply \/ WakeUp
    BY <2>6, <2>1 DEF PublishSend, PublishAck, DrainDone, PublishFails, Reply, WakeUp, store
  <2>7. CASE TaskDies \/ CleanupDone \/ WorkerNotifies \/ RequestFinalize \/ Crash \/ WorkerCommits
    BY <2>7, <2>1 DEF TaskDies, CleanupDone, WorkerNotifies, RequestFinalize, Crash, WorkerCommits, store
  <2>8. CASE CreateAgain BY <2>8 DEF CreateAgain
  <2> HIDE DEF Quiet
  <2> QED BY <1>1, <2>1, <2>2, <2>3, <2>4, <2>5, <2>6, <2>7, <2>8, Zenon DEF RoomCommandsNext, RoomTask
<1>2. RcInv /\ [RoomCommandsNext]_rcVars => [Quiet]_rcVars BY <1>1
<1>3. RoomCommandsSpec => [][Quiet]_rcVars
  <2> HIDE DEF Quiet
  <2> QED BY <1>2, RoomInvariant, PTL DEF RoomCommandsSpec
<1> QED BY <1>3 DEF DeletedWhenQuiet

=============================================================================
