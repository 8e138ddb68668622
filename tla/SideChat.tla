------------------------------ MODULE SideChat ------------------------------
(***************************************************************************)
(* The humans' side chat: messages a process keeps in memory, for a while  *)
(* and up to a number, and never writes to the room's log.  With nothing   *)
(* durable to recognise a retry by, a send names the lifetime and the last *)
(* message its author had seen, and is refused once what it might repeat   *)
(* may have been forgotten.  A browser subscribes first, reads a snapshot  *)
(* over HTTP meanwhile, and merges the two.                                *)
(***************************************************************************)
EXTENDS Integers, FiniteSets, Sequences, FiniteSetsExt, SequencesExt, Functions

CONSTANTS
    ScRequests, \* sends of the browser
    ScKeep,     \* SIDE_CHAT_MAX_MESSAGES, and the capacity of a subscription
    ScTtl,      \* SIDE_CHAT_TTL_SECONDS
    ScTime,     \* bound: how far the clock runs
    ScSeq,      \* bound: messages of one lifetime
    ScLives     \* bound: lifetimes of the process

VARIABLES
    scRoom,   \* the room's entry: generation, latest, floor, retained messages
    scNow,    \* the clock
    scMay,    \* the browser's authority: writes, reads (muted), or none
    scCall,   \* each send: its payload and what its author was told
    scWire,   \* how many copies of each send are under way
    scSub,    \* the socket's subscription: updates not delivered yet
    scBrowser,\* the browser's connection: snapshot under way, buffer, view
    scPosts   \* how often each send became a message, over all lifetimes

scVars == <<scRoom, scNow, scMay, scCall, scWire, scSub, scBrowser, scPosts>>

Somebody == "others" \* whoever else writes; their sends are not retried here

\* A room keeps at least one message, for some time; the browser's sends are its own.
ASSUME ScAssumption ==
    /\ ScKeep \in Nat \ {0} /\ ScTtl \in Nat \ {0}
    /\ Somebody \notin ScRequests

NewRoom(gen) == [gen |-> gen, latest |-> 0, floor |-> 0, kept |-> <<>>]
NoSub   == [on |-> FALSE, queue |-> <<>>, lagged |-> FALSE]
NoView  == [gen |-> 0, floor |-> 0, latest |-> 0, shown |-> <<>>]
OffLine == [at |-> "off", http |-> "none", read |-> NoView, buffer |-> <<>>, view |-> NoView,
            gap |-> FALSE]

ScInit ==
    /\ scRoom = NewRoom(1) /\ scNow = 0 /\ scMay = "writes"
    /\ scCall = [r \in ScRequests |-> [gen |-> 0, after |-> 0, told |-> "nothing"]]
    /\ scWire = [r \in ScRequests |-> 0]
    /\ scSub = NoSub /\ scBrowser = OffLine
    /\ scPosts = [r \in ScRequests |-> 0]

------------------------
(* The room's entry.                                                        *)

\* Too old, or too many: the oldest go, and the floor remembers up to where.
Prune(room) ==
    LET old  == Cardinality({i \in DOMAIN room.kept : room.kept[i].at + ScTtl <= scNow})
        over == Max({0, Len(room.kept) - ScKeep})
        n    == Max({old, over})
    IN  IF n = 0 THEN room
        ELSE [room EXCEPT !.kept = SubSeq(@, n + 1, Len(@)), !.floor = room.kept[n].seq]

ScSnapshot(room) ==
    [gen |-> room.gen, floor |-> room.floor, latest |-> room.latest,
     shown |-> [n \in {m.seq : m \in Range(room.kept)} |->
                   (CHOOSE m \in Range(room.kept) : m.seq = n).of]]

Posted(room, r) ==
    Prune([room EXCEPT !.latest = @ + 1, !.kept = Append(@, [seq |-> room.latest + 1, of |-> r, at |-> scNow])])

\* Every subscription is sent the update with the floor of its time; a full one loses
\* its oldest.
Publish(room, r) ==
    scSub' = IF ~scSub.on THEN scSub
             ELSE LET queue == Append(scSub.queue, [gen |-> room.gen, floor |-> room.floor,
                                                    seq |-> room.latest, of |-> r])
                  IN  IF Len(queue) > ScKeep THEN [scSub EXCEPT !.queue = Tail(queue), !.lagged = TRUE]
                      ELSE [scSub EXCEPT !.queue = queue]

\* Mutant: a retry is not recognised by the message it became.
Retained_not(room, r) == FALSE
\* The receipt of a send is its message, as long as that is kept.
Retained(room, r) == \E m \in Range(room.kept) : m.of = r

\* The window in which a send cannot be one that was posted and forgotten.
InWindow(room, call) == call.after >= room.floor

\* append: what becomes of a send once its author's authority was confirmed.
Outcome(room, r) ==
    LET call == scCall[r] IN
    CASE call.gen # room.gen \/ call.after > room.latest -> "expired"
      [] OTHER -> IF Retained(room, r) THEN "deduplicated"
                  ELSE IF InWindow(room, call) THEN "posted" ELSE "expired"

------------------------
(* The server's side of a send.                                             *)

\* human_authority: a current human member may read, and write unless muted.
MayWrite == scMay = "writes"
MayRead  == scMay # "none"

\* The answer reaches its author, or is lost on the way; an expired send stays open.
Answer(r, what) ==
    \/ scCall' = [scCall EXCEPT ![r].told = IF @ = "waiting" /\ what # "open" THEN what ELSE @]
    \/ UNCHANGED scCall

Execute(r) ==
    LET room == Prune(scRoom) IN
    /\ scWire[r] > 0 /\ scWire' = [scWire EXCEPT ![r] = @ - 1]
    /\ UNCHANGED <<scNow, scMay, scBrowser>>
    /\ \/ /\ ~MayWrite /\ Answer(r, "rejected")
          /\ UNCHANGED <<scRoom, scSub, scPosts>>
       \/ /\ MayWrite /\ Outcome(room, r) = "expired" /\ Answer(r, "open")
          /\ scRoom' = room /\ UNCHANGED <<scSub, scPosts>>
       \/ /\ MayWrite /\ Outcome(room, r) = "deduplicated" /\ Answer(r, "committed")
          /\ scRoom' = room /\ UNCHANGED <<scSub, scPosts>>
       \/ /\ MayWrite /\ Outcome(room, r) = "posted" /\ room.latest < ScSeq
          /\ scRoom' = Posted(room, r)
          /\ Publish(scRoom', r)
          /\ scPosts' = [scPosts EXCEPT ![r] = @ + 1]
          /\ Answer(r, "committed")

OthersPost ==
    /\ MayRead /\ Prune(scRoom).latest < ScSeq
    /\ scRoom' = Posted(Prune(scRoom), Somebody)
    /\ Publish(scRoom', Somebody)
    /\ UNCHANGED <<scNow, scMay, scCall, scWire, scBrowser, scPosts>>

------------------------
(* The browser.                                                             *)

Shows  == scBrowser.at = "shown"
Lost(b) == [OffLine EXCEPT !.at = "failed", !.http = b.http, !.gap = b.gap]

\* mergeSideChatUpdates: one lifetime, and every message from the floor to the latest.
Merged(view, updates) ==
    LET seqs   == {u.seq : u \in Range(updates)}
        floor  == Max({view.floor} \cup {u.floor : u \in Range(updates)})
        latest == Max({view.latest} \cup seqs)
    IN  [gen |-> view.gen, floor |-> floor, latest |-> latest,
         shown |-> [n \in {k \in seqs \cup DOMAIN view.shown : k > floor} |->
                       IF n \in seqs THEN (CHOOSE u \in Range(updates) : u.seq = n).of
                       ELSE view.shown[n]]]

OneLife(view, updates) == \A u \in Range(updates) : u.gen = view.gen
Agrees(view, updates) ==
    \A u \in Range(updates) : u.seq \in DOMAIN view.shown => view.shown[u.seq] = u.of
Complete(view) ==
    Cardinality(DOMAIN view.shown) <= ScKeep /\ DOMAIN view.shown = view.floor + 1 .. view.latest

\* The view after a merge, or the failure that asks for a new connection.
TakeIn(b, view, updates) ==
    LET merged == Merged(view, updates) IN
    IF OneLife(view, updates) /\ Agrees(view, updates) /\ Complete(merged)
    THEN [b EXCEPT !.at = "shown", !.view = merged, !.buffer = <<>>]
    ELSE Lost([b EXCEPT !.gap = OneLife(view, updates)])

\* The socket is subscribed before the browser asks for a snapshot.
ScConnect ==
    /\ scBrowser.at = "off" /\ MayRead
    /\ scSub' = [NoSub EXCEPT !.on = TRUE]
    /\ scBrowser' = [OffLine EXCEPT !.at = "reading", !.http = "asked"]
    /\ UNCHANGED <<scRoom, scNow, scMay, scCall, scWire, scPosts>>

ReadSnapshot ==
    /\ scBrowser.http = "asked"
    /\ IF ~MayRead
       THEN scBrowser' = [scBrowser EXCEPT !.http = "refused"] /\ UNCHANGED scRoom
       ELSE /\ scRoom' = Prune(scRoom)
            /\ scBrowser' = [scBrowser EXCEPT !.http = "read", !.read = ScSnapshot(scRoom')]
    /\ UNCHANGED <<scNow, scMay, scCall, scWire, scSub, scPosts>>

SnapshotArrives ==
    LET b == [scBrowser EXCEPT !.http = "none", !.read = NoView] IN
    /\ scBrowser.http \in {"read", "refused"}
    /\ scBrowser' = IF scBrowser.at # "reading" THEN b
                    ELSE IF scBrowser.http = "refused" THEN Lost(b)
                    ELSE TakeIn(b, scBrowser.read, scBrowser.buffer)
    /\ UNCHANGED <<scRoom, scNow, scMay, scCall, scWire, scSub, scPosts>>

Nth(S, k) == CHOOSE i \in S : Cardinality({j \in S : j < i}) = k - 1
\* Before the snapshot an update waits, as long as its own floor keeps it.
Buffered(buffer, u) ==
    LET all  == Append(buffer, u)
        held == {i \in DOMAIN all : all[i].seq > u.floor}
    IN  [k \in 1 .. Cardinality(held) |-> all[Nth(held, k)]]

Receive(b, u) ==
    CASE b.at = "reading" ->
            IF Len(Buffered(b.buffer, u)) > ScKeep THEN Lost([b EXCEPT !.gap = TRUE])
            ELSE [b EXCEPT !.buffer = Buffered(@, u)]
      [] b.at = "shown" -> TakeIn(b, b.view, <<u>>)
      [] OTHER -> b

\* deliver_update: authority first; a subscription that lost updates asks for a resync.
Deliver ==
    /\ scSub.on /\ scSub.queue # <<>> /\ MayRead /\ ~scSub.lagged
    /\ scBrowser' = Receive(scBrowser, Head(scSub.queue))
    /\ scSub' = [scSub EXCEPT !.queue = Tail(@)]
    /\ UNCHANGED <<scRoom, scNow, scMay, scCall, scWire, scPosts>>

\* disconnect: the socket ended by itself, for a revoked reader, a lagging one or a failed view.
SocketOver ==
    /\ scBrowser.at # "off"
    /\ scSub' = NoSub /\ scBrowser' = OffLine
    /\ UNCHANGED <<scRoom, scNow, scMay, scCall, scWire, scPosts>>

\* One send at a time, bound to what the view shows.
SendChat(r) ==
    /\ Shows /\ scCall[r].told = "nothing"
    /\ \A q \in ScRequests : scWire[q] = 0
    /\ scCall' = [scCall EXCEPT ![r] = [gen |-> scBrowser.view.gen, after |-> scBrowser.view.latest,
                                        told |-> "waiting"]]
    /\ scWire' = [scWire EXCEPT ![r] = 1]
    /\ UNCHANGED <<scRoom, scNow, scMay, scSub, scBrowser, scPosts>>

\* The same payload again, on the next socket, while an earlier copy may be under way.
RetryChat(r) ==
    /\ scSub.on /\ scCall[r].told = "waiting" /\ scWire[r] < 2
    /\ scWire' = [scWire EXCEPT ![r] = @ + 1]
    /\ UNCHANGED <<scRoom, scNow, scMay, scCall, scSub, scBrowser, scPosts>>

------------------------
(* The surroundings.                                                        *)

ScTick ==
    /\ scNow < ScTime /\ scNow' = scNow + 1
    /\ UNCHANGED <<scRoom, scMay, scCall, scWire, scSub, scBrowser, scPosts>>

ScMute ==
    /\ scMay # "none"
    /\ scMay' = IF scMay = "writes" THEN "reads" ELSE "writes"
    /\ UNCHANGED <<scRoom, scNow, scCall, scWire, scSub, scBrowser, scPosts>>

\* The room is deleted and its entry cleared; a session that is revoked leaves it alone.
RoomDeleted ==
    /\ scMay # "none" /\ scMay' = "none"
    /\ scRoom' = NewRoom(scRoom.gen)
    /\ scSub' = NoSub
    /\ UNCHANGED <<scNow, scCall, scWire, scBrowser, scPosts>>

SessionRevoked ==
    /\ scMay # "none" /\ scMay' = "none"
    /\ UNCHANGED <<scRoom, scNow, scCall, scWire, scSub, scBrowser, scPosts>>

\* A new process knows nothing; the browser may notice later that its socket ended.
ScRestart ==
    /\ scRoom.gen < ScLives
    /\ scRoom' = NewRoom(scRoom.gen + 1)
    /\ scWire' = [r \in ScRequests |-> 0]
    /\ scSub' = NoSub
    /\ UNCHANGED <<scNow, scMay, scCall, scBrowser, scPosts>>

ScNext ==
    \/ OthersPost \/ ScConnect \/ ReadSnapshot \/ SnapshotArrives \/ Deliver \/ SocketOver
    \/ ScTick \/ ScMute \/ RoomDeleted \/ SessionRevoked \/ ScRestart
    \/ \E r \in ScRequests : Execute(r) \/ SendChat(r) \/ RetryChat(r)

ScSpec == ScInit /\ [][ScNext]_scVars

------------------------
(* Without a durable receipt a send still becomes a message at most once, over retries,
   eviction, expiry and restarts of the process, and whoever is told "committed" was
   posted (append).  The browser never finds a gap of its own making: the snapshot and the
   updates that overlap it always merge within one lifetime, and once everything sent was
   delivered the view holds the room's latest message (useRoomSideChat, mergeSideChatUpdates,
   subscribe_side_chat). *)
SideChatTrue ==
    /\ \A r \in ScRequests :
          /\ scPosts[r] <= 1
          /\ scCall[r].told = "committed" => scPosts[r] = 1
    /\ ~scBrowser.gap
    /\ Shows /\ scSub.on /\ scSub.queue = <<>> /\ scBrowser.view.gen = scRoom.gen =>
          scBrowser.view.latest = scRoom.latest
=============================================================================
