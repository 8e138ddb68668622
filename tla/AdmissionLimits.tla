---------------------------- MODULE AdmissionLimits ----------------------------
(***************************************************************************)
(* What a network peer may take from the server: HTTP connections and the  *)
(* permit a public request needs, leases of room sockets, frames and       *)
(* history reads per window, and the pages of history that fit a frame.    *)
(* Requests that are refused and change nothing have no action.            *)
(***************************************************************************)
EXTENDS Naturals, Sequences, SequencesExt, FiniteSetsExt

CONSTANTS
    Peers,        \* HTTP connections
    Callers,      \* principal -> its room
    HttpLimit,    \* MAX_HTTP_CONNECTIONS
    TotalLimit, CallerLimit, RoomLimit,
    Window, Frames, Reads, Tracked,   \* ScopePolicy, MAX_TRACKED_PRINCIPALS
    PageLimit, FrameBytes, Sizes,     \* Sizes[seq] is the encoded size of an event
    MaxTime, MaxId                    \* bounds of the instance

VARIABLES
    http,     \* peer -> HttpConnectionAdmission
    leases,   \* AdmissionState.leases, lease id -> record
    scopes,   \* AdmissionState.principals and rooms
    lastId,   \* AdmissionState.sequence
    windows,  \* SocketAdmissionState.principals: the tracked windows
    now,
    readers,  \* a client that pages back through the history of a room
    reads,    \* history: when a read was admitted
    lastSeq   \* the newest event of the room

limitVars == <<http, leases, scopes, lastId, windows, now, readers, reads, lastSeq>>

Principals == DOMAIN Callers
RoomsOf == {Callers[c] : c \in Principals}
NoScope == [gen |-> 0, active |-> 0]
NewReader == [before |-> 0, got |-> <<>>, top |-> 0, done |-> FALSE]
Closed == [open |-> FALSE, public |-> FALSE, waits |-> FALSE, late |-> FALSE]

LimitsInit ==
    /\ http = [p \in Peers |-> Closed]
    /\ leases = {} /\ lastId = 0 /\ windows = {} /\ now = 0 /\ lastSeq = Len(Sizes) - 1
    /\ scopes = [k \in Principals \cup RoomsOf |-> NoScope]
    /\ readers = [c \in Principals |-> NewReader] /\ reads = [c \in Principals |-> <<>>]

------------------------
\* HTTP connections

Open == {p \in Peers : http[p].open}
Public == {p \in Peers : http[p].public}

Admit(p) ==
    /\ ~http[p].open /\ Cardinality(Open) < HttpLimit
    /\ http' = [http EXCEPT ![p] = [Closed EXCEPT !.open = TRUE]]
    /\ UNCHANGED <<leases, scopes, lastId, windows, now, readers, reads, lastSeq>>

PublicLimit == HttpLimit - 1

\* admit_public, from require_trusted_ingress; the permit stays with the connection
AdmitPublic(p) ==
    /\ http[p].open /\ ~http[p].public /\ Cardinality(Public) < PublicLimit
    /\ http' = [http EXCEPT ![p].public = TRUE]
    /\ UNCHANGED <<leases, scopes, lastId, windows, now, readers, reads, lastSeq>>

\* retain_authenticated_wait and the drop of its guard
WaitBegins(p) ==
    /\ http[p].open /\ ~http[p].waits /\ ~http[p].late
    /\ http' = [http EXCEPT ![p].waits = TRUE]
    /\ UNCHANGED <<leases, scopes, lastId, windows, now, readers, reads, lastSeq>>
WaitEnds(p) ==
    /\ http[p].waits
    /\ http' = [http EXCEPT ![p].waits = FALSE]
    /\ UNCHANGED <<leases, scopes, lastId, windows, now, readers, reads, lastSeq>>

\* The lifetime of a connection ends it, unless an authenticated request
\* waits: that one gets a second lifetime to flush its response.
LifetimeEnds(p) ==
    /\ http[p].open
    /\ http' = [http EXCEPT ![p] = IF http[p].waits THEN [@ EXCEPT !.late = TRUE] ELSE Closed]
    /\ http' # http
    /\ UNCHANGED <<leases, scopes, lastId, windows, now, readers, reads, lastSeq>>

------------------------
\* Room sockets

\* ensure_capacity: expired windows leave when the table is full.
Live(w) == now - w.start < Window
Retained(c) ==
    IF (\E w \in windows : w.who = c) \/ Cardinality(windows) < Tracked THEN windows
    ELSE {w \in windows : Live(w)}
HasRoomFor(c) == (\E w \in Retained(c) : w.who = c) \/ Cardinality(Retained(c)) < Tracked

NewWindow(c) == [who |-> c, start |-> now, frames |-> 0, reads |-> 0]

\* prepare
Current(c) ==
    IF \E w \in windows : w.who = c /\ Live(w) THEN CHOOSE w \in windows : w.who = c ELSE NewWindow(c)
Charged(c, w) == {x \in Retained(c) : x.who # c} \cup {w}

Count(k) == scopes[k].active

\* acquire: the scopes of the first lease get a generation.
Acquire(c) ==
    LET r == Callers[c]
        fresh == {k \in {c, r} : scopes[k] = NoScope}
        gen(k) == IF k \notin fresh THEN scopes[k].gen
                  ELSE IF k = c THEN lastId + 1 ELSE lastId + Cardinality(fresh)
        id == lastId + Cardinality(fresh) + 1
    IN /\ Cardinality(leases) < TotalLimit /\ Count(c) < CallerLimit /\ Count(r) < RoomLimit
       /\ id <= MaxId /\ lastId' = id
       /\ scopes' = [k \in DOMAIN scopes |->
            IF k \in {c, r} THEN [gen |-> gen(k), active |-> scopes[k].active + 1] ELSE scopes[k]]
       /\ leases' = leases \cup {[id |-> id, who |-> c, room |-> r, whoGen |-> gen(c), roomGen |-> gen(r)]}
       /\ UNCHANGED <<http, windows, now, readers, reads, lastSeq>>

\* Mutant: a scope is removed with its first lease.
Left_removed(s, gen) == IF s.gen # gen THEN s ELSE NoScope

\* release_scope
Left(s, gen) ==
    IF s.gen # gen THEN s
    ELSE IF s.active = 1 THEN NoScope ELSE [s EXCEPT !.active = @ - 1]

Released(l) ==
    /\ leases' = leases \ {l}
    /\ scopes' = [scopes EXCEPT ![l.who] = Left(@, l.whoGen), ![l.room] = Left(@, l.roomGen)]

\* The lease is dropped with its socket.
Release(l) ==
    /\ l \in leases /\ Released(l)
    /\ readers' = [readers EXCEPT ![l.who] = NewReader]
    /\ UNCHANGED <<http, lastId, windows, now, reads, lastSeq>>

\* charge_frame_scopes: a frame is charged before it is judged, and a socket
\* over its budget is closed.
Frame(l) ==
    /\ l \in leases
    /\ LET w == [Current(l.who) EXCEPT !.frames = @ + 1]
       IN IF HasRoomFor(l.who) /\ w.frames <= Frames
          THEN windows' = Charged(l.who, w) /\ UNCHANGED <<leases, scopes, readers>>
          ELSE /\ windows' = IF HasRoomFor(l.who) THEN Charged(l.who, [w EXCEPT !.frames = Frames + 1])
                             ELSE Retained(l.who)
               /\ Released(l)
               /\ readers' = [readers EXCEPT ![l.who] = NewReader]
    /\ UNCHANGED <<http, lastId, now, reads, lastSeq>>

------------------------
\* History

\* room_history_page: the events before a sequence number, newest last.
Page(before) ==
    LET top == IF before = 0 THEN lastSeq ELSE Min({before - 1, lastSeq})
        n == Min({PageLimit, top})
    IN [i \in 1..n |-> top - n + i]

Bytes(page) == FoldLeft(LAMBDA sum, seq : sum + Sizes[seq], 0, page)
Without(page, dropped) == SubSeq(page, dropped + 1, Len(page))
Encodes(page, dropped) == Bytes(Without(page, dropped)) <= FrameBytes

\* fit_bounded_history: a binary search of the fewest events to drop, 0 for none
Search(page) ==
    LET search[first \in 1..Len(page), last \in 0..Len(page)] ==
          IF first > last THEN 0
          ELSE LET dropped == first + (last - first) \div 2
               IN IF Encodes(page, dropped)
                  THEN LET better == IF dropped = 1 THEN 0 ELSE search[first, dropped - 1]
                       IN IF better = 0 THEN dropped ELSE better
                  ELSE search[dropped + 1, last]
    IN search[1, Len(page) - 1]

\* What is sent: the page, its newest part, or nothing (response_too_large).
Fitted(page) ==
    IF Encodes(page, 0) THEN page
    ELSE IF Len(page) < 2 \/ Search(page) = 0 THEN <<>>
    ELSE Without(page, Search(page))

\* read_history_frame: the read is charged, then the page is read and fitted.
ReadHistory(c) ==
    /\ \E l \in leases : l.who = c
    /\ ~readers[c].done /\ HasRoomFor(c)
    /\ LET w == [Current(c) EXCEPT !.reads = @ + 1]
           page == Page(readers[c].before)
           sent == Fitted(page)
       IN /\ w.reads <= Reads
          /\ windows' = Charged(c, w)
          /\ reads' = [reads EXCEPT ![c] = Append(@, now)]
          /\ readers' = [readers EXCEPT ![c] =
                IF sent = <<>> THEN [@ EXCEPT !.done = TRUE]
                ELSE [before |-> Head(sent), got |-> sent \o @.got,
                      top |-> IF @.before = 0 THEN lastSeq ELSE @.top, done |-> Head(sent) = 1]]
    /\ UNCHANGED <<http, leases, scopes, lastId, now, lastSeq>>

\* The room goes on while a client pages back.
EventAppended ==
    /\ lastSeq < Len(Sizes) /\ lastSeq' = lastSeq + 1
    /\ UNCHANGED <<http, leases, scopes, lastId, windows, now, readers, reads>>

Tick ==
    /\ now < MaxTime /\ now' = now + 1
    /\ UNCHANGED <<http, leases, scopes, lastId, windows, readers, reads, lastSeq>>

HttpNext ==
    \E p \in Peers : Admit(p) \/ AdmitPublic(p) \/ WaitBegins(p) \/ WaitEnds(p) \/ LifetimeEnds(p)
SocketNext ==
    \/ \E c \in Principals : Acquire(c) \/ ReadHistory(c)
    \/ \E l \in leases : Release(l) \/ Frame(l)
    \/ EventAppended \/ Tick

------------------------

\* A principal's and a room's count is the number of the leases that are held,
\* also when a scope went away with its last lease and came back.
ScopesCountLeases ==
    \A k \in DOMAIN scopes :
        scopes[k].active = Cardinality({l \in leases : k \in {l.who, l.room}})

\* Whatever the windows do, no span of a window's length holds more than two
\* budgets of history reads of one principal.
ReadsAreBounded ==
    \A c \in Principals : \A t \in 0..MaxTime :
        Len(SelectSeq(reads[c], LAMBDA x : t <= x /\ x < t + Window)) <= 2 * Reads

\* The pages a client read are one run of events without a gap, up to the newest
\* event of its first page, and drop no event that would have fitted.
PagesJoinUp ==
    \A c \in Principals :
        LET r == readers[c]
            page == Page(r.before)
        IN /\ \A i \in 1..Len(r.got) : r.got[i] = r.top - Len(r.got) + i
           /\ r.done /\ r.got # <<>> => r.got[1] = 1
           /\ r.before # 1 /\ Fitted(page) # <<>> =>
                \A d \in 0..(Len(page) - 1) : Encodes(page, d) => Len(page) - d <= Len(Fitted(page))

\* The limits refuse what they must and nothing else: the counts are exact, the
\* reads bounded whatever the windows do, and a page is cut only where it must be.
LimitsAreExact == ScopesCountLeases /\ ReadsAreBounded /\ PagesJoinUp
===============================================================================
