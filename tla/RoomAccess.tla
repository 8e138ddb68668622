------------------------------ MODULE RoomAccess ------------------------------
(* How people get into one room and how they lose that access: invites and their   *)
(* credentials, admissions and the sessions they open, the recovery of a guest's   *)
(* identity on another device, the pairing of the operator's second device, Google *)
(* accounts, and the tickets by which a session opens a socket.  Every durable      *)
(* operation is one transaction of the store; a reply may be lost, in which case    *)
(* the client asks again.  Expiry is a step of its own and may come at any time.    *)
EXTENDS Integers, FiniteSets, TLC

CONSTANTS
    Devices,    \* browsers, each with its own credential
    OneUse,     \* invites with max_uses = 1
    Reusable,   \* invites that several people may use
    Limit,      \* the effective use limit of an invite
    Copies,     \* the two credentials of an invite: signed token and join code
    Requests,   \* request identifiers a browser may send
    Seats,      \* MAX_PUBLIC_ROOM_SESSIONS, as a small number
    Scripts     \* what a behaviour may do, each at most so often

ASSUME AccessLimits == /\ \A i \in OneUse \union Reusable : Limit[i] \in Nat \ {0}
                       /\ \A i \in OneUse : Limit[i] = 1
                       /\ OneUse \intersect Reusable = {}

Nobody   == "nobody"
Account  == "account"      \* the user a Google sign-in creates
Invites  == OneUse \union Reusable
People   == Devices \union OneUse \union {Account}
Payloads == {"plain", "avatar"}

VARIABLES
    room,      \* status and pending runtime clean-up
    invite,    \* room_invites: the row of each invite
    session,   \* human_room_sessions, by admission key
    profiles,  \* users that exist
    owner,     \* human_device_credentials: the user of a device
    member,    \* participants: the status of a person in the room
    code,      \* guest_recovery_codes, by user
    pairing,   \* operator_pairings: the one row
    linked,    \* google_accounts: the user of the one Google subject
    login,     \* a device's Google sign-in: challenge and verifications under way
    avatar,    \* a device's avatar before it joined
    tickets,   \* the ticket store of the server process
    upgrades,  \* socket upgrades between the hint and the consumption
    opened,    \* requests and sockets served so far, by ticket
    redeemed,  \* sessions a recovery code has given, by code
    allowance  \* what the behaviour may still do

stored   == <<room, invite, session, profiles, owner, member, code, pairing, linked, avatar>>
memory   == <<login, tickets, upgrades>>
observed == <<opened, redeemed>>
vars     == <<stored, memory, observed, allowance>>

Spend(what) == /\ allowance[what] > 0
               /\ allowance' = [allowance EXCEPT ![what] = @ - 1]

------------------------
(* Sessions.  A row is keyed by what the request carries: a one-use key holds the  *)
(* request identifier, a reusable key does not.                                     *)
AdmissionKey(d, i, c, r) == IF i \in OneUse THEN <<i, c, d, r>> ELSE <<i, c, d, "any">>
Seed(n)   == <<"seed", n>>

Active(k)   == k \in DOMAIN session /\ session[k].state = "active"
Current(k)  == Active(k) /\ ~session[k].late
Resolves(k) == Current(k) /\ room.status = "active" /\ member[session[k].who] = "joined"

OpenInvite(i) == /\ invite[i].state = "live"
                 /\ invite[i].uses < Limit[i]
                 /\ room.status = "active"

\* The sessions of one person end: those that ran out are marked, the live one is replaced.
EndSessions(rows, ended) == [k \in DOMAIN rows |->
    IF k \in ended THEN [rows[k] EXCEPT !.state = "ended"] ELSE rows[k]]
SessionsOf(w) == {k \in DOMAIN session : session[k].who = w /\ Active(k)}
SeatsTaken(w) == Cardinality({k \in DOMAIN session : Current(k) /\ session[k].who # w})

NewSession(w, d, pay) ==
    [who |-> w, device |-> d, state |-> "active", late |-> FALSE, pay |-> pay]

------------------------
(* The manager's invites.                                                          *)
CreateInvite(i) ==
    /\ invite[i].state = "none" /\ room.status = "active"
    /\ Spend("invites")
    /\ invite' = [invite EXCEPT ![i].state = "live"]
    /\ UNCHANGED <<room, session, profiles, owner, member, code, pairing, linked, avatar, memory, observed>>

RevokeInvite(i) ==
    /\ invite[i].state \in {"live", "expired"}
    /\ Spend("revokes")
    /\ invite' = [invite EXCEPT ![i].state = "revoked"]
    /\ UNCHANGED <<room, session, profiles, owner, member, code, pairing, linked, avatar, memory, observed>>

------------------------
(* An avatar chosen before joining: the authority is checked, the image prepared   *)
(* outside any transaction, and the authority checked again when it is stored.      *)
NoAvatar == [state |-> "none", for |-> <<Nobody>>]
AuthorizeAvatar(d, i, c) ==
    /\ avatar[d] = NoAvatar /\ OpenInvite(i)
    /\ Spend("avatars")
    /\ avatar' = [avatar EXCEPT ![d] = [state |-> "preparing", for |-> <<i, c>>]]
    /\ UNCHANGED <<room, invite, session, profiles, owner, member, code, pairing, linked, memory, observed>>

StoreAvatar(d) ==
    /\ avatar[d].state = "preparing"
    /\ avatar' = [avatar EXCEPT ![d] =
         IF OpenInvite(@.for[1]) THEN [@ EXCEPT !.state = "stored"]
         ELSE NoAvatar]
    /\ UNCHANGED <<room, invite, session, profiles, owner, member, code, pairing, linked, memory, observed, allowance>>

------------------------
(* Admission.                                                                      *)
\* Who the request is: the user the device is bound to, or a new identity.
Identity(d, i) == IF i \in OneUse THEN i ELSE IF owner[d] # Nobody THEN owner[d] ELSE d
IsNew(d, i)    == i \in OneUse \/ owner[d] = Nobody
HasAvatar(d, i, c, pay) == pay = "avatar" /\ avatar[d] = [state |-> "stored", for |-> <<i, c>>]

\* exact_admission precedes the invite's gates for a one-use invite only.
MayReplay(i) == i \in OneUse \/ OpenInvite(i)

\* An exact repetition of an admission with a live session answers from its row and
\* changes nothing; one whose session ran out is ended first.
ExactExpired(k, pay) == Active(k) /\ session[k].late /\ session[k].pay = pay

ReplayAdmission(d, i, c, r, pay) ==
    LET k == AdmissionKey(d, i, c, r) IN
    /\ MayReplay(i) /\ ExactExpired(k, pay)
    /\ session' = EndSessions(session, {k})
    /\ UNCHANGED <<room, invite, profiles, owner, member, code, pairing, linked, avatar, memory, observed, allowance>>

\* What commit_new_admission does to the sessions of the person admitted.
Replacing(w) == SessionsOf(w)

\* The participant row of an admitted person: joined, whatever it was before.
Joined(w) == [member EXCEPT ![w] = "joined"]

\* Mutant: a repeated request is admitted again instead of being answered from its row.
FreshKey_again(k) == TRUE
FreshKey(k) == k \notin DOMAIN session

Admit(d, i, c, r, pay) ==
    LET k == AdmissionKey(d, i, c, r)
        w == Identity(d, i)
    IN
    /\ Spend("joins")
    /\ OpenInvite(i) /\ FreshKey(k)
    /\ IsNew(d, i) => w \notin profiles /\ member[w] = "none"
    /\ SeatsTaken(w) < Seats
    /\ session' = (k :> NewSession(w, d, pay)) @@ EndSessions(session, Replacing(w))
    /\ profiles' = profiles \union {w}
    /\ owner' = IF i \in Reusable THEN [owner EXCEPT ![d] = w] ELSE owner
    /\ member' = Joined(w)
    /\ invite' = [invite EXCEPT ![i].uses = @ + 1]
    /\ avatar' = IF HasAvatar(d, i, c, pay) THEN [avatar EXCEPT ![d] = NoAvatar] ELSE avatar
    /\ UNCHANGED <<room, code, pairing, linked, memory, observed>>

------------------------
(* Losing access.                                                                  *)
\* revoke_participant_access: the person's sessions and the invites made for them.
Revoked(rows, w) == [i \in Invites |->
    IF i = w /\ rows[i].state # "none" THEN [rows[i] EXCEPT !.state = "revoked"] ELSE rows[i]]

AccessLost(w, status) ==
    /\ member' = [member EXCEPT ![w] = status]
    /\ session' = EndSessions(session, SessionsOf(w))
    /\ invite' = Revoked(invite, w)

Leave(k) ==
    /\ Resolves(k)
    /\ AccessLost(session[k].who, "left")
    /\ UNCHANGED <<room, profiles, owner, code, pairing, linked, avatar, memory, observed, allowance>>

\* An exported participant can be removed no further; any other status may change.
RemovalAllowed(w, status) == member[w] \notin {"none", "exported", status}

RemovePerson(w, status) ==
    /\ room.status = "active" /\ RemovalAllowed(w, status)
    /\ Spend("removals")
    /\ AccessLost(w, status)
    /\ UNCHANGED <<room, profiles, owner, code, pairing, linked, avatar, memory, observed>>

RoomShut(status) ==
    /\ room' = [status |-> status, cleaning |-> TRUE]
    /\ session' = EndSessions(session, {k \in DOMAIN session : Active(k)})
    /\ pairing' = IF pairing.made THEN [pairing EXCEPT !.revoked = TRUE] ELSE pairing
    /\ invite' = [i \in Invites |->
         IF invite[i].state = "none" THEN invite[i] ELSE [invite[i] EXCEPT !.state = "revoked"]]

Close ==
    /\ Spend("closings")
    /\ RoomShut("closed")
    /\ UNCHANGED <<profiles, owner, member, code, linked, avatar, memory, observed>>
Archive ==
    /\ room.status # "closed"
    /\ Spend("closings")
    /\ RoomShut("archived")
    /\ UNCHANGED <<profiles, owner, member, code, linked, avatar, memory, observed>>
Restore ==
    /\ room.status = "archived" /\ ~room.cleaning
    /\ room' = [room EXCEPT !.status = "active"]
    /\ UNCHANGED <<invite, session, profiles, owner, member, code, pairing, linked, avatar, memory, observed, allowance>>
\* The runtimes of the room's agents are gone (AgentCustody models how).
CleanupEnds ==
    /\ room.cleaning
    /\ room' = [room EXCEPT !.cleaning = FALSE]
    /\ UNCHANGED <<invite, session, profiles, owner, member, code, pairing, linked, avatar, memory, observed, allowance>>

------------------------
(* Guest identity recovery.  Code n and the session of a recovery that made code n  *)
(* are derived from the same seed.                                                  *)
NoCode == [now |-> 0, before |-> 0, seed |-> 0]
NextCode == 1 + Cardinality(DOMAIN redeemed)

\* The account a presented session stands for: its device must be its own.
SessionUser(k, d) == Resolves(k) /\ session[k].device = d /\ owner[d] \in {Nobody, session[k].who}

IssueCode(k, d) ==
    /\ SessionUser(k, d)
    /\ Spend("codes")
    /\ code' = [code EXCEPT ![session[k].who] = [now |-> NextCode, before |-> 0, seed |-> 0]]
    /\ redeemed' = redeemed @@ (NextCode :> {})
    /\ UNCHANGED <<room, invite, session, profiles, owner, member, pairing, linked, avatar, memory, opened>>

CodeOwner(n) == {w \in profiles : n \in {code[w].now, code[w].before}}

Rotated(w, n) == [now |-> NextCode, before |-> n, seed |-> NextCode]

\* The membership recovered is the one of the person's latest session in the room.
HasMembership(w) == \E k \in DOMAIN session : session[k].who = w
RedeemCode(d, n) ==
    \E w \in CodeOwner(n) :
        /\ n = code[w].now
        /\ HasMembership(w) /\ room.status = "active" /\ member[w] = "joined"
        /\ SeatsTaken(w) < Seats
        /\ owner[d] \in {Nobody, w}
        /\ Spend("codes")
        /\ owner' = [owner EXCEPT ![d] = w]
        /\ session' = (Seed(NextCode) :> NewSession(w, d, "plain"))
                        @@ EndSessions(session, SessionsOf(w))
        /\ code' = [code EXCEPT ![w] = Rotated(w, n)]
        /\ redeemed' = [redeemed EXCEPT ![n] = @ \union {Seed(NextCode)}] @@ (NextCode :> {})
        /\ UNCHANGED <<room, invite, profiles, member, pairing, linked, avatar, memory, opened>>

\* The code before it only repeats the answer of the recovery that replaced it.
ReplayCode(d, n) ==
    \E w \in CodeOwner(n) :
        LET k == Seed(code[w].seed) IN
        /\ n # code[w].now /\ code[w].seed # 0
        /\ Resolves(k) /\ session[k].who = w /\ session[k].device = d
        /\ redeemed' = [redeemed EXCEPT ![n] = @ \union {k}]
        /\ UNCHANGED <<stored, memory, opened, allowance>>

------------------------
(* Pairing of the operator's second device: one row, bound to the first device      *)
(* that redeems it.                                                                 *)
NoPairing == [made |-> FALSE, late |-> FALSE, revoked |-> FALSE, device |-> Nobody,
              ended |-> FALSE]
PairingSession(d) == pairing.made /\ ~pairing.revoked /\ pairing.device = d /\ ~pairing.ended

CreatePairing ==
    /\ ~pairing.made /\ room.status = "active"
    /\ Spend("pairings")
    /\ pairing' = [NoPairing EXCEPT !.made = TRUE]
    /\ UNCHANGED <<room, invite, session, profiles, owner, member, code, linked, avatar, memory, observed>>

BindsPairing(d) == pairing.device = Nobody /\ ~pairing.late

RedeemPairing(d) ==
    /\ pairing.made /\ ~pairing.revoked /\ room.status = "active"
    /\ BindsPairing(d)
    /\ pairing' = [pairing EXCEPT !.device = d]
    /\ UNCHANGED <<room, invite, session, profiles, owner, member, code, linked, avatar, memory, observed, allowance>>
RevokePairing ==
    /\ pairing.made /\ ~pairing.revoked
    /\ pairing' = [pairing EXCEPT !.revoked = TRUE]
    /\ UNCHANGED <<room, invite, session, profiles, owner, member, code, linked, avatar, memory, observed, allowance>>
LeavePairing(d) ==
    /\ PairingSession(d) /\ room.status = "active"
    /\ RevokePairing

------------------------
(* Google accounts: a challenge per device, verified by a service outside the       *)
(* store, then one transaction that links the account or switches to its user.      *)
NoLogin == [open |-> FALSE, who |-> Nobody, checking |-> {}]
SameOwner(d, e) == e = d \/ (login[e].who # Nobody /\ login[e].who = owner[d])
StartLogin(d) ==
    /\ Spend("logins")
    /\ login' = [e \in Devices |->
         IF e = d THEN [login[e] EXCEPT !.open = TRUE, !.who = owner[d]]
         ELSE IF SameOwner(d, e) THEN [login[e] EXCEPT !.open = FALSE] ELSE login[e]]
    /\ UNCHANGED <<stored, tickets, upgrades, observed>>

\* verify looks the challenge up, for the user it was made for, before it asks Google ...
ChallengeOf(d, w) == login[d].open /\ login[d].who = w
VerifyLogin(d) ==
    /\ ChallengeOf(d, owner[d])
    /\ \E slot \in 1..2 :
         /\ \A v \in login[d].checking : v.slot # slot
         /\ login' = [login EXCEPT ![d].checking = @ \union {[slot |-> slot, who |-> owner[d]]}]
    /\ UNCHANGED <<stored, tickets, upgrades, observed, allowance>>
\* ... and consumes it after the answer: a second answer finds nothing.
AfterAnswer(d, v) == [login EXCEPT ![d].checking = @ \ {v}, ![d].open = FALSE]
LoginRefused(d, v) ==
    /\ v \in login[d].checking /\ ~ChallengeOf(d, v.who)
    /\ login' = [login EXCEPT ![d].checking = @ \ {v}]
    /\ UNCHANGED <<stored, tickets, upgrades, observed, allowance>>

\* Deleting the discarded guest takes its sessions, devices and codes with it.
Without(rows, w) == [k \in {j \in DOMAIN rows : rows[j].who # w} |-> rows[k]]
Retire(w, d) ==
    /\ profiles' = profiles \ {w}
    /\ session' = Without(session, w)
    /\ owner' = [e \in Devices |-> IF e = d THEN linked ELSE IF owner[e] = w THEN Nobody ELSE owner[e]]
    /\ code' = [code EXCEPT ![w] = NoCode]
    /\ member' = [member EXCEPT ![w] = IF @ = "joined" THEN "left" ELSE @]
    /\ invite' = Revoked(invite, w)
    /\ UNCHANGED linked

IdentityUnchanged(d, v) == owner[d] = v.who
LinkAccount(d, w) ==
    /\ linked \in {Nobody, w}
    /\ linked' = w
    /\ UNCHANGED <<profiles, session, owner, code, member, invite>>
SignInAccount(d) ==
    /\ linked' = IF linked = Nobody THEN Account ELSE linked
    /\ profiles' = profiles \union {linked'}
    /\ owner' = [owner EXCEPT ![d] = linked']
    /\ UNCHANGED <<session, code, member, invite>>
ConnectAccount(d, v) ==
    /\ v \in login[d].checking /\ ChallengeOf(d, v.who) /\ IdentityUnchanged(d, v)
    /\ login' = AfterAnswer(d, v)
    /\ \/ v.who # Nobody /\ linked \notin {Nobody, v.who} /\ Retire(v.who, d)
       \/ v.who # Nobody /\ LinkAccount(d, v.who)
       \/ v.who = Nobody /\ SignInAccount(d)
    /\ UNCHANGED <<room, pairing, avatar, tickets, upgrades, observed, allowance>>
DisconnectAccount(d) ==
    /\ owner[d] # Nobody /\ linked = owner[d]
    /\ linked' = Nobody
    /\ Spend("logins")
    /\ UNCHANGED <<room, invite, session, profiles, owner, member, code, pairing, avatar, memory, observed>>

------------------------
(* Tickets of the server process, lost when it stops.                               *)
SocketPurposes   == {"room", "session"}        \* the local operator's and a session's socket
\* One purpose for each authority; two purposes of one authority differ like these.
RoomPurposes     == {"preferences"}   \* one HTTP request of a member
ManagerPurposes  == {"invite"}        \* one HTTP request of the room's manager
OperatorPurposes == {"operator"}      \* one HTTP request of the server's operator
HttpPurposes     == RoomPurposes \union ManagerPurposes \union OperatorPurposes
TicketCapacity   == 2
SessionTickets   == 1      \* PUBLIC_SOCKET_TICKETS_PER_SESSION
Unexpired        == {t \in tickets : ~t.late}
Operator         == <<"operator">>

\* Every ticket is issued for an authority that was resolved just before.
Granted(k, purpose) ==
    /\ Cardinality(Unexpired) < TicketCapacity
    /\ Spend("tickets")
    /\ tickets' = Unexpired \union
         {[number |-> allowance.tickets, key |-> k, purpose |-> purpose, late |-> FALSE]}
    /\ UNCHANGED <<stored, login, upgrades, observed>>

IssueSessionTicket(k) ==
    /\ Resolves(k)
    /\ Cardinality({t \in Unexpired : t.key = k}) < SessionTickets
    /\ Granted(k, "session")
IssueLocalTicket    == room.status = "active" /\ Granted(Operator, "room")
IssueRoomTicket     == \E p \in RoomPurposes : room.status = "active" /\ Granted(Operator, p)
IssueManagerTicket  == \E p \in ManagerPurposes : room.status = "active" /\ Granted(Operator, p)
IssueOperatorTicket == \E p \in OperatorPurposes : Granted(Operator, p)

\* A socket upgrade looks the ticket up to choose its limits; a wrong one is destroyed.
HintSocket(t) ==
    /\ t.purpose \in SocketPurposes /\ ~t.late /\ Cardinality(upgrades) < 2
    /\ \E u \in 1..2 : /\ \A v \in upgrades : v.slot # u
                       /\ upgrades' = upgrades \union {[slot |-> u, ticket |-> t.number]}
    /\ UNCHANGED <<stored, login, tickets, observed, allowance>>
HintDestroys(t) ==
    /\ t.purpose \notin SocketPurposes \/ t.late
    /\ tickets' = tickets \ {t}
    /\ UNCHANGED <<stored, login, upgrades, observed, allowance>>

Taken(t) == tickets \ {t}
OpensSocket(t) == t.purpose \in SocketPurposes /\ ~t.late
Serves(t, purpose) == t.purpose = purpose /\ ~t.late

ConsumeSocket(u) ==
    /\ upgrades' = upgrades \ {u}
    /\ \/ /\ \A t \in tickets : t.number # u.ticket
          /\ UNCHANGED <<tickets, opened>>
       \/ \E t \in tickets :
            /\ t.number = u.ticket
            /\ tickets' = Taken(t)
            /\ opened' = IF OpensSocket(t) THEN [opened EXCEPT ![t.number] = @ + 1] ELSE opened
    /\ UNCHANGED <<stored, login, redeemed, allowance>>

\* The ticket of an HTTP request is gone whether or not it was the right one.
ConsumeHttp(t, purpose) ==
    /\ tickets' = Taken(t)
    /\ opened' = IF Serves(t, purpose) THEN [opened EXCEPT ![t.number] = @ + 1] ELSE opened
    /\ UNCHANGED <<stored, login, upgrades, redeemed, allowance>>

------------------------
(* Time and faults.                                                                 *)
Expires ==
    /\ \/ \E i \in Invites : /\ invite[i].state = "live"
                             /\ invite' = [invite EXCEPT ![i].state = "expired"]
                             /\ UNCHANGED <<session, pairing, tickets, login>>
       \/ \E k \in DOMAIN session : /\ ~session[k].late
                                    /\ session' = [session EXCEPT ![k].late = TRUE]
                                    /\ UNCHANGED <<invite, pairing, tickets, login>>
       \/ /\ pairing.made /\ ~pairing.late
          /\ pairing' = [pairing EXCEPT !.late = TRUE]
          /\ UNCHANGED <<invite, session, tickets, login>>
       \/ /\ pairing.device # Nobody /\ ~pairing.ended
          /\ pairing' = [pairing EXCEPT !.ended = TRUE]
          /\ UNCHANGED <<invite, session, tickets, login>>
       \/ \E t \in tickets : /\ ~t.late
                             /\ tickets' = (tickets \ {t}) \union {[t EXCEPT !.late = TRUE]}
                             /\ UNCHANGED <<invite, session, pairing, login>>
       \/ \E d \in Devices : /\ login[d].open
                             /\ login' = [login EXCEPT ![d].open = FALSE]
                             /\ UNCHANGED <<invite, session, pairing, tickets>>
    /\ Spend("expiries")
    /\ UNCHANGED <<room, profiles, owner, member, code, linked, avatar, upgrades, observed>>

\* The server process stops and starts: memory is lost, so are uploads under way.
Restart ==
    /\ Spend("restarts")
    /\ login' = [d \in Devices |-> NoLogin]
    /\ tickets' = {} /\ upgrades' = {}
    /\ avatar' = [d \in Devices |-> IF avatar[d].state = "preparing"
                                    THEN NoAvatar ELSE avatar[d]]
    /\ UNCHANGED <<room, invite, session, profiles, owner, member, code, pairing, linked, observed>>

------------------------
AccessInit ==
    /\ room = [status |-> "active", cleaning |-> FALSE]
    /\ invite = [i \in Invites |-> [state |-> "none", uses |-> 0]]
    /\ session = <<>> /\ profiles = {}
    /\ owner = [d \in Devices |-> Nobody]
    /\ member = [w \in People |-> "none"]
    /\ code = [w \in People |-> NoCode]
    /\ pairing = NoPairing /\ linked = Nobody
    /\ login = [d \in Devices |-> NoLogin]
    /\ avatar = [d \in Devices |-> NoAvatar]
    /\ tickets = {} /\ upgrades = {}
    /\ allowance \in Scripts
    /\ opened = [n \in 1..allowance.tickets |-> 0]
    /\ redeemed = <<>>

Invitation == \E i \in Invites : CreateInvite(i) \/ RevokeInvite(i)
Admission == \E d \in Devices, i \in Invites, c \in Copies, r \in Requests, pay \in Payloads :
                Admit(d, i, c, r, pay) \/ ReplayAdmission(d, i, c, r, pay)
Preparation == \E d \in Devices : (\E i \in Invites, c \in Copies : AuthorizeAvatar(d, i, c)) \/ StoreAvatar(d)
Removal == \/ \E k \in DOMAIN session : Leave(k)
           \/ \E w \in People, status \in {"kicked", "exported"} : RemovePerson(w, status)
Lifecycle == Close \/ Archive \/ Restore \/ CleanupEnds
Recovery == \/ \E d \in Devices, k \in DOMAIN session : IssueCode(k, d)
            \/ \E d \in Devices, n \in DOMAIN redeemed : RedeemCode(d, n) \/ ReplayCode(d, n)
Pairing == \/ CreatePairing \/ RevokePairing
           \/ \E d \in Devices : RedeemPairing(d) \/ LeavePairing(d)
Login == \E d \in Devices :
            \/ StartLogin(d) \/ VerifyLogin(d) \/ DisconnectAccount(d)
            \/ \E v \in login[d].checking : LoginRefused(d, v) \/ ConnectAccount(d, v)
Ticketing == \/ \E k \in DOMAIN session : IssueSessionTicket(k)
             \/ IssueLocalTicket \/ IssueRoomTicket \/ IssueManagerTicket \/ IssueOperatorTicket
             \/ \E t \in tickets : HintSocket(t) \/ HintDestroys(t)
             \/ \E t \in tickets, p \in HttpPurposes : ConsumeHttp(t, p)
             \/ \E u \in upgrades : ConsumeSocket(u)

AccessNext == \/ Invitation \/ Admission \/ Preparation \/ Removal \/ Lifecycle \/ Recovery
              \/ Pairing \/ Login \/ Ticketing \/ Expires \/ Restart
AccessSpec == AccessInit /\ [][AccessNext]_vars

------------------------
(* Properties.                                                                      *)

\* An active session row belongs to a joined member of an active room, and a person
\* has at most one: "active+inactive-room or active+non-Joined membership is an
\* impossible atomic lifecycle state" (docs/verification/2026-08-26-human-invite-schema.md).
ActiveMeansMember ==
    \A k \in DOMAIN session : Active(k) =>
        /\ room.status = "active" /\ member[session[k].who] = "joined"
        /\ \A j \in DOMAIN session : Active(j) /\ session[j].who = session[k].who => j = k

\* An invite is used at most as often as its limit says, and once for each admission,
\* however often the request for it was repeated: commit_new_admission counts a use
\* exactly when it inserts a session.
UsesArePaid ==
    \A i \in Invites :
        LET rows == {k \in DOMAIN session : k[1] = i} IN
        /\ invite[i].uses <= Limit[i]
        /\ Cardinality(rows) <= invite[i].uses
        /\ (\A w \in People : member[w] # "none" => w \in profiles) => Cardinality(rows) = invite[i].uses

\* A recovery code opens at most one session, whatever was repeated and in whatever
\* order codes were issued, redeemed and replayed.
CodeOpensOnce == \A n \in DOMAIN redeemed : Cardinality(redeemed[n]) <= 1

\* A ticket serves at most one request or socket, also when two upgrades found it valid.
TicketOpensOnce == \A n \in DOMAIN opened : opened[n] <= 1

\* Whoever is inside is a member, and whatever admits somebody is spent exactly once per
\* admission, whoever repeats, reorders or replays the request for it: an invite's use,
\* a recovery code, a ticket.
AdmissionHolds == ActiveMeansMember /\ UsesArePaid /\ CodeOpensOnce /\ TicketOpensOnce

\* "This participant was permanently exported from the room."
\* (participant_removal.rs:153): an exported person is never a member again.
ExportedIsFinal == [][\A w \in People : member[w] = "exported" => member'[w] = "exported"]_vars
=============================================================================
