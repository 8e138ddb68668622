---------------------------- MODULE MCRoomAccess ----------------------------
(* Two browsers, a one-use and a reusable invite; a behaviour plays one script. *)
EXTENDS RoomAccess

MCLimit   == ("single" :> 1) @@ ("many" :> 3)
Nothing   == [invites |-> 0, revokes |-> 0, avatars |-> 0, joins |-> 0, removals |-> 0,
              closings |-> 0, codes |-> 0, pairings |-> 0, logins |-> 0, tickets |-> 0,
              expiries |-> 0, restarts |-> 0]
Joining   == [Nothing EXCEPT !.invites = 2, !.joins = 3, !.revokes = 1, !.expiries = 1]
Dressing  == [Nothing EXCEPT !.invites = 1, !.joins = 2, !.revokes = 1, !.avatars = 1,
                             !.restarts = 1]
Leaving   == [Nothing EXCEPT !.invites = 2, !.joins = 2, !.removals = 1, !.closings = 1,
                             !.expiries = 1]
Recovering == [Nothing EXCEPT !.invites = 1, !.joins = 2, !.codes = 4, !.expiries = 1]
Returning == [Nothing EXCEPT !.invites = 1, !.joins = 2, !.codes = 3, !.removals = 1]
SigningIn == [Nothing EXCEPT !.invites = 1, !.joins = 1, !.logins = 3, !.codes = 1]
Opening   == [Nothing EXCEPT !.invites = 1, !.joins = 1, !.tickets = 2, !.expiries = 1]
Reopening == [Nothing EXCEPT !.invites = 1, !.joins = 1, !.tickets = 2, !.restarts = 1]
Pairs     == [Nothing EXCEPT !.invites = 1, !.joins = 1, !.pairings = 1, !.closings = 1,
                             !.expiries = 2]
MCScripts == {Joining, Dressing, Leaving, Recovering, Returning, SigningIn, Opening,
              Reopening, Pairs}

\* In a script with one admission it makes no difference how that one was asked for.
Plainly == allowance.joins = 0 /\ Cardinality(DOMAIN session) = 1 =>
    \A k \in DOMAIN session : k[2] = "token" /\ k[4] \in {"r1", "any"} /\ session[k].pay = "plain"
=============================================================================
