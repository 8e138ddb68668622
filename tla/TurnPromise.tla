---------------------------- MODULE TurnPromise -----------------------------
(***************************************************************************)
(* What the rest of the server may rely on when it assigns a provider      *)
(* turn, whoever carries it out: turns of a session come one after the     *)
(* other, a turn ends once and for all, the provider acts on a turn only   *)
(* while it is open and its start is authorized, and it is never ended     *)
(* while the provider still acts on it.  ProviderTurn shows how four       *)
(* processes keep this promise through crashes, expiring claims and        *)
(* interrupts.                                                             *)
(***************************************************************************)
EXTENDS Naturals

CONSTANT Gens          \* turn generations, an initial segment of 1, 2, ...

VARIABLES
    life,              \* "none", "open" or how the turn ended
    authorized,        \* the turns whose start is authorized
    acting             \* the turns the provider acts on

Ends == {"completed", "failed", "interrupted"}

PromiseInit ==
    /\ life = [g \in Gens |-> "none"]
    /\ authorized = {}
    /\ acting = {}

Begin(g) ==
    /\ life[g] = "none"
    /\ \A h \in Gens : h < g => life[h] \in Ends
    /\ life' = [life EXCEPT ![g] = "open"]
    /\ UNCHANGED <<authorized, acting>>

Authorize(g) ==
    /\ life[g] = "open"
    /\ authorized' = authorized \cup {g}
    /\ UNCHANGED <<life, acting>>

Act(g) ==
    /\ life[g] = "open" /\ g \in authorized
    /\ acting' = acting \cup {g}
    /\ UNCHANGED <<life, authorized>>

Rest(gs) ==
    /\ acting' = acting \ gs
    /\ UNCHANGED <<life, authorized>>

End(g, how) ==
    /\ life[g] = "open" /\ g \notin acting
    /\ how = "completed" => g \in authorized
    /\ life' = [life EXCEPT ![g] = how]
    /\ UNCHANGED <<authorized, acting>>

PromiseNext ==
    \/ \E g \in Gens : Begin(g) \/ Authorize(g) \/ Act(g)
    \/ \E gs \in SUBSET acting : Rest(gs)
    \/ \E g \in Gens, how \in Ends : End(g, how)

PromiseSpec == PromiseInit /\ [][PromiseNext]_<<life, authorized, acting>>
=============================================================================
