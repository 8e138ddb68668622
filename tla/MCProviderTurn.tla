--------------------------- MODULE MCProviderTurn ---------------------------
(***************************************************************************)
(* Three instances of ProviderTurn in one state space, told apart by focus:*)
(*   faults     one turn with everything that can happen to it: a          *)
(*              recovered task, a crash, a refused completion, a claim     *)
(*              that expires under its owner, a stop;                      *)
(*   second     a second turn is assigned while processes of the first are *)
(*              still at work; agent.interrupt cuts in, mutes come between *)
(*              turns;                                                     *)
(*   progress   one turn and one task, no crash, no refusal, claims that   *)
(*              outlive the work they cover: what fairness is stated for.  *)
(***************************************************************************)
EXTENDS ProviderTurn

VARIABLE focus

MCInit == Init /\ focus \in {"faults", "second", "progress"}

Within ==
    CASE focus = "faults"   -> turn' <= 1
      [] focus = "second"   -> /\ ~stopping' /\ ~(muted' /\ TurnOpen)
                               /\ restarts' + refusals' + late' = 0
      [] focus = "progress" -> /\ turn' <= 1 /\ task'[2].pc = "none"
                               /\ restarts' + refusals' + late' = 0

MCNext == Next /\ Within /\ UNCHANGED focus

Progress(A) == focus = "progress" /\ A /\ Within /\ UNCHANGED focus

MCSpec ==
    /\ MCInit
    /\ [][MCNext]_<<vars, focus>>
    /\ WF_<<vars, focus>>(Progress(ActorStep))
    /\ WF_<<vars, focus>>(Progress(ReconStep))
    /\ \A g \in Turns : WF_<<vars, focus>>(Progress(Expire(g)))

\* Where nothing is lost, refused or late, a recorded interrupt is not
\* forgotten (InterruptSettles).
InterruptsSettle == focus = "progress" => InterruptSettles

\* Where nothing is lost, refused or late, a result in the slot is committed
\* (ResultSettles).
ResultsSettle == focus = "progress" => ResultSettles
=============================================================================
