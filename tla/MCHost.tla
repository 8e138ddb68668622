------------------------------- MODULE MCHost -------------------------------
(***************************************************************************)
(* The server process and its network edge, each on its own instance: its  *)
(* restart with two agents, two restart operations, two builds and three   *)
(* lives; the managed ingress of two runtimes; the limits of the edge.     *)
(***************************************************************************)
EXTENDS RuntimeRestart, PublicIngress, AdmissionLimits

VARIABLE focus \* the component whose steps this behaviour takes

MCOrigins == <<{1, 2}, {3}>>
MCControls == <<<<"start", "stop">>, <<>>>>
MCCallers == [c1 |-> "r", c2 |-> "r"]
MCSizes == <<2, 1, 1, 2, 1>>

hostVars == <<focus, vars, ingressVars, limitVars>>

MCInit ==
    /\ focus \in {"restart", "ingress", "http", "sockets"}
    /\ Init /\ IngressInit /\ LimitsInit
    /\ focus # "restart" => \A s \in Sessions : row[s] = StoppedRow

Restarts(A) == focus = "restart" /\ A /\ UNCHANGED <<focus, ingressVars, limitVars>>

MCNext ==
    \/ Restarts(Next)
    \/ focus = "ingress" /\ IngressNext /\ UNCHANGED <<focus, vars, limitVars>>
    \/ focus = "http" /\ HttpNext /\ UNCHANGED <<focus, vars, ingressVars>>
    \/ focus = "sockets" /\ SocketNext /\ UNCHANGED <<focus, vars, ingressVars>>

\* The process makes progress, the operator starts it again, guardians end
\* orphans, turns end, requests are answered unless they are dropped.  After a
\* cancel each connection has one request more at most (graceful_shutdown), so
\* they run out and the life exits.  Nothing promises a crash or a cancel, and
\* nothing is assumed of the edge.
MCSpec ==
    /\ MCInit /\ [][MCNext]_hostVars
    /\ WF_hostVars(Restarts(LifeStep)) /\ WF_hostVars(Restarts(RecoverStep))
    /\ WF_hostVars(Restarts(ServeRequest)) /\ SF_hostVars(Restarts(Exit))
    /\ WF_hostVars(Restarts(\E s \in Sessions : GuardianEnds(s)))
    /\ WF_hostVars(Restarts(\E s \in Sessions : Authorize(s) \/ Launch(s) \/ CompleteTarget(s)))
    /\ WF_hostVars(Restarts(\E s \in Sessions : TurnEnds(s) \/ AgentStarted(s)))
=============================================================================
