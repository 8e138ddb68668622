---------------------------- MODULE MCAgentFloor ----------------------------
(***************************************************************************)
(* Three instances of AgentFloor in one state space, told apart by focus:  *)
(*   messages    two running agents, two messages, no start or stop, one   *)
(*               mode throughout;                                          *)
(*   lifecycle   two running agents, one message, start and stop of the    *)
(*               first agent, which alone may be muted;                    *)
(*   backlog     one running agent beside a stopped one, three messages, so*)
(*               that its queue reaches MaxQueue.                          *)
(***************************************************************************)
EXTENDS AgentFloor

VARIABLE focus

TwoSessions == {1, 2}
First       == {1}

Messages == [messages |-> 2, lifecycle |-> 1, backlog |-> 3]

\* Session 2 of the backlog instance was stopped before the run begins.
MCInit ==
    /\ Init
    /\ focus \in {"messages", "lifecycle"}

BacklogInit ==
    /\ focus = "backlog"
    /\ log = <<>>
    /\ mode \in Modes
    /\ quiescing = FALSE
    /\ wake = FALSE
    /\ session = [s \in Sessions |->
                    IF s = 1 THEN InitRow(s)
                    ELSE [InitRow(s) EXCEPT !.status = "detached",
                                            !.enabled = FALSE,
                                            !.runtime = "stopped",
                                            !.session_active = FALSE,
                                            !.custody = FALSE]]
    /\ participant = [s \in Sessions |->
                        [status |-> IF s = 1 THEN "joined" ELSE "detached",
                         muted  |-> FALSE]]

MCNext ==
    /\ UNCHANGED focus
    /\ \/ FloorNext
       \/ focus = "lifecycle" /\ LifecycleNext
    /\ Len(log') <= Messages[focus]
    /\ focus = "messages" => mode' = mode
    /\ focus = "lifecycle" => ~participant'[2].muted

MCSpec == (MCInit \/ BacklogInit) /\ [][MCNext]_<<vars, focus>>
=============================================================================
