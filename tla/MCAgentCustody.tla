--------------------------- MODULE MCAgentCustody ---------------------------
(* One agent session under small sets of requests, for TLC. *)
EXTENDS AgentCustody

Script(a, b, c) == [r1 |-> a, r2 |-> b, r3 |-> c]
AllScripts == { Script("create", "stop", "start"), Script("create", "kick", "readd"),
                Script("create", "kick", "stop"), Script("create", "kick", "list"),
                Script("create", "pause", "resume"), Script("create", "pause", "export") }
CreateOnly == { Script("create", "none", "none") }
=============================================================================
