---------------------------- MODULE MCRoomCommands ----------------------------
(* One operator, one guest; a behaviour plays one of a few scripts of requests. *)
EXTENDS RoomCommands, TLC

MCRequests == {"m", "x", "lv", "hm", "del", "late"}
MCIssuer   == [r \in MCRequests |-> IF r \in {"hm", "del", "late"} THEN "h" ELSE "g"]
MCKey      == [r \in MCRequests |-> CASE r = "x" -> "m" [] r = "del" -> "hm" [] OTHER -> r]
MCKind     == [r \in MCRequests |-> CASE r = "lv" -> "leave" [] r \in {"del", "late"} -> "delete"
                                      [] OTHER -> "message"]
MCTarget   == [r \in MCRequests |-> 1]

\* The bounds of a behaviour: what it may do, each at most so often.
None       == [tries |-> [r \in MCRequests |-> 0], joins |-> [c \in {"h", "g"} |-> 0],
               events |-> 0, ends |-> 0, rooms |-> 0, windows |-> 0, crashes |-> 0,
               faults |-> 0]
Retries    == [None EXCEPT !.tries["m"] = 2, !.tries["x"] = 2, !.joins["g"] = 2,
                           !.crashes = 1, !.faults = 1, !.windows = 1]
Following  == [None EXCEPT !.joins["g"] = 2, !.events = 2, !.faults = 2]
Leaving    == [None EXCEPT !.tries["m"] = 1, !.tries["lv"] = 1, !.joins["g"] = 1,
                           !.events = 1, !.ends = 1]
Deleting   == [None EXCEPT !.tries["del"] = 2, !.tries["late"] = 1, !.tries["hm"] = 1,
                           !.joins["h"] = 1, !.rooms = 1]
Reopening  == [None EXCEPT !.tries["del"] = 2, !.joins["h"] = 2, !.rooms = 1, !.crashes = 1]
Evicting   == [None EXCEPT !.tries["del"] = 1, !.tries["m"] = 1, !.joins["g"] = 1,
                           !.faults = 1, !.events = 1]
MCScripts  == {Retries, Following, Leaving, Deleting, Reopening, Evicting}
=============================================================================
