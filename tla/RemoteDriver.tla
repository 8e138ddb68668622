----------------------------- MODULE RemoteDriver -----------------------------
(***************************************************************************)
(* The remote (OpenAI-compatible) driver: run_turn asks a model, executes  *)
(* the tools it calls on the room portal and in the workspace, and is      *)
(* dropped when the turn is interrupted. turn_effect_uncertain says        *)
(* whether the turn may be run again. The model is external.               *)
(***************************************************************************)
EXTENDS RoomPortal

CONSTANT RdRounds \* MAX_TOOL_ROUNDS

VARIABLES
    rd,     \* RemoteOpenAiDriver: where run_turn is, the flag, what was reported
    rdTask  \* WorkspaceTools: the blocking file operation, and its cancellation

RdInit ==
    /\ rd = [at |-> "idle", gen |-> 0, round |-> 0, call |-> 0, uncertain |-> FALSE, previous |-> FALSE,
             portalFailed |-> FALSE, stopped |-> FALSE, safe |-> {}]
    /\ rdTask = [at |-> "none", gen |-> 0, cancelled |-> FALSE]

WorkspacePending == rdTask.at # "none"
RunsIn(at) == rd' = [rd EXCEPT !.at = at]

\* The turn ends without an outcome: whoever retries it reads the flag
\* (turn_failure_effect_uncertain, or the answer of interrupt_turn).
Reported(d) == [d EXCEPT !.at = "aborted", !.safe = IF d.uncertain THEN @ ELSE @ \cup {d.gen}]

------------------------
RunTurn ==
    /\ rd.at = "idle" /\ ~rd.stopped /\ ~rd.portalFailed /\ ~WorkspacePending
    /\ rp.gen # 0 /\ ~rp.closing /\ rd.gen # rp.gen
    /\ rd' = [rd EXCEPT !.at = "model", !.gen = rp.gen, !.round = 0, !.uncertain = FALSE]
    /\ UNCHANGED <<rpVars, rdTask>>

\* The first answer is cut to its read_discussion.
ForcedRead ==
    /\ rd.at = "model" /\ rd.round = 0 /\ ReadDiscussion
    /\ rd' = [rd EXCEPT !.round = 1] /\ UNCHANGED rdTask

NextCall == rd.at = "model" /\ rd.round \in 1..(RdRounds - 1)

\* The model fails, answers without a tool, calls what it may not, or goes past
\* the round limit.
TurnFails ==
    /\ rd.at = "model" /\ rd' = Reported(rd)
    /\ UNCHANGED <<rpVars, rdTask>>

\* Mutant: the flag is raised by the result of the call.
Raised_late == rd.uncertain

\* execute_tool of a tool that must not be repeated: the flag goes up first.
Raised == TRUE

CallTool(k) ==
    /\ NextCall /\ SubmitTool(k)
    /\ rd' = [rd EXCEPT !.at = "tool", !.call = k, !.previous = rd.uncertain, !.uncertain = Raised]
    /\ UNCHANGED rdTask

\* The portal refuses the call: the flag is as before.
ToolRefused ==
    /\ NextCall /\ ~CanReserve /\ rd' = [rd EXCEPT !.round = @ + 1]
    /\ UNCHANGED <<rpVars, rdTask>>

ToolReturns ==
    /\ rd.at = "tool" /\ rpTool[rd.call].at \in {"done", "error"}
    /\ rd' = [rd EXCEPT !.at = "model", !.round = @ + 1,
                        !.uncertain = rpTool[rd.call].at = "done" \/ rd.previous]
    /\ UNCHANGED <<rpVars, rdTask>>

\* The portal's request deadline, or its connection is lost.
PortalLost ==
    /\ rd.at = "tool" /\ rd' = Reported([rd EXCEPT !.portalFailed = TRUE])
    /\ UNCHANGED <<rpVars, rdTask>>

CallTerminal ==
    /\ NextCall /\ StageOutcome
    /\ rd' = [rd EXCEPT !.at = "staged", !.uncertain = TRUE] /\ UNCHANGED rdTask

------------------------
\* WorkspaceTools.execute: the path is resolved in a task, a write is approved
\* in the room, and the flag is up when the writing task starts.

WorkspaceCall ==
    /\ NextCall /\ ~WorkspacePending
    /\ rdTask' = [at |-> "prepare", gen |-> rd.gen, cancelled |-> FALSE]
    /\ RunsIn("prepare") /\ UNCHANGED rpVars

Prepared ==
    /\ rd.at = "prepare" /\ rdTask.at = "ended"
    /\ rdTask' = [rdTask EXCEPT !.at = "none"]
    /\ RunsIn("approve") /\ UNCHANGED rpVars

Approved ==
    /\ rd.at = "approve"
    /\ \/ /\ rd' = [rd EXCEPT !.at = "write", !.uncertain = TRUE]
          /\ rdTask' = [at |-> "write", gen |-> rd.gen, cancelled |-> FALSE]
       \/ rd' = [rd EXCEPT !.at = "model", !.round = @ + 1] /\ UNCHANGED rdTask
    /\ UNCHANGED rpVars

Written ==
    /\ rd.at = "write" /\ rdTask.at = "ended"
    /\ rdTask' = [rdTask EXCEPT !.at = "none"]
    /\ rd' = [rd EXCEPT !.at = "model", !.round = @ + 1] /\ UNCHANGED rpVars

\* The blocking task: it runs on when the turn was dropped; a cancelled one may
\* stop before the file is replaced.
TaskEnds ==
    /\ rdTask.at \in {"prepare", "write"}
    /\ rdTask' = [rdTask EXCEPT !.at = "ended"]
    /\ \/ /\ rdTask.at = "write"
          /\ rpPast' = [rpPast EXCEPT !.effects = @ \cup {rdTask.gen}]
       \/ (rdTask.at = "prepare" \/ rdTask.cancelled) /\ UNCHANGED rpPast
    /\ UNCHANGED <<rp, rpTool, rpRead, rpRoom, rpConn, rd>>

------------------------
\* interrupt_turn after run_turn was dropped: cleanup cancels the file operation.
RemoteInterrupt ==
    /\ rd.at \in {"model", "tool", "prepare", "approve", "write", "staged"}
    /\ rdTask' = [rdTask EXCEPT !.cancelled = TRUE]
    /\ RunsIn("cleanup") /\ UNCHANGED rpVars

RdJoined == rdTask.at \in {"none", "ended"}

CleanedUp ==
    /\ rd.at = "cleanup" /\ RdJoined
    /\ rdTask' = [rdTask EXCEPT !.at = IF @ = "ended" THEN "none" ELSE @]
    /\ rd' = Reported(rd) /\ UNCHANGED rpVars

\* The operation does not end within the cleanup's time: the runtime is restarted.
CleanupFails ==
    /\ rd.at = "cleanup" /\ ~RdJoined
    /\ rd' = [rd EXCEPT !.at = "aborted", !.stopped = TRUE] /\ UNCHANGED <<rpVars, rdTask>>

\* finish_room_observation and abort_room_observation
RemoteFinish ==
    /\ rd.at = "staged" /\ FinishObservation
    /\ RunsIn("idle") /\ UNCHANGED rdTask

RemoteAbort ==
    /\ rd.at = "aborted"
    /\ (rp.gen = rd.gen /\ EndObservation) \/ (rp.gen # rd.gen /\ UNCHANGED rpVars)
    /\ RunsIn("idle") /\ UNCHANGED rdTask

RdNext ==
    \/ (BeginObservation \/ RoomSide) /\ UNCHANGED <<rd, rdTask>>
    \/ RunTurn \/ ForcedRead \/ TurnFails \/ ToolRefused \/ ToolReturns \/ PortalLost \/ CallTerminal
    \/ WorkspaceCall \/ Prepared \/ Approved \/ Written \/ TaskEnds
    \/ RemoteInterrupt \/ CleanedUp \/ CleanupFails \/ RemoteFinish \/ RemoteAbort
    \/ \E k \in RpTools : CallTool(k)

RdSpec == RpInit /\ RdInit /\ [][RdNext]_<<rpVars, rd, rdTask>>

------------------------

\* A turn reported as safe to repeat had no effect and never gets one: no room
\* tool of it was executed or is still to come, and no file operation of it is
\* still writing, although the turn was dropped at any point.
SafeToRepeat == rd.safe \cap rpPast.effects = {}
===============================================================================
