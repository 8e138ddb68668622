--------------------------- MODULE ProviderDrivers ---------------------------
(***************************************************************************)
(* The drivers of every provider, the room portal they serve and the       *)
(* managed bridge that carries their calls, side by side: one runtime runs *)
(* one of them, a server any of them, and none reads the state of another. *)
(***************************************************************************)
EXTENDS CodexDriver, ClaudeDriver, AcpDriver, OpenCodeDriver, RemoteDriver, ManagedBridge

portalVars == <<rpVars, rd, rdTask>>
driverVars == <<cxVars, clVars, acVars, ocVars, portalVars, mbVars>>

\* Each takes its own steps.  The portal serves the bridge and the tool calls of a
\* driver as they come, or the rounds of the remote driver.
DriversSpec == CxSpec /\ ClSpec /\ AcSpec /\ OcSpec /\ MbSpec /\ (RpSpec \/ RdSpec)

------------------------

\* Whatever a provider sends late, twice or across a cancellation, a driver takes
\* output, questions and tools only into the turn they belong to, and a turn ends with
\* nothing of it left behind: the conjunction of what each driver, the portal and the
\* bridge promise (codex_turn.rs, acp_permissions.rs, opencode.rs,
\* claude-owner-requests.mjs, room_portal.rs, managed_bridge_callbacks.rs).
OwnTurnOnly ==
    /\ CodexOwnOutput
    /\ AcpWithinTurn
    /\ OpenCodeOwnTurn
    /\ ClaudeSettles
    /\ ToolsWithinTurn
    /\ BridgeHolds
===============================================================================
