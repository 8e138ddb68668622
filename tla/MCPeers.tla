------------------------------ MODULE MCPeers ------------------------------
(***************************************************************************)
(* Whatever the server talks to beyond its own tasks, each on its own      *)
(* instance: the browsers, what admits them, their sockets, side chat and  *)
(* what they leave in a room; the connector of a remote conversation, an   *)
(* attendee run on this machine, the provider drivers with the room portal *)
(* they serve and the managed bridge that carries them, and the provider   *)
(* installations.  Nothing is assumed to happen: the run is about safety   *)
(* only.                                                                   *)
(***************************************************************************)
EXTENDS MCRoomAccess, RoomContent, RoomClient, SideChat, Connector, LocalAttendee, ProviderOps,
        ProviderDrivers

VARIABLE focus \* the component whose steps this behaviour takes

outsideVars == <<vars, cnVars, laVars, opVars>>
roomVars    == <<ctVars, rcVars, scVars>>

OutsideFoci == {"access", "connector", "attendee", "operations"}
RoomFoci    == {"files", "votes", "search", "client", "sidechat"}
DriverFoci  == {"codex", "claude", "acp", "opencode", "remote", "portal", "connections", "bridge"}

MCInit ==
    /\ focus \in OutsideFoci \cup RoomFoci \cup DriverFoci
    /\ AccessInit /\ CnInit /\ LaInit /\ OpInit
    /\ ContentInit /\ RcInit /\ ScInit
    /\ focus # "access" => allowance = Joining
    /\ focus # "connector" => cnMode = "local"
    /\ CxInit /\ ClInit /\ AcInit /\ OcInit /\ RpInit /\ RdInit /\ MbInit
    /\ focus # "opencode" => oc.stored

OutsideNext ==
    /\ UNCHANGED <<focus, roomVars, driverVars>>
    /\ \/ focus = "access" /\ AccessNext /\ Plainly' /\ UNCHANGED <<cnVars, laVars, opVars>>
       \/ focus = "connector" /\ CnNext /\ UNCHANGED <<vars, laVars, opVars>>
       \/ focus = "attendee" /\ LaNext /\ UNCHANGED <<vars, cnVars, opVars>>
       \/ focus = "operations" /\ OpNext /\ UNCHANGED <<vars, cnVars, laVars>>

\* Attachments are followed through a shorter log than votes and searches.
RoomNext ==
    /\ UNCHANGED <<focus, outsideVars, driverVars>>
    /\ \/ /\ focus = "files" /\ FilesNext /\ Len(ctLog') < CtSeq
          /\ UNCHANGED <<rcVars, scVars>>
       \/ focus = "votes" /\ VotesNext /\ UNCHANGED <<rcVars, scVars>>
       \/ focus = "search" /\ SearchNext /\ UNCHANGED <<rcVars, scVars>>
       \/ focus = "client" /\ RcNext /\ UNCHANGED <<ctVars, scVars>>
       \/ focus = "sidechat" /\ ScNext /\ UNCHANGED <<ctVars, rcVars>>

DriverNext ==
    /\ UNCHANGED <<focus, outsideVars, roomVars>>
    /\ \/ focus = "codex" /\ CxNext /\ UNCHANGED <<clVars, acVars, ocVars, portalVars, mbVars>>
       \/ focus = "claude" /\ ClNext /\ UNCHANGED <<cxVars, acVars, ocVars, portalVars, mbVars>>
       \/ focus = "acp" /\ AcNext /\ UNCHANGED <<cxVars, clVars, ocVars, portalVars, mbVars>>
       \/ focus = "opencode" /\ OcNext /\ UNCHANGED <<cxVars, clVars, acVars, portalVars, mbVars>>
       \/ focus = "remote" /\ RdNext /\ UNCHANGED <<cxVars, clVars, acVars, ocVars, mbVars>>
       \/ /\ focus = "portal" /\ RpNext
          /\ UNCHANGED <<cxVars, clVars, acVars, ocVars, rd, rdTask, mbVars>>
       \/ /\ focus = "connections" /\ ConnNext
          /\ UNCHANGED <<cxVars, clVars, acVars, ocVars, rd, rdTask, mbVars>>
       \/ focus = "bridge" /\ MbNext /\ UNCHANGED <<cxVars, clVars, acVars, ocVars, portalVars>>

MCSpec == MCInit /\ [][OutsideNext \/ RoomNext \/ DriverNext]_<<focus, outsideVars, roomVars, driverVars>>
=============================================================================
