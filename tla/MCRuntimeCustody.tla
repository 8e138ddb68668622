-------------------------- MODULE MCRuntimeCustody --------------------------
(***************************************************************************)
(* The provider runtimes a room relies on, each on its own instance: the   *)
(* custody of one session's processes, the provider requests of one        *)
(* session, and an attendee that owns its runtime elsewhere.               *)
(***************************************************************************)
EXTENDS RuntimeCustody, ProviderRequests, Attendee

VARIABLE focus \* the component whose steps this behaviour takes

MCSession == <<1, 1>>

vars == <<focus, custody, rqVars, atVars>>

MCInit ==
    /\ focus \in {"custody", "requests", "attendee"}
    /\ CustodyInit /\ RqInit /\ AtInit

Custody(A)  == focus = "custody" /\ A /\ UNCHANGED <<focus, rqVars, atVars>>
Requests(A) == focus = "requests" /\ A /\ UNCHANGED <<focus, custody, atVars>>
Attends(A)  == focus = "attendee" /\ A /\ UNCHANGED <<focus, custody, rqVars>>

MCNext == Custody(CustodyNext) \/ Requests(RqNext) \/ Attends(AtNext)

\* The operating system runs every process of a launch; the driver, the room
\* task and the deadlines of a request run, and a turn whose calls returned
\* ends; the tasks of the room and of an attendee run, its posts arrive, its
\* provider ends or quiesces.
MCSpec ==
    /\ MCInit /\ [][MCNext]_vars
    /\ \A t \in Launches : WF_vars(Custody(GuardianStep(t)))
    /\ WF_vars(Requests(Respond))
    /\ \A r \in RqIds :
          /\ WF_vars(Requests(Open(r))) /\ WF_vars(Requests(Receive(r)))
          /\ WF_vars(Requests(ReceiptRead(r))) /\ WF_vars(Requests(Deadline(r)))
          /\ WF_vars(Requests(\E written \in BOOLEAN : Write(r, written)))
          /\ WF_vars(Requests(\E expired, stored \in BOOLEAN : Complete(r, expired, stored)))
    /\ \A s \in RqSessions : WF_vars(Requests(\E inRoom \in BOOLEAN : EndTurn(s, inRoom)))
    /\ WF_vars(Attends(HostCleanup)) /\ \A k \in Links : WF_vars(Attends(TaskStep(k)))
    /\ WF_vars(Attends(ClientStep)) /\ WF_vars(Attends(ServePost))
    /\ WF_vars(Attends(Quiesce)) /\ WF_vars(Attends(ToolCall))
=============================================================================
