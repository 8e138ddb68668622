---------------------------- MODULE LocalAttendee ----------------------------
(***************************************************************************)
(* The local attendee service: the desktop's own process runs an attendee  *)
(* for an invitation into another host's room.  Each operation has a       *)
(* task (admit, wait for its start, run, shut down) and a watched status;  *)
(* a durable receipt keeps its request and its invitation, and says that   *)
(* the cleanup is unconfirmed, before the task starts.  The remote room    *)
(* and the runtime are what Attendee models.                               *)
(***************************************************************************)
EXTENDS Naturals, FiniteSets

CONSTANTS LaRequests,    \* request identities of the operator
          LaInvites,     \* invitations
          LaLosses       \* lost join answers and crashes

ASSUME LaNames == "none" \notin LaInvites /\ LaRequests \cap {"none", "revoked"} = {}

VARIABLES
    laLive,     \* whether the service accepts operations
    laOps,      \* the operations of this process
    laStored,   \* durable receipts: request -> invitation
    laRoom,     \* per invitation, the remote membership and who joined with it
    laRun,      \* per request, its provider runtime
    laLoss      \* faults so far

laVars == <<laLive, laOps, laStored, laRoom, laRun, laLoss>>

NoOp == [inv |-> "none", at |-> "none", phase |-> "none", unsure |-> FALSE, cancel |-> FALSE,
         start |-> FALSE, cmd |-> "none", failed |-> FALSE]
Terminal == {"stopped", "failed", "cleanup_unconfirmed"}

LaInit ==
    /\ laLive = TRUE
    /\ laOps = [r \in LaRequests |-> NoOp]
    /\ laStored = [r \in LaRequests |-> "none"]
    /\ laRoom = [i \in LaInvites |-> [used |-> "none", joined |-> FALSE]]
    /\ laRun = [r \in LaRequests |-> FALSE]
    /\ laLoss = 0

Op(r, o) == laOps' = [laOps EXCEPT ![r] = o]
AtPlace(r, place) == laOps[r].at = place
LaFault == laLoss < LaLosses /\ laLoss' = laLoss + 1

\* create: the receipt reserves the request and the invitation before the task exists.
Unowned(r, i) ==
    /\ laStored[r] = "none"
    /\ \A q \in LaRequests : laStored[q] # i
CreateLocal(r, i) ==
    /\ laLive /\ laOps[r] = NoOp /\ Unowned(r, i)
    /\ laStored' = [laStored EXCEPT ![r] = i]
    /\ \E start \in BOOLEAN :
        Op(r, [NoOp EXCEPT !.inv = i, !.at = "admit", !.phase = "admitting", !.start = start])
    /\ UNCHANGED <<laLive, laRoom, laRun, laLoss>>

\* The remote room admits the first client of an invitation, and the same one again.
Joins(r) == laRoom[laOps[r].inv].used \in {"none", r} /\ laRoom[laOps[r].inv].used # "revoked"
JoinedRoom(r) == laRoom' = [laRoom EXCEPT ![laOps[r].inv] = [used |-> r, joined |-> TRUE]]
\* Mutant: an earlier attempt without an answer is forgotten.
Refused_forgets(r) == [laOps[r] EXCEPT !.at = "end", !.phase = "failed"]
\* A refusal is final, unless an earlier attempt may have been committed.
Refused(r) ==
    [laOps[r] EXCEPT !.at = "end",
                     !.phase = IF laOps[r].unsure THEN "cleanup_unconfirmed" ELSE "failed"]

\* admit: one attempt to join.  The remote room may refuse any: its invitation or session
\* ended, it is archived or busy.
AdmitLocal(r) ==
    /\ AtPlace(r, "admit")
    /\ \/ /\ laOps[r].cancel /\ ~laOps[r].unsure
          /\ Op(r, [laOps[r] EXCEPT !.at = "end", !.phase = "stopped"])
          /\ UNCHANGED <<laRoom, laLoss>>
       \/ /\ Joins(r) /\ JoinedRoom(r)
          /\ Op(r, [laOps[r] EXCEPT !.at = "prepare"]) /\ UNCHANGED laLoss
       \/ Op(r, Refused(r)) /\ UNCHANGED <<laRoom, laLoss>>
       \/ /\ LaFault
          /\ Op(r, [laOps[r] EXCEPT !.at = "unresolved", !.phase = "admission_unresolved",
                                    !.unsure = TRUE])
          /\ (Joins(r) /\ JoinedRoom(r)) \/ UNCHANGED laRoom
    /\ UNCHANGED <<laLive, laStored, laRun>>

\* An unresolved admission waits for a retry; a cancellation joins once more to be able to leave.
ResolveAdmission(r) ==
    /\ AtPlace(r, "unresolved")
    /\ \/ /\ laOps[r].cmd = "retry"
          /\ Op(r, [laOps[r] EXCEPT !.at = "admit", !.phase = "admitting", !.cmd = "none"])
          /\ UNCHANGED laRoom
       \/ /\ laOps[r].cancel /\ Joins(r) /\ JoinedRoom(r)
          /\ Op(r, [laOps[r] EXCEPT !.at = "prepare"])
       \/ /\ laOps[r].cancel
          /\ Op(r, [laOps[r] EXCEPT !.at = "end", !.phase = "cleanup_unconfirmed"])
          /\ UNCHANGED laRoom
    /\ UNCHANGED <<laLive, laStored, laRun, laLoss>>

\* prepare and the wait for a start: a cancelled operation goes to its shutdown.
PrepareLocal(r) ==
    /\ AtPlace(r, "prepare")
    /\ Op(r, IF laOps[r].cancel THEN [laOps[r] EXCEPT !.at = "stop", !.phase = "stopping"]
             ELSE IF laOps[r].start THEN [laOps[r] EXCEPT !.at = "start", !.phase = "starting"]
             ELSE [laOps[r] EXCEPT !.at = "hold", !.phase = "admitted"])
    /\ UNCHANGED <<laLive, laStored, laRoom, laRun, laLoss>>
HoldLocal(r) ==
    /\ AtPlace(r, "hold")
    /\ \/ laOps[r].cancel /\ Op(r, [laOps[r] EXCEPT !.at = "stop", !.phase = "stopping"])
       \/ laOps[r].cmd = "start"
          /\ Op(r, [laOps[r] EXCEPT !.at = "start", !.phase = "starting", !.cmd = "none"])
    /\ UNCHANGED <<laLive, laStored, laRoom, laRun, laLoss>>

\* run_attendee_session: the runtime starts and reports ready, or the session fails.
StartLocal(r) ==
    /\ AtPlace(r, "start")
    /\ \/ /\ laRun' = [laRun EXCEPT ![r] = TRUE]
          /\ Op(r, [laOps[r] EXCEPT !.at = "run", !.phase = "running"])
       \/ /\ UNCHANGED laRun
          /\ Op(r, [laOps[r] EXCEPT !.at = "stop", !.phase = "stopping", !.failed = TRUE])
    /\ UNCHANGED <<laLive, laStored, laRoom, laLoss>>
\* The session ends by a cancellation, a remote stop or a failure.
SessionEnds(r) ==
    /\ AtPlace(r, "run")
    /\ \E failed \in BOOLEAN :
        Op(r, [laOps[r] EXCEPT !.at = "stop", !.phase = "stopping", !.failed = failed])
    /\ UNCHANGED <<laLive, laStored, laRoom, laRun, laLoss>>

\* shutdown_attendee: the runtime is stopped, then the room is left; what is not proven is said.
ShutdownLocal(r) ==
    /\ AtPlace(r, "stop")
    /\ \/ /\ laRun' = [laRun EXCEPT ![r] = FALSE]
          /\ laRoom' = [laRoom EXCEPT ![laOps[r].inv].joined = FALSE]
          /\ Op(r, [laOps[r] EXCEPT !.at = "end",
                                    !.phase = IF laOps[r].failed THEN "failed" ELSE "stopped"])
       \/ /\ laRun' \in {laRun, [laRun EXCEPT ![r] = FALSE]}
          /\ UNCHANGED laRoom
          /\ Op(r, [laOps[r] EXCEPT !.at = "end", !.phase = "cleanup_unconfirmed"])
    /\ UNCHANGED <<laLive, laStored, laLoss>>

\* retry and start: accepted only in their phase; the task's channel holds one command.
Advance(r) ==
    /\ laOps[r].cmd = "none"
    /\ \/ laOps[r].phase = "admission_unresolved" /\ Op(r, [laOps[r] EXCEPT !.cmd = "retry"])
       \/ laOps[r].phase = "admitted" /\ Op(r, [laOps[r] EXCEPT !.cmd = "start"])
    /\ UNCHANGED <<laLive, laStored, laRoom, laRun, laLoss>>
CancelLocal(r) ==
    /\ laOps[r].at \notin {"none", "end"} /\ ~laOps[r].cancel
    /\ Op(r, [laOps[r] EXCEPT !.cancel = TRUE])
    /\ UNCHANGED <<laLive, laStored, laRoom, laRun, laLoss>>
\* shutdown cancels every operation and accepts no other.
ShutdownService ==
    /\ laLive /\ laLive' = FALSE
    /\ laOps' = [r \in LaRequests |-> IF laOps[r].at \in {"none", "end"} THEN laOps[r]
                                      ELSE [laOps[r] EXCEPT !.cancel = TRUE]]
    /\ UNCHANGED <<laStored, laRoom, laRun, laLoss>>

\* The process dies or ends: the operations are gone, the receipts stay.
RestartService ==
    /\ ~laLive \/ laLoss < LaLosses
    /\ laLoss' = IF laLive THEN laLoss + 1 ELSE laLoss
    /\ ~laLive => \A r \in LaRequests : laOps[r].at \in {"none", "end"}
    /\ laLive' = TRUE /\ laOps' = [r \in LaRequests |-> NoOp]
    /\ laRun' \in {laRun, [r \in LaRequests |-> FALSE]}
    /\ UNCHANGED <<laStored, laRoom>>

\* The remote room ends a membership or an invitation on its own.
RemoteRevokes(i) ==
    /\ laRoom[i].used # "revoked"
    /\ laRoom' = [laRoom EXCEPT ![i] = [used |-> "revoked", joined |-> FALSE]]
    /\ UNCHANGED <<laLive, laOps, laStored, laRun, laLoss>>

\* status: the live operation, else the durable receipt.
StatusOf(r) ==
    IF laOps[r].phase # "none" THEN laOps[r].phase
    ELSE IF laStored[r] # "none" THEN "cleanup_unconfirmed" ELSE "missing"

LaTask(r) ==
    \/ AdmitLocal(r) \/ ResolveAdmission(r) \/ PrepareLocal(r) \/ HoldLocal(r)
    \/ StartLocal(r) \/ (laOps[r].cancel /\ SessionEnds(r)) \/ ShutdownLocal(r)
LaNext ==
    \/ \E r \in LaRequests : \/ LaTask(r) \/ SessionEnds(r) \/ Advance(r) \/ CancelLocal(r)
                             \/ \E i \in LaInvites : CreateLocal(r, i)
    \/ ShutdownService \/ RestartService \/ \E i \in LaInvites : RemoteRevokes(i)

LaSpec == LaInit /\ [][LaNext]_laVars

------------------------
(* A status that says stopped or failed is the truth: the operation left no joined
   participant in the remote room and no provider runtime, although an earlier join may
   have been committed without an answer; and nobody else ever used its invitation
   (admit, run, reserve_local_attendee). *)
SettledIsTrue ==
    \A r \in LaRequests :
        /\ StatusOf(r) \in {"stopped", "failed", "missing"} =>
              /\ ~laRun[r]
              /\ \A i \in LaInvites : laRoom[i].used = r => ~laRoom[i].joined
        /\ \A i \in LaInvites : laRoom[i].used = r => laStored[r] = i
=============================================================================
