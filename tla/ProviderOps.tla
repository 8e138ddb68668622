----------------------------- MODULE ProviderOps -----------------------------
(***************************************************************************)
(* The operator's services around one provider: the catalog that discovers *)
(* its models on request, the update service, the login service, and the   *)
(* selection that creates an agent from the published catalog.  Each       *)
(* service owns one task with one native process; a process whose end      *)
(* could not be proven keeps its owner closed.  A completed update or      *)
(* login asks the catalog for a forced refresh.                            *)
(***************************************************************************)
EXTENDS Naturals

CONSTANTS OpVersions,   \* released versions of the provider, in order
          OpRefreshes,  \* bound on discoveries
          OpRuns        \* bound on update and login runs each

VARIABLES
    opWorld,   \* the installed version, the latest offer, whether the user is logged in
    opCat,     \* the catalog's requests, its discovery task and what it published
    opUp,      \* the update task
    opLog,     \* the login task
    opDrafts   \* versions agents were created for

opVars == <<opWorld, opCat, opUp, opLog, opDrafts>>

NoRead == [ver |-> 0, auth |-> FALSE]
NoRun == [st |-> "none", want |-> 0, need |-> 0, res |-> "none", n |-> 0, late |-> FALSE]

OpInit ==
    /\ opWorld = [ver |-> 1, latest |-> 1, auth |-> FALSE]
    /\ opCat = [req |-> 0, done |-> 0, gen |-> 0, at |-> "idle", read |-> NoRead, shown |-> NoRead,
                ready |-> FALSE, stuck |-> FALSE, down |-> FALSE]
    /\ opUp = NoRun /\ opLog = NoRun
    /\ opDrafts = {}

\* A release is offered.
NewRelease ==
    /\ opWorld.latest < OpVersions
    /\ opWorld' = [opWorld EXCEPT !.latest = @ + 1]
    /\ UNCHANGED <<opCat, opUp, opLog, opDrafts>>

------------------------
(* The catalog. *)

\* request_discovery: a discovery under way is joined, a new one gets the next generation.
Requested(c) == IF c.req > c.done THEN c.req ELSE c.done + 1
RefreshUnavailable == opCat.stuck \/ opCat.down
\* The operator asks; a cached result that is fresh enough is reused without a new discovery.
RequestDiscovery ==
    /\ ~RefreshUnavailable /\ Requested(opCat) <= OpRefreshes
    /\ opCat' = [opCat EXCEPT !.req = Requested(opCat)]
    /\ UNCHANGED <<opWorld, opUp, opLog, opDrafts>>

\* run_provider_discovery: the requested generation is taken, the provider is asked.
DiscoverStart ==
    /\ opCat.at = "idle" /\ opCat.req > opCat.gen /\ ~opCat.stuck /\ ~opCat.down
    /\ opCat' = [opCat EXCEPT !.at = "probe", !.gen = opCat.req]
    /\ UNCHANGED <<opWorld, opUp, opLog, opDrafts>>
DiscoverRead ==
    /\ opCat.at = "probe"
    /\ opCat' = [opCat EXCEPT !.at = "publish",
                              !.read = [ver |-> opWorld.ver, auth |-> opWorld.auth]]
    /\ UNCHANGED <<opWorld, opUp, opLog, opDrafts>>
\* The result is published and its generation completed, unless the owner was cancelled; a
\* process that may still run ends the task for good.
DiscoverEnds ==
    /\ opCat.at = "publish"
    /\ \/ /\ opCat' = [opCat EXCEPT !.at = "idle",
                                    !.shown = IF opCat.down THEN @ ELSE opCat.read,
                                    !.ready = IF opCat.down THEN @ ELSE opCat.read.auth,
                                    !.done = IF opCat.down THEN @ ELSE opCat.gen]
       \/ opCat' = [opCat EXCEPT !.at = "ended", !.stuck = TRUE, !.ready = FALSE, !.done = opCat.gen]
       \/ opCat' = [opCat EXCEPT !.at = "idle", !.ready = FALSE, !.done = opCat.gen]
    /\ UNCHANGED <<opWorld, opUp, opLog, opDrafts>>

\* Mutant: the generation before the one asked for is taken for an answer.
RefreshDone_early(run) == opCat.done + 1 >= run.need
\* wait_for_provider.
RefreshDone(run) == opCat.done >= run.need

------------------------
(* The update and the login services. *)

\* A finished run is replaced, unless its process may still be alive.
MayRun(run) == run.st \in {"none", "ended"} /\ run.res # "unconfirmed" /\ ~opCat.down /\ run.n < OpRuns
NewRun(run, want) == [NoRun EXCEPT !.st = "process", !.want = want, !.n = run.n + 1]
Ends4(run, res) == [run EXCEPT !.st = "ended", !.res = res]

\* perform: an update of the offer the operator saw, or a check that installs nothing.
BeginUpdate ==
    /\ MayRun(opUp)
    /\ \E want \in {0, opWorld.latest} : opUp' = NewRun(opUp, want)
    /\ UNCHANGED <<opWorld, opCat, opLog, opDrafts>>
\* The check: the offer changed, there is nothing to install, or the process got stuck.
CheckOffer ==
    /\ opUp.st = "process"
    /\ \/ opUp.want = 0 /\ opUp' = Ends4(opUp, "checked")
       \/ /\ opUp.want # 0 /\ (opWorld.latest # opUp.want \/ opWorld.ver >= opUp.want)
          /\ opUp' = Ends4(opUp, "changed")
       \/ /\ opUp.want = opWorld.latest /\ opWorld.ver < opUp.want
          /\ opUp' = [opUp EXCEPT !.st = "install"]
       \/ opUp' = Ends4(opUp, "unconfirmed")
       \/ opUp' = Ends4(opUp, "failed")
    /\ UNCHANGED <<opWorld, opCat, opLog, opDrafts>>
\* install: the version that is found afterwards must be the one that was offered.
InstallRuns ==
    /\ opUp.st = "install"
    /\ \E v \in {opWorld.ver, opUp.want} :
        /\ opWorld' = [opWorld EXCEPT !.ver = v]
        /\ opUp' \in {IF v = opUp.want THEN [opUp EXCEPT !.st = "refresh"] ELSE Ends4(opUp, "failed"),
                      Ends4(opUp, "unconfirmed"), Ends4(opUp, "failed")}
    /\ UNCHANGED <<opCat, opLog, opDrafts>>

BeginLogin ==
    /\ MayRun(opLog)
    /\ opLog' = NewRun(opLog, 0)
    /\ UNCHANGED <<opWorld, opCat, opUp, opDrafts>>
\* run_login: the native command authenticates, fails or gets stuck; a terminal is only started.
LoginRuns ==
    /\ opLog.st = "process"
    /\ \/ /\ opWorld' = [opWorld EXCEPT !.auth = TRUE]
          /\ opLog' = [opLog EXCEPT !.st = "refresh"]
       \/ /\ opLog' \in {Ends4(opLog, "failed"), Ends4(opLog, "unconfirmed"), Ends4(opLog, "started")}
          /\ UNCHANGED opWorld
    /\ UNCHANGED <<opCat, opUp, opDrafts>>

\* refresh_provider(force): the refresh is requested, then waited for.
AsksRefresh(run) == run.st = "refresh" /\ run.need = 0
\* One that joins a discovery under way may come after what that one has read.
Asks(run) == [run EXCEPT !.need = Requested(opCat), !.late = (opCat.at = "publish")]
UpdateAsks ==
    /\ AsksRefresh(opUp) /\ ~RefreshUnavailable
    /\ opCat' = [opCat EXCEPT !.req = Requested(opCat)]
    /\ opUp' = Asks(opUp)
    /\ UNCHANGED <<opWorld, opLog, opDrafts>>
LoginAsks ==
    /\ AsksRefresh(opLog) /\ ~RefreshUnavailable
    /\ opCat' = [opCat EXCEPT !.req = Requested(opCat)]
    /\ opLog' = Asks(opLog)
    /\ UNCHANGED <<opWorld, opUp, opDrafts>>
Refreshed(run) ==
    Ends4(run, IF ~RefreshUnavailable /\ opCat.ready THEN "completed" ELSE "catalog")
RefreshOver(run) ==
    run.st = "refresh" /\ (RefreshUnavailable \/ (run.need # 0 /\ RefreshDone(run)))
UpdateEnds ==
    /\ RefreshOver(opUp) /\ opUp' = Refreshed(opUp)
    /\ UNCHANGED <<opWorld, opCat, opLog, opDrafts>>
LoginEnds ==
    /\ RefreshOver(opLog) /\ opLog' = Refreshed(opLog)
    /\ UNCHANGED <<opWorld, opCat, opUp, opDrafts>>

\* cancel: a login under way ends cancelled, or its process may still be alive.
CancelLogin ==
    /\ opLog.st = "process"
    /\ opLog' \in {Ends4(opLog, "cancelled"), Ends4(opLog, "unconfirmed")}
    /\ UNCHANGED <<opWorld, opCat, opUp, opDrafts>>

\* Shutdown cancels the three owners; their tasks end before it answers.
OpShutdown ==
    /\ ~opCat.down /\ opCat' = [opCat EXCEPT !.down = TRUE]
    /\ opUp' \in IF opUp.st \in {"process", "install"}
                 THEN {Ends4(opUp, "cancelled"), Ends4(opUp, "unconfirmed")} ELSE {opUp}
    /\ opLog' \in IF opLog.st = "process"
                  THEN {Ends4(opLog, "cancelled"), Ends4(opLog, "unconfirmed")} ELSE {opLog}
    /\ UNCHANGED <<opWorld, opDrafts>>

------------------------
\* The executable the catalog names is still the installed one.
SameExecutable == opWorld.ver = opCat.shown.ver
\* from_catalog: a creation needs the published revision and the executable it was made of.
CreateAgent ==
    /\ opCat.ready /\ SameExecutable
    /\ opDrafts' = opDrafts \cup {opCat.shown.ver}
    /\ UNCHANGED <<opWorld, opCat, opUp, opLog>>

OpNext ==
    \/ NewRelease \/ RequestDiscovery \/ DiscoverStart \/ DiscoverRead \/ DiscoverEnds
    \/ BeginUpdate \/ CheckOffer \/ InstallRuns \/ BeginLogin \/ LoginRuns \/ UpdateAsks \/ LoginAsks
    \/ UpdateEnds \/ LoginEnds \/ CancelLogin \/ OpShutdown \/ CreateAgent
OpSpec == OpInit /\ [][OpNext]_opVars

------------------------
(* An update or a login that asked for its refresh before a discovery under way had read
   anything, or that started one, reports completion only when the published catalog was read
   after its effect, and no later discovery takes that back: requests join and complete by
   generation over two services, the operator, failed discoveries and shutdown
   (request_discovery, wait_for_provider, run_provider_discovery, refresh_provider). *)
RefreshFollowsEffect ==
    /\ opUp.res = "completed" /\ ~opUp.late => opCat.shown.ver >= opUp.want
    /\ opLog.res = "completed" /\ ~opLog.late => opCat.shown.auth

(* An update or a login that reports completion has refreshed the catalog: what is
   published was read after its effect (refresh_provider, request_discovery). *)
RefreshSeesEffect ==
    /\ opUp.res = "completed" => opCat.shown.ver >= opUp.want
    /\ opLog.res = "completed" => opCat.shown.auth
=============================================================================
