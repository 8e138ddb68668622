---------------------------- MODULE RuntimeRestart ----------------------------
(***************************************************************************)
(* The rolling restart of the local runtime: a request snapshots the       *)
(* candidate executable, records quiescence in the store, hands the        *)
(* prepared restart to the main task and cancels it; the process drains,   *)
(* replaces itself and rebuilds the managed agents it had.  The record in  *)
(* the store is the only thing that survives a crash, and it closes        *)
(* admission while it is in progress.                                      *)
(*                                                                         *)
(* A generation numbers one life of the process.  An agent row keeps what  *)
(* the restart reads and writes; starting, stopping and turns are here     *)
(* only to make it busy or not (AgentCustody and ProviderTurn have them).  *)
(***************************************************************************)
EXTENDS Naturals, FiniteSetsExt

CONSTANTS Sessions, Ops, Images, MaxGeneration, MaxMoves

ASSUME RestartBounds == MaxGeneration \in Nat \ {0} /\ MaxMoves \in Nat /\ Images \subseteq Nat

VARIABLES
    rec,        \* runtime_metadata[runtime_restart_v1]
    retired,    \* runtime_metadata[runtime_restart_v1:<operation>]
    row,        \* the agent session rows
    alive,      \* session -> generation whose provider process runs, 0 for none
    gen,        \* the generation of the running process, or of the last one
    stage,      \* where that process is
    hand,       \* --reexec-operation and --reexec-image
    todo,       \* recover: targets not reached yet
    held,       \* the delivery sender: "free", "locked", "taken"
    mail,       \* the PreparedRestart in the oneshot channel
    req,        \* one restart request per operation: where it is
    told,       \* operation -> the last phase its client was given
    installed,  \* the executable at --restart-source
    moves       \* agent commands admitted so far

vars == <<rec, retired, row, alive, gen, stage, hand, todo, held, mail, req, told, installed, moves>>

None == "none"
NoRecord == [op |-> None, phase |-> None, targets |-> {}, paused |-> {}, source |-> 0,
             recovery |-> 0, image |-> 0]
Blocking == {"quiescing", "draining", "recovering"}
NoHand == [op |-> None, image |-> 0]
Handoff == [op : Ops, image : Images]

\* A row: its status, whether it is enabled, and the generation that holds its handles.
StoppedRow == [run |-> "stopped", enabled |-> FALSE, by |-> 0]
Row == [run : {"stopped", "starting", "idle", "busy", "paused", "disconnected"},
        enabled : BOOLEAN, by : 0..MaxGeneration]

\* blocks_admission, restart_quiescing: what commands and the scheduler read.
Admits == rec.phase \notin Blocking

Stopped(s) == row[s] = StoppedRow

\* quiescent_targets
Unquiet(s) == row[s].run \in {"starting", "busy", "disconnected"}
Targets == {s \in Sessions : row[s].run \in {"idle", "paused"} /\
                             (row[s].enabled \/ row[s].run = "paused")}

\* runtime_restart_operation: the current record or the retired one of that name.
RecordOf(o) == IF rec.op = o THEN rec ELSE retired[o]

Init ==
    /\ rec = NoRecord
    /\ retired = [o \in Ops |-> NoRecord]
    /\ row \in [Sessions -> {StoppedRow, [run |-> "idle", enabled |-> TRUE, by |-> 1],
                             [run |-> "paused", enabled |-> FALSE, by |-> 1]}]
    /\ alive = [s \in Sessions |-> row[s].by]
    /\ gen = 1 /\ stage = "serve" /\ hand = NoHand /\ todo = {}
    /\ held = "free" /\ mail = NoHand
    /\ req = [o \in Ops |-> [pc |-> "idle", image |-> 0]]
    /\ told = [o \in Ops |-> None]
    /\ installed = Min(Images)
    /\ moves = 0

procVars == <<gen, stage, hand, todo>>
askVars == <<held, mail, req, told>>

------------------------
\* What admission lets happen to an agent while the runtime serves.  A row
\* that leaves a run goes through a state that quiescent_targets refuses.

Serving == stage \in {"serve", "closing"}

Move(s, from, to) ==
    /\ Serving
    /\ row[s].run = from
    /\ row' = [row EXCEPT ![s] = to]
    /\ UNCHANGED <<rec, retired, procVars, askVars, installed>>

\* The bound: the last life that is explored is asked for no restart and has no
\* fault, and it starts when the guardian is done with the earlier ones.
LastLife == gen = MaxGeneration

Admitted == Admits /\ moves < MaxMoves /\ moves' = moves + 1

\* assign_available_pending
TurnStarts(s) ==
    /\ Admitted /\ row[s].enabled
    /\ Move(s, "idle", [row[s] EXCEPT !.run = "busy"]) /\ UNCHANGED alive
TurnEnds(s) ==
    /\ Move(s, "busy", [row[s] EXCEPT !.run = "idle"]) /\ UNCHANGED <<alive, moves>>

\* agent.pause and agent.resume of an idle agent
Pause(s) ==
    /\ Admitted
    /\ Move(s, "idle", [row[s] EXCEPT !.run = "paused", !.enabled = FALSE]) /\ UNCHANGED alive
Resume(s) ==
    /\ Admitted
    /\ Move(s, "paused", [row[s] EXCEPT !.run = "idle", !.enabled = TRUE]) /\ UNCHANGED alive

\* agent.start: reserved, then confirmed.
StartAgent(s) ==
    /\ Admitted
    /\ Move(s, "stopped", [run |-> "starting", enabled |-> TRUE, by |-> gen]) /\ UNCHANGED alive
AgentStarted(s) ==
    /\ Move(s, "starting", [row[s] EXCEPT !.run = "idle"])
    /\ alive' = [alive EXCEPT ![s] = gen] /\ UNCHANGED moves
StopAgent(s) ==
    /\ Admitted /\ row[s].run \in {"idle", "paused"}
    /\ Move(s, row[s].run, StoppedRow)
    /\ alive' = [alive EXCEPT ![s] = 0]

\* The source executable is replaced by a build.
Install(i) ==
    /\ i > installed /\ installed' = i
    /\ UNCHANGED <<rec, retired, row, alive, procVars, askVars, moves>>

------------------------
\* RuntimeRestartControl::request, from the HTTP route or the private socket.

Reply(o, phase) == told' = [told EXCEPT ![o] = phase]

\* The operation is known: its receipt, whatever its phase.
Receipt(o) ==
    /\ Serving /\ req[o].pc = "idle" /\ RecordOf(o).op = o
    /\ told[o] # RecordOf(o).phase
    /\ Reply(o, RecordOf(o).phase)
    /\ UNCHANGED <<rec, retired, row, alive, procVars, held, mail, req, installed, moves>>

\* Unknown: the delivery is locked for the whole preparation.
Ask(o) ==
    /\ Serving /\ req[o].pc = "idle" /\ RecordOf(o).op # o /\ held = "free" /\ ~LastLife
    /\ held' = "locked"
    /\ req' = [req EXCEPT ![o].pc = "image"]
    /\ UNCHANGED <<rec, retired, row, alive, procVars, mail, told, installed, moves>>

\* RuntimeImage::prepare and FrontendRelease::materialize; a source that
\* changes during the snapshot or fails its preflight is no candidate.
Snapshot(o) ==
    /\ Serving /\ req[o].pc = "image"
    /\ req' = [req EXCEPT ![o] = [pc |-> "prepare", image |-> installed]]
    /\ UNCHANGED <<rec, retired, row, alive, procVars, held, mail, told, installed, moves>>
SnapshotFails(o) ==
    /\ Serving /\ req[o].pc = "image"
    /\ req' = [req EXCEPT ![o].pc = "idle"] /\ held' = "free"
    /\ UNCHANGED <<rec, retired, row, alive, procVars, mail, told, installed, moves>>

\* Mutant: a turn in flight does not refuse the restart.
Busy_record_only == ~Admits

\* prepare_runtime_restart
Busy == ~Admits \/ \E s \in Sessions : Unquiet(s)

Quiescing(o) ==
    [op |-> o, phase |-> "quiescing", targets |-> Targets,
     paused |-> {s \in Targets : row[s].run = "paused"},
     source |-> gen, recovery |-> 0, image |-> 0]

Prepare(o) ==
    /\ Serving /\ req[o].pc = "prepare" /\ ~Busy
    /\ retired' = IF rec.op = None THEN retired ELSE [retired EXCEPT ![rec.op] = rec]
    /\ rec' = Quiescing(o)
    /\ req' = [req EXCEPT ![o].pc = "send"]
    /\ UNCHANGED <<row, alive, procVars, held, mail, told, installed, moves>>

PrepareBusy(o) ==
    /\ Serving /\ req[o].pc = "prepare" /\ Busy
    /\ req' = [req EXCEPT ![o] = [pc |-> "idle", image |-> 0]] /\ held' = "free"
    /\ UNCHANGED <<rec, retired, row, alive, procVars, mail, told, installed, moves>>

\* sender.send, then cancel; the receipt goes out.
Send(o) ==
    /\ Serving /\ req[o].pc = "send"
    /\ held' = "taken"
    /\ mail' = [op |-> o, image |-> req[o].image]
    /\ stage' = "closing"
    /\ req' = [req EXCEPT ![o] = [pc |-> "idle", image |-> 0]]
    /\ Reply(o, rec.phase)
    /\ UNCHANGED <<rec, retired, row, alive, gen, hand, todo, installed, moves>>

\* The connection ends, or its lifetime does, and the request's future with it: wherever it was,
\* the delivery is free again.  What it committed stays: a quiescence nobody hands on.
Dropped(o) ==
    /\ Serving /\ req[o].pc # "idle"
    /\ req' = [req EXCEPT ![o] = [pc |-> "idle", image |-> 0]] /\ held' = "free"
    /\ UNCHANGED <<rec, retired, row, alive, procVars, mail, told, installed, moves>>

------------------------
\* The end of a life: cancellation, owned shutdown, drain, replacement.

\* ctrl-c, the desktop pipe closing, an ingress or accept error
Cancel ==
    /\ stage = "serve" /\ ~LastLife /\ stage' = "closing"
    /\ UNCHANGED <<rec, retired, row, alive, gen, hand, todo, askVars, installed, moves>>

Quiet == \A o \in Ops : req[o].pc = "idle"

\* serve_runtime's shutdown: connections and controls are joined, the rooms
\* stop, every provider that is proven gone is checkpointed.  Whether the
\* serving ended well, what of it is confirmed:
ShutDown(gone, ok) ==
    /\ alive' = [s \in Sessions |-> IF s \in gone THEN 0 ELSE alive[s]]
    /\ row' = [s \in Sessions |-> IF s \in gone /\ row[s].by = gen THEN StoppedRow ELSE row[s]]
    /\ ok => \A s \in Sessions : alive[s] = gen => s \in gone

\* begin_runtime_restart_drain runs when the serving ended well and mail is there.
Drain ==
    /\ stage = "closing" /\ Quiet /\ mail # NoHand
    /\ rec.op = mail.op /\ rec.source = gen /\ rec.phase = "quiescing"
    /\ \E gone \in SUBSET {s \in Sessions : alive[s] = gen \/ row[s].by = gen} :
            ShutDown(gone, TRUE)
    /\ rec' = [rec EXCEPT !.phase = "draining", !.image = mail.image]
    /\ stage' = "exec"
    /\ UNCHANGED <<retired, gen, hand, todo, askVars, installed, moves>>

\* The life ends without a replacement: no mail, or the serving failed.
Exit ==
    /\ stage \in {"closing", "aborting"} /\ Quiet
    /\ \E ok \in BOOLEAN : \E gone \in SUBSET {s \in Sessions : alive[s] = gen \/ row[s].by = gen} :
            ShutDown(gone, ok) /\ (mail # NoHand => ~ok)
    /\ stage' = "down"
    /\ mail' = NoHand
    /\ UNCHANGED <<rec, retired, gen, hand, todo, held, req, told, installed, moves>>

Boot(h) ==
    /\ gen < MaxGeneration /\ gen' = gen + 1
    /\ gen' = MaxGeneration => \A s \in Sessions : alive[s] = 0
    /\ stage' = "reconcile" /\ hand' = h /\ todo' = {}
    /\ held' = "free" /\ mail' = NoHand
    /\ req' = [o \in Ops |-> [pc |-> "idle", image |-> 0]]
    /\ UNCHANGED <<rec, retired, row, alive, told, installed, moves>>

\* RuntimeReexec::execute: the prepared image runs in the same process, with
\* both listeners; exec or its checks may fail, and the process is gone.
Exec == stage = "exec" /\ Boot(mail)
ExecFails ==
    /\ stage = "exec" /\ stage' = "down" /\ mail' = NoHand
    /\ UNCHANGED <<rec, retired, row, alive, gen, hand, todo, held, req, told, installed, moves>>

\* The desktop or the operator starts the runtime again.
Start == stage = "down" /\ Boot(NoHand)

\* The process dies; the next life finds the store as it was.
Crash ==
    /\ stage # "down" /\ ~LastLife
    /\ stage' = "down" /\ mail' = NoHand /\ held' = "free" /\ todo' = {}
    /\ req' = [o \in Ops |-> [pc |-> "idle", image |-> 0]]
    /\ UNCHANGED <<rec, retired, row, alive, gen, hand, told, installed, moves>>

\* The guardian ends the providers of a dead life (RuntimeCustody).
GuardianEnds(s) ==
    /\ alive[s] # 0 /\ (alive[s] # gen \/ stage = "down")
    /\ alive' = [alive EXCEPT ![s] = 0]
    /\ UNCHANGED <<rec, retired, row, procVars, askVars, installed, moves>>

------------------------
\* A new life, before it accepts a connection.

\* Mutant: the providers of the earlier life are taken for gone.
Reconcile_assume_gone ==
    /\ stage = "reconcile"
    /\ row' = [s \in Sessions |-> StoppedRow]
    /\ stage' = IF hand = NoHand THEN "abandoned" ELSE "begin"
    /\ UNCHANGED <<rec, retired, alive, gen, hand, todo, askVars, installed, moves>>

\* reconcile_before_network_admission: a runtime proven gone leaves a stopped
\* row, one that may still run keeps its handles and needs recovery.
Reconcile ==
    /\ stage = "reconcile"
    /\ row' = [s \in Sessions |->
                 IF alive[s] = 0 THEN StoppedRow
                 ELSE [row[s] EXCEPT !.run = "disconnected", !.enabled = FALSE]]
    /\ stage' = IF hand = NoHand THEN "abandoned" ELSE "begin"
    /\ UNCHANGED <<rec, retired, alive, gen, hand, todo, askVars, installed, moves>>

\* Mutant: only a record that was still quiescing is closed.
AbandonEnds_quiescing ==
    /\ rec.source # gen /\ rec.recovery # gen /\ rec.phase = "quiescing"
    /\ \A s \in rec.targets : Stopped(s)

\* fail_abandoned_runtime_restart_after_cleanup
AbandonEnds ==
    /\ rec.source # gen /\ rec.recovery # gen
    /\ \A s \in rec.targets : Stopped(s)

\* recover_abandoned, then the ready line.  An error ends the life.
RecoverAbandoned ==
    /\ stage = "abandoned"
    /\ IF Admits THEN rec' = rec /\ stage' = "serve"
       ELSE IF AbandonEnds
       THEN rec' = [rec EXCEPT !.phase = "failed", !.recovery = gen] /\ stage' = "serve"
       ELSE rec' = rec /\ stage' = "aborting"
    /\ UNCHANGED <<retired, row, alive, gen, hand, todo, askVars, installed, moves>>

\* begin_runtime_restart_recovery
BeginRecovery ==
    /\ stage = "begin"
    /\ rec.op = hand.op /\ rec.source # gen /\ rec.image = hand.image
    /\ rec.phase \in {"draining", "recovering"}
    /\ \A s \in rec.targets : Stopped(s)
    /\ rec' = [rec EXCEPT !.phase = "recovering", !.recovery = gen]
    /\ todo' = rec.targets /\ stage' = "recover"
    /\ UNCHANGED <<retired, row, alive, gen, hand, askVars, installed, moves>>

\* reserve_start and authorize_runtime_restart_target
Owns == rec.op = hand.op /\ rec.phase = "recovering" /\ rec.recovery = gen

Authorize(s) ==
    /\ stage = "recover" /\ s \in todo /\ Owns /\ Stopped(s)
    /\ row' = [row EXCEPT ![s] = [run |-> "starting", enabled |-> TRUE, by |-> gen]]
    /\ todo' = todo \ {s}
    /\ UNCHANGED <<rec, retired, alive, gen, stage, hand, askVars, installed, moves>>

\* apply_runtime_started, and the pause that is restored
Rebuilt(s) ==
    IF s \in rec.paused THEN [row[s] EXCEPT !.run = "paused", !.enabled = FALSE]
    ELSE [row[s] EXCEPT !.run = "idle"]

\* start_reserved, then complete_runtime_restart_target.  One target at a time.
Launch(s) ==
    /\ stage = "recover" /\ row[s].run = "starting" /\ row[s].by = gen /\ alive[s] # gen
    /\ alive' = [alive EXCEPT ![s] = gen]
    /\ UNCHANGED <<rec, retired, row, procVars, askVars, installed, moves>>
CompleteTarget(s) ==
    /\ stage = "recover" /\ Owns /\ row[s].run = "starting" /\ alive[s] = gen
    /\ row' = [row EXCEPT ![s] = Rebuilt(s)]
    /\ UNCHANGED <<rec, retired, alive, procVars, askVars, installed, moves>>

\* complete_runtime_restart checks every target again.
Ready(s) ==
    /\ row[s].by # 0
    /\ row[s].run = IF s \in rec.paused THEN "paused" ELSE "idle"
    /\ row[s].enabled = (s \notin rec.paused)

CompleteRecovery ==
    /\ stage = "recover" /\ todo = {} /\ Owns
    /\ \A s \in rec.targets : Ready(s)
    /\ rec' = [rec EXCEPT !.phase = "completed"]
    /\ stage' = "wake"
    /\ UNCHANGED <<retired, row, alive, gen, hand, todo, askVars, installed, moves>>

\* wake_floor ended, the ready line is out and the listener accepts.
PublishReady ==
    /\ stage = "wake" /\ stage' = "serve"
    /\ UNCHANGED <<rec, retired, row, alive, gen, hand, todo, askVars, installed, moves>>

\* recover returns an error (a start failed, the life was cancelled, even after
\* the record was completed): the same
\* owned shutdown, then fail_runtime_restart_after_cleanup when all is proven.
FailOwned(r) ==
    \/ r.phase = "draining" /\ r.source = gen
    \/ /\ r.phase \in {"recovering", "completed", "failed"}
       /\ r.recovery = gen \/ (r.recovery = 0 /\ r.source = gen)

RecoveryFails ==
    /\ stage \in {"begin", "recover", "wake"} /\ ~LastLife
    /\ \E gone \in SUBSET {s \in Sessions : alive[s] = gen \/ row[s].by = gen} :
        LET rows == [s \in Sessions |-> IF s \in gone /\ row[s].by = gen THEN StoppedRow ELSE row[s]]
        IN /\ alive' = [s \in Sessions |-> IF s \in gone THEN 0 ELSE alive[s]]
           /\ row' = rows
           /\ rec' = IF /\ rec.op = hand.op /\ FailOwned(rec)
                        /\ \A s \in rec.targets : rows[s] = StoppedRow
                     THEN [rec EXCEPT !.phase = "failed"] ELSE rec
    /\ stage' = "down" /\ todo' = {}
    /\ UNCHANGED <<retired, gen, hand, askVars, installed, moves>>

------------------------
AgentStep(s) ==
    \/ TurnStarts(s) \/ TurnEnds(s) \/ Pause(s) \/ Resume(s)
    \/ StartAgent(s) \/ AgentStarted(s) \/ StopAgent(s)

RequestStep(o) ==
    \/ Receipt(o) \/ Ask(o) \/ Snapshot(o) \/ SnapshotFails(o)
    \/ Prepare(o) \/ PrepareBusy(o) \/ Send(o) \/ Dropped(o)

LifeStep == Drain \/ Exit \/ Exec \/ ExecFails \/ Start
RecoverStep == Reconcile \/ RecoverAbandoned \/ BeginRecovery \/ CompleteRecovery \/ PublishReady \/ RecoveryFails

Next ==
    \/ \E s \in Sessions : AgentStep(s)
    \/ \E o \in Ops : RequestStep(o)
    \/ \E i \in Images : Install(i)
    \/ LifeStep \/ RecoverStep
    \/ Cancel \/ Crash
    \/ \E s \in Sessions : GuardianEnds(s) \/ Authorize(s) \/ Launch(s) \/ CompleteTarget(s)

\* A request that is under way and not dropped is answered.
ServeRequest ==
    \E o \in Ops : Snapshot(o) \/ SnapshotFails(o) \/ Prepare(o) \/ PrepareBusy(o) \/ Send(o)

Spec == Init /\ [][Next]_vars

------------------------

\* From the moment a restart is recorded to the end of its source life no agent
\* works and the agents to rebuild stay exactly the ones that were recorded,
\* with their pauses: the check of quiescence and the record are one
\* transaction, and every command and assignment reads that record.
TargetsFrozen ==
    ~Admits =>
        /\ \A s \in Sessions : row[s].run # "busy"
        /\ (gen = rec.source /\ Serving) =>
               /\ rec.targets = Targets
               /\ rec.paused = {s \in Targets : row[s].run = "paused"}

\* No life launches an agent while a process of an earlier life may still run
\* it, and a restart is closed as failed only when all its agents are gone.
NeverTwice ==
    [][/\ \A s \in Sessions : alive'[s] \notin {0, alive[s]} => alive[s] = 0
       /\ (rec'.phase = "failed" /\ rec' # rec)
             => \A s \in rec.targets : alive'[s] = 0]_vars

\* A restart that was recorded and is not handed on: its request was dropped between the
\* commit and the send, the life that made it serves on, and a repeated request is only
\* given its receipt.
Stranded ==
    /\ stage = "serve" /\ rec.phase = "quiescing" /\ rec.source = gen
    /\ req[rec.op].pc # "send"

\* Whatever crashes, cancels, fails or is dropped on the way, a runtime admits commands again:
\* no restart record closes it for good, but one that is stranded closes it to the end of the
\* life that recorded it, and of no later one.
AdmissionReturns == ~Admits ~> (Admits \/ Stranded)
===============================================================================
