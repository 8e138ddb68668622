------------------------- MODULE ProviderTurnProofs -------------------------
(***************************************************************************)
(* Invariants of one session's provider turns, for any number of turns,    *)
(* tasks, crashes, refused completions and expired claims, and the proof   *)
(* that the four processes keep the promise of TurnPromise.                *)
(*                                                                         *)
(* The argument has three layers.  TurnInv holds whatever the reconciler   *)
(* hands out: the authority to act on a turn, given once by                *)
(* authorize_start_in, is held by one task at a time, and the execution    *)
(* row and the interrupt row stay a pair.  ExactInv adds what is true when *)
(* no assigned turn is handed out twice: a preparation then belongs to one *)
(* task, and whoever ends a turn has seen that task give up its authority. *)
(* ServeInv follows the end of a turn to the slot: whoever ends it is on   *)
(* its way to empty the slot it was run in.                                *)
(***************************************************************************)
EXTENDS ProviderTurn, TLAPS, FiniteSetTheorems, WellFoundedInduction

------------------------
(* Types.                                                                   *)

EffectPhases == {"none", "prepared", "claimed", "dispatching", "issued",
                 "interrupt_ambiguous", "recovery_required", "finalized"}

PrepPhases == {"none", "preparing", "entered"} \cup Quiesced

TaskPcs == {"none", "spawned", "prepared", "authorized", "refused", "io",
            "reported", "done"}

DriverPcs == {"idle", "commit", "complete", "release", "vacate", "claim",
              "interrupt", "begin", "mark_waiting", "dispatch", "issue", "wait",
              "recover_claim", "recover_begin", "recover_signal",
              "recover_wait", "look", "not_started", "unowned", "stop",
              "stopped"}

ExecStates == {"none"} \cup Open \cup Terminal

RuntimeStates == {"running", "stopped", "vacant", "lost"}

EffectRow == [phase : EffectPhases, cause : {"none", "mute", "agent"},
              owner : {"none"} \cup Drivers, expired : BOOLEAN,
              dispatched : BOOLEAN]

PrepState == [gen : 0..MaxTurns, phase : PrepPhases, cancelled : BOOLEAN,
              result : Results]

TaskState == [pc : TaskPcs, gen : 0..MaxTurns, prep : 0..MaxTasks,
              result : Results, guarded : BOOLEAN]

SnapState == [exec : ExecStates, effect : EffectPhases,
              dispatched : BOOLEAN, started : BOOLEAN]

DriverState == [pc : DriverPcs, gen : 0..MaxTurns, prep : 0..MaxTasks,
                result : Results, snap : SnapState]

TypeOK ==
    /\ turn \in 0..MaxTurns
    /\ exec \in [Turns -> ExecStates]
    /\ started \in [Turns -> BOOLEAN]
    /\ effect \in [Turns -> EffectRow]
    /\ muted \in BOOLEAN /\ stopping \in BOOLEAN
    /\ runtime \in RuntimeStates
    /\ bound \in [Turns -> BOOLEAN]
    /\ slot \in 0..MaxTasks
    /\ prep \in [TaskIds -> PrepState]
    /\ task \in [TaskIds -> TaskState]
    /\ driver \in [Drivers -> DriverState]
    /\ refusals \in Nat /\ late \in Nat /\ restarts \in Nat

------------------------
(* The first layer: rows, authority and what each driver relies on.         *)

\* The rows of generation g: turns come one after the other, a start is
\* recorded once the turn has left "assigned", and the two rows are a pair.
RowOf(g) ==
    /\ g > turn => exec[g] = "none" /\ effect[g].phase = "none"
    /\ g = turn => exec[g] \in Open \cup Terminal
    /\ g < turn => exec[g] \in Terminal
    /\ exec[g] \in {"none", "assigned"} => ~started[g]
    /\ exec[g] \in {"start_dispatching", "running"} => started[g]

PairOf(g) ==
    /\ EffectPending(g) => RecoverablePair(g) \/ QuarantinedClaim(g)
    /\ exec[g] \in {"interrupt_pending", "quiescing", "interrupt_ambiguous"}
          => EffectPending(g)
    /\ effect[g].phase = "finalized" => exec[g] = "interrupted"
    /\ exec[g] = "completed" => effect[g].phase = "none"

\* A task that has been authorized and may still act on its turn.
Acts(t) == task[t].pc \in {"authorized", "io"}

TaskOf(t) ==
    /\ task[t].pc \in {"none", "done"} => task[t].gen = 0 /\ task[t].prep = 0
    /\ task[t].pc \notin {"none", "done"} => task[t].gen \in 1..turn
    /\ task[t].pc \in {"prepared", "authorized", "refused", "io"} =>
          task[t].prep \in TaskIds /\ prep[task[t].prep].gen = task[t].gen
    /\ task[t].pc = "spawned" => task[t].prep = 0
    /\ Acts(t) \/ task[t].pc = "reported" => started[task[t].gen]

\* A preparation is named after the task that made it.
FreshOf(t) ==
    task[t].pc \in {"none", "spawned"} =>
        /\ slot # t
        /\ \A u \in TaskIds : task[u].prep # t
        /\ \A d \in Drivers : driver[d].prep # t

\* The start of a turn is authorized to one task only.
OneAuthority ==
    \A t, u \in TaskIds :
        /\ Acts(t) \/ task[t].pc = "reported"
        /\ Acts(u) \/ task[u].pc = "reported"
        /\ task[t].gen = task[u].gen
        => t = u

\* Provider I/O happens in the slot of a running runtime.
ActsInSlot ==
    \A t \in TaskIds :
        task[t].pc = "io" =>
            runtime = "running" /\ slot = task[t].prep
            /\ prep[slot].phase = "entered"

SlotOK ==
    slot # 0 =>
        /\ prep[slot].gen \in 1..turn
        /\ \/ runtime = "running"
           \/ runtime = "stopped" /\ prep[slot].phase = "result_uncertain"

\* A result in a preparation is the last word of the task that was authorized.
ResultIsLast ==
    \A p \in TaskIds :
        prep[p].phase \in {"result_retained", "result_uncertain"} =>
            /\ prep[p].gen \in Turns /\ started[prep[p].gen]
            /\ \A t \in TaskIds : Acts(t) => task[t].gen # prep[p].gen

\* A turn whose owner may still act is quarantined only with its interrupt.
QuarantineOf(t) ==
    Acts(t) /\ slot = task[t].prep /\ exec[task[t].gen] = "recovery_required"
        => effect[task[t].gen].phase = "recovery_required"

\* While the slot shows a turn as entered, its task acts on it.
EnteredActs ==
    slot # 0 /\ prep[slot].phase = "entered" =>
        \E t \in TaskIds : task[t].pc = "io" /\ task[t].prep = slot

\* Where a driver works on no turn in particular.
Turnless == {"idle", "interrupt", "stop", "stopped", "vacate"}

DriverOf(d) ==
    /\ driver[d].pc \notin Turnless => driver[d].gen \in 1..turn
    /\ driver[d].pc = "idle" => driver[d].gen = 0 /\ driver[d].prep = 0
    /\ driver[d].pc \in {"commit", "complete"} =>
          /\ started[driver[d].gen]
          /\ \A t \in TaskIds : Acts(t) => task[t].gen # driver[d].gen

\* apply_exact_interrupt signals only a turn that waits for its interrupt.
DispatchOK ==
    driver["actor"].pc = "dispatch" /\ effect[driver["actor"].gen].phase = "claimed"
        => exec[driver["actor"].gen] = "interrupt_pending"

\* Nobody can act any more on a started turn that the reconciler found unowned.
UnownedOK ==
    driver["recon"].pc = "unowned" /\ driver["recon"].snap.exec # "assigned" =>
        /\ exec[driver["recon"].gen] # "assigned"
        /\ \A t \in TaskIds :
             Acts(t) /\ task[t].gen = driver["recon"].gen => slot # task[t].prep

\* What the reconciler loaded was an open turn.
SnapOK ==
    driver["recon"].pc \in {"recover_claim", "recover_begin", "recover_signal",
                            "recover_wait", "look", "unowned", "not_started"}
        => /\ driver["recon"].snap.exec \in Open
           /\ driver["recon"].snap.exec # "assigned" =>
                 exec[driver["recon"].gen] # "assigned"

RowsInv    == \A g \in Turns : RowOf(g) /\ PairOf(g)
TasksInv   == \A t \in TaskIds : TaskOf(t) /\ FreshOf(t) /\ QuarantineOf(t)
SlotInv    == OneAuthority /\ ActsInSlot /\ SlotOK /\ ResultIsLast /\ EnteredActs
DriversInv == /\ \A d \in Drivers : DriverOf(d)
              /\ DispatchOK /\ UnownedOK /\ SnapOK

TurnInv == TypeOK /\ RowsInv /\ TasksInv /\ SlotInv /\ DriversInv

------------------------
(* The second layer: what is true when no assigned turn is handed out twice. *)

\* One task per turn, and it prepares its own slot.
OwnTask ==
    /\ \A t, u \in TaskIds :
         task[t].gen = task[u].gen /\ task[t].gen # 0 => t = u
    /\ \A t \in TaskIds : task[t].prep \in {0, t}

\* One preparation per turn; a spawned task finds none, and an assigned turn
\* of a running runtime has lost none.
OwnPreparation ==
    /\ \A p, q \in TaskIds : prep[p].gen = prep[q].gen /\ prep[p].gen # 0 => p = q
    /\ \A p \in TaskIds : prep[p].gen \in 0..turn
    /\ \A t, p \in TaskIds :
         task[t].pc = "spawned" => prep[p].gen # task[t].gen
    /\ \A p \in TaskIds :
         prep[p].gen # 0 /\ exec[prep[p].gen] = "assigned" =>
             slot = p \/ runtime # "running"

\* What a preparation shows while its task is still on the way to the provider.
PhaseOf(t) ==
    /\ task[t].pc \in {"prepared", "authorized", "refused"} =>
          prep[t].phase \in {"preparing", "gone"}
    /\ prep[t].phase = "gone" => slot # t
    /\ prep[t].result = "stopped" => prep[t].phase \in {"result_uncertain", "gone"}

\* A driver that waits for a turn holds the preparation of that turn.
Waiting == {"mark_waiting", "dispatch", "issue", "wait", "recover_signal",
            "recover_wait"}

WaitsFor(d) ==
    driver[d].pc \in Waiting =>
        driver[d].prep \in TaskIds /\ prep[driver[d].prep].gen = driver[d].gen

\* Not-started proof: the turn's task is gone or has reported.
NotStartedOK ==
    driver["recon"].pc = "not_started" =>
        \A t \in TaskIds :
            task[t].gen = driver["recon"].gen => task[t].pc = "reported"

\* A confirmed stop: no runtime runs until the actor has recorded it.
StoppedOK == driver["actor"].pc = "stopped" => runtime # "running"

\* A slot is released for a turn that has ended.
ReleaseOK(d) ==
    driver[d].pc = "release" => exec[driver[d].gen] \in Terminal

\* The door to the provider is open only for an open turn.
DoorOf(t) ==
    Acts(t) /\ slot = task[t].prep => exec[task[t].gen] \in Open

ExactInv ==
    /\ OwnTask /\ OwnPreparation
    /\ \A t \in TaskIds : PhaseOf(t) /\ DoorOf(t)
    /\ \A d \in Drivers : WaitsFor(d) /\ ReleaseOK(d)
    /\ NotStartedOK /\ StoppedOK

------------------------
(* Type correctness.                                                        *)

\* The literals the steps write are of the right type.
LEMMA Literals ==
    /\ {"spawned", "prepared", "authorized", "refused", "io", "reported",
        "done"} \subseteq TaskPcs
    /\ {"preparing", "entered", "not_started", "result_retained",
        "result_uncertain", "gone"} \subseteq PrepPhases
    /\ {"none", "uncertain", "failed", "interrupted"} \subseteq Results
    /\ {"commit", "complete", "release", "vacate", "claim", "interrupt", "begin",
        "mark_waiting", "dispatch", "issue", "wait", "recover_claim",
        "recover_begin", "recover_signal", "recover_wait", "look", "not_started",
        "unowned", "stop", "stopped"} \subseteq DriverPcs
    /\ {"prepared", "claimed", "dispatching", "issued", "interrupt_ambiguous",
        "recovery_required", "finalized"} \subseteq EffectPhases
    /\ {"assigned", "start_dispatching", "running", "interrupt_pending",
        "quiescing", "interrupt_ambiguous", "recovery_required", "completed",
        "failed", "interrupted"} \subseteq ExecStates
    /\ {"running", "stopped", "vacant", "lost"} \subseteq RuntimeStates
    /\ "actor" \in Drivers /\ "recon" \in Drivers
    /\ 0 \in 0..MaxTurns /\ 0 \in 0..MaxTasks
    /\ Turns \subseteq 0..MaxTurns /\ TaskIds \subseteq 0..MaxTasks
BY BoundsAssumption
   DEF TaskPcs, PrepPhases, Quiesced, Results, DriverPcs, EffectPhases,
       ExecStates, Open, Terminal, RuntimeStates, Drivers, Turns, TaskIds

\* So are the empty records.
LEMMA EmptyRecords ==
    /\ NoTask \in TaskState /\ DoneTask \in TaskState /\ NoPrep \in PrepState
    /\ NoEffect \in EffectRow /\ NoSnap \in SnapState /\ Idle \in DriverState
BY BoundsAssumption, Literals DEF NoTask, NoPrep, NoEffect, TaskState, PrepState, EffectRow, TaskPcs,
   PrepPhases, Results, EffectPhases, DoneTask, NoSnap, SnapState, ExecStates, Idle, DriverState, DriverPcs

\* EndRun and Goto, which most steps of a driver end with.
LEMMA RunTypes ==
    ASSUME driver \in [Drivers -> DriverState], NEW d \in Drivers
    PROVE  /\ EndRun(d) => driver' \in [Drivers -> DriverState]
           /\ \A pc \in DriverPcs : Goto(d, pc) => driver' \in [Drivers -> DriverState]
BY EmptyRecords DEF EndRun, Goto, DriverState

\* SetPair and Settle, which write the execution and its interrupt together.
LEMMA PairTypes ==
    ASSUME exec \in [Turns -> ExecStates], effect \in [Turns -> EffectRow],
           NEW g, NEW x \in ExecStates
    PROVE  /\ Settle(g, x) => /\ exec' \in [Turns -> ExecStates]
                              /\ effect' \in [Turns -> EffectRow]
           /\ \A e \in EffectPhases :
                SetPair(g, e, x) => /\ exec' \in [Turns -> ExecStates]
                                    /\ effect' \in [Turns -> EffectRow]
<1>1. ASSUME g \in Turns
      PROVE  /\ [effect[g] EXCEPT !.phase = "finalized", !.expired = FALSE] \in EffectRow
             /\ \A e \in EffectPhases : [effect[g] EXCEPT !.phase = e] \in EffectRow
  BY <1>1, Literals DEF EffectRow
<1>2. ASSUME Settle(g, x)
      PROVE  exec' \in [Turns -> ExecStates] /\ effect' \in [Turns -> EffectRow]
  BY <1>1, <1>2 DEF Settle
<1>3. ASSUME NEW e \in EffectPhases, SetPair(g, e, x)
      PROVE  exec' \in [Turns -> ExecStates] /\ effect' \in [Turns -> EffectRow]
  BY <1>1, <1>3 DEF SetPair
<1> QED BY <1>2, <1>3

\* A driver that begins at the slot, or takes a result from it.
LEMMA BeginTypes ==
    ASSUME driver \in [Drivers -> DriverState], slot \in 0..MaxTasks,
           NEW d \in Drivers
    PROVE  /\ \A g : \A x, y, z \in DriverPcs :
                BeginsAt(d, g, x, y, z) => driver' \in [Drivers -> DriverState]
           /\ \A x \in DriverPcs, r \in Results :
                [driver EXCEPT ![d] = [@ EXCEPT !.pc = x, !.result = r]]
                    \in [Drivers -> DriverState]
<1>1. driver[d] \in DriverState OBVIOUS
<1>2. ASSUME NEW x \in DriverPcs, NEW r \in Results
      PROVE  [driver[d] EXCEPT !.pc = x, !.result = r] \in DriverState
  BY <1>1 DEF DriverState
<1>3. ASSUME NEW x \in DriverPcs
      PROVE  [driver[d] EXCEPT !.prep = slot, !.pc = x] \in DriverState
  BY <1>1 DEF DriverState
<1>4. ASSUME NEW g, NEW x \in DriverPcs, NEW y \in DriverPcs, NEW z \in DriverPcs,
             BeginsAt(d, g, x, y, z)
      PROVE  driver' \in [Drivers -> DriverState]
  BY <1>4, <1>3 DEF BeginsAt
<1> QED BY <1>2, <1>4

\* The task that Assign and RecoverAssigned spawn is a fresh one.
LEMMA FreshExists ==
    ASSUME FreshTasks # {}
    PROVE  Min(FreshTasks) \in FreshTasks
<1> DEFINE R == {ss \in Nat \X Nat : ss[1] < ss[2]}
<1>1. FreshTasks \subseteq Nat BY BoundsAssumption DEF FreshTasks, TaskIds
<1>2. PICK m \in FreshTasks : \A y \in FreshTasks : ~(<<y, m>> \in R)
  <2>1. IsWellFoundedOn(R, Nat) BY NatLessThanWellFounded, Zenon DEF OpToRel
  <2> HIDE DEF R
  <2> QED BY <1>1, <2>1, WFMin
<1>3. ASSUME NEW y \in FreshTasks
      PROVE  m <= y
  <2>1. y \in Nat /\ m \in Nat BY <1>1
  <2>2. ~(y < m)
    <3>1. SUFFICES ASSUME y < m PROVE <<y, m>> \in R
      BY <1>2
    <3> DEFINE s == <<y, m>>
    <3>2. s \in Nat \X Nat /\ s[1] < s[2] BY <2>1, <3>1
    <3> QED BY <3>2
  <2> QED BY <2>1, <2>2
<1> QED BY <1>3 DEF Min

\* A task is spawned for a turn.
LEMMA SpawnTypes ==
    ASSUME task \in [TaskIds -> TaskState], NEW g \in 0..MaxTurns, NEW b \in BOOLEAN,
           Spawn(g, b)
    PROVE  task' \in [TaskIds -> TaskState]
<1> DEFINE r == [NoTask EXCEPT !.pc = "spawned", !.gen = g, !.guarded = b]
<1>1. r \in TaskState BY Literals, EmptyRecords DEF TaskState
<1> HIDE DEF r
<1>2. task' = [task EXCEPT ![Min(FreshTasks)] = r] BY DEF Spawn, r
<1> QED BY <1>1, <1>2

\* An interrupt is recorded for the present turn.
LEMMA RecordTypes ==
    ASSUME TypeOK, NEW c \in {"mute", "agent"}, RecordInterrupt(c)
    PROVE  /\ exec' \in [Turns -> ExecStates] /\ effect' \in [Turns -> EffectRow]
           /\ driver' \in [Drivers -> DriverState]
BY Literals, EmptyRecords DEF PreparedEffect, EffectRow, Applying, DriverState, TypeOK, RecordInterrupt

\* Every step keeps the types, whatever it is taken from.
LEMMA StepTypes ==
    ASSUME TypeOK, [Next]_vars
    PROVE  TypeOK'
<1>r. slot # 0 => prep[slot].result \in Results BY BoundsAssumption DEF TypeOK, PrepState, TaskIds
<1>1. CASE Assign
  <2>1. turn' \in 0..MaxTurns BY <1>1, BoundsAssumption DEF TypeOK, Assign
  <2>2. exec' \in [Turns -> ExecStates] BY <1>1, Literals DEF TypeOK, Assign
  <2>3. bound' \in [Turns -> BOOLEAN] BY <1>1 DEF TypeOK, Assign
  <2>4. prep' \in [TaskIds -> PrepState] BY <1>1, EmptyRecords DEF TypeOK, Assign
  <2>5. task' \in [TaskIds -> TaskState] BY <1>1, SpawnTypes, <2>1 DEF TypeOK, Assign
  <2> QED BY <1>1, <2>1, <2>2, <2>3, <2>4, <2>5
       DEF TypeOK, Assign, durable, adapter, counters
<1>2. ASSUME NEW t \in TaskIds, Prepare(t)
      PROVE  TypeOK'
  <2>1. task' \in [TaskIds -> TaskState]
    <3> DEFINE k == t
           r1 == [task[k] EXCEPT !.pc = "prepared", !.prep = t, !.guarded = FALSE]
           r2 == [task[k] EXCEPT !.pc = "prepared", !.prep = slot, !.guarded = FALSE]
    <3> HIDE DEF k
    <3>1. ASSUME k \in TaskIds PROVE r1 \in TaskState /\ r2 \in TaskState BY <3>1, Literals DEF TypeOK, TaskState
    <3>2. task' = [task EXCEPT ![k] = DoneTask] \/ task' = [task EXCEPT ![k] = r1] \/ task' = [task EXCEPT ![k] = r2]
      BY <1>2 DEF Prepare, k
    <3> HIDE DEF r1, r2
    <3> QED BY <3>1, <3>2, EmptyRecords DEF TypeOK
  <2>2. slot' \in 0..MaxTasks BY <1>2, Literals DEF TypeOK, Prepare
  <2>3. prep' \in [TaskIds -> PrepState]
    <3> DEFINE r == [NoPrep EXCEPT !.gen = task[t].gen, !.phase = "preparing"]
    <3>1. r \in PrepState BY Literals, EmptyRecords DEF TypeOK, PrepState, TaskState
    <3> HIDE DEF r
    <3>2. prep' = [prep EXCEPT ![t] = r] \/ prep' = prep BY <1>2 DEF Prepare, r
    <3> QED BY <3>1, <3>2 DEF TypeOK
  <2> QED BY <1>2, <2>1, <2>2, <2>3 DEF TypeOK, Prepare, durable, adapter, counters
<1>3. ASSUME NEW t \in TaskIds, AuthorizeStart(t)
      PROVE  TypeOK'
  <2>1. exec' \in [Turns -> ExecStates] BY <1>3, Literals DEF TypeOK, AuthorizeStart
  <2>2. started' \in [Turns -> BOOLEAN] BY <1>3 DEF TypeOK, AuthorizeStart
  <2>3. task' \in [TaskIds -> TaskState] BY <1>3, Literals DEF TypeOK, AuthorizeStart, TaskState
  <2> QED BY <1>3, <2>1, <2>2, <2>3
       DEF TypeOK, AuthorizeStart, durable, adapter, counters
<1>4. ASSUME NEW t \in TaskIds, TaskPanics(t)
      PROVE  TypeOK'
  BY <1>4, Literals DEF TypeOK, TaskPanics, TaskState, durable, adapter, counters
<1>5. ASSUME NEW t \in TaskIds, RetainUnstarted(t)
      PROVE  TypeOK'
  <2>1. task' \in [TaskIds -> TaskState] BY <1>5, EmptyRecords DEF TypeOK, RetainUnstarted
  <2>2. prep' \in [TaskIds -> PrepState]
    <3> DEFINE k == slot
           r == [prep[k] EXCEPT !.phase = "not_started"]
    <3> HIDE DEF k
    <3>1. ASSUME k \in TaskIds PROVE r \in PrepState BY <3>1, Literals DEF TypeOK, PrepState
    <3>2. prep' = prep \/ prep' = [prep EXCEPT ![k] = r] BY <1>5 DEF RetainUnstarted, k
    <3> HIDE DEF r
    <3> QED BY <3>1, <3>2 DEF TypeOK
  <2> QED BY <1>5, <2>1, <2>2 DEF TypeOK, RetainUnstarted, durable, adapter, counters
<1>6. ASSUME NEW t \in TaskIds, AuthorityUnresolved(t)
      PROVE  TypeOK'
  <2>1. task' \in [TaskIds -> TaskState] BY <1>6, Literals, ZenonT(60) DEF TypeOK, AuthorityUnresolved, TaskState
  <2>2. prep' \in [TaskIds -> PrepState]
    <3> DEFINE k == slot
           r == [prep[k] EXCEPT !.phase = "result_uncertain", !.result = "uncertain"]
    <3> HIDE DEF k
    <3>1. ASSUME k \in TaskIds PROVE r \in PrepState
      <4>1. prep[k] \in PrepState BY <3>1 DEF TypeOK
      <4> QED BY <4>1, Literals DEF PrepState
    <3>2. prep' = prep \/ prep' = [prep EXCEPT ![k] = r] BY <1>6 DEF AuthorityUnresolved, k
    <3> HIDE DEF r
    <3> QED BY <3>1, <3>2 DEF TypeOK
  <2> QED BY <1>6, <2>1, <2>2
       DEF TypeOK, AuthorityUnresolved, durable, adapter, counters
<1>7. ASSUME NEW t \in TaskIds, Enter(t)
      PROVE  TypeOK'
  <2>1. task' \in [TaskIds -> TaskState]
    <3> DEFINE k == t
           r1 == [task[k] EXCEPT !.pc = "reported", !.result = "failed"]
           r2 == [task[k] EXCEPT !.pc = "reported", !.result = "interrupted"]
           r3 == [task[k] EXCEPT !.pc = "io"]
    <3> HIDE DEF k
    <3>1. ASSUME k \in TaskIds PROVE r1 \in TaskState /\ r2 \in TaskState /\ r3 \in TaskState
      <4>1. task[k] \in TaskState BY <3>1 DEF TypeOK
      <4> QED BY <4>1, Literals DEF TaskState
    <3>2. task' = task \/ task' = [task EXCEPT ![k] = r1] \/ task' = [task EXCEPT ![k] = r2] \/ task' = [task EXCEPT ![k] = r3]
      BY <1>7 DEF Enter, k
    <3> HIDE DEF r1, r2, r3
    <3> QED BY <3>1, <3>2 DEF TypeOK
  <2>2. prep' \in [TaskIds -> PrepState] BY <1>7, Literals DEF TypeOK, Enter, PrepState
  <2> QED BY <1>7, <2>1, <2>2 DEF TypeOK, Enter, durable, adapter, counters
<1>8. ASSUME NEW t \in TaskIds, NEW r \in Results \ {"none"}, Finish(t, r)
      PROVE  TypeOK'
  <2>1. task' \in [TaskIds -> TaskState] BY <1>8, Literals, ZenonT(60) DEF TypeOK, Finish, TaskState
  <2>2. prep' \in [TaskIds -> PrepState]
    <3> DEFINE k == slot
           u == [prep[k] EXCEPT !.phase = "result_uncertain", !.result = r]
           v == [prep[k] EXCEPT !.phase = "result_retained", !.result = r]
    <3> HIDE DEF k
    <3>1. ASSUME k \in TaskIds PROVE u \in PrepState /\ v \in PrepState BY <3>1, Literals DEF TypeOK, PrepState
    <3>2. prep' = prep \/ prep' = [prep EXCEPT ![k] = u] \/ prep' = [prep EXCEPT ![k] = v] BY <1>8 DEF Finish, k
    <3> HIDE DEF u, v
    <3> QED BY <3>1, <3>2 DEF TypeOK
  <2>3. runtime' \in RuntimeStates BY <1>8, Literals DEF TypeOK, Finish
  <2> QED BY <1>8, <2>1, <2>2, <2>3 DEF TypeOK, Finish, durable, adapter, counters
<1>9. ASSUME NEW t \in TaskIds, TakeResult(t)
      PROVE  TypeOK'
  BY <1>9, EmptyRecords, Literals DEF TypeOK, TakeResult, DriverState, TaskState, durable, adapter, counters
<1>10. ASSUME NEW d \in Drivers, CommitRunning(d)
       PROVE  TypeOK'
  BY <1>10, Literals, RunTypes DEF TypeOK, CommitRunning, Yielded, durable, adapter, counters
<1>11. ASSUME NEW d \in Drivers, CommitCompletion(d)
       PROVE  TypeOK'
  BY <1>11, Literals, RunTypes DEF TypeOK, CommitCompletion, Yielded, durable, adapter, counters
<1>12. ASSUME NEW d \in Drivers, CommitFailure(d)
       PROVE  TypeOK'
  BY <1>12, Literals, RunTypes DEF TypeOK, CommitFailure, Yielded, durable, adapter, counters
<1>13. ASSUME NEW d \in Drivers, CommitUncertain(d)
       PROVE  TypeOK'
  BY <1>13, Literals, RunTypes DEF TypeOK, CommitUncertain, durable, adapter, counters
<1>14. ASSUME NEW d \in Drivers, Release(d)
       PROVE  TypeOK'
  BY <1>14, Literals, RunTypes DEF TypeOK, Release, durable, adapter, counters
<1>15. ASSUME NEW d \in Drivers, Vacate(d)
       PROVE  TypeOK'
  BY <1>15, Literals, RunTypes DEF TypeOK, Vacate, durable, adapter, counters
<1>16. ASSUME NEW d \in Drivers, QuiescedRetained(d)
       PROVE  TypeOK'
  BY <1>16, Literals, PairTypes, RunTypes DEF TypeOK, QuiescedRetained, durable, adapter, counters
<1>17. ASSUME NEW d \in Drivers, QuiescedGone(d)
       PROVE  TypeOK'
  BY <1>17, Literals, PairTypes, RunTypes DEF TypeOK, QuiescedGone, durable, adapter, counters
<1>18. ASSUME NEW d \in Drivers, Unconfirmed(d)
       PROVE  TypeOK'
  BY <1>18, Literals, PairTypes, RunTypes DEF TypeOK, Unconfirmed, durable, adapter, counters
<1>19. CASE Mute BY <1>19, RecordTypes DEF TypeOK, Mute, durable, adapter, counters
<1>20. CASE Unmute BY <1>20 DEF TypeOK, Unmute, durable, adapter, counters
<1>21. CASE AgentInterrupt BY <1>21, Literals, RunTypes DEF TypeOK, AgentInterrupt, durable, adapter, counters
<1>22. CASE AgentInterruptCommit
  BY <1>22, RecordTypes, Literals, RunTypes DEF TypeOK, AgentInterruptCommit, durable, adapter, counters
<1>23. CASE ApplyClaim
  <2>1. effect' \in [Turns -> EffectRow]
    <3> DEFINE k == driver["actor"].gen
           r == [effect[k] EXCEPT !.phase = "claimed", !.owner = "actor", !.expired = FALSE]
    <3> HIDE DEF k
    <3>1. ASSUME k \in Turns PROVE r \in EffectRow
      <4>1. effect[k] \in EffectRow BY <3>1 DEF TypeOK
      <4> QED BY <4>1, Literals DEF EffectRow
    <3>2. effect' = effect \/ effect' = [effect EXCEPT ![k] = r] BY <1>23 DEF ApplyClaim, k
    <3> HIDE DEF r
    <3> QED BY <3>1, <3>2 DEF TypeOK
  <2>2. driver' \in [Drivers -> DriverState] BY <1>23, Literals, RunTypes DEF TypeOK, ApplyClaim
  <2> QED BY <1>23, <2>1, <2>2 DEF TypeOK, ApplyClaim, durable, adapter, counters
<1>24. CASE ApplyBegin
  <2>1. exec' \in [Turns -> ExecStates] BY <1>24, Literals DEF TypeOK, ApplyBegin
  <2>2. effect' \in [Turns -> EffectRow]
    <3> DEFINE k == driver["actor"].gen
           r == [effect[k] EXCEPT !.phase = "recovery_required", !.owner = "none",
                                       !.expired = FALSE]
    <3> HIDE DEF k
    <3>1. ASSUME k \in Turns PROVE r \in EffectRow
      <4>1. effect[k] \in EffectRow BY <3>1 DEF TypeOK
      <4> QED BY <4>1, Literals DEF EffectRow
    <3>2. effect' = effect \/ effect' = [effect EXCEPT ![k] = r] BY <1>24 DEF ApplyBegin, k
    <3> HIDE DEF r
    <3> QED BY <3>1, <3>2 DEF TypeOK
  <2>3. prep' \in [TaskIds -> PrepState]
    <3> DEFINE k == slot
           r == [prep[k] EXCEPT !.cancelled = TRUE]
    <3> HIDE DEF k
    <3>1. ASSUME k \in TaskIds PROVE r \in PrepState
      <4>1. prep[k] \in PrepState BY <3>1 DEF TypeOK
      <4> QED BY <4>1, Literals DEF PrepState
    <3>2. prep' = prep \/ prep' = [prep EXCEPT ![k] = r] BY <1>24 DEF ApplyBegin, BeginsAt, k
    <3> HIDE DEF r
    <3> QED BY <3>1, <3>2 DEF TypeOK
  <2>4. driver' \in [Drivers -> DriverState] BY <1>24, Literals, RunTypes, BeginTypes DEF TypeOK, ApplyBegin
  <2> QED BY <1>24, <2>1, <2>2, <2>3, <2>4
       DEF TypeOK, ApplyBegin, durable, adapter, counters
<1>25. CASE ApplyWaiting BY <1>25, Literals, PairTypes, RunTypes DEF TypeOK, ApplyWaiting, durable, adapter, counters
<1>26. CASE ApplyDispatch
  <2>1. effect' \in [Turns -> EffectRow]
    <3> DEFINE k == driver["actor"].gen
           r == [effect[k] EXCEPT !.phase = "dispatching", !.dispatched = TRUE]
    <3> HIDE DEF k
    <3>1. ASSUME k \in Turns PROVE r \in EffectRow
      <4>1. effect[k] \in EffectRow BY <3>1 DEF TypeOK
      <4> QED BY <4>1, Literals DEF EffectRow
    <3>2. effect' = effect \/ effect' = [effect EXCEPT ![k] = r] BY <1>26 DEF ApplyDispatch, k
    <3> HIDE DEF r
    <3> QED BY <3>1, <3>2 DEF TypeOK
  <2>2. prep' \in [TaskIds -> PrepState]
    <3> DEFINE k == driver["actor"].prep
           r == [prep[k] EXCEPT !.cancelled = TRUE]
    <3> HIDE DEF k
    <3>1. ASSUME k \in TaskIds PROVE r \in PrepState
      <4>1. prep[k] \in PrepState BY <3>1 DEF TypeOK
      <4> QED BY <4>1, Literals DEF PrepState
    <3>2. prep' = prep \/ prep' = [prep EXCEPT ![k] = r] BY <1>26 DEF ApplyDispatch, k
    <3> HIDE DEF r
    <3> QED BY <3>1, <3>2 DEF TypeOK
  <2>3. driver' \in [Drivers -> DriverState] BY <1>26, Literals, RunTypes DEF TypeOK, ApplyDispatch
  <2> QED BY <1>26, <2>1, <2>2, <2>3
       DEF TypeOK, ApplyDispatch, durable, adapter, counters
<1>27. CASE ApplyIssued BY <1>27, Literals, PairTypes, RunTypes DEF TypeOK, ApplyIssued, durable, adapter, counters
<1>28. CASE LoadCandidate
  <2>1. driver' \in [Drivers -> DriverState]
    <3>1. turn \in Turns BY <1>28, BoundsAssumption DEF LoadCandidate, TurnOpen, TypeOK, Turns
    <3>2. [exec |-> exec[turn], effect |-> effect[turn].phase,
           dispatched |-> effect[turn].dispatched, started |-> started[turn]]
             \in SnapState
      BY <3>1 DEF TypeOK, SnapState, EffectRow
    <3> QED BY <1>28, <3>1, <3>2, Literals, EmptyRecords
         DEF LoadCandidate, TypeOK, DriverState
  <2> QED BY <1>28, <2>1 DEF TypeOK, LoadCandidate, durable, adapter, counters
<1>29. CASE RecoverClaim
  <2>1. effect' \in [Turns -> EffectRow]
    <3> DEFINE k == driver["recon"].gen
           r == [effect[k] EXCEPT !.owner = "recon", !.expired = FALSE]
    <3> HIDE DEF k
    <3>1. ASSUME k \in Turns PROVE r \in EffectRow
      <4>1. effect[k] \in EffectRow BY <3>1 DEF TypeOK
      <4> QED BY <4>1, Literals DEF EffectRow
    <3>2. effect' = effect \/ effect' = [effect EXCEPT ![k] = r] BY <1>29 DEF RecoverClaim, k
    <3> HIDE DEF r
    <3> QED BY <3>1, <3>2 DEF TypeOK
  <2>2. driver' \in [Drivers -> DriverState] BY <1>29, Literals, RunTypes DEF TypeOK, RecoverClaim
  <2> QED BY <1>29, <2>1, <2>2 DEF TypeOK, RecoverClaim, durable, adapter, counters
<1>30. CASE RecoverBegin
  <2>1. effect' \in [Turns -> EffectRow]
    <3> DEFINE k == driver["recon"].gen
           r == [effect[k] EXCEPT !.owner = "none", !.expired = FALSE]
    <3> HIDE DEF k
    <3>1. ASSUME k \in Turns PROVE r \in EffectRow
      <4>1. effect[k] \in EffectRow BY <3>1 DEF TypeOK
      <4> QED BY <4>1, Literals DEF EffectRow
    <3>2. effect' = effect \/ effect' = [effect EXCEPT ![k] = r] BY <1>30 DEF RecoverBegin, k
    <3> HIDE DEF r
    <3> QED BY <3>1, <3>2 DEF TypeOK
  <2>2. prep' \in [TaskIds -> PrepState]
    <3> DEFINE k == slot
           r == [prep[k] EXCEPT !.cancelled = TRUE]
    <3> HIDE DEF k
    <3>1. ASSUME k \in TaskIds PROVE r \in PrepState
      <4>1. prep[k] \in PrepState BY <3>1 DEF TypeOK
      <4> QED BY <4>1, Literals DEF PrepState
    <3>2. prep' = prep \/ prep' = [prep EXCEPT ![k] = r] BY <1>30 DEF RecoverBegin, BeginsAt, k
    <3> HIDE DEF r
    <3> QED BY <3>1, <3>2 DEF TypeOK
  <2>3. driver' \in [Drivers -> DriverState] BY <1>30, Literals, RunTypes, BeginTypes DEF TypeOK, RecoverBegin
  <2> QED BY <1>30, <2>1, <2>2, <2>3
       DEF TypeOK, RecoverBegin, durable, adapter, counters
<1>31. CASE RecoverWait
  <2>1. exec' \in [Turns -> ExecStates] BY <1>31, Literals, PairTypes DEF TypeOK, RecoverWait
  <2>2. effect' \in [Turns -> EffectRow] BY <1>31, Literals, PairTypes DEF TypeOK, RecoverWait
  <2>3. prep' \in [TaskIds -> PrepState]
    <3> DEFINE k == driver["recon"].prep
           r == [prep[k] EXCEPT !.cancelled = TRUE]
    <3> HIDE DEF k
    <3>1. ASSUME k \in TaskIds PROVE r \in PrepState
      <4>1. prep[k] \in PrepState BY <3>1 DEF TypeOK
      <4> QED BY <4>1, Literals DEF PrepState
    <3>2. prep' = prep \/ prep' = [prep EXCEPT ![k] = r] BY <1>31 DEF RecoverWait, k
    <3> HIDE DEF r
    <3> QED BY <3>1, <3>2 DEF TypeOK
  <2>4. driver' \in [Drivers -> DriverState] BY <1>31, Literals, RunTypes DEF TypeOK, RecoverWait
  <2> QED BY <1>31, <2>1, <2>2, <2>3, <2>4
       DEF TypeOK, RecoverWait, durable, adapter, counters
<1>32. CASE Look
  <2>1. driver' \in [Drivers -> DriverState]
    <3>1. \/ EndRun("recon")
          \/ \E x \in {"not_started", "unowned"} : Goto("recon", x)
          \/ slot # 0 /\ driver' =
               [driver EXCEPT !["recon"] = [@ EXCEPT !.pc = "commit",
                                                     !.result = prep[slot].result]]
      BY <1>32 DEF Look, OwnsTurn
    <3>2. CASE slot # 0 /\ driver' =
               [driver EXCEPT !["recon"] = [@ EXCEPT !.pc = "commit",
                                                     !.result = prep[slot].result]]
      BY <1>r, <3>2, Literals, BeginTypes DEF TypeOK
    <3> QED BY <3>1, <3>2, Literals, RunTypes DEF TypeOK
  <2> QED BY <1>32, <2>1 DEF TypeOK, Look, durable, adapter, counters
<1>33. CASE FinalizeNotStarted BY <1>33, Literals, RunTypes DEF TypeOK, FinalizeNotStarted, durable, adapter, counters
<1>34. CASE FinalizeGone BY <1>34, Literals, PairTypes, RunTypes DEF TypeOK, FinalizeGone, durable, adapter, counters
<1>35. CASE Inconclusive BY <1>35, Literals, RunTypes DEF TypeOK, Inconclusive, durable, adapter, counters
<1>36. CASE RecoverAssigned
  BY <1>36, SpawnTypes, Literals, RunTypes DEF TypeOK, RecoverAssigned, DriverState, durable, adapter, counters
<1>37. CASE TaskDeath
  <2>1. exec' \in [Turns -> ExecStates] BY <1>37, Literals, PairTypes DEF TypeOK, TaskDeath
  <2>2. effect' \in [Turns -> EffectRow]
    <3> DEFINE g == driver["recon"].gen
    <3>1. CASE SetPair(g, "interrupt_ambiguous", "interrupt_ambiguous") BY <3>1, Literals, PairTypes DEF TypeOK
    <3>2. CASE effect' = [effect EXCEPT ![g].phase = "recovery_required"]
      BY <3>2, Literals, ZenonT(60) DEF TypeOK, EffectRow
    <3>3. CASE effect' = effect BY <3>3 DEF TypeOK
    <3> QED BY <1>37, <3>1, <3>2, <3>3 DEF TaskDeath
  <2>3. driver' \in [Drivers -> DriverState] BY <1>37, Literals, RunTypes DEF TypeOK, TaskDeath
  <2> QED BY <1>37, <2>1, <2>2, <2>3 DEF TypeOK, TaskDeath, durable, adapter, counters
<1>38. CASE LeaveQuarantined BY <1>38, Literals, RunTypes DEF TypeOK, LeaveQuarantined, durable, adapter, counters
<1>39. CASE AgentStop BY <1>39, Literals, RunTypes DEF TypeOK, AgentStop, durable, adapter, counters
<1>40. CASE StopRuntime
  <2>1. runtime' \in RuntimeStates BY <1>40, Literals DEF TypeOK, StopRuntime, adapter
  <2>2. slot' \in 0..MaxTasks BY <1>40, Literals DEF TypeOK, StopRuntime, adapter
  <2>3. prep' \in [TaskIds -> PrepState]
    <3> DEFINE k == slot
           r == [prep[k] EXCEPT !.phase = "gone"]
    <3> HIDE DEF k
    <3>1. ASSUME k \in TaskIds PROVE r \in PrepState
      <4>1. prep[k] \in PrepState BY <3>1 DEF TypeOK
      <4> QED BY <4>1, Literals DEF PrepState
    <3>2. prep' = prep \/ prep' = [prep EXCEPT ![k] = r] BY <1>40 DEF StopRuntime, adapter, k
    <3> HIDE DEF r
    <3> QED BY <3>1, <3>2 DEF TypeOK
  <2>4. task' \in [TaskIds -> TaskState]
    <3>1. CASE task' = task BY <3>1 DEF TypeOK
    <3>2. ASSUME NEW r \in {"failed", "uncertain"},
                 task' = [t \in TaskIds |->
                            IF task[t].pc = "io"
                            THEN [task[t] EXCEPT !.pc = "reported", !.result = r]
                            ELSE task[t]]
          PROVE  task' \in [TaskIds -> TaskState]
      <4>1. ASSUME NEW t \in TaskIds
            PROVE  /\ task[t] \in TaskState
                   /\ [task[t] EXCEPT !.pc = "reported", !.result = r] \in TaskState
        BY Literals DEF TypeOK, TaskState
      <4> QED BY <3>2, <4>1
    <3> QED BY <1>40, <3>1, <3>2 DEF StopRuntime
  <2>5. driver' \in [Drivers -> DriverState] BY <1>40, Literals, RunTypes DEF TypeOK, StopRuntime
  <2> QED BY <1>40, <2>1, <2>2, <2>3, <2>4, <2>5
       DEF TypeOK, StopRuntime, durable, adapter, counters
<1>41. CASE RecordStop BY <1>41, Literals, PairTypes, RunTypes DEF TypeOK, RecordStop, durable, adapter, counters
<1>42. CASE StartRuntime BY <1>42, Literals DEF TypeOK, StartRuntime, durable, adapter, counters
<1>43. ASSUME NEW g \in Turns, Expire(g)
       PROVE  TypeOK'
  <2>1. effect' \in [Turns -> EffectRow] BY <1>43, ZenonT(60) DEF TypeOK, Expire, EffectRow
  <2>2. late' \in Nat BY <1>43 DEF TypeOK, Expire
  <2> QED BY <1>43, <2>1, <2>2 DEF TypeOK, Expire, durable, adapter, counters
<1>44. CASE Restart BY <1>44, EmptyRecords, Literals DEF TypeOK, Restart, durable, adapter, counters
<1>45. CASE UNCHANGED vars BY <1>45 DEF TypeOK, vars, durable, adapter, counters
<1> QED BY <1>1, <1>2, <1>3, <1>4, <1>5, <1>6, <1>7, <1>8, <1>9, <1>10, <1>11,
     <1>12, <1>13, <1>14, <1>15, <1>16, <1>17, <1>18, <1>19, <1>20, <1>21,
     <1>22, <1>23, <1>24, <1>25, <1>26, <1>27, <1>28, <1>29, <1>30, <1>31,
     <1>32, <1>33, <1>34, <1>35, <1>36, <1>37, <1>38, <1>39, <1>40, <1>41,
     <1>42, <1>43, <1>44, <1>45, Literals
     DEF Next, TaskNext, Command, ActorStep, ReconStep, CommitNext, WaitNext,
         ApplyNext, ReconNext

------------------------
(* Most steps of the room actor and of the reconciler write rows only: they *)
(* leave the tasks and the slot as they are.                                *)

RowStep ==
    /\ UNCHANGED <<turn, started, runtime, slot, task>>
    /\ \A p \in TaskIds : /\ prep'[p].gen = prep[p].gen
                          /\ prep'[p].phase = prep[p].phase
                          /\ prep'[p].result = prep[p].result
    /\ \A d \in Drivers : driver'[d].prep \in {0, slot, driver[d].prep}
    /\ \A g \in Turns : exec'[g] = "assigned" => exec[g] = "assigned"

RowAction ==
    \/ \E d \in Drivers : \/ CommitRunning(d) \/ CommitCompletion(d)
                          \/ CommitFailure(d) \/ CommitUncertain(d)
                          \/ WaitNext(d)
    \/ Mute \/ Unmute \/ AgentInterrupt \/ AgentInterruptCommit \/ ApplyNext
    \/ LoadCandidate \/ RecoverClaim \/ RecoverBegin \/ RecoverWait \/ Look
    \/ FinalizeNotStarted \/ FinalizeGone \/ Inconclusive \/ TaskDeath
    \/ LeaveQuarantined \/ AgentStop \/ RecordStop
    \/ \E g \in Turns : Expire(g)

TurnAction ==
    \/ Assign \/ \E t \in TaskIds : TaskNext(t) \/ TakeResult(t)
    \/ \E d \in Drivers : Release(d) \/ Vacate(d)
    \/ RecoverAssigned \/ StopRuntime \/ StartRuntime \/ Restart

\* Every step is of one of the two kinds.
LEMMA TwoKinds == Next => RowAction \/ TurnAction
BY Literals
   DEF Next, RowAction, TurnAction, Command, ActorStep, ReconStep, ReconNext,
       CommitNext

\* EndRun and Goto keep or drop the preparation a driver holds.
LEMMA RunFrame ==
    ASSUME driver \in [Drivers -> DriverState], NEW d \in Drivers, NEW pc,
           EndRun(d) \/ Goto(d, pc)
    PROVE  \A e \in Drivers : driver'[e].prep \in {0, driver[e].prep}
BY DEF EndRun, Goto, Idle, DriverState

\* A command that records an interrupt holds none yet, and begin_exact_turn
\* takes the one in the slot.
LEMMA BeginFrame ==
    ASSUME driver \in [Drivers -> DriverState], NEW d \in Drivers,
           NEW c, NEW g, NEW x, NEW y, NEW z,
           RecordInterrupt(c) \/ BeginsAt(d, g, x, y, z)
    PROVE  \A e \in Drivers : driver'[e].prep \in {0, slot, driver[e].prep}
BY DEF RecordInterrupt, Applying, Idle, BeginsAt, DriverState

\* No settlement makes a turn assigned again.
LEMMA PairFrame ==
    ASSUME exec \in [Turns -> ExecStates], NEW g, NEW e, NEW x,
           SetPair(g, e, x) \/ Settle(g, x), x # "assigned"
    PROVE  \A h \in Turns : exec'[h] = "assigned" => exec[h] = "assigned"
BY DEF SetPair, Settle

\* A row action touches neither tasks nor slot.
LEMMA RowActionFrame ==
    ASSUME TypeOK, RowAction
    PROVE  RowStep
<1>1. ASSUME NEW d \in Drivers, CommitRunning(d)
      PROVE  RowStep
  BY <1>1, RunFrame, Literals, PairFrame DEF TypeOK, CommitRunning, Yielded, durable, RowStep, adapter
<1>2. ASSUME NEW d \in Drivers, CommitCompletion(d)
      PROVE  RowStep
  BY <1>2, RunFrame, Literals, PairFrame DEF TypeOK, CommitCompletion, Yielded, durable, RowStep, adapter
<1>3. ASSUME NEW d \in Drivers, CommitFailure(d)
      PROVE  RowStep
  BY <1>3, RunFrame, Literals, PairFrame DEF TypeOK, CommitFailure, Yielded, durable, RowStep, adapter
<1>4. ASSUME NEW d \in Drivers, CommitUncertain(d)
      PROVE  RowStep
  BY <1>4, RunFrame, Literals, PairFrame DEF TypeOK, CommitUncertain, durable, RowStep, adapter
<1>5. ASSUME NEW d \in Drivers, QuiescedRetained(d)
      PROVE  RowStep
  BY <1>5, RunFrame, Literals, PairFrame DEF TypeOK, QuiescedRetained, durable, RowStep, adapter
<1>6. ASSUME NEW d \in Drivers, QuiescedGone(d)
      PROVE  RowStep
  BY <1>6, RunFrame, Literals, PairFrame DEF TypeOK, QuiescedGone, durable, RowStep, adapter
<1>7. ASSUME NEW d \in Drivers, Unconfirmed(d)
      PROVE  RowStep
  BY <1>7, RunFrame, Literals, PairFrame DEF TypeOK, Unconfirmed, durable, RowStep, adapter
<1>8. CASE Mute
  BY <1>8, RunFrame, BeginFrame, Literals, PairFrame DEF TypeOK, Mute, durable, RecordInterrupt, RowStep,
     adapter
<1>9. CASE Unmute BY <1>9, RunFrame, Literals, PairFrame DEF TypeOK, Unmute, durable, RowStep, adapter
<1>10. CASE AgentInterrupt
  BY <1>10, RunFrame, Literals, PairFrame DEF TypeOK, AgentInterrupt, durable, RowStep, adapter
<1>11. CASE AgentInterruptCommit
  BY <1>11, RunFrame, BeginFrame, Literals, PairFrame DEF TypeOK, AgentInterruptCommit, durable,
     RecordInterrupt, RowStep, adapter
<1>12. CASE ApplyClaim BY <1>12, RunFrame, Literals, PairFrame DEF TypeOK, ApplyClaim, durable, RowStep, adapter
<1>13. CASE ApplyBegin
  <2>1. \A e \in Drivers : driver'[e].prep \in {0, slot, driver[e].prep}
    BY <1>13, RunFrame, BeginFrame, Literals DEF TypeOK, ApplyBegin
  <2>2. \A h \in Turns : exec'[h] = "assigned" => exec[h] = "assigned"
    BY <1>13, PairFrame DEF TypeOK, ApplyBegin, durable
  <2>3. \A p \in TaskIds : /\ prep'[p].gen = prep[p].gen
                              /\ prep'[p].phase = prep[p].phase
                              /\ prep'[p].result = prep[p].result
    BY <1>13 DEF TypeOK, ApplyBegin, BeginsAt, PrepState
  <2> QED BY <1>13, <2>1, <2>2, <2>3 DEF RowStep, ApplyBegin, durable, adapter
<1>14. CASE ApplyWaiting BY <1>14, RunFrame, Literals, PairFrame DEF TypeOK, ApplyWaiting, durable, RowStep, adapter
<1>15. CASE ApplyDispatch
  <2>1. \A e \in Drivers : driver'[e].prep \in {0, slot, driver[e].prep}
    BY <1>15, RunFrame, Literals DEF TypeOK, ApplyDispatch
  <2>2. \A h \in Turns : exec'[h] = "assigned" => exec[h] = "assigned"
    BY <1>15, PairFrame DEF TypeOK, ApplyDispatch, durable
  <2>3. \A p \in TaskIds : /\ prep'[p].gen = prep[p].gen
                              /\ prep'[p].phase = prep[p].phase
                              /\ prep'[p].result = prep[p].result
    BY <1>15 DEF TypeOK, ApplyDispatch, BeginsAt, PrepState
  <2> QED BY <1>15, <2>1, <2>2, <2>3 DEF RowStep, ApplyDispatch, durable, adapter
<1>16. CASE ApplyIssued BY <1>16, RunFrame, Literals, PairFrame DEF TypeOK, ApplyIssued, durable, RowStep, adapter
<1>17. CASE LoadCandidate
  BY <1>17, RunFrame, Literals, PairFrame DEF TypeOK, LoadCandidate, Idle, DriverState, durable, RowStep,
     adapter
<1>18. CASE RecoverClaim BY <1>18, RunFrame, Literals, PairFrame DEF TypeOK, RecoverClaim, durable, RowStep, adapter
<1>19. CASE RecoverBegin
  <2>1. \A e \in Drivers : driver'[e].prep \in {0, slot, driver[e].prep}
    BY <1>19, RunFrame, BeginFrame, Literals DEF TypeOK, RecoverBegin
  <2>2. \A h \in Turns : exec'[h] = "assigned" => exec[h] = "assigned"
    BY <1>19, PairFrame DEF TypeOK, RecoverBegin, durable
  <2>3. \A p \in TaskIds : /\ prep'[p].gen = prep[p].gen
                              /\ prep'[p].phase = prep[p].phase
                              /\ prep'[p].result = prep[p].result
    BY <1>19 DEF TypeOK, RecoverBegin, BeginsAt, PrepState
  <2> QED BY <1>19, <2>1, <2>2, <2>3 DEF RowStep, RecoverBegin, durable, adapter
<1>20. CASE RecoverWait
  BY <1>20, RunFrame, Literals, PairFrame DEF TypeOK, RecoverWait, durable, BeginsAt, PrepState, RowStep,
     adapter
<1>21. CASE Look
  <2>1. \A e \in Drivers : driver'[e].prep \in {0, slot, driver[e].prep}
    <3>1. \/ EndRun("recon")
          \/ \E x \in {"not_started", "unowned"} : Goto("recon", x)
          \/ driver' = [driver EXCEPT !["recon"] =
                 [@ EXCEPT !.pc = "commit", !.result = prep[slot].result]]
      BY <1>21 DEF Look
    <3>2. CASE driver' = [driver EXCEPT !["recon"] =
                 [@ EXCEPT !.pc = "commit", !.result = prep[slot].result]]
      BY <3>2 DEF TypeOK, DriverState
    <3> QED BY <3>1, <3>2, RunFrame, Literals DEF TypeOK
  <2>2. \A h \in Turns : exec'[h] = "assigned" => exec[h] = "assigned" BY <1>21, PairFrame DEF TypeOK, Look, durable
  <2> QED BY <1>21, <2>1, <2>2 DEF RowStep, Look, durable, adapter
<1>22. CASE FinalizeNotStarted
  BY <1>22, RunFrame, Literals, PairFrame DEF TypeOK, FinalizeNotStarted, durable, RowStep, adapter
<1>23. CASE FinalizeGone BY <1>23, RunFrame, Literals, PairFrame DEF TypeOK, FinalizeGone, durable, RowStep, adapter
<1>24. CASE Inconclusive BY <1>24, RunFrame, Literals, PairFrame DEF TypeOK, Inconclusive, durable, RowStep, adapter
<1>25. CASE TaskDeath BY <1>25, RunFrame, Literals, PairFrame DEF TypeOK, TaskDeath, durable, RowStep, adapter
<1>26. CASE LeaveQuarantined
  BY <1>26, RunFrame, Literals, PairFrame DEF TypeOK, LeaveQuarantined, durable, RowStep, adapter
<1>27. CASE AgentStop BY <1>27, RunFrame, Literals, PairFrame DEF TypeOK, AgentStop, durable, RowStep, adapter
<1>28. CASE RecordStop BY <1>28, RunFrame, Literals, PairFrame DEF TypeOK, RecordStop, durable, RowStep, adapter
<1>29. ASSUME NEW g \in Turns, Expire(g)
       PROVE  RowStep
  BY <1>29, RunFrame, Literals, PairFrame DEF TypeOK, Expire, durable, RowStep, adapter
<1> QED BY <1>1, <1>2, <1>3, <1>4, <1>5, <1>6, <1>7, <1>8, <1>9, <1>10, <1>11,
     <1>12, <1>13, <1>14, <1>15, <1>16, <1>17, <1>18, <1>19, <1>20, <1>21,
     <1>22, <1>23, <1>24, <1>25, <1>26, <1>27, <1>28, <1>29
     DEF RowAction, WaitNext, ApplyNext


------------------------
(* The execution row and the interrupt row of every generation.             *)

\* Settle ends one turn, and its interrupt if it has one.
LEMMA SettleRows ==
    ASSUME exec \in [Turns -> ExecStates], effect \in [Turns -> EffectRow],
           NEW g, NEW x, Settle(g, x), NEW h \in Turns
    PROVE  /\ h # g => exec'[h] = exec[h] /\ effect'[h] = effect[h]
           /\ h = g => /\ exec'[h] = x
                       /\ effect'[h].phase = IF effect[h].phase = "none"
                                             THEN "none" ELSE "finalized"
<1>1. exec' = [exec EXCEPT ![g] = x] BY DEF Settle
<1>2. CASE effect[g].phase = "none" BY <1>1, <1>2 DEF Settle
<1>3. CASE effect[g].phase # "none"
  <2> DEFINE r == [effect[g] EXCEPT !.phase = "finalized", !.expired = FALSE]
  <2>1. effect' = [effect EXCEPT ![g] = r] BY <1>3 DEF Settle
  <2>2. g \in Turns => r.phase = "finalized" BY DEF EffectRow
  <2> HIDE DEF r
  <2> QED BY <1>1, <1>3, <2>1, <2>2
<1> QED BY <1>2, <1>3

\* Every step keeps the rows in order and the two rows of a turn a pair.
LEMMA StepRows ==
    ASSUME TurnInv, [Next]_vars
    PROVE  RowsInv'
<1> SUFFICES ASSUME NEW h \in Turns
             PROVE  RowOf(h)' /\ PairOf(h)'
  BY DEF RowsInv
<1> USE DEF RowOf, PairOf, EffectPending, RecoverablePair, QuarantinedClaim, Open,
            Terminal
<1>a. /\ exec \in [Turns -> ExecStates] /\ effect \in [Turns -> EffectRow]
      /\ started \in [Turns -> BOOLEAN] /\ turn \in Nat /\ h \in Nat
      /\ \A g \in Turns : RowOf(g) /\ PairOf(g)
  BY BoundsAssumption DEF TurnInv, TypeOK, RowsInv, Turns
<1>b. driver["recon"].pc = "unowned" => driver["recon"].snap.exec \in Open BY DEF TurnInv, DriversInv, SnapOK
<1>c. turn > 0 => turn \in Turns BY BoundsAssumption DEF TurnInv, TypeOK, Turns
<1>d. DispatchOK BY DEF TurnInv, DriversInv
<1>1. CASE Assign BY <1>1, <1>a, BoundsAssumption
     DEF EffectRow, Assign, TurnOpen, Turns, durable, adapter
<1>2. ASSUME NEW t \in TaskIds, AuthorizeStart(t)
      PROVE  RowOf(h)' /\ PairOf(h)'
  BY <1>2, <1>a DEF EffectRow, AuthorizeStart, durable, adapter
<1>3. ASSUME NEW d \in Drivers, CommitRunning(d)
      PROVE  RowOf(h)' /\ PairOf(h)'
  BY <1>3, <1>a DEF EffectRow, CommitRunning, durable, adapter
<1>4. ASSUME NEW d \in Drivers, CommitCompletion(d)
      PROVE  RowOf(h)' /\ PairOf(h)'
  BY <1>4, <1>a
     DEF EffectRow, CommitCompletion, OrdinaryEndAllowed, durable, adapter
<1>5. ASSUME NEW d \in Drivers, CommitFailure(d)
      PROVE  RowOf(h)' /\ PairOf(h)'
  BY <1>5, <1>a
     DEF EffectRow, CommitFailure, OrdinaryEndAllowed, durable, adapter
<1>6. ASSUME NEW d \in Drivers, CommitUncertain(d)
      PROVE  RowOf(h)' /\ PairOf(h)'
  BY <1>6, <1>a DEF EffectRow, CommitUncertain, durable, adapter
<1>7. ASSUME NEW d \in Drivers, QuiescedRetained(d)
      PROVE  RowOf(h)' /\ PairOf(h)'
  BY <1>7, <1>a, SettleRows DEF QuiescedRetained
<1>8. ASSUME NEW d \in Drivers, QuiescedGone(d)
      PROVE  RowOf(h)' /\ PairOf(h)'
  BY <1>8, <1>a, SettleRows DEF QuiescedGone
<1>9. ASSUME NEW d \in Drivers, Unconfirmed(d)
      PROVE  RowOf(h)' /\ PairOf(h)'
  BY <1>9, <1>a DEF EffectRow, Unconfirmed, SetPair, durable, adapter
<1>10. CASE Mute
  <2>1. CASE RecordInterrupt("mute") /\ TurnOpen
    BY <1>10, <1>a, <2>1 DEF PreparedEffect, NoEffect, RecordInterrupt, TurnOpen, Interruptible, Mute
  <2>2. CASE UNCHANGED <<exec, effect>> BY <1>10, <1>a, <2>2 DEF Mute
  <2> QED BY <1>10, <2>1, <2>2 DEF Mute
<1>11. CASE AgentInterruptCommit
  <2>1. CASE RecordInterrupt("agent") /\ TurnOpen
    BY <1>11, <1>a, <2>1 DEF PreparedEffect, NoEffect, RecordInterrupt, TurnOpen, Interruptible,
       AgentInterruptCommit
  <2>2. CASE UNCHANGED <<exec, effect>> BY <1>11, <1>a, <2>2 DEF AgentInterruptCommit
  <2> QED BY <1>11, <2>1, <2>2 DEF AgentInterruptCommit
<1>12. CASE ApplyClaim
  <2> DEFINE k == driver["actor"].gen
             r == [effect[k] EXCEPT !.phase = "claimed", !.owner = "actor", !.expired = FALSE]
  <2>1. effect' = effect \/ effect' = [effect EXCEPT ![k] = r] BY <1>12 DEF ApplyClaim
  <2>2. ASSUME h = k, effect' = [effect EXCEPT ![k] = r]
        PROVE  effect'[h].phase = "claimed"
    BY <1>a, <2>2 DEF EffectRow
  <2>3. h # k \/ effect' = effect => effect'[h] = effect[h] BY <1>a, <2>1
  <2> HIDE DEF r
  <2> QED BY <1>12, <1>a, <2>1, <2>2, <2>3 DEF ApplyClaim
<1>13. CASE ApplyBegin
  <2> DEFINE k == driver["actor"].gen
             r == [effect[k] EXCEPT !.phase = "recovery_required", !.owner = "none",
                                   !.expired = FALSE]
  <2>1. effect' = effect \/ effect' = [effect EXCEPT ![k] = r] BY <1>13 DEF ApplyBegin
  <2>2. ASSUME h = k, effect' = [effect EXCEPT ![k] = r]
        PROVE  effect'[h].phase = "recovery_required"
    BY <1>a, <2>2 DEF EffectRow
  <2>3. h # k \/ effect' = effect => effect'[h] = effect[h] BY <1>a, <2>1
  <2> HIDE DEF r
  <2> QED BY <1>13, <1>a, <2>1, <2>2, <2>3 DEF ApplyBegin
<1>14. CASE ApplyWaiting BY <1>14, <1>a DEF EffectRow, ApplyWaiting, SetPair, durable, adapter
<1>15. CASE ApplyDispatch
  <2> DEFINE k == driver["actor"].gen
             r == [effect[k] EXCEPT !.phase = "dispatching", !.dispatched = TRUE]
  <2>1. effect' = effect \/ effect' = [effect EXCEPT ![k] = r] BY <1>15 DEF ApplyDispatch
  <2>2. ASSUME h = k, effect' = [effect EXCEPT ![k] = r]
        PROVE  effect'[h].phase = "dispatching"
    BY <1>a, <2>2 DEF EffectRow
  <2>3. h # k \/ effect' = effect => effect'[h] = effect[h] BY <1>a, <2>1
  <2> HIDE DEF r
  <2> QED BY <1>15, <1>a, <1>d, <2>1, <2>2, <2>3 DEF ApplyDispatch, DispatchOK
<1>16. CASE ApplyIssued BY <1>16, <1>a DEF EffectRow, ApplyIssued, SetPair, durable, adapter
<1>17. CASE RecoverClaim
  <2> DEFINE k == driver["recon"].gen
             r == [effect[k] EXCEPT !.owner = "recon", !.expired = FALSE]
  <2>1. effect' = effect \/ effect' = [effect EXCEPT ![k] = r] BY <1>17 DEF RecoverClaim
  <2>2. ASSUME h = k, effect' = [effect EXCEPT ![k] = r]
        PROVE  effect'[h].phase = effect[h].phase
    BY <1>a, <2>2 DEF EffectRow
  <2>3. h # k \/ effect' = effect => effect'[h] = effect[h] BY <1>a, <2>1
  <2> HIDE DEF r
  <2> QED BY <1>17, <1>a, <2>1, <2>2, <2>3, ZenonT(60) DEF RecoverClaim
<1>18. CASE RecoverBegin
  <2> DEFINE k == driver["recon"].gen
             r == [effect[k] EXCEPT !.owner = "none", !.expired = FALSE]
  <2>1. effect' = effect \/ effect' = [effect EXCEPT ![k] = r] BY <1>18 DEF RecoverBegin
  <2>2. ASSUME h = k, effect' = [effect EXCEPT ![k] = r]
        PROVE  effect'[h].phase = effect[h].phase
    BY <1>a, <2>2 DEF EffectRow
  <2>3. h # k \/ effect' = effect => effect'[h] = effect[h] BY <1>a, <2>1
  <2> HIDE DEF r
  <2> QED BY <1>18, <1>a, <2>1, <2>2, <2>3 DEF RecoverBegin
<1>19. CASE RecoverWait BY <1>19, <1>a DEF EffectRow, RecoverWait, SetPair, durable, adapter
<1>20. CASE FinalizeNotStarted BY <1>20, <1>a DEF EffectRow, FinalizeNotStarted, durable, adapter
<1>21. CASE FinalizeGone BY <1>21, <1>a, <1>b, SettleRows DEF FinalizeGone
<1>22. CASE TaskDeath BY <1>22, <1>a DEF EffectRow, TaskDeath, SetPair, durable, adapter
<1>23. CASE RecordStop BY <1>23, <1>a, <1>c, SettleRows DEF RecordStop, TurnOpen
<1>24. ASSUME NEW g \in Turns, Expire(g)
       PROVE  RowOf(h)' /\ PairOf(h)'
  BY <1>24, <1>a DEF EffectRow, Expire, durable, adapter
<1>25. CASE UNCHANGED <<turn, exec, started, effect>> BY <1>25, <1>a
<1> QED
  <2>1. CASE RowAction BY <2>1, <1>1, <1>2, <1>3, <1>4, <1>5, <1>6, <1>7, <1>8, <1>9, <1>10,
       <1>11, <1>12, <1>13, <1>14, <1>15, <1>16, <1>17, <1>18, <1>19, <1>20,
       <1>21, <1>22, <1>23, <1>24, <1>25
       DEF RowAction, WaitNext, ApplyNext, Unmute, AgentInterrupt,
           LoadCandidate, Look, Inconclusive, LeaveQuarantined, AgentStop,
           durable
  <2>2. CASE TurnAction BY <2>2, <1>1, <1>2, <1>25
       DEF TurnAction, TaskNext, Prepare, TaskPanics, RetainUnstarted,
           AuthorityUnresolved, Enter, Finish, TakeResult, Release, Vacate,
           RecoverAssigned, StopRuntime, StartRuntime, Restart, durable
  <2>3. CASE UNCHANGED vars BY <2>3, <1>25 DEF vars, durable
  <2> QED BY <2>1, <2>2, <2>3, TwoKinds


------------------------
(* The tasks and the slot.                                                  *)

TaskSlotInv == (\A t \in TaskIds : TaskOf(t) /\ FreshOf(t)) /\ SlotInv

\* A row step leaves all of it alone.
LEMMA RowStepTasks ==
    ASSUME TurnInv, RowStep
    PROVE  TaskSlotInv'
<1> USE DEF Acts
<1>1. /\ prep \in [TaskIds -> PrepState] /\ task \in [TaskIds -> TaskState]
      /\ slot \in 0..MaxTasks /\ TaskIds = 1..MaxTasks /\ MaxTasks \in Nat
      /\ TasksInv /\ SlotInv
  BY BoundsAssumption DEF TurnInv, TypeOK, TaskIds
<1>2. ASSUME NEW t \in TaskIds
      PROVE  TaskOf(t)' /\ FreshOf(t)'
  <2>1. TaskOf(t)' BY <1>1, <1>2 DEF RowStep, TasksInv, TaskOf
  <2>2. FreshOf(t)' BY <1>1, <1>2 DEF RowStep, TasksInv, FreshOf
  <2> QED BY <2>1, <2>2
<1>3. OneAuthority' /\ ActsInSlot' /\ SlotOK' BY <1>1
     DEF RowStep, TasksInv, TaskOf, SlotInv, OneAuthority, ActsInSlot,
         SlotOK
<1>4. ResultIsLast' BY <1>1 DEF RowStep, SlotInv, ResultIsLast
<1>5. EnteredActs' BY <1>1 DEF RowStep, SlotInv, EnteredActs
<1> QED BY <1>2, <1>3, <1>4, <1>5 DEF TaskSlotInv, SlotInv


\* What prepare_turn does, row by row: the slot is taken, shared or refused.
LEMMA PrepareShape ==
    ASSUME TypeOK, NEW t \in TaskIds, Prepare(t)
    PROVE  /\ task[t].pc = "spawned"
           /\ \A u \in TaskIds : u # t => task'[u] = task[u]
           /\ UNCHANGED <<turn, exec, started, effect, runtime, driver>>
           /\ \/ /\ task'[t].pc = "prepared" /\ task'[t].gen = task[t].gen
                 /\ task'[t].prep = t
                 /\ slot = 0 /\ slot' = t /\ runtime = "running"
                 /\ prep'[t].gen = task[t].gen /\ prep'[t].phase = "preparing"
                 /\ prep'[t].result = "none"
                 /\ \A p \in TaskIds : p # t => prep'[p] = prep[p]
                 /\ \A u \in TaskIds : task[u].pc # "io"
              \/ /\ task'[t].pc = "prepared" /\ task'[t].gen = task[t].gen
                 /\ task'[t].prep = slot
                 /\ slot # 0 /\ prep[slot].gen = task[t].gen
                 /\ prep[slot].phase = "preparing"
                 /\ UNCHANGED <<slot, prep>>
              \/ /\ task'[t].pc = "done" /\ task'[t].gen = 0 /\ task'[t].prep = 0
                 /\ UNCHANGED <<slot, prep>>
<1> DEFINE a == [task[t] EXCEPT !.pc = "prepared", !.prep = t, !.guarded = FALSE]
           b == [task[t] EXCEPT !.pc = "prepared", !.prep = slot, !.guarded = FALSE]
           p == [NoPrep EXCEPT !.gen = task[t].gen, !.phase = "preparing"]
<1>1. \/ /\ task' = [task EXCEPT ![t] = a] /\ prep' = [prep EXCEPT ![t] = p]
         /\ slot = 0 /\ slot' = t /\ OwnRuntime(task[t].gen)
         /\ ~\E u \in TaskIds : task[u].pc = "io"
      \/ /\ task' = [task EXCEPT ![t] = b] /\ UNCHANGED <<slot, prep>>
         /\ slot # 0 /\ prep[slot].gen = task[t].gen
         /\ prep[slot].phase = "preparing"
      \/ task' = [task EXCEPT ![t] = DoneTask] /\ UNCHANGED <<slot, prep>>
  BY DEF Prepare
<1>2. /\ a.pc = "prepared" /\ a.gen = task[t].gen /\ a.prep = t
      /\ b.pc = "prepared" /\ b.gen = task[t].gen /\ b.prep = slot
  BY DEF TypeOK, TaskState
<1>3. /\ p.gen = task[t].gen /\ p.phase = "preparing" /\ p.result = "none"
      /\ DoneTask.pc = "done" /\ DoneTask.gen = 0 /\ DoneTask.prep = 0
  BY DEF NoPrep, DoneTask, NoTask
<1>4. /\ task[t].pc = "spawned"
      /\ UNCHANGED <<turn, exec, started, effect, runtime, driver>>
  BY DEF Prepare, durable
<1>5. task \in [TaskIds -> TaskState] /\ prep \in [TaskIds -> PrepState] BY DEF TypeOK
<1> HIDE DEF a, b, p
<1> QED BY <1>1, <1>2, <1>3, <1>4, <1>5 DEF OwnRuntime

\* What enter_prepared_turn does: a stale or cancelled turn is reported, and
\* any other one goes to the provider.
LEMMA EnterShape ==
    ASSUME TypeOK, NEW t \in TaskIds, Enter(t)
    PROVE  /\ task[t].pc = "authorized" /\ runtime = "running"
           /\ \A u \in TaskIds : u # t => task'[u] = task[u]
           /\ task'[t].gen = task[t].gen /\ task'[t].prep = task[t].prep
           /\ UNCHANGED <<turn, exec, started, effect, runtime, slot, driver>>
           /\ \/ task'[t].pc = "reported" /\ UNCHANGED prep
              \/ /\ task'[t].pc = "reported" /\ slot = task[t].prep
                 /\ slot \in TaskIds =>
                      /\ prep'[slot].gen = prep[slot].gen
                      /\ prep'[slot].phase = "not_started"
                      /\ prep'[slot].result = prep[slot].result
                 /\ \A p \in TaskIds : p # slot => prep'[p] = prep[p]
              \/ /\ task'[t].pc = "io" /\ slot = task[t].prep
                 /\ slot \in TaskIds =>
                      /\ prep'[slot].gen = prep[slot].gen
                      /\ prep'[slot].phase = "entered"
                      /\ prep'[slot].result = prep[slot].result
                 /\ \A p \in TaskIds : p # slot => prep'[p] = prep[p]
<1> DEFINE a == [task[t] EXCEPT !.pc = "reported", !.result = "failed"]
           b == [task[t] EXCEPT !.pc = "reported", !.result = "interrupted"]
           c == [task[t] EXCEPT !.pc = "io"]
           p == [prep[slot] EXCEPT !.phase = "not_started"]
           q == [prep[slot] EXCEPT !.phase = "entered"]
<1>1. \/ task' = [task EXCEPT ![t] = a] /\ UNCHANGED prep
      \/ /\ task' = [task EXCEPT ![t] = b] /\ slot = task[t].prep
         /\ prep' = [prep EXCEPT ![slot] = p]
      \/ /\ task' = [task EXCEPT ![t] = c] /\ slot = task[t].prep
         /\ prep' = [prep EXCEPT ![slot] = q]
  BY DEF Enter
<1>2. /\ a.pc = "reported" /\ a.gen = task[t].gen /\ a.prep = task[t].prep
      /\ b.pc = "reported" /\ b.gen = task[t].gen /\ b.prep = task[t].prep
      /\ c.pc = "io" /\ c.gen = task[t].gen /\ c.prep = task[t].prep
  BY DEF TypeOK, TaskState
<1>3. slot \in TaskIds =>
        /\ p.gen = prep[slot].gen /\ p.phase = "not_started"
        /\ p.result = prep[slot].result
        /\ q.gen = prep[slot].gen /\ q.phase = "entered"
        /\ q.result = prep[slot].result
  BY DEF TypeOK, PrepState
<1>4. /\ task[t].pc = "authorized" /\ runtime = "running"
      /\ UNCHANGED <<turn, exec, started, effect, runtime, slot, driver>>
  BY DEF Enter, durable
<1>5. task \in [TaskIds -> TaskState] /\ prep \in [TaskIds -> PrepState] BY DEF TypeOK
<1> HIDE DEF a, b, c, p, q
<1> QED BY <1>1, <1>2, <1>3, <1>4, <1>5

\* A step of a task, a spawn, or a step that empties the slot keeps the
\* authority of every turn in one place.
LEMMA TurnActionTasks ==
    ASSUME TurnInv, TurnAction
    PROVE  TaskSlotInv'
<1> USE DEF Acts
<1>a. /\ prep \in [TaskIds -> PrepState] /\ task \in [TaskIds -> TaskState]
      /\ driver \in [Drivers -> DriverState] /\ started \in [Turns -> BOOLEAN]
      /\ slot \in {0} \cup TaskIds /\ 0 \notin TaskIds /\ 0 \notin Turns
      /\ turn \in Nat /\ 1..turn \subseteq Turns
  BY BoundsAssumption DEF TurnInv, TypeOK, TaskIds, Turns
<1>b. \A t \in TaskIds : TaskOf(t) /\ FreshOf(t) BY DEF TurnInv, TasksInv
<1>c. OneAuthority /\ ActsInSlot /\ SlotOK /\ ResultIsLast /\ EnteredActs BY DEF TurnInv, SlotInv
<1>d. \A g \in Turns : RowOf(g) BY DEF TurnInv, RowsInv
<1>1. CASE Assign
  <2>a. PICK m \in TaskIds : /\ task[m].pc = "none"
                             /\ Min(FreshTasks) = m
    BY <1>1, FreshExists DEF Assign, FreshTasks
  <2>1. ASSUME NEW u \in TaskIds PROVE TaskOf(u)' BY <1>1, <1>a, <1>b, <1>c, <1>d, <2>a
       DEF TaskOf, ActsInSlot, Assign, Spawn, Held, NoTask, NoPrep,
           TaskState, PrepState, durable, adapter
  <2>2. ASSUME NEW u \in TaskIds PROVE FreshOf(u)' BY <1>1, <1>a, <1>b, <1>c, <1>d, <2>a
       DEF TaskOf, FreshOf, ActsInSlot, Assign, Spawn, Held, NoTask, NoPrep,
           TaskState, PrepState, durable, adapter
  <2>3. OneAuthority' BY <1>1, <1>a, <1>b, <1>c, <1>d, <2>a
       DEF OneAuthority, RowOf, TaskOf, FreshOf, Assign, Spawn, Held,
           NoTask, NoPrep, TaskState, PrepState, durable, adapter
  <2>4. ActsInSlot' BY <1>1, <1>a, <1>b, <1>c, <1>d, <2>a
       DEF ActsInSlot, OneAuthority, TaskOf, FreshOf, Assign, Spawn, Held,
           NoTask, NoPrep, TaskState, PrepState, durable, adapter
  <2>5. SlotOK' BY <1>1, <1>a, <1>b, <1>c, <1>d, <2>a
       DEF SlotOK, ActsInSlot, TaskOf, FreshOf, Assign, Spawn, Held, NoTask,
           NoPrep, TaskState, PrepState, durable, adapter
  <2>6. ResultIsLast' BY <1>1, <1>a, <1>b, <1>c, <1>d, <2>a
       DEF ResultIsLast, OneAuthority, ActsInSlot, RowOf, SlotOK, TaskOf,
           FreshOf, Assign, Spawn, Held, NoTask, NoPrep, TaskState, PrepState,
           durable, adapter
  <2>7. EnteredActs' BY <1>1, <1>a, <1>b, <1>c, <1>d, <2>a
       DEF EnteredActs, ActsInSlot, OneAuthority, TaskOf, FreshOf, Assign,
           Spawn, Held, NoTask, NoPrep, TaskState, PrepState, durable, adapter
  <2> QED BY <2>1, <2>2, <2>3, <2>4, <2>5, <2>6, <2>7 DEF TaskSlotInv, SlotInv
<1>2. ASSUME NEW t \in TaskIds, Prepare(t)
      PROVE  TaskSlotInv'
  BY <1>a, <1>b, <1>c, <1>d, <1>2, PrepareShape DEF TaskOf, FreshOf, OneAuthority, RowOf, ActsInSlot, SlotOK,
     ResultIsLast, EnteredActs, TaskSlotInv, SlotInv, TurnInv
<1>3. ASSUME NEW t \in TaskIds, AuthorizeStart(t)
      PROVE  TaskSlotInv'
  <2>1. ASSUME task[t].pc = "prepared",
             \A u \in TaskIds : u # t => task'[u] = task[u],
             task'[t].gen = task[t].gen /\ task'[t].prep = task[t].prep,
             task'[t].pc = "authorized" /\ started'[task[t].gen],
             exec[task[t].gen] = "assigned",
             \A g \in Turns : started[g] => started'[g],
             UNCHANGED <<turn, runtime, slot, prep, driver>>
        PROVE  TaskSlotInv'
    <3>1. ASSUME NEW u \in TaskIds PROVE TaskOf(u)' BY <2>1, <1>a, <1>b, <1>c, <1>d DEF TaskOf, FreshOf
    <3>2. ASSUME NEW u \in TaskIds PROVE FreshOf(u)' BY <2>1, <1>a, <1>b, <1>c, <1>d DEF TaskOf, FreshOf
    <3>3. OneAuthority' BY <2>1, <1>a, <1>b, <1>c, <1>d DEF OneAuthority, RowOf, TaskOf
    <3>4. ActsInSlot' BY <2>1, <1>a, <1>b, <1>c, <1>d
         DEF ActsInSlot, OneAuthority, TaskOf, FreshOf
    <3>5. SlotOK' BY <2>1, <1>a, <1>b, <1>c, <1>d DEF SlotOK, ActsInSlot, TaskOf
    <3>6. ResultIsLast' BY <2>1, <1>a, <1>b, <1>c, <1>d
         DEF ResultIsLast, OneAuthority, ActsInSlot, RowOf, TaskOf, FreshOf,
             SlotOK
    <3>7. EnteredActs' BY <2>1, <1>a, <1>b, <1>c, <1>d
         DEF EnteredActs, ActsInSlot, OneAuthority, TaskOf, FreshOf
    <3> QED BY <3>1, <3>2, <3>3, <3>4, <3>5, <3>6, <3>7 DEF TaskSlotInv, SlotInv
  <2>2. ASSUME task[t].pc = "prepared",
             \A u \in TaskIds : u # t => task'[u] = task[u],
             task'[t].gen = task[t].gen /\ task'[t].prep = task[t].prep,
             task'[t].pc = "refused",
             UNCHANGED <<turn, started, runtime, slot, prep, driver>>
        PROVE  TaskSlotInv'
    BY <2>2, <1>a, <1>b, <1>c, <1>d DEF TaskOf, FreshOf, OneAuthority, RowOf, ActsInSlot, SlotOK, ResultIsLast,
       EnteredActs, TaskSlotInv, SlotInv
  <2> QED BY <1>3, <1>a, <1>b, <2>1, <2>2
       DEF TaskOf, AuthorizeStart, EffectPending, TaskState, adapter
<1>4. ASSUME NEW t \in TaskIds, TaskPanics(t)
      PROVE  TaskSlotInv'
  BY <1>4, <1>a, <1>b, <1>c, <1>d DEF TaskOf, ActsInSlot, TaskPanics, TaskState, PrepState, durable, adapter,
     FreshOf, OneAuthority, RowOf, SlotOK, ResultIsLast, EnteredActs, TaskSlotInv, SlotInv
<1>5. ASSUME NEW t \in TaskIds, RetainUnstarted(t)
      PROVE  TaskSlotInv'
  BY <1>5, <1>a, <1>b, <1>c, <1>d DEF TaskOf, ActsInSlot, RetainUnstarted, DoneTask, NoTask, TaskState,
     PrepState, durable, adapter, FreshOf, OneAuthority, RowOf, SlotOK, ResultIsLast, EnteredActs, TaskSlotInv,
     SlotInv
<1>6. ASSUME NEW t \in TaskIds, AuthorityUnresolved(t)
      PROVE  TaskSlotInv'
  BY <1>a, <1>b, <1>c, <1>d, <1>6 DEF TaskOf, FreshOf, OneAuthority, RowOf, ActsInSlot, SlotOK, ResultIsLast,
     EnteredActs, TaskSlotInv, SlotInv, AuthorityUnresolved, TaskState, PrepState, durable
<1>7. ASSUME NEW t \in TaskIds, Enter(t)
      PROVE  TaskSlotInv'
  <2>1. ASSUME task[t].pc = "authorized",
             \A u \in TaskIds : u # t => task'[u] = task[u],
             task'[t].gen = task[t].gen /\ task'[t].prep = task[t].prep,
             task'[t].pc = "reported",
             UNCHANGED <<turn, started, runtime, slot, prep, driver>>
        PROVE  TaskSlotInv'
    <3>1. ASSUME NEW u \in TaskIds PROVE TaskOf(u)' BY <2>1, <1>a, <1>b, <1>c, <1>d DEF TaskOf, FreshOf
    <3>2. ASSUME NEW u \in TaskIds PROVE FreshOf(u)' BY <2>1, <1>a, <1>b, <1>c, <1>d DEF TaskOf, FreshOf
    <3>3. OneAuthority' BY <2>1, <1>a, <1>b, <1>c, <1>d DEF OneAuthority, RowOf, TaskOf
    <3>4. ActsInSlot' BY <2>1, <1>a, <1>b, <1>c, <1>d
         DEF ActsInSlot, OneAuthority, TaskOf, FreshOf
    <3>5. SlotOK' BY <2>1, <1>a, <1>b, <1>c, <1>d DEF SlotOK, ActsInSlot, TaskOf
    <3>6. ResultIsLast' BY <2>1, <1>a, <1>b, <1>c, <1>d
         DEF ResultIsLast, OneAuthority, ActsInSlot, RowOf, TaskOf, FreshOf,
             SlotOK
    <3>7. EnteredActs' BY <2>1, <1>a, <1>b, <1>c, <1>d
         DEF EnteredActs, ActsInSlot, OneAuthority, TaskOf, FreshOf
    <3> QED BY <3>1, <3>2, <3>3, <3>4, <3>5, <3>6, <3>7 DEF TaskSlotInv, SlotInv
  <2>2. ASSUME task[t].pc = "authorized" /\ slot = task[t].prep,
             \A u \in TaskIds : u # t => task'[u] = task[u],
             task'[t].gen = task[t].gen /\ task'[t].prep = task[t].prep,
             task'[t].pc = "reported" /\ runtime = "running",
             prep'[slot].gen = prep[slot].gen /\ prep'[slot].phase = "not_started",
             \A p \in TaskIds : p # slot => prep'[p] = prep[p],
             UNCHANGED <<turn, started, runtime, slot, driver>>
        PROVE  TaskSlotInv'
    <3>1. ASSUME NEW u \in TaskIds PROVE TaskOf(u)' BY <2>2, <1>a, <1>b, <1>c, <1>d DEF TaskOf, FreshOf
    <3>2. ASSUME NEW u \in TaskIds PROVE FreshOf(u)' BY <2>2, <1>a, <1>b, <1>c, <1>d DEF TaskOf, FreshOf
    <3>3. OneAuthority' BY <2>2, <1>a, <1>b, <1>c, <1>d DEF OneAuthority, RowOf, TaskOf
    <3>4. ActsInSlot' BY <2>2, <1>a, <1>b, <1>c, <1>d
         DEF ActsInSlot, OneAuthority, TaskOf, FreshOf
    <3>5. SlotOK' BY <2>2, <1>a, <1>b, <1>c, <1>d DEF SlotOK, ActsInSlot, TaskOf
    <3>6. ResultIsLast' BY <2>2, <1>a, <1>b, <1>c, <1>d
         DEF ResultIsLast, OneAuthority, ActsInSlot, RowOf, TaskOf, FreshOf,
             SlotOK
    <3>7. EnteredActs' BY <2>2, <1>a, <1>b, <1>c, <1>d
         DEF EnteredActs, ActsInSlot, OneAuthority, TaskOf, FreshOf
    <3> QED BY <3>1, <3>2, <3>3, <3>4, <3>5, <3>6, <3>7 DEF TaskSlotInv, SlotInv
  <2>3. ASSUME task[t].pc = "authorized" /\ slot = task[t].prep,
             \A u \in TaskIds : u # t => task'[u] = task[u],
             task'[t].gen = task[t].gen /\ task'[t].prep = task[t].prep,
             task'[t].pc = "io" /\ runtime = "running",
             prep'[slot].gen = prep[slot].gen /\ prep'[slot].phase = "entered",
             \A p \in TaskIds : p # slot => prep'[p] = prep[p],
             UNCHANGED <<turn, started, runtime, slot, driver>>
        PROVE  TaskSlotInv'
    BY <2>3, <1>a, <1>b, <1>c, <1>d DEF TaskOf, FreshOf, OneAuthority, RowOf, ActsInSlot, SlotOK, ResultIsLast,
       EnteredActs, TaskSlotInv, SlotInv
  <2>4. TypeOK BY DEF TurnInv
  <2>5. task[t].prep \in TaskIds \/ task[t].pc = "spawned" BY <1>7, <1>b, <2>4, EnterShape DEF TaskOf
  <2> QED BY <1>7, <2>1, <2>2, <2>3, <2>4, <2>5, EnterShape
<1>8. ASSUME NEW t \in TaskIds, NEW r \in Results \ {"none"}, Finish(t, r)
      PROVE  TaskSlotInv'
  BY <1>8, <1>a, <1>b, <1>c, <1>d DEF TaskOf, ActsInSlot, Finish, TaskState, PrepState, durable, adapter,
     FreshOf, OneAuthority, RowOf, SlotOK, ResultIsLast, EnteredActs, TaskSlotInv, SlotInv
<1>9. ASSUME NEW t \in TaskIds, TakeResult(t)
      PROVE  TaskSlotInv'
  BY <1>9, <1>a, <1>b, <1>c, <1>d DEF TaskOf, ActsInSlot, TakeResult, Idle, DoneTask, NoTask, TaskState,
     PrepState, durable, adapter, DriverState, FreshOf, OneAuthority, RowOf, SlotOK, ResultIsLast, EnteredActs,
     TaskSlotInv, SlotInv
<1>10. CASE RecoverAssigned
  <2>1. ASSUME NEW m \in TaskIds,
             task[m].pc = "none",
             \A u \in TaskIds : u # m => task'[u] = task[u],
             task'[m].pc = "spawned" /\ task'[m].prep = 0,
             task'[m].gen = driver["recon"].gen /\ task'[m].gen \in 1..turn,
             \A d \in Drivers : driver'[d].prep \in {0, driver[d].prep},
             UNCHANGED <<turn, started, runtime, slot, prep>>
        PROVE  TaskSlotInv'
    BY <2>1, <1>a, <1>b, <1>c, <1>d DEF TaskOf, FreshOf, OneAuthority, RowOf, ActsInSlot, SlotOK, ResultIsLast,
       EnteredActs, TaskSlotInv, SlotInv
  <2>2. ASSUME \A d \in Drivers : driver'[d].prep \in {0, driver[d].prep},
             UNCHANGED <<turn, started, runtime, slot, prep, task>>
        PROVE  TaskSlotInv'
    BY <2>2, <1>a, <1>b, <1>c, <1>d DEF TaskOf, FreshOf, OneAuthority, RowOf, ActsInSlot, SlotOK, ResultIsLast,
       EnteredActs, TaskSlotInv, SlotInv
  <2>3. \A d \in Drivers : driver'[d].prep \in {0, driver[d].prep}
    BY <1>10, <1>a, RunFrame, Literals DEF RecoverAssigned
  <2>4. driver["recon"].gen \in 1..turn BY <1>10, Literals
       DEF TurnInv, DriversInv, DriverOf, Turnless, RecoverAssigned
  <2>5. CASE task' = task BY <1>10, <2>2, <2>3, <2>5 DEF RecoverAssigned, durable, adapter
  <2>6. CASE FreshTasks # {} /\ Spawn(driver["recon"].gen, TRUE)
    BY <2>6, FreshExists, <1>10, <1>a, <2>1, <2>3, <2>4 DEF FreshTasks, Spawn, NoTask, RecoverAssigned, durable,
       adapter
  <2> QED BY <1>10, <2>5, <2>6 DEF RecoverAssigned
<1>11. ASSUME NEW d \in Drivers, Release(d)
       PROVE  TaskSlotInv'
  BY <1>11, <1>a, <1>b, <1>c, <1>d DEF TaskOf, ActsInSlot, Release, Idle, EndRun, Quiesced, TaskState,
     PrepState, durable, adapter, DriverState, FreshOf, OneAuthority, RowOf, SlotOK, ResultIsLast, EnteredActs,
     TaskSlotInv, SlotInv
<1>12. ASSUME NEW d \in Drivers, Vacate(d)
       PROVE  TaskSlotInv'
  BY <1>12, <1>a, <1>b, <1>c, <1>d DEF TaskOf, ActsInSlot, Vacate, Idle, EndRun, TaskState, PrepState, durable,
     adapter, DriverState, FreshOf, OneAuthority, RowOf, SlotOK, ResultIsLast, EnteredActs, TaskSlotInv, SlotInv
<1>13. CASE StopRuntime
  <2>1. ASSUME runtime = "running" /\ slot' = 0,
             \A p \in TaskIds : prep'[p].gen = prep[p].gen,
             \A p \in TaskIds : p # slot => prep'[p] = prep[p],
             slot \in TaskIds => prep'[slot].phase = "gone",
             \A u \in TaskIds : /\ task'[u].gen = task[u].gen
                                 /\ task'[u].prep = task[u].prep
                                 /\ task'[u].pc = IF task[u].pc = "io" THEN "reported"
                                                  ELSE task[u].pc,
             \A d \in Drivers : driver'[d].prep = driver[d].prep,
             UNCHANGED <<turn, started>>
        PROVE  TaskSlotInv'
    BY <2>1, <1>a, <1>b, <1>c, <1>d DEF TaskOf, FreshOf, OneAuthority, RowOf, ActsInSlot, SlotOK, ResultIsLast,
       EnteredActs, TaskSlotInv, SlotInv
  <2>2. ASSUME \A d \in Drivers : driver'[d].prep \in {0, driver[d].prep},
             UNCHANGED <<turn, started, runtime, slot, prep, task>>
        PROVE  TaskSlotInv'
    <3>1. ASSUME NEW u \in TaskIds PROVE TaskOf(u)' BY <2>2, <1>a, <1>b, <1>c, <1>d DEF TaskOf, FreshOf
    <3>2. ASSUME NEW u \in TaskIds PROVE FreshOf(u)' BY <2>2, <1>a, <1>b, <1>c, <1>d DEF TaskOf, FreshOf
    <3>3. OneAuthority' BY <2>2, <1>a, <1>b, <1>c, <1>d DEF OneAuthority, RowOf, TaskOf
    <3>4. ActsInSlot' BY <2>2, <1>a, <1>b, <1>c, <1>d
         DEF ActsInSlot, OneAuthority, TaskOf, FreshOf
    <3>5. SlotOK' BY <2>2, <1>a, <1>b, <1>c, <1>d DEF SlotOK, ActsInSlot, TaskOf
    <3>6. ResultIsLast' BY <2>2, <1>a, <1>b, <1>c, <1>d
         DEF ResultIsLast, OneAuthority, ActsInSlot, RowOf, TaskOf, FreshOf,
             SlotOK
    <3>7. EnteredActs' BY <2>2, <1>a, <1>b, <1>c, <1>d
         DEF EnteredActs, ActsInSlot, OneAuthority, TaskOf, FreshOf
    <3> QED BY <3>1, <3>2, <3>3, <3>4, <3>5, <3>6, <3>7 DEF TaskSlotInv, SlotInv
  <2>3. \A d \in Drivers : driver'[d].prep = driver[d].prep
    BY <1>13, <1>a, Literals DEF StopRuntime, Goto, DriverState
  <2>4. CASE UNCHANGED <<adapter, task>> BY <1>13, <2>2, <2>3, <2>4 DEF StopRuntime, durable, adapter
  <2>5. CASE runtime = "running"
    <3>a. PICK r : task' = [u \in TaskIds |->
                              IF task[u].pc = "io"
                              THEN [task[u] EXCEPT !.pc = "reported", !.result = r]
                              ELSE task[u]]
      BY <1>13, <2>5 DEF StopRuntime
    <3>b. prep' = IF slot = 0 THEN prep ELSE [prep EXCEPT ![slot].phase = "gone"] BY <1>13, <2>5 DEF StopRuntime
    <3>1. \A u \in TaskIds : /\ task'[u].gen = task[u].gen
                              /\ task'[u].prep = task[u].prep
                              /\ task'[u].pc = IF task[u].pc = "io" THEN "reported"
                                               ELSE task[u].pc
      BY <1>a, <3>a DEF TaskState
    <3>2. /\ \A p \in TaskIds : prep'[p].gen = prep[p].gen
          /\ \A p \in TaskIds : p # slot => prep'[p] = prep[p]
          /\ slot \in TaskIds => prep'[slot].phase = "gone"
      BY <1>a, <3>b DEF PrepState
    <3> QED BY <1>13, <2>1, <2>3, <2>5, <3>1, <3>2 DEF StopRuntime, durable
  <2> QED BY <1>13, <2>4, <2>5 DEF StopRuntime
<1>14. CASE StartRuntime
  BY <1>14, <1>a, <1>b, <1>c, <1>d DEF TaskOf, ActsInSlot, StartRuntime, TaskState, PrepState, durable, adapter,
     FreshOf, OneAuthority, RowOf, SlotOK, ResultIsLast, EnteredActs, TaskSlotInv, SlotInv
<1>15. CASE Restart
  BY <1>15, <1>a, <1>b, <1>c, <1>d DEF TaskOf, ActsInSlot, Restart, Idle, NoTask, DoneTask, NoPrep, TaskState,
     PrepState, durable, adapter, DriverState, FreshOf, OneAuthority, RowOf, SlotOK, ResultIsLast, EnteredActs,
     TaskSlotInv, SlotInv
<1> QED BY <1>1, <1>2, <1>3, <1>4, <1>5, <1>6, <1>7, <1>8, <1>9, <1>10, <1>11,
     <1>12, <1>13, <1>14, <1>15
     DEF TurnAction, TaskNext


------------------------
(* Quarantine and the drivers.                                              *)

\* A row action quarantines a turn only with its interrupt, or when nobody can
\* act on it any more.
LEMMA RowActionQuarantine ==
    ASSUME TurnInv, RowAction, NEW u \in TaskIds
    PROVE  QuarantineOf(u)'
<1> DEFINE h == task[u].gen
<1>a. /\ exec \in [Turns -> ExecStates] /\ effect \in [Turns -> EffectRow]
      /\ turn \in Nat /\ UNCHANGED <<task, slot>>
  BY RowActionFrame DEF TurnInv, TypeOK, RowStep
<1> SUFFICES ASSUME Acts(u), slot = task[u].prep, exec'[h] = "recovery_required"
             PROVE  effect'[h].phase = "recovery_required"
  BY <1>a DEF QuarantineOf, Acts
<1>b. /\ h \in Turns
      /\ exec[h] = "recovery_required" => effect[h].phase = "recovery_required"
  BY BoundsAssumption
     DEF TurnInv, TypeOK, TasksInv, TaskOf, QuarantineOf, Acts, Turns
<1>c. /\ \A d \in Drivers : driver[d].pc = "commit" => driver[d].gen # h
      /\ /\ driver["recon"].pc = "unowned"
         /\ driver["recon"].snap.exec # "assigned"
         => driver["recon"].gen # h
  BY DEF TurnInv, DriversInv, DriverOf, UnownedOK
<1> HIDE DEF h
<1>1. ASSUME NEW d \in Drivers, CommitRunning(d)
      PROVE  effect'[h].phase = "recovery_required"
  BY <1>1, <1>a, <1>b, <1>c DEF EffectRow, CommitRunning
<1>2. ASSUME NEW d \in Drivers, CommitCompletion(d)
      PROVE  effect'[h].phase = "recovery_required"
  BY <1>2, <1>a, <1>b, <1>c DEF EffectRow, CommitCompletion
<1>3. ASSUME NEW d \in Drivers, CommitFailure(d)
      PROVE  effect'[h].phase = "recovery_required"
  BY <1>3, <1>a, <1>b, <1>c DEF EffectRow, CommitFailure
<1>4. ASSUME NEW d \in Drivers, CommitUncertain(d)
      PROVE  effect'[h].phase = "recovery_required"
  BY <1>4, <1>a, <1>b, <1>c DEF EffectRow, CommitUncertain
<1>5. ASSUME NEW d \in Drivers, QuiescedRetained(d)
      PROVE  effect'[h].phase = "recovery_required"
  BY <1>5, <1>a, <1>b, <1>c DEF EffectRow, QuiescedRetained, Settle
<1>6. ASSUME NEW d \in Drivers, QuiescedGone(d)
      PROVE  effect'[h].phase = "recovery_required"
  BY <1>6, <1>a, <1>b, <1>c DEF EffectRow, QuiescedGone, Settle
<1>7. ASSUME NEW d \in Drivers, Unconfirmed(d)
      PROVE  effect'[h].phase = "recovery_required"
  BY <1>7, <1>a, <1>b, <1>c DEF EffectRow, Unconfirmed, SetPair
<1>8. CASE Mute BY <1>8, <1>a, <1>b, <1>c DEF EffectRow, Mute, RecordInterrupt
<1>9. CASE AgentInterruptCommit BY <1>9, <1>a, <1>b, <1>c DEF EffectRow, AgentInterruptCommit, RecordInterrupt
<1>10. CASE ApplyClaim BY <1>10, <1>a, <1>b, <1>c DEF EffectRow, ApplyClaim
<1>11. CASE ApplyBegin
  <2> DEFINE k == driver["actor"].gen
             r == [effect[k] EXCEPT !.phase = "recovery_required", !.owner = "none",
                                   !.expired = FALSE]
  <2>1. \/ UNCHANGED <<exec, effect>>
        \/ /\ effect' = [effect EXCEPT ![k] = r]
           /\ exec' = [exec EXCEPT ![k] = "recovery_required"]
    BY <1>11 DEF ApplyBegin
  <2>2. k \in Turns => r.phase = "recovery_required" BY <1>a DEF EffectRow
  <2> HIDE DEF r
  <2> QED BY <1>a, <1>b, <2>1, <2>2
<1>12. CASE ApplyWaiting BY <1>12, <1>a, <1>b, <1>c DEF EffectRow, ApplyWaiting, SetPair
<1>13. CASE ApplyDispatch BY <1>13, <1>a, <1>b, <1>c DEF EffectRow, ApplyDispatch
<1>14. CASE ApplyIssued BY <1>14, <1>a, <1>b, <1>c DEF EffectRow, ApplyIssued, SetPair
<1>15. CASE RecoverClaim
  <2> DEFINE k == driver["recon"].gen
             r == [effect[k] EXCEPT !.owner = "recon", !.expired = FALSE]
  <2>1. \/ UNCHANGED <<exec, effect>>
        \/ /\ effect' = [effect EXCEPT ![k] = r]
           /\ exec' = exec
    BY <1>15 DEF RecoverClaim
  <2>2. k \in Turns => r.phase = effect[k].phase BY <1>a DEF EffectRow
  <2> HIDE DEF r
  <2> QED BY <1>a, <1>b, <2>1, <2>2
<1>16. CASE RecoverBegin
  <2> DEFINE k == driver["recon"].gen
             r == [effect[k] EXCEPT !.owner = "none", !.expired = FALSE]
  <2>1. \/ UNCHANGED <<exec, effect>>
        \/ /\ effect' = [effect EXCEPT ![k] = r]
           /\ exec' = exec
    BY <1>16 DEF RecoverBegin
  <2>2. k \in Turns => r.phase = effect[k].phase BY <1>a DEF EffectRow
  <2> HIDE DEF r
  <2> QED BY <1>a, <1>b, <2>1, <2>2
<1>17. CASE RecoverWait BY <1>17, <1>a, <1>b, <1>c DEF EffectRow, RecoverWait, SetPair
<1>18. CASE FinalizeNotStarted BY <1>18, <1>a, <1>b, <1>c DEF EffectRow, FinalizeNotStarted
<1>19. CASE FinalizeGone BY <1>19, <1>a, <1>b, <1>c DEF EffectRow, FinalizeGone, Settle
<1>20. CASE TaskDeath BY <1>20, <1>a, <1>b, <1>c DEF EffectRow, TaskDeath, SetPair
<1>21. CASE RecordStop BY <1>21, <1>a, <1>b, <1>c DEF EffectRow, RecordStop, Settle
<1>22. ASSUME NEW g \in Turns, Expire(g)
       PROVE  effect'[h].phase = "recovery_required"
  BY <1>22, <1>a, <1>b, <1>c DEF EffectRow, Expire
<1>23. CASE UNCHANGED <<exec, effect>> BY <1>23, <1>b
<1> QED BY <1>1, <1>2, <1>3, <1>4, <1>5, <1>6, <1>7, <1>8, <1>9, <1>10, <1>11,
     <1>12, <1>13, <1>14, <1>15, <1>16, <1>17, <1>18, <1>19, <1>20, <1>21,
     <1>22, <1>23
     DEF RowAction, WaitNext, ApplyNext, Unmute, AgentInterrupt,
         LoadCandidate, Look, Inconclusive, LeaveQuarantined, AgentStop, durable

\* The other actions hand out no authority over a quarantined turn.
LEMMA TurnActionQuarantine ==
    ASSUME TurnInv, TurnAction, NEW u \in TaskIds
    PROVE  QuarantineOf(u)'
<1> USE DEF Acts
<1>a. /\ exec \in [Turns -> ExecStates] /\ effect \in [Turns -> EffectRow]
      /\ turn \in Nat /\ 0 \notin TaskIds /\ Turns \subseteq Nat
      /\ task \in [TaskIds -> TaskState] /\ 1..turn \subseteq Turns
  BY BoundsAssumption DEF TurnInv, TypeOK, TaskIds, Turns
<1>b. TaskOf(u) /\ FreshOf(u) /\ QuarantineOf(u) BY DEF TurnInv, TasksInv
<1>c. \A t \in TaskIds : task[t].pc = "spawned" => task[u].prep # t BY DEF TurnInv, TasksInv, FreshOf
<1>1. CASE Assign BY <1>1, <1>a, <1>b, <1>c
     DEF TaskOf, QuarantineOf, Assign, Spawn, NoTask, TaskState, durable,
         adapter
<1>2. ASSUME NEW t \in TaskIds, Prepare(t)
      PROVE  QuarantineOf(u)'
  BY <1>2, <1>a, <1>b, <1>c, PrepareShape DEF TurnInv, TaskOf, QuarantineOf
<1>3. ASSUME NEW t \in TaskIds, AuthorizeStart(t)
      PROVE  QuarantineOf(u)'
  BY <1>3, <1>a, <1>b, <1>c
     DEF TaskOf, QuarantineOf, AuthorizeStart, TaskState, durable, adapter
<1>4. ASSUME NEW t \in TaskIds, TaskPanics(t)
      PROVE  QuarantineOf(u)'
  BY <1>4, <1>a, <1>b, <1>c
     DEF TaskOf, QuarantineOf, TaskPanics, TaskState, durable, adapter
<1>5. ASSUME NEW t \in TaskIds, RetainUnstarted(t)
      PROVE  QuarantineOf(u)'
  BY <1>5, <1>a, <1>b, <1>c
     DEF TaskOf, QuarantineOf, RetainUnstarted, DoneTask, NoTask, TaskState,
         durable, adapter
<1>6. ASSUME NEW t \in TaskIds, AuthorityUnresolved(t)
      PROVE  QuarantineOf(u)'
  BY <1>6, <1>a, <1>b, <1>c
     DEF TaskOf, QuarantineOf, AuthorityUnresolved, TaskState, durable,
         adapter
<1>7. ASSUME NEW t \in TaskIds, Enter(t)
      PROVE  QuarantineOf(u)'
  BY <1>7, <1>a, <1>b, <1>c, EnterShape DEF TurnInv, TaskOf, QuarantineOf
<1>8. ASSUME NEW t \in TaskIds, NEW r \in Results \ {"none"}, Finish(t, r)
      PROVE  QuarantineOf(u)'
  BY <1>8, <1>a, <1>b, <1>c
     DEF TaskOf, QuarantineOf, Finish, TaskState, durable, adapter
<1>9. ASSUME NEW t \in TaskIds, TakeResult(t)
      PROVE  QuarantineOf(u)'
  BY <1>9, <1>a, <1>b, <1>c
     DEF TaskOf, QuarantineOf, TakeResult, DoneTask, NoTask, TaskState,
         durable, adapter
<1>10. CASE RecoverAssigned
  <2>1. Acts(u)' => task'[u] = task[u] BY <1>a, <1>10 DEF Spawn, NoTask, TaskState, RecoverAssigned
  <2>2. slot' \in {0, slot} /\ UNCHANGED <<exec, effect>> BY <1>10 DEF RecoverAssigned, durable, adapter
  <2> QED BY <1>a, <1>b, <2>1, <2>2 DEF TaskOf, QuarantineOf
<1>11. ASSUME NEW d \in Drivers, Release(d)
       PROVE  QuarantineOf(u)'
  BY <1>11, <1>a, <1>b, <1>c
     DEF TaskOf, QuarantineOf, Release, TaskState, durable, adapter
<1>12. ASSUME NEW d \in Drivers, Vacate(d)
       PROVE  QuarantineOf(u)'
  BY <1>12, <1>a, <1>b, <1>c
     DEF TaskOf, QuarantineOf, Vacate, TaskState, durable, adapter
<1>13. CASE StopRuntime
  <2>1. Acts(u)' => task'[u] = task[u]
    <3>1. CASE task' = task BY <3>1
    <3>2. ASSUME NEW r,
                 task' = [t \in TaskIds |->
                            IF task[t].pc = "io"
                            THEN [task[t] EXCEPT !.pc = "reported", !.result = r]
                            ELSE task[t]]
          PROVE  Acts(u)' => task'[u] = task[u]
      BY <1>a, <3>2 DEF TaskState
    <3> QED BY <1>13, <3>1, <3>2 DEF StopRuntime
  <2>2. slot' \in {0, slot} /\ UNCHANGED <<exec, effect>> BY <1>13 DEF StopRuntime, durable, adapter
  <2> QED BY <1>a, <1>b, <2>1, <2>2 DEF TaskOf, QuarantineOf
<1>14. CASE StartRuntime BY <1>14, <1>a, <1>b, <1>c
     DEF TaskOf, QuarantineOf, StartRuntime, TaskState, durable, adapter
<1>15. CASE Restart BY <1>15, <1>a, <1>b, <1>c
     DEF TaskOf, QuarantineOf, Restart, NoTask, DoneTask, NoPrep, TaskState,
         durable, adapter
<1> QED BY <1>1, <1>2, <1>3, <1>4, <1>5, <1>6, <1>7, <1>8, <1>9, <1>10, <1>11,
     <1>12, <1>13, <1>14, <1>15
     DEF TurnAction, TaskNext


\* How a run of a driver goes on: it ends, goes to another step, begins at the
\* slot, or applies the interrupt it has recorded.
LEMMA RunShape ==
    ASSUME driver \in [Drivers -> DriverState], NEW d \in Drivers
    PROVE  /\ EndRun(d) =>
                /\ \A e \in Drivers : e # d => driver'[e] = driver[e]
                /\ driver'[d].pc = "idle" /\ driver'[d].gen = 0
                /\ driver'[d].prep = 0
           /\ \A x : Goto(d, x) =>
                /\ \A e \in Drivers : e # d => driver'[e] = driver[e]
                /\ driver'[d].pc = x /\ driver'[d].gen = driver[d].gen
                /\ driver'[d].prep = driver[d].prep
                /\ driver'[d].snap = driver[d].snap
           /\ \A g, x, y, z : BeginsAt(d, g, x, y, z) =>
                /\ \A e \in Drivers : e # d => driver'[e] = driver[e]
                /\ driver'[d].pc \in {x, y, z} /\ driver'[d].gen = driver[d].gen
                /\ driver'[d].prep = slot
                /\ driver'[d].snap = driver[d].snap
                /\ driver'[d].pc = y => y \in {x, z} \/ prep[slot].phase = "entered"
           /\ \A c : RecordInterrupt(c) =>
                /\ driver'["recon"] = driver["recon"]
                /\ driver'["actor"].pc = "claim" /\ driver'["actor"].gen = turn
                /\ driver'["actor"].prep = 0
<1>1. ASSUME EndRun(d)
      PROVE  /\ \A e \in Drivers : e # d => driver'[e] = driver[e]
             /\ driver'[d].pc = "idle" /\ driver'[d].gen = 0
             /\ driver'[d].prep = 0
  BY <1>1 DEF EndRun, Idle
<1>2. ASSUME NEW x, Goto(d, x)
      PROVE  /\ \A e \in Drivers : e # d => driver'[e] = driver[e]
             /\ driver'[d].pc = x /\ driver'[d].gen = driver[d].gen
             /\ driver'[d].prep = driver[d].prep
             /\ driver'[d].snap = driver[d].snap
  BY <1>2 DEF Goto, DriverState
<1>3. ASSUME NEW g, NEW x, NEW y, NEW z, BeginsAt(d, g, x, y, z)
      PROVE  /\ \A e \in Drivers : e # d => driver'[e] = driver[e]
             /\ driver'[d].pc \in {x, y, z} /\ driver'[d].gen = driver[d].gen
             /\ driver'[d].prep = slot
             /\ driver'[d].snap = driver[d].snap
             /\ driver'[d].pc = y => y \in {x, z} \/ prep[slot].phase = "entered"
  <2> DEFINE w == CASE prep[slot].phase = "preparing" -> x
                    [] prep[slot].phase = "entered"   -> y
                    [] OTHER                          -> z
             r == [driver[d] EXCEPT !.prep = slot, !.pc = w]
  <2>1. driver' = [driver EXCEPT ![d] = r] BY <1>3 DEF BeginsAt
  <2>2. w \in {x, y, z} /\ (w = y => y \in {x, z} \/ prep[slot].phase = "entered") OBVIOUS
  <2> HIDE DEF w
  <2>3. /\ r.pc = w /\ r.gen = driver[d].gen /\ r.prep = slot
        /\ r.snap = driver[d].snap
    BY DEF DriverState
  <2> HIDE DEF r
  <2> QED BY <2>1, <2>2, <2>3
<1>4. ASSUME NEW c, RecordInterrupt(c)
      PROVE  /\ driver'["recon"] = driver["recon"]
             /\ driver'["actor"].pc = "claim" /\ driver'["actor"].gen = turn
             /\ driver'["actor"].prep = 0
  BY <1>4 DEF RecordInterrupt, Applying, Idle, Drivers
<1> QED BY <1>1, <1>2, <1>3, <1>4

\* Only apply_exact_interrupt claims the interrupt of a quarantined turn.
LEMMA NoNewClaim ==
    ASSUME TurnInv, RowAction, ~ApplyClaim, NEW h \in Turns, QuarantinedClaim(h)'
    PROVE  QuarantinedClaim(h)
<1> USE DEF QuarantinedClaim
<1>a. /\ exec \in [Turns -> ExecStates] /\ effect \in [Turns -> EffectRow]
      /\ PairOf(h)
  BY DEF TurnInv, TypeOK, RowsInv
<1>1. ASSUME NEW d \in Drivers, CommitRunning(d)
      PROVE  QuarantinedClaim(h)
  BY <1>1, <1>a
     DEF EffectRow, PairOf, EffectPending, RecoverablePair, CommitRunning
<1>2. ASSUME NEW d \in Drivers, CommitCompletion(d)
      PROVE  QuarantinedClaim(h)
  BY <1>2, <1>a
     DEF EffectRow, PairOf, EffectPending, RecoverablePair,
         CommitCompletion, OrdinaryEndAllowed
<1>3. ASSUME NEW d \in Drivers, CommitFailure(d)
      PROVE  QuarantinedClaim(h)
  BY <1>3, <1>a
     DEF EffectRow, PairOf, EffectPending, RecoverablePair, CommitFailure,
         OrdinaryEndAllowed
<1>4. ASSUME NEW d \in Drivers, CommitUncertain(d)
      PROVE  QuarantinedClaim(h)
  BY <1>4, <1>a
     DEF EffectRow, PairOf, EffectPending, RecoverablePair, CommitUncertain
<1>5. ASSUME NEW d \in Drivers, QuiescedRetained(d)
      PROVE  QuarantinedClaim(h)
  BY <1>5, <1>a, SettleRows DEF QuiescedRetained
<1>6. ASSUME NEW d \in Drivers, QuiescedGone(d)
      PROVE  QuarantinedClaim(h)
  BY <1>6, <1>a, SettleRows DEF QuiescedGone
<1>7. ASSUME NEW d \in Drivers, Unconfirmed(d)
      PROVE  QuarantinedClaim(h)
  BY <1>7, <1>a
     DEF EffectRow, PairOf, EffectPending, RecoverablePair, Unconfirmed,
         SetPair
<1>8. CASE Mute BY <1>8, <1>a DEF PreparedEffect, NoEffect, Mute, RecordInterrupt
<1>9. CASE AgentInterruptCommit BY <1>9, <1>a DEF PreparedEffect, NoEffect, AgentInterruptCommit, RecordInterrupt
<1>10. CASE ApplyBegin
  <2> DEFINE k == driver["actor"].gen
             r == [effect[k] EXCEPT !.phase = "recovery_required", !.owner = "none",
                                   !.expired = FALSE]
  <2>1. \/ UNCHANGED <<exec, effect>>
        \/ effect' = [effect EXCEPT ![k] = r] /\ exec' = [exec EXCEPT ![k] = "recovery_required"]
    BY <1>10 DEF ApplyBegin
  <2>2. k \in Turns => r.phase = "recovery_required" BY <1>a DEF EffectRow
  <2> HIDE DEF k, r
  <2> QED BY <1>a, <2>1, <2>2
<1>11. CASE ApplyWaiting BY <1>11, <1>a
     DEF EffectRow, PairOf, EffectPending, RecoverablePair, ApplyWaiting,
         SetPair
<1>12. CASE ApplyDispatch
  <2> DEFINE k == driver["actor"].gen
             r == [effect[k] EXCEPT !.phase = "dispatching", !.dispatched = TRUE]
  <2>1. \/ UNCHANGED <<exec, effect>>
        \/ effect' = [effect EXCEPT ![k] = r] /\ exec' = exec
    BY <1>12 DEF ApplyDispatch
  <2>2. k \in Turns => r.phase = "dispatching" BY <1>a DEF EffectRow
  <2> HIDE DEF k, r
  <2> QED BY <1>a, <2>1, <2>2
<1>13. CASE ApplyIssued BY <1>13, <1>a
     DEF EffectRow, PairOf, EffectPending, RecoverablePair, ApplyIssued,
         SetPair
<1>14. CASE RecoverClaim
  <2> DEFINE k == driver["recon"].gen
             r == [effect[k] EXCEPT !.owner = "recon", !.expired = FALSE]
  <2>1. \/ UNCHANGED <<exec, effect>>
        \/ effect' = [effect EXCEPT ![k] = r] /\ exec' = exec
    BY <1>14 DEF RecoverClaim
  <2>2. k \in Turns => r.phase = effect[k].phase BY <1>a DEF EffectRow
  <2> HIDE DEF k, r
  <2> QED BY <1>a, <2>1, <2>2
<1>15. CASE RecoverBegin
  <2> DEFINE k == driver["recon"].gen
             r == [effect[k] EXCEPT !.owner = "none", !.expired = FALSE]
  <2>1. \/ UNCHANGED <<exec, effect>>
        \/ effect' = [effect EXCEPT ![k] = r] /\ exec' = exec
    BY <1>15 DEF RecoverBegin
  <2>2. k \in Turns => r.phase = effect[k].phase BY <1>a DEF EffectRow
  <2> HIDE DEF k, r
  <2> QED BY <1>a, <2>1, <2>2
<1>16. CASE RecoverWait BY <1>16, <1>a
     DEF EffectRow, PairOf, EffectPending, RecoverablePair, RecoverWait,
         SetPair
<1>17. CASE FinalizeNotStarted BY <1>17, <1>a
     DEF EffectRow, PairOf, EffectPending, RecoverablePair,
         FinalizeNotStarted
<1>18. CASE FinalizeGone BY <1>18, <1>a, SettleRows DEF FinalizeGone
<1>19. CASE TaskDeath BY <1>19, <1>a
     DEF EffectRow, PairOf, EffectPending, RecoverablePair, TaskDeath,
         SetPair
<1>20. CASE RecordStop BY <1>20, <1>a, SettleRows DEF RecordStop
<1>21. ASSUME NEW g \in Turns, Expire(g)
       PROVE  QuarantinedClaim(h)
  BY <1>21, <1>a DEF EffectRow, PairOf, EffectPending, RecoverablePair, Expire
<1>22. CASE UNCHANGED <<exec, effect>> BY <1>22
<1> QED BY <1>1, <1>2, <1>3, <1>4, <1>5, <1>6, <1>7, <1>8, <1>9, <1>10, <1>11,
     <1>12, <1>13, <1>14, <1>15, <1>16, <1>17, <1>18, <1>19, <1>20, <1>21, <1>22
     DEF RowAction, WaitNext, ApplyNext, Unmute, AgentInterrupt,
         LoadCandidate, Look, Inconclusive, LeaveQuarantined, AgentStop, durable

\* What the drivers rely on survives a row action, of their own or of another.
LEMMA RowActionDrivers ==
    ASSUME TurnInv, RowAction, RowsInv'
    PROVE  DriversInv'
<1> USE DEF Acts, Turnless
<1>a. /\ driver \in [Drivers -> DriverState] /\ exec \in [Turns -> ExecStates]
      /\ "actor" \in Drivers /\ "recon" \in Drivers /\ Drivers = {"actor", "recon"}
      /\ turn > 0 => turn \in 1..turn
      /\ 1..turn \subseteq Turns
  BY BoundsAssumption DEF TurnInv, TypeOK, Turns, Drivers
<1>b. /\ UNCHANGED <<turn, started, runtime, slot, task>>
      /\ \A g \in Turns : exec'[g] = "assigned" => exec[g] = "assigned"
  BY RowActionFrame DEF TurnInv, RowStep
<1>c. (\A d \in Drivers : DriverOf(d)) /\ DispatchOK /\ UnownedOK /\ SnapOK BY DEF TurnInv, DriversInv
<1>d. SUFFICES /\ \A e \in Drivers : DriverOf(e)'
               /\ UnownedOK' /\ SnapOK'
               /\ driver'["actor"].pc = "dispatch" =>
                    \/ /\ driver["actor"].pc = "dispatch" /\ ~ApplyClaim
                       /\ driver'["actor"].gen = driver["actor"].gen
                    \/ DispatchOK'
  <2>1. SUFFICES ASSUME driver["actor"].pc = "dispatch", ~ApplyClaim,
                        driver'["actor"].pc = "dispatch",
                        driver'["actor"].gen = driver["actor"].gen,
                        \A e \in Drivers : DriverOf(e)'
                 PROVE  DispatchOK'
    BY DEF DriversInv, DispatchOK
  <2> DEFINE h == driver["actor"].gen
  <2>2. h \in Turns BY <1>a, <1>c, <2>1 DEF DriverOf
  <2>3. \A g \in Turns : PairOf(g)' BY DEF RowsInv
  <2>4. ~QuarantinedClaim(h)' BY <1>c, <2>1, <2>2, NoNewClaim DEF DispatchOK, QuarantinedClaim
  <2> QED BY <2>1, <2>2, <2>3, <2>4
       DEF DispatchOK, PairOf, EffectPending, RecoverablePair, QuarantinedClaim
<1>1. ASSUME NEW d \in Drivers, CommitRunning(d)
      PROVE  /\ \A e \in Drivers : DriverOf(e)'
             /\ UnownedOK' /\ SnapOK'
             /\ driver'["actor"].pc = "dispatch" =>
                  \/ /\ driver["actor"].pc = "dispatch" /\ ~ApplyClaim
                     /\ driver'["actor"].gen = driver["actor"].gen
                  \/ DispatchOK'
  BY <1>1, <1>a, <1>b, <1>c, RunShape DEF DriverOf, SnapOK, CommitRunning, Yielded, UnownedOK, ApplyClaim
<1>2. ASSUME NEW d \in Drivers, CommitCompletion(d)
      PROVE  /\ \A e \in Drivers : DriverOf(e)'
             /\ UnownedOK' /\ SnapOK'
             /\ driver'["actor"].pc = "dispatch" =>
                  \/ /\ driver["actor"].pc = "dispatch" /\ ~ApplyClaim
                     /\ driver'["actor"].gen = driver["actor"].gen
                  \/ DispatchOK'
  BY <1>2, <1>a, <1>b, <1>c, RunShape DEF DriverOf, SnapOK, CommitCompletion, Yielded, UnownedOK, ApplyClaim
<1>3. ASSUME NEW d \in Drivers, CommitFailure(d)
      PROVE  /\ \A e \in Drivers : DriverOf(e)'
             /\ UnownedOK' /\ SnapOK'
             /\ driver'["actor"].pc = "dispatch" =>
                  \/ /\ driver["actor"].pc = "dispatch" /\ ~ApplyClaim
                     /\ driver'["actor"].gen = driver["actor"].gen
                  \/ DispatchOK'
  BY <1>3, <1>a, <1>b, <1>c, RunShape DEF DriverOf, SnapOK, CommitFailure, Yielded, UnownedOK, ApplyClaim
<1>4. ASSUME NEW d \in Drivers, CommitUncertain(d)
      PROVE  /\ \A e \in Drivers : DriverOf(e)'
             /\ UnownedOK' /\ SnapOK'
             /\ driver'["actor"].pc = "dispatch" =>
                  \/ /\ driver["actor"].pc = "dispatch" /\ ~ApplyClaim
                     /\ driver'["actor"].gen = driver["actor"].gen
                  \/ DispatchOK'
  BY <1>4, <1>a, <1>b, <1>c, RunShape DEF DriverOf, SnapOK, CommitUncertain, UnownedOK, ApplyClaim
<1>5. ASSUME NEW d \in Drivers, QuiescedRetained(d)
      PROVE  /\ \A e \in Drivers : DriverOf(e)'
             /\ UnownedOK' /\ SnapOK'
             /\ driver'["actor"].pc = "dispatch" =>
                  \/ /\ driver["actor"].pc = "dispatch" /\ ~ApplyClaim
                     /\ driver'["actor"].gen = driver["actor"].gen
                  \/ DispatchOK'
  BY <1>5, <1>a, <1>b, <1>c, RunShape DEF DriverOf, SnapOK, QuiescedRetained, UnownedOK, ApplyClaim
<1>6. ASSUME NEW d \in Drivers, QuiescedGone(d)
      PROVE  /\ \A e \in Drivers : DriverOf(e)'
             /\ UnownedOK' /\ SnapOK'
             /\ driver'["actor"].pc = "dispatch" =>
                  \/ /\ driver["actor"].pc = "dispatch" /\ ~ApplyClaim
                     /\ driver'["actor"].gen = driver["actor"].gen
                  \/ DispatchOK'
  BY <1>6, <1>a, <1>b, <1>c, RunShape DEF DriverOf, SnapOK, QuiescedGone, UnownedOK, ApplyClaim
<1>7. ASSUME NEW d \in Drivers, Unconfirmed(d)
      PROVE  /\ \A e \in Drivers : DriverOf(e)'
             /\ UnownedOK' /\ SnapOK'
             /\ driver'["actor"].pc = "dispatch" =>
                  \/ /\ driver["actor"].pc = "dispatch" /\ ~ApplyClaim
                     /\ driver'["actor"].gen = driver["actor"].gen
                  \/ DispatchOK'
  BY <1>7, <1>a, <1>b, <1>c, RunShape DEF DriverOf, SnapOK, Unconfirmed, UnownedOK, ApplyClaim
<1>8. ASSUME Mute
      PROVE  /\ \A e \in Drivers : DriverOf(e)'
             /\ UnownedOK' /\ SnapOK'
             /\ driver'["actor"].pc = "dispatch" =>
                  \/ /\ driver["actor"].pc = "dispatch" /\ ~ApplyClaim
                     /\ driver'["actor"].gen = driver["actor"].gen
                  \/ DispatchOK'
  BY <1>8, <1>a, <1>b, <1>c, RunShape DEF DriverOf, SnapOK, Mute, TurnOpen, UnownedOK, ApplyClaim
<1>9. ASSUME Unmute
      PROVE  /\ \A e \in Drivers : DriverOf(e)'
             /\ UnownedOK' /\ SnapOK'
             /\ driver'["actor"].pc = "dispatch" =>
                  \/ /\ driver["actor"].pc = "dispatch" /\ ~ApplyClaim
                     /\ driver'["actor"].gen = driver["actor"].gen
                  \/ DispatchOK'
  BY <1>9, <1>a, <1>b, <1>c, RunShape DEF DriverOf, SnapOK, Unmute, UnownedOK, ApplyClaim
<1>10. ASSUME AgentInterrupt
       PROVE  /\ \A e \in Drivers : DriverOf(e)'
              /\ UnownedOK' /\ SnapOK'
              /\ driver'["actor"].pc = "dispatch" =>
                   \/ /\ driver["actor"].pc = "dispatch" /\ ~ApplyClaim
                      /\ driver'["actor"].gen = driver["actor"].gen
                   \/ DispatchOK'
  BY <1>10, <1>a, <1>b, <1>c, RunShape DEF DriverOf, SnapOK, AgentInterrupt, UnownedOK, ApplyClaim
<1>11. ASSUME AgentInterruptCommit
       PROVE  /\ \A e \in Drivers : DriverOf(e)'
              /\ UnownedOK' /\ SnapOK'
              /\ driver'["actor"].pc = "dispatch" =>
                   \/ /\ driver["actor"].pc = "dispatch" /\ ~ApplyClaim
                      /\ driver'["actor"].gen = driver["actor"].gen
                   \/ DispatchOK'
  BY <1>11, <1>a, <1>b, <1>c, RunShape DEF DriverOf, SnapOK, AgentInterruptCommit, TurnOpen, UnownedOK,
     ApplyClaim
<1>12. ASSUME ApplyClaim
       PROVE  /\ \A e \in Drivers : DriverOf(e)'
              /\ UnownedOK' /\ SnapOK'
              /\ driver'["actor"].pc = "dispatch" =>
                   \/ /\ driver["actor"].pc = "dispatch" /\ ~ApplyClaim
                      /\ driver'["actor"].gen = driver["actor"].gen
                   \/ DispatchOK'
  BY <1>12, <1>a, <1>b, <1>c, RunShape DEF DriverOf, SnapOK, ApplyClaim, UnownedOK
<1>13. ASSUME ApplyBegin
       PROVE  /\ \A e \in Drivers : DriverOf(e)'
              /\ UnownedOK' /\ SnapOK'
              /\ driver'["actor"].pc = "dispatch" =>
                   \/ /\ driver["actor"].pc = "dispatch" /\ ~ApplyClaim
                      /\ driver'["actor"].gen = driver["actor"].gen
                   \/ DispatchOK'
  <2>1. ASSUME NEW e \in Drivers PROVE DriverOf(e)'
    BY <1>13, <1>a, <1>b, <1>c, RunShape DEF DriverOf, SnapOK, ApplyBegin
  <2>2. UnownedOK' BY <1>13, <1>a, <1>b, <1>c, RunShape
       DEF UnownedOK, SnapOK, DriverOf, ApplyBegin
  <2>3. SnapOK' BY <1>13, <1>a, <1>b, <1>c, RunShape DEF SnapOK, DriverOf, ApplyBegin
  <2>4. driver'["actor"].pc = "dispatch" => DispatchOK'
    <3> SUFFICES ASSUME driver'["actor"].pc = "dispatch"
                 PROVE  DispatchOK'
      OBVIOUS
    <3> DEFINE g == driver["actor"].gen
    <3>1. /\ runtime = "running" /\ slot # 0 /\ prep[slot].gen = g
          /\ prep[slot].phase = "entered"
          /\ driver'["actor"].gen = g /\ UNCHANGED <<exec, effect>>
      <4>1. /\ BeginsAt("actor", g, "mark_waiting", "dispatch", "mark_waiting")
            /\ UNCHANGED <<exec, effect>>
        BY <1>13, <1>a, RunShape DEF ApplyBegin
      <4>2. driver'["actor"].gen = g /\ prep[slot].phase = "entered" BY <4>1, <1>a, RunShape
      <4> QED BY <4>1, <4>2 DEF BeginsAt
    <3>2. PICK t \in TaskIds : task[t].pc = "io" /\ task[t].prep = slot BY <3>1 DEF TurnInv, SlotInv, EnteredActs
    <3>3. /\ task[t].gen = g /\ g \in Turns
          /\ exec[g] = "recovery_required" =>
                effect[g].phase = "recovery_required"
      BY <3>1, <3>2, <1>a DEF TurnInv, TasksInv, TaskOf, QuarantineOf
    <3>4. PairOf(g) BY <3>3 DEF TurnInv, RowsInv
    <3> HIDE DEF g
    <3> QED BY <3>1, <3>3, <3>4
         DEF DispatchOK, PairOf, EffectPending, RecoverablePair,
             QuarantinedClaim
  <2> QED BY <2>1, <2>2, <2>3, <2>4
<1>14. ASSUME ApplyWaiting
       PROVE  /\ \A e \in Drivers : DriverOf(e)'
              /\ UnownedOK' /\ SnapOK'
              /\ driver'["actor"].pc = "dispatch" =>
                   \/ /\ driver["actor"].pc = "dispatch" /\ ~ApplyClaim
                      /\ driver'["actor"].gen = driver["actor"].gen
                   \/ DispatchOK'
  BY <1>14, <1>a, <1>b, <1>c, RunShape DEF DriverOf, SnapOK, ApplyWaiting, UnownedOK, ApplyClaim
<1>15. ASSUME ApplyDispatch
       PROVE  /\ \A e \in Drivers : DriverOf(e)'
              /\ UnownedOK' /\ SnapOK'
              /\ driver'["actor"].pc = "dispatch" =>
                   \/ /\ driver["actor"].pc = "dispatch" /\ ~ApplyClaim
                      /\ driver'["actor"].gen = driver["actor"].gen
                   \/ DispatchOK'
  BY <1>15, <1>a, <1>b, <1>c, RunShape DEF DriverOf, SnapOK, ApplyDispatch, UnownedOK, ApplyClaim
<1>16. ASSUME ApplyIssued
       PROVE  /\ \A e \in Drivers : DriverOf(e)'
              /\ UnownedOK' /\ SnapOK'
              /\ driver'["actor"].pc = "dispatch" =>
                   \/ /\ driver["actor"].pc = "dispatch" /\ ~ApplyClaim
                      /\ driver'["actor"].gen = driver["actor"].gen
                   \/ DispatchOK'
  BY <1>16, <1>a, <1>b, <1>c, RunShape DEF DriverOf, SnapOK, ApplyIssued, UnownedOK, ApplyClaim
<1>17. ASSUME LoadCandidate
       PROVE  /\ \A e \in Drivers : DriverOf(e)'
              /\ UnownedOK' /\ SnapOK'
              /\ driver'["actor"].pc = "dispatch" =>
                   \/ /\ driver["actor"].pc = "dispatch" /\ ~ApplyClaim
                      /\ driver'["actor"].gen = driver["actor"].gen
                   \/ DispatchOK'
  BY <1>17, <1>a, <1>b, <1>c, RunShape DEF DriverOf, SnapOK, LoadCandidate, TurnOpen, UnownedOK, ApplyClaim
<1>18. ASSUME RecoverClaim
       PROVE  /\ \A e \in Drivers : DriverOf(e)'
              /\ UnownedOK' /\ SnapOK'
              /\ driver'["actor"].pc = "dispatch" =>
                   \/ /\ driver["actor"].pc = "dispatch" /\ ~ApplyClaim
                      /\ driver'["actor"].gen = driver["actor"].gen
                   \/ DispatchOK'
  BY <1>18, <1>a, <1>b, <1>c, RunShape DEF DriverOf, SnapOK, RecoverClaim, UnownedOK, ApplyClaim
<1>19. ASSUME RecoverBegin
       PROVE  /\ \A e \in Drivers : DriverOf(e)'
              /\ UnownedOK' /\ SnapOK'
              /\ driver'["actor"].pc = "dispatch" =>
                   \/ /\ driver["actor"].pc = "dispatch" /\ ~ApplyClaim
                      /\ driver'["actor"].gen = driver["actor"].gen
                   \/ DispatchOK'
  BY <1>19, <1>a, <1>b, <1>c, RunShape DEF DriverOf, SnapOK, RecoverBegin, UnownedOK, ApplyClaim
<1>20. ASSUME RecoverWait
       PROVE  /\ \A e \in Drivers : DriverOf(e)'
              /\ UnownedOK' /\ SnapOK'
              /\ driver'["actor"].pc = "dispatch" =>
                   \/ /\ driver["actor"].pc = "dispatch" /\ ~ApplyClaim
                      /\ driver'["actor"].gen = driver["actor"].gen
                   \/ DispatchOK'
  BY <1>20, <1>a, <1>b, <1>c, RunShape DEF DriverOf, SnapOK, RecoverWait, UnownedOK, ApplyClaim
<1>21. ASSUME Look
       PROVE  /\ \A e \in Drivers : DriverOf(e)'
              /\ UnownedOK' /\ SnapOK'
              /\ driver'["actor"].pc = "dispatch" =>
                   \/ /\ driver["actor"].pc = "dispatch" /\ ~ApplyClaim
                      /\ driver'["actor"].gen = driver["actor"].gen
                   \/ DispatchOK'
  <2> DEFINE r == [driver["recon"] EXCEPT !.pc = "commit",
                                         !.result = prep[slot].result]
             h == driver["recon"].gen
  <2>a. /\ h \in 1..turn /\ h \in Turns
        /\ driver["recon"].snap.exec \in Open
        /\ driver["recon"].snap.exec # "assigned" => exec[h] # "assigned"
    BY <1>21, <1>a, <1>c DEF Look, DriverOf, SnapOK
  <2>b. /\ UNCHANGED <<exec, started, slot, task>>
        /\ \/ EndRun("recon") \/ Goto("recon", "not_started")
           \/ Goto("recon", "unowned") /\ ~OwnsTurn(h)
           \/ /\ driver' = [driver EXCEPT !["recon"] = r]
              /\ slot # 0 /\ prep[slot].gen = h
              /\ prep[slot].phase \in {"result_retained", "result_uncertain"}
    BY <1>21 DEF Look, OwnsTurn, durable, adapter
  <2>c. /\ r.pc = "commit" /\ r.gen = h /\ r.prep = driver["recon"].prep
        /\ r.snap = driver["recon"].snap
    BY <1>a DEF DriverState
  <2>d. ASSUME ~OwnsTurn(h), NEW t \in TaskIds, Acts(t), task[t].gen = h
        PROVE  slot # task[t].prep
    BY <2>d DEF TurnInv, TasksInv, TaskOf, SlotInv, SlotOK, TaskIds, OwnsTurn
  <2>e. slot # 0 /\ prep[slot].gen = h
        /\ prep[slot].phase \in {"result_retained", "result_uncertain"} =>
          started[h] /\ \A t \in TaskIds : Acts(t) => task[t].gen # h
    BY DEF TurnInv, TypeOK, TaskIds, SlotInv, ResultIsLast
  <2> HIDE DEF r, h
  <2>1. ASSUME NEW e \in Drivers PROVE DriverOf(e)' BY <1>a, <1>b, <1>c, <2>a, <2>b, <2>c, <2>e, RunShape
       DEF DriverOf, Turnless, h
  <2>2. UnownedOK' BY <1>a, <1>b, <2>a, <2>b, <2>c, <2>d, RunShape DEF UnownedOK, h
  <2>3. SnapOK' BY <1>a, <1>b, <2>a, <2>b, <2>c, RunShape DEF SnapOK, h
  <2>4. driver'["actor"].pc = "dispatch" =>
           /\ driver["actor"].pc = "dispatch" /\ ~ApplyClaim
           /\ driver'["actor"].gen = driver["actor"].gen
    BY <1>21, <1>a, <1>b, <1>c, RunShape DEF ApplyClaim, Look
  <2> QED BY <2>1, <2>2, <2>3, <2>4
<1>22. ASSUME FinalizeNotStarted
       PROVE  /\ \A e \in Drivers : DriverOf(e)'
              /\ UnownedOK' /\ SnapOK'
              /\ driver'["actor"].pc = "dispatch" =>
                   \/ /\ driver["actor"].pc = "dispatch" /\ ~ApplyClaim
                      /\ driver'["actor"].gen = driver["actor"].gen
                   \/ DispatchOK'
  BY <1>22, <1>a, <1>b, <1>c, RunShape DEF DriverOf, SnapOK, FinalizeNotStarted, UnownedOK, ApplyClaim
<1>23. ASSUME FinalizeGone
       PROVE  /\ \A e \in Drivers : DriverOf(e)'
              /\ UnownedOK' /\ SnapOK'
              /\ driver'["actor"].pc = "dispatch" =>
                   \/ /\ driver["actor"].pc = "dispatch" /\ ~ApplyClaim
                      /\ driver'["actor"].gen = driver["actor"].gen
                   \/ DispatchOK'
  BY <1>23, <1>a, <1>b, <1>c, RunShape DEF DriverOf, SnapOK, FinalizeGone, UnownedOK, ApplyClaim
<1>24. ASSUME Inconclusive
       PROVE  /\ \A e \in Drivers : DriverOf(e)'
              /\ UnownedOK' /\ SnapOK'
              /\ driver'["actor"].pc = "dispatch" =>
                   \/ /\ driver["actor"].pc = "dispatch" /\ ~ApplyClaim
                      /\ driver'["actor"].gen = driver["actor"].gen
                   \/ DispatchOK'
  BY <1>24, <1>a, <1>b, <1>c, RunShape DEF DriverOf, SnapOK, Inconclusive, UnownedOK, ApplyClaim
<1>25. ASSUME TaskDeath
       PROVE  /\ \A e \in Drivers : DriverOf(e)'
              /\ UnownedOK' /\ SnapOK'
              /\ driver'["actor"].pc = "dispatch" =>
                   \/ /\ driver["actor"].pc = "dispatch" /\ ~ApplyClaim
                      /\ driver'["actor"].gen = driver["actor"].gen
                   \/ DispatchOK'
  BY <1>25, <1>a, <1>b, <1>c, RunShape DEF DriverOf, SnapOK, TaskDeath, UnownedOK, ApplyClaim
<1>26. ASSUME LeaveQuarantined
       PROVE  /\ \A e \in Drivers : DriverOf(e)'
              /\ UnownedOK' /\ SnapOK'
              /\ driver'["actor"].pc = "dispatch" =>
                   \/ /\ driver["actor"].pc = "dispatch" /\ ~ApplyClaim
                      /\ driver'["actor"].gen = driver["actor"].gen
                   \/ DispatchOK'
  BY <1>26, <1>a, <1>b, <1>c, RunShape DEF DriverOf, SnapOK, LeaveQuarantined, UnownedOK, ApplyClaim
<1>27. ASSUME AgentStop
       PROVE  /\ \A e \in Drivers : DriverOf(e)'
              /\ UnownedOK' /\ SnapOK'
              /\ driver'["actor"].pc = "dispatch" =>
                   \/ /\ driver["actor"].pc = "dispatch" /\ ~ApplyClaim
                      /\ driver'["actor"].gen = driver["actor"].gen
                   \/ DispatchOK'
  BY <1>27, <1>a, <1>b, <1>c, RunShape DEF DriverOf, SnapOK, AgentStop, UnownedOK, ApplyClaim
<1>28. ASSUME RecordStop
       PROVE  /\ \A e \in Drivers : DriverOf(e)'
              /\ UnownedOK' /\ SnapOK'
              /\ driver'["actor"].pc = "dispatch" =>
                   \/ /\ driver["actor"].pc = "dispatch" /\ ~ApplyClaim
                      /\ driver'["actor"].gen = driver["actor"].gen
                   \/ DispatchOK'
  BY <1>28, <1>a, <1>b, <1>c, RunShape DEF DriverOf, SnapOK, RecordStop, TurnOpen, UnownedOK, ApplyClaim
<1>29. ASSUME NEW g \in Turns, Expire(g)
       PROVE  /\ \A e \in Drivers : DriverOf(e)'
              /\ UnownedOK' /\ SnapOK'
              /\ driver'["actor"].pc = "dispatch" =>
                   \/ /\ driver["actor"].pc = "dispatch" /\ ~ApplyClaim
                      /\ driver'["actor"].gen = driver["actor"].gen
                   \/ DispatchOK'
  BY <1>29, <1>a, <1>b, <1>c, RunShape DEF DriverOf, SnapOK, Expire, UnownedOK, ApplyClaim
<1> QED BY <1>1, <1>2, <1>3, <1>4, <1>5, <1>6, <1>7, <1>8, <1>9, <1>10, <1>11,
     <1>12, <1>13, <1>14, <1>15, <1>16, <1>17, <1>18, <1>19, <1>20, <1>21,
     <1>22, <1>23, <1>24, <1>25, <1>26, <1>27, <1>28, <1>29
     DEF RowAction, WaitNext, ApplyNext


\* A step that gives no task the authority to act, changes no row of a turn
\* that has begun, and at most ends the run of a driver.
Quiet ==
    /\ \A u \in TaskIds :
         Acts(u)' => /\ Acts(u)
                     /\ task'[u].gen = task[u].gen /\ task'[u].prep = task[u].prep
                     /\ slot' = task[u].prep => slot = task[u].prep
    /\ \A g \in 1..turn : /\ exec'[g] = exec[g] /\ effect'[g] = effect[g]
                          /\ started'[g] = started[g] /\ g \in 1..turn'
    /\ \A d \in Drivers :
         \/ driver'[d] = driver[d]
         \/ driver'[d].pc = "stopped"
         \/ driver'[d].pc = "idle" /\ driver'[d].gen = 0 /\ driver'[d].prep = 0

\* What the drivers rely on survives such a step.
LEMMA QuietDrivers ==
    ASSUME TurnInv, Quiet
    PROVE  DriversInv'
<1> USE DEF Turnless
<1>1. /\ (\A d \in Drivers : DriverOf(d)) /\ DispatchOK /\ UnownedOK /\ SnapOK
      /\ "actor" \in Drivers /\ "recon" \in Drivers
      /\ \A t \in TaskIds : Acts(t) => task[t].gen \in 1..turn
  BY Literals DEF TurnInv, DriversInv, TasksInv, TaskOf, Acts
<1>2. ASSUME NEW d \in Drivers PROVE DriverOf(d)' BY <1>1, <1>2 DEF Quiet, DriverOf
<1>3. DispatchOK' BY <1>1 DEF Quiet, DriverOf, DispatchOK
<1>4. UnownedOK' BY <1>1 DEF UnownedOK, Quiet, DriverOf
<1>5. SnapOK' BY <1>1 DEF Quiet, DriverOf, SnapOK
<1> QED BY <1>2, <1>3, <1>4, <1>5 DEF DriversInv

\* What the drivers rely on survives a step of a task, and the steps that
\* spawn, stop, release or restart.
LEMMA TurnActionDrivers ==
    ASSUME TurnInv, TurnAction
    PROVE  DriversInv'
<1> USE DEF Acts
<1>a. /\ exec \in [Turns -> ExecStates] /\ started \in [Turns -> BOOLEAN]
      /\ task \in [TaskIds -> TaskState] /\ driver \in [Drivers -> DriverState]
      /\ turn \in Nat /\ 0 \notin TaskIds /\ 1..turn \subseteq Turns
      /\ turn + 1 \notin 1..turn /\ 1..turn \subseteq 1..(turn + 1)
      /\ "actor" \in Drivers /\ "recon" \in Drivers /\ TypeOK
  BY BoundsAssumption, Literals DEF TurnInv, TypeOK, TaskIds, Turns
<1>b. \A t \in TaskIds : TaskOf(t) /\ FreshOf(t) BY DEF TurnInv, TasksInv
<1>1. CASE Assign BY <1>1, <1>a, QuietDrivers DEF Assign, Spawn, NoTask, Quiet
<1>2. ASSUME NEW t \in TaskIds, Prepare(t)
      PROVE  DriversInv'
  BY <1>2, <1>a, <1>b, PrepareShape, QuietDrivers DEF FreshOf, Quiet
<1>3. ASSUME NEW t \in TaskIds, AuthorizeStart(t)
      PROVE  DriversInv'
  <2> DEFINE g == task[t].gen
             r == [task[t] EXCEPT !.pc = "authorized"]
             s == [task[t] EXCEPT !.pc = "refused"]
  <2>1. UNCHANGED <<turn, effect, slot, driver>> /\ task[t].pc = "prepared" BY <1>3 DEF AuthorizeStart, adapter
  <2>2. /\ g \in 1..turn /\ g \in Turns
        /\ exec[g] = "assigned" => ~started[g]
    BY <1>a, <1>b, <2>1 DEF TaskOf, TurnInv, RowsInv, RowOf
  <2>3. /\ r.pc = "authorized" /\ r.gen = g /\ r.prep = task[t].prep
        /\ s.pc = "refused"
    BY <1>a DEF TaskState
  <2>4. \/ /\ exec[g] = "assigned"
           /\ exec' = [exec EXCEPT ![g] = "start_dispatching"]
           /\ started' = [started EXCEPT ![g] = TRUE]
           /\ task' = [task EXCEPT ![t] = r]
        \/ task' = [task EXCEPT ![t] = s] /\ UNCHANGED <<exec, started>>
    BY <1>3 DEF AuthorizeStart
  <2> HIDE DEF g, r, s
  <2>5. CASE task' = [task EXCEPT ![t] = s] /\ UNCHANGED <<exec, started>>
    BY <1>a, <2>1, <2>3, <2>5, QuietDrivers DEF Quiet
  <2>6. CASE /\ exec[g] = "assigned"
             /\ exec' = [exec EXCEPT ![g] = "start_dispatching"]
             /\ started' = [started EXCEPT ![g] = TRUE]
             /\ task' = [task EXCEPT ![t] = r]
    BY <1>a, <2>1, <2>2, <2>3, <2>6 DEF TurnInv, DriversInv, DriverOf, DispatchOK, UnownedOK, SnapOK
  <2> QED BY <2>4, <2>5, <2>6
<1>4. ASSUME NEW t \in TaskIds, TaskPanics(t)
      PROVE  DriversInv'
  BY <1>4, <1>a, QuietDrivers DEF TaskPanics, TaskState, durable, adapter, Quiet
<1>5. ASSUME NEW t \in TaskIds, RetainUnstarted(t)
      PROVE  DriversInv'
  BY <1>5, <1>a, QuietDrivers DEF RetainUnstarted, DoneTask, NoTask, TaskState, durable, adapter, Quiet
<1>6. ASSUME NEW t \in TaskIds, AuthorityUnresolved(t)
      PROVE  DriversInv'
  BY <1>6, <1>a, QuietDrivers DEF AuthorityUnresolved, TaskState, durable, adapter, Quiet
<1>7. ASSUME NEW t \in TaskIds, Enter(t)
      PROVE  DriversInv'
  BY <1>7, <1>a, EnterShape, QuietDrivers DEF Quiet
<1>8. ASSUME NEW t \in TaskIds, NEW r \in Results \ {"none"}, Finish(t, r)
      PROVE  DriversInv'
  BY <1>8, <1>a, QuietDrivers DEF Finish, TaskState, durable, adapter, Quiet
<1>9. ASSUME NEW t \in TaskIds, TakeResult(t)
      PROVE  DriversInv'
  <2> DEFINE r == [Idle EXCEPT !.pc = "commit", !.gen = task[t].gen,
                              !.result = task[t].result]
  <2>1. /\ UNCHANGED <<turn, exec, started, effect, slot>>
        /\ task[t].pc = "reported" /\ driver' = [driver EXCEPT !["actor"] = r]
        /\ task' = [task EXCEPT ![t] = DoneTask]
    BY <1>9 DEF TakeResult, durable, adapter
  <2>2. r.pc = "commit" /\ r.gen = task[t].gen /\ DoneTask.pc = "done" BY DEF Idle, DoneTask, NoTask
  <2> HIDE DEF r
  <2>3. /\ task[t].gen \in 1..turn /\ started[task[t].gen]
        /\ \A u \in TaskIds : Acts(u) /\ u # t => task[u].gen # task[t].gen
    BY <1>b, <2>1 DEF TaskOf, TurnInv, SlotInv, OneAuthority
  <2>4. (\A d \in Drivers : DriverOf(d)) /\ DispatchOK /\ UnownedOK /\ SnapOK BY DEF TurnInv, DriversInv
  <2>5. \A u \in TaskIds : Acts(u)' => u # t /\ task'[u] = task[u] BY <1>a, <2>1, <2>2
  <2>6. driver'["actor"] = r /\ driver'["recon"] = driver["recon"] BY <1>a, <2>1
  <2>7. ASSUME NEW d \in Drivers PROVE DriverOf(d)'
    BY <1>a, <2>1, <2>2, <2>3, <2>4, <2>5, <2>6 DEF DriverOf, Drivers, Turnless
  <2>8. DispatchOK' /\ SnapOK' BY <2>1, <2>2, <2>4, <2>6 DEF DispatchOK, SnapOK
  <2>9. UnownedOK' BY <2>1, <2>4, <2>5, <2>6 DEF UnownedOK
  <2> QED BY <2>7, <2>8, <2>9 DEF DriversInv
<1>10. CASE RecoverAssigned
  <2>1. \A u \in TaskIds : task'[u] = task[u] \/ task'[u].pc = "spawned"
    BY <1>10, <1>a DEF RecoverAssigned, Spawn, NoTask
  <2>2. /\ UNCHANGED <<turn, exec, started, effect, slot>> /\ EndRun("recon")
    BY <1>10 DEF RecoverAssigned, durable, adapter
  <2> QED BY <1>a, <2>1, <2>2, RunShape, QuietDrivers DEF Quiet
<1>11. ASSUME NEW d \in Drivers, Release(d)
       PROVE  DriversInv'
  BY <1>11, <1>a, <1>b, RunShape, QuietDrivers DEF Release, durable, adapter, TaskOf, Quiet
<1>12. ASSUME NEW d \in Drivers, Vacate(d)
       PROVE  DriversInv'
  BY <1>12, <1>a, <1>b, RunShape, QuietDrivers DEF Vacate, durable, adapter, TaskOf, Quiet
<1>13. CASE StopRuntime
  <2>1. Goto("actor", "stopped") /\ UNCHANGED <<turn, exec, started, effect>> BY <1>13 DEF StopRuntime, durable
  <2>2. slot' \in {0, slot} /\ \A u \in TaskIds : Acts(u)' => task'[u] = task[u]
    <3>1. CASE UNCHANGED <<adapter, task>> BY <3>1 DEF adapter
    <3>2. ASSUME NEW r, slot' = 0,
                 task' = [u \in TaskIds |->
                            IF task[u].pc = "io"
                            THEN [task[u] EXCEPT !.pc = "reported", !.result = r]
                            ELSE task[u]]
          PROVE  slot' \in {0, slot}
                 /\ \A u \in TaskIds : Acts(u)' => task'[u] = task[u]
      BY <1>a, <3>2 DEF TaskState
    <3> QED BY <1>13, <3>1, <3>2 DEF StopRuntime
  <2>3. \A u \in TaskIds : Acts(u) => task[u].prep # 0 BY <1>a, <1>b DEF TaskOf
  <2> QED BY <1>a, <2>1, <2>2, <2>3, RunShape, QuietDrivers DEF Quiet
<1>14. CASE StartRuntime BY <1>14, QuietDrivers DEF Quiet, StartRuntime
<1>15. CASE Restart BY <1>15, <1>a, QuietDrivers DEF Restart, NoTask, DoneTask, durable, Idle, Quiet
<1> QED BY <1>1, <1>2, <1>3, <1>4, <1>5, <1>6, <1>7, <1>8, <1>9, <1>10, <1>11,
     <1>12, <1>13, <1>14, <1>15
     DEF TurnAction, TaskNext


------------------------
(* The first layer holds.                                                   *)

\* It holds before the first turn.
LEMMA TurnInvInit ==
    ASSUME Init
    PROVE  TurnInv
<1> USE DEF Init, Acts
<1>a. /\ NoEffect.phase = "none" /\ NoTask.pc = "none" /\ NoTask.gen = 0
      /\ NoTask.prep = 0 /\ NoPrep.phase = "none" /\ NoPrep.gen = 0
      /\ Idle.pc = "idle" /\ Idle.gen = 0 /\ Idle.prep = 0
      /\ 0 \notin TaskIds /\ \A g \in Turns : g \in Nat /\ g > 0
      /\ "actor" \in Drivers /\ "recon" \in Drivers
  BY BoundsAssumption, Literals
     DEF NoEffect, NoTask, NoPrep, Idle, TaskIds, Turns
<1>1. TypeOK BY BoundsAssumption, EmptyRecords, Literals DEF TypeOK, RuntimeStates, ExecStates
<1>2. RowsInv BY <1>a
     DEF RowsInv, RowOf, PairOf, EffectPending, RecoverablePair, QuarantinedClaim
<1>3. TasksInv BY <1>a DEF TasksInv, TaskOf, FreshOf, QuarantineOf
<1>4. SlotInv BY <1>a DEF SlotInv, OneAuthority, ActsInSlot, SlotOK, ResultIsLast, EnteredActs
<1>5. DriversInv BY <1>a DEF DriversInv, DriverOf, DispatchOK, UnownedOK, SnapOK, Turnless
<1> QED BY <1>1, <1>2, <1>3, <1>4, <1>5 DEF TurnInv

\* Every step keeps it.
LEMMA TurnInvStep ==
    ASSUME TurnInv, [Next]_vars
    PROVE  TurnInv'
<1>1. TypeOK' BY StepTypes DEF TurnInv
<1>2. RowsInv' BY StepRows
<1>3. CASE RowAction
  BY <1>3, RowActionFrame, RowStepTasks, RowActionQuarantine, <1>2, RowActionDrivers, <1>1 DEF TurnInv,
     TasksInv, TaskSlotInv
<1>4. CASE TurnAction
  BY <1>4, TurnActionTasks, TurnActionQuarantine, TurnActionDrivers, <1>1, <1>2 DEF TurnInv, TasksInv,
     TaskSlotInv
<1>5. CASE UNCHANGED vars
  <2> USE <1>5 DEF vars, durable, adapter, counters, TurnInv, Acts
  <2>1. TasksInv' BY DEF TasksInv, TaskOf, FreshOf, QuarantineOf
  <2>2. SlotInv' BY DEF SlotInv, OneAuthority, ActsInSlot, SlotOK, ResultIsLast, EnteredActs
  <2>3. DriversInv' BY DEF DriversInv, DriverOf, DispatchOK, UnownedOK, SnapOK
  <2> QED BY <1>1, <1>2, <2>1, <2>2, <2>3
<1> QED BY <1>3, <1>4, <1>5, TwoKinds

\* One task at a time may act on a turn, whatever the reconciler hands out, and
\* the execution row and the interrupt row of every turn stay a pair.
THEOREM TurnInvariant == Spec => []TurnInv
<1>1. Init => TurnInv BY TurnInvInit
<1>2. TurnInv /\ [Next]_vars => TurnInv' BY TurnInvStep
<1> QED BY <1>1, <1>2, PTL DEF Spec

\* Every variable keeps its type.
THEOREM TypeCorrect == Spec => []TypeOK
<1>1. TurnInv => TypeOK BY DEF TurnInv
<1> QED BY <1>1, TurnInvariant, PTL

\* The execution row and the interrupt row, written by different transactions
\* of different processes, never contradict each other.
THEOREM PairsAgree == Spec => []PairConsistent
<1>1. TurnInv => PairConsistent BY DEF TurnInv, RowsInv, PairOf, PairConsistent
<1> QED BY <1>1, TurnInvariant, PTL

------------------------
(* The second layer, for a reconciler that hands out no turn twice.         *)

\* A task that may act on the turn in the slot: the preparation is its own and
\* not yet quiesced, and the runtime runs.
LEMMA HeldTurn ==
    ASSUME TurnInv, ExactInv, NEW t \in TaskIds, Acts(t), slot = task[t].prep
    PROVE  /\ slot = t /\ prep[t].gen = task[t].gen /\ task[t].gen \in 1..turn
           /\ prep[t].phase \in {"preparing", "entered"}
           /\ prep[t].result # "stopped"
           /\ runtime = "running"
           /\ \A p \in TaskIds : prep[p].gen = task[t].gen => p = t
           /\ started[task[t].gen] /\ exec[task[t].gen] # "assigned"
           /\ exec[task[t].gen] \in Open
<1> USE DEF Acts
<1>1. /\ TaskOf(t) /\ PhaseOf(t) /\ DoorOf(t) /\ task[t].prep \in {0, t}
      /\ ActsInSlot /\ SlotOK /\ OwnPreparation /\ 0 \notin TaskIds
  BY DEF TurnInv, TasksInv, SlotInv, ExactInv, OwnTask, TaskIds
<1>2. /\ slot = t /\ prep[t].gen = task[t].gen /\ task[t].gen \in 1..turn
      /\ prep[t].phase \in {"preparing", "entered"} /\ prep[t].result # "stopped"
      /\ started[task[t].gen] /\ exec[task[t].gen] \in Open
  BY <1>1 DEF TaskOf, PhaseOf, DoorOf, ActsInSlot
<1>3. runtime = "running" BY <1>1, <1>2 DEF SlotOK
<1>4. \A p \in TaskIds : prep[p].gen = task[t].gen => p = t BY <1>1, <1>2 DEF OwnPreparation
<1>5. task[t].gen \in Turns BY <1>2, BoundsAssumption DEF TurnInv, TypeOK, Turns
<1>6. exec[task[t].gen] # "assigned" BY <1>2, <1>5 DEF TurnInv, RowsInv, RowOf
<1> QED BY <1>2, <1>3, <1>4, <1>6

\* Nobody is able to act on turn g any more.
OutOfReach(g) ==
    \A t \in TaskIds : Acts(t) /\ task[t].gen = g => slot # task[t].prep

KeepsLives ==
    \A g \in Turns : \/ exec'[g] = exec[g]
                     \/ exec[g] \in Open /\ exec'[g] \in Open

EndsTurn(g) ==
    /\ exec[g] \in Open /\ OutOfReach(g)
    /\ exec'[g] \in Terminal
    /\ exec'[g] = "completed" => started[g]
    /\ \A h \in Turns : h # g => exec'[h] = exec[h]

\* What a row action does to the lives of the turns: nothing, or it ends one
\* open turn that is out of reach.
LEMMA RowActionEnds ==
    ASSUME TurnInv, ExactInv, RowAction
    PROVE  KeepsLives \/ \E g \in Turns : EndsTurn(g)
<1> USE DEF Open, Terminal
<1>a. /\ exec \in [Turns -> ExecStates] /\ effect \in [Turns -> EffectRow]
      /\ "actor" \in Drivers /\ "recon" \in Drivers
      /\ turn > 0 => turn \in Turns
      /\ 1..turn \subseteq Turns /\ turn \in Nat
  BY BoundsAssumption, Literals DEF TurnInv, TypeOK, Turns
<1>b. \A d \in Drivers :
        /\ driver[d].pc \notin Turnless => driver[d].gen \in Turns
        /\ driver[d].pc \in {"commit", "complete"} =>
             /\ started[driver[d].gen] /\ OutOfReach(driver[d].gen)
  BY <1>a DEF TurnInv, DriversInv, DriverOf, OutOfReach
<1>c. \A t \in TaskIds : Acts(t) /\ slot = task[t].prep => runtime = "running" BY HeldTurn
<1>1. ASSUME NEW d \in Drivers, CommitRunning(d)
      PROVE  KeepsLives \/ \E g \in Turns : EndsTurn(g)
  BY <1>1, <1>a DEF KeepsLives, CommitRunning
<1>2. ASSUME NEW d \in Drivers, CommitCompletion(d)
      PROVE  KeepsLives \/ \E g \in Turns : EndsTurn(g)
  <2> DEFINE g == driver[d].gen
  <2>1. g \in Turns /\ started[g] /\ OutOfReach(g) BY <1>2, <1>b DEF CommitCompletion, Turnless
  <2>2. \/ UNCHANGED exec
        \/ /\ exec[g] \in {"start_dispatching", "running"}
           /\ \E x \in {"completed", "failed"} : exec' = [exec EXCEPT ![g] = x]
    BY <1>2 DEF CommitCompletion, OrdinaryEndAllowed
  <2> HIDE DEF g
  <2> QED BY <1>a, <2>1, <2>2 DEF KeepsLives, EndsTurn
<1>3. ASSUME NEW d \in Drivers, CommitFailure(d)
      PROVE  KeepsLives \/ \E g \in Turns : EndsTurn(g)
  <2> DEFINE g == driver[d].gen
  <2>1. g \in Turns /\ started[g] /\ OutOfReach(g) BY <1>3, <1>b DEF CommitFailure, Turnless
  <2>2. \/ UNCHANGED exec
        \/ /\ exec[g] \in {"start_dispatching", "running"}
           /\ \E x \in {"completed", "failed"} : exec' = [exec EXCEPT ![g] = x]
    BY <1>3 DEF CommitFailure, OrdinaryEndAllowed
  <2> HIDE DEF g
  <2> QED BY <1>a, <2>1, <2>2 DEF KeepsLives, EndsTurn
<1>4. ASSUME NEW d \in Drivers, CommitUncertain(d)
      PROVE  KeepsLives \/ \E g \in Turns : EndsTurn(g)
  BY <1>4, <1>a DEF KeepsLives, CommitUncertain
<1>5. ASSUME NEW d \in Drivers, QuiescedRetained(d)
      PROVE  KeepsLives \/ \E g \in Turns : EndsTurn(g)
  <2> DEFINE g == driver[d].gen
             p == driver[d].prep
  <2>1. /\ g \in Turns /\ p \in TaskIds /\ prep[p].gen = g
    BY <1>5, <1>b DEF QuiescedRetained, Turnless, ExactInv, WaitsFor, Waiting
  <2>2. \/ prep[p].phase \in {"not_started", "result_retained", "gone"}
        \/ prep[p].result = "stopped"
    BY <1>5 DEF QuiescedRetained
  <2>3. \/ UNCHANGED exec
        \/ exec[g] \in Open /\ Settle(g, "interrupted")
    BY <1>5 DEF QuiescedRetained
  <2> HIDE DEF g, p
  <2>4. OutOfReach(g) BY <2>1, <2>2, HeldTurn DEF OutOfReach
  <2> QED BY <1>a, <2>1, <2>3, <2>4 DEF KeepsLives, EndsTurn, Settle
<1>6. ASSUME NEW d \in Drivers, QuiescedGone(d)
      PROVE  KeepsLives \/ \E g \in Turns : EndsTurn(g)
  <2> DEFINE g == driver[d].gen
             p == driver[d].prep
  <2>1. /\ g \in Turns /\ p \in TaskIds /\ prep[p].gen = g
    BY <1>6, <1>b DEF QuiescedGone, Turnless, ExactInv, WaitsFor, Waiting
  <2>2. \/ prep[p].phase \in {"not_started", "result_retained", "gone"}
        \/ prep[p].result = "stopped"
    BY <1>6 DEF QuiescedGone
  <2>3. \/ UNCHANGED exec
        \/ exec[g] \in Open /\ Settle(g, "interrupted")
    BY <1>6 DEF QuiescedGone
  <2> HIDE DEF g, p
  <2>4. OutOfReach(g) BY <2>1, <2>2, HeldTurn DEF OutOfReach
  <2> QED BY <1>a, <2>1, <2>3, <2>4 DEF KeepsLives, EndsTurn, Settle
<1>7. ASSUME NEW d \in Drivers, Unconfirmed(d)
      PROVE  KeepsLives \/ \E g \in Turns : EndsTurn(g)
  BY <1>7, <1>a DEF KeepsLives, Unconfirmed, SetPair
<1>8. CASE Mute BY <1>8, <1>a DEF KeepsLives, Mute, RecordInterrupt, Interruptible
<1>9. CASE AgentInterruptCommit BY <1>9, <1>a
     DEF KeepsLives, AgentInterruptCommit, RecordInterrupt, Interruptible
<1>10. CASE ApplyBegin BY <1>10, <1>a DEF KeepsLives, ApplyBegin
<1>11. CASE ApplyWaiting BY <1>11, <1>a DEF KeepsLives, ApplyWaiting, SetPair
<1>12. CASE ApplyIssued BY <1>12, <1>a DEF KeepsLives, ApplyIssued, SetPair
<1>13. CASE RecoverWait BY <1>13, <1>a DEF KeepsLives, RecoverWait, RecoverablePair, SetPair
<1>14. CASE FinalizeNotStarted
  <2> DEFINE g == driver["recon"].gen
  <2>1. g \in Turns BY <1>14, <1>a, <1>b DEF FinalizeNotStarted, Turnless
  <2>2. OutOfReach(g) BY <1>14 DEF FinalizeNotStarted, ExactInv, NotStartedOK, OutOfReach, Acts
  <2>3. \/ UNCHANGED exec
        \/ exec[g] \in Open /\ exec' = [exec EXCEPT ![g] = "failed"]
    BY <1>14 DEF FinalizeNotStarted
  <2> HIDE DEF g
  <2> QED BY <1>a, <2>1, <2>2, <2>3 DEF KeepsLives, EndsTurn
<1>15. CASE FinalizeGone
  <2> DEFINE g == driver["recon"].gen
  <2>1. g \in Turns /\ runtime # "running" /\ driver["recon"].snap.exec \in Open
    BY <1>15, <1>a, <1>b DEF FinalizeGone, Turnless, TurnInv, DriversInv, SnapOK
  <2>2. OutOfReach(g) BY <1>c, <2>1 DEF OutOfReach
  <2>3. \/ UNCHANGED exec
        \/ exec[g] \in Open /\ \E x \in {"interrupted", "failed"} : Settle(g, x)
    BY <1>15, <2>1 DEF FinalizeGone
  <2> HIDE DEF g
  <2> QED BY <1>a, <2>1, <2>2, <2>3 DEF KeepsLives, EndsTurn, Settle
<1>16. CASE TaskDeath BY <1>16, <1>a DEF KeepsLives, TaskDeath, SetPair
<1>17. CASE RecordStop
  BY <1>17, <1>c, <1>a DEF RecordStop, ExactInv, StoppedOK, OutOfReach, TurnOpen, KeepsLives, EndsTurn, Settle
<1>18. CASE UNCHANGED exec BY <1>18 DEF KeepsLives
<1> QED BY <1>1, <1>2, <1>3, <1>4, <1>5, <1>6, <1>7, <1>8, <1>9, <1>10, <1>11,
     <1>12, <1>13, <1>14, <1>15, <1>16, <1>17, <1>18
     DEF RowAction, WaitNext, ApplyNext, Unmute, AgentInterrupt, ApplyClaim, ApplyDispatch, LoadCandidate, RecoverClaim, RecoverBegin, Look, Inconclusive, LeaveQuarantined, AgentStop, Expire, durable

\* What a driver waits for, and what it has seen, is what it was given.
LEMMA RowActionWaits ==
    ASSUME TurnInv, ExactInv, RowAction, NEW e \in Drivers
    PROVE  /\ driver'[e].pc \in Waiting =>
                \/ /\ driver[e].pc \in Waiting
                   /\ driver'[e].prep = driver[e].prep
                   /\ driver'[e].gen = driver[e].gen
                \/ /\ slot # 0 /\ driver'[e].prep = slot
                   /\ prep[slot].gen = driver'[e].gen
           /\ driver'["recon"].pc = "not_started" =>
                \/ /\ driver["recon"].pc = "not_started"
                   /\ driver'["recon"].gen = driver["recon"].gen
                \/ /\ slot # 0 /\ prep[slot].gen = driver'["recon"].gen
                   /\ prep[slot].phase = "not_started"
           /\ driver'["actor"].pc = "stopped" => driver["actor"].pc = "stopped"
           /\ driver'[e].pc = "release" =>
                \/ /\ driver[e].pc = "release"
                   /\ driver'[e].gen = driver[e].gen
                \/ exec'[driver'[e].gen] \in Terminal
<1> DEFINE W == driver'[e].pc \in Waiting =>
                  \/ /\ driver[e].pc \in Waiting
                     /\ driver'[e].prep = driver[e].prep
                     /\ driver'[e].gen = driver[e].gen
                  \/ /\ slot # 0 /\ driver'[e].prep = slot
                     /\ prep[slot].gen = driver'[e].gen
           N == driver'["recon"].pc = "not_started" =>
                  \/ /\ driver["recon"].pc = "not_started"
                     /\ driver'["recon"].gen = driver["recon"].gen
                  \/ /\ slot # 0 /\ prep[slot].gen = driver'["recon"].gen
                     /\ prep[slot].phase = "not_started"
           S == driver'["actor"].pc = "stopped" => driver["actor"].pc = "stopped"
           R == driver'[e].pc = "release" =>
                  \/ /\ driver[e].pc = "release"
                     /\ driver'[e].gen = driver[e].gen
                  \/ exec'[driver'[e].gen] \in Terminal
<1> SUFFICES W /\ N /\ S /\ R
  OBVIOUS
<1> USE DEF Waiting, Terminal
<1>a. /\ driver \in [Drivers -> DriverState] /\ exec \in [Turns -> ExecStates]
      /\ "actor" \in Drivers /\ "recon" \in Drivers /\ Drivers = {"actor", "recon"}
  BY DEF TurnInv, TypeOK, Drivers
<1>b. \A d \in Drivers : driver[d].pc \notin Turnless => driver[d].gen \in Turns
  BY BoundsAssumption DEF TurnInv, TypeOK, Turns, DriversInv, DriverOf
<1>c. \A g \in Turns : effect[g].phase = "finalized" => exec[g] = "interrupted" BY DEF TurnInv, RowsInv, PairOf
<1>1. ASSUME NEW d \in Drivers, CommitRunning(d)
      PROVE  W /\ N /\ S /\ R
  <2> DEFINE g == driver[d].gen
  <2>1. /\ driver[d].pc \notin Waiting \cup {"not_started", "release"}
           \/ driver[d].pc \in {"wait", "not_started"}
        /\ \/ EndRun(d)
           \/ Goto(d, "complete") \/ Goto(d, "vacate")
           \/ Goto(d, "release") /\ exec'[g] \in Terminal
    BY <1>1, <1>a, <1>b, <1>c
       DEF CommitRunning, Yielded, OrdinaryEndAllowed, Turnless, Settle
  <2> QED BY <1>a, <2>1, RunShape
<1>2. ASSUME NEW d \in Drivers, CommitCompletion(d)
      PROVE  W /\ N /\ S /\ R
  <2> DEFINE g == driver[d].gen
  <2>1. /\ driver[d].pc \notin Waiting \cup {"not_started", "release"}
           \/ driver[d].pc \in {"wait", "not_started"}
        /\ \/ EndRun(d)
           \/ Goto(d, "complete") \/ Goto(d, "vacate")
           \/ Goto(d, "release") /\ exec'[g] \in Terminal
    BY <1>2, <1>a, <1>b, <1>c
       DEF CommitCompletion, Yielded, OrdinaryEndAllowed, Turnless, Settle
  <2> QED BY <1>a, <2>1, RunShape
<1>3. ASSUME NEW d \in Drivers, CommitFailure(d)
      PROVE  W /\ N /\ S /\ R
  <2> DEFINE g == driver[d].gen
  <2>1. /\ driver[d].pc \notin Waiting \cup {"not_started", "release"}
           \/ driver[d].pc \in {"wait", "not_started"}
        /\ \/ EndRun(d)
           \/ Goto(d, "complete") \/ Goto(d, "vacate")
           \/ Goto(d, "release") /\ exec'[g] \in Terminal
    BY <1>3, <1>a, <1>b, <1>c
       DEF CommitFailure, Yielded, OrdinaryEndAllowed, Turnless, Settle
  <2> QED BY <1>a, <2>1, RunShape
<1>4. ASSUME NEW d \in Drivers, CommitUncertain(d)
      PROVE  W /\ N /\ S /\ R
  BY <1>4, <1>a, RunShape DEF CommitUncertain
<1>5. ASSUME NEW d \in Drivers, QuiescedRetained(d)
      PROVE  W /\ N /\ S /\ R
  <2> DEFINE g == driver[d].gen
  <2>1. /\ driver[d].pc \notin Waiting \cup {"not_started", "release"}
           \/ driver[d].pc \in {"wait", "not_started"}
        /\ \/ EndRun(d)
           \/ Goto(d, "complete") \/ Goto(d, "vacate")
           \/ Goto(d, "release") /\ exec'[g] \in Terminal
    BY <1>5, <1>a, <1>b, <1>c DEF QuiescedRetained, Turnless, Settle
  <2> QED BY <1>a, <2>1, RunShape
<1>6. ASSUME NEW d \in Drivers, QuiescedGone(d)
      PROVE  W /\ N /\ S /\ R
  BY <1>6, <1>a, RunShape DEF QuiescedGone
<1>7. ASSUME NEW d \in Drivers, Unconfirmed(d)
      PROVE  W /\ N /\ S /\ R
  BY <1>7, <1>a, RunShape DEF Unconfirmed
<1>8. CASE Mute BY <1>8, <1>a, RunShape DEF Mute, TurnOpen
<1>9. CASE Unmute BY <1>9, <1>a, RunShape DEF Unmute
<1>10. CASE AgentInterrupt BY <1>10, <1>a, RunShape DEF AgentInterrupt
<1>11. CASE AgentInterruptCommit BY <1>11, <1>a, RunShape DEF AgentInterruptCommit, TurnOpen
<1>12. CASE ApplyClaim BY <1>12, <1>a, RunShape DEF ApplyClaim
<1>13. CASE ApplyBegin
  <2> DEFINE g == driver["actor"].gen
  <2>1. \/ EndRun("actor") \/ Goto("actor", "look")
        \/ BeginsAt("actor", g, "mark_waiting", "dispatch", "mark_waiting")
    BY <1>13 DEF ApplyBegin
  <2>2. ASSUME BeginsAt("actor", g, "mark_waiting", "dispatch", "mark_waiting")
        PROVE  slot # 0 /\ prep[slot].gen = g
    BY <2>2 DEF BeginsAt
  <2> QED BY <1>a, <2>1, <2>2, RunShape
<1>14. CASE ApplyWaiting BY <1>14, <1>a, RunShape DEF ApplyWaiting
<1>15. CASE ApplyDispatch BY <1>15, <1>a, RunShape DEF ApplyDispatch
<1>16. CASE ApplyIssued BY <1>16, <1>a, RunShape DEF ApplyIssued
<1>17. CASE LoadCandidate BY <1>17, <1>a, RunShape DEF LoadCandidate, TurnOpen
<1>18. CASE RecoverClaim BY <1>18, <1>a, RunShape DEF RecoverClaim
<1>19. CASE RecoverBegin
  <2> DEFINE g == driver["recon"].gen
  <2>1. \/ EndRun("recon") \/ Goto("recon", "look")
        \/ BeginsAt("recon", g, "recover_signal", "recover_signal",
                    "recover_wait")
    BY <1>19 DEF RecoverBegin
  <2>2. ASSUME BeginsAt("recon", g, "recover_signal", "recover_signal",
                    "recover_wait")
        PROVE  slot # 0 /\ prep[slot].gen = g
    BY <2>2 DEF BeginsAt
  <2> QED BY <1>a, <2>1, <2>2, RunShape
<1>20. CASE RecoverWait BY <1>20, <1>a, RunShape DEF RecoverWait
<1>21. CASE Look
  <2> DEFINE r == [driver["recon"] EXCEPT !.pc = "commit",
                                         !.result = prep[slot].result]
             g == driver["recon"].gen
  <2>1. \/ EndRun("recon") \/ Goto("recon", "unowned")
        \/ /\ Goto("recon", "not_started")
           /\ slot # 0 /\ prep[slot].gen = g /\ prep[slot].phase = "not_started"
        \/ driver' = [driver EXCEPT !["recon"] = r]
    BY <1>21 DEF Look, OwnsTurn
  <2>2. r.pc = "commit" BY <1>a DEF DriverState
  <2> HIDE DEF r
  <2> QED BY <1>a, <2>1, <2>2, RunShape
<1>22. CASE FinalizeNotStarted
  <2> DEFINE g == driver["recon"].gen
  <2>1. /\ driver["recon"].pc \notin Waiting \cup {"not_started", "release"}
           \/ driver["recon"].pc \in {"wait", "not_started"}
        /\ \/ EndRun("recon")
           \/ Goto("recon", "complete") \/ Goto("recon", "vacate")
           \/ Goto("recon", "release") /\ exec'[g] \in Terminal
    BY <1>22, <1>a, <1>b, <1>c DEF FinalizeNotStarted, Turnless, Settle
  <2> QED BY <1>a, <2>1, RunShape
<1>23. CASE FinalizeGone BY <1>23, <1>a, RunShape DEF FinalizeGone
<1>24. CASE Inconclusive BY <1>24, <1>a, RunShape DEF Inconclusive
<1>25. CASE TaskDeath BY <1>25, <1>a, RunShape DEF TaskDeath
<1>26. CASE LeaveQuarantined BY <1>26, <1>a, RunShape DEF LeaveQuarantined
<1>27. CASE AgentStop BY <1>27, <1>a, RunShape DEF AgentStop
<1>28. CASE RecordStop BY <1>28, <1>a, RunShape DEF RecordStop, TurnOpen
<1>29. ASSUME NEW g \in Turns, Expire(g)
       PROVE  W /\ N /\ S /\ R
  BY <1>29, <1>a, RunShape DEF Expire
<1> QED BY <1>1, <1>2, <1>3, <1>4, <1>5, <1>6, <1>7, <1>8, <1>9, <1>10, <1>11,
     <1>12, <1>13, <1>14, <1>15, <1>16, <1>17, <1>18, <1>19, <1>20, <1>21,
     <1>22, <1>23, <1>24, <1>25, <1>26, <1>27, <1>28, <1>29
     DEF RowAction, WaitNext, ApplyNext


\* Row actions keep the second layer: they leave tasks and preparations alone.
LEMMA RowActionExact ==
    ASSUME TurnInv, ExactInv, RowAction
    PROVE  ExactInv'
<1> USE DEF Acts
<1>a. /\ UNCHANGED <<turn, started, runtime, slot, task>>
      /\ \A p \in TaskIds : /\ prep'[p].gen = prep[p].gen
                            /\ prep'[p].phase = prep[p].phase
                            /\ prep'[p].result = prep[p].result
      /\ \A g \in Turns : exec'[g] = "assigned" => exec[g] = "assigned"
  BY RowActionFrame DEF TurnInv, RowStep
<1>b. /\ "actor" \in Drivers /\ "recon" \in Drivers
      /\ slot # 0 => slot \in TaskIds
      /\ turn \in Nat /\ turn <= MaxTurns
      /\ 1..turn \subseteq Turns /\ \A g \in 0..turn : g # 0 => g \in 1..turn
  BY BoundsAssumption, Literals DEF TurnInv, TypeOK, TaskIds, Turns
<1>c. KeepsLives \/ \E g \in Turns : EndsTurn(g) BY RowActionEnds
<1>d. /\ OwnTask /\ OwnPreparation /\ NotStartedOK /\ StoppedOK
      /\ \A t \in TaskIds : PhaseOf(t) /\ DoorOf(t) /\ TaskOf(t)
      /\ \A d \in Drivers : WaitsFor(d) /\ ReleaseOK(d) /\ DriverOf(d)
      /\ ActsInSlot
  BY DEF ExactInv, TurnInv, TasksInv, SlotInv, DriversInv
<1>1. OwnTask' BY <1>a, <1>d DEF OwnTask
<1>2. OwnPreparation' BY <1>b, <1>d, <1>a DEF OwnPreparation
<1>3. ASSUME NEW t \in TaskIds PROVE PhaseOf(t)' BY <1>a, <1>d DEF PhaseOf
<1>4. ASSUME NEW t \in TaskIds PROVE DoorOf(t)'
  BY <1>a, <1>b, HeldTurn, <1>c, <1>d DEF DoorOf, KeepsLives, EndsTurn, OutOfReach
<1>5. ASSUME NEW d \in Drivers PROVE WaitsFor(d)' BY <1>a, <1>b, <1>d, RowActionWaits DEF WaitsFor
<1>6. ASSUME NEW d \in Drivers PROVE ReleaseOK(d)'
  BY <1>b, <1>d, <1>c, RowActionWaits DEF DriverOf, Turnless, KeepsLives, EndsTurn, Open, Terminal, ReleaseOK
<1>7. NotStartedOK'
  BY <1>a, <1>d, <1>b, RowActionWaits DEF NotStartedOK, TurnInv, SlotInv, SlotOK, TaskOf, OwnPreparation,
     TaskIds, OwnTask, PhaseOf, ActsInSlot, TypeOK, TaskState, TaskPcs
<1>8. StoppedOK' BY <1>a, <1>b, <1>d, RowActionWaits DEF StoppedOK
<1> QED BY <1>1, <1>2, <1>3, <1>4, <1>5, <1>6, <1>7, <1>8 DEF ExactInv

\* A driver goes on with what it did, or with something the second layer says
\* nothing about.
Unbound(d) ==
    \/ driver'[d] = driver[d]
    \/ driver'[d].pc \notin Waiting \cup {"not_started", "stopped", "release"}

\* A step of task t: it goes on, or is done.
TaskStep(t) ==
    /\ UNCHANGED <<turn, slot>>
    /\ runtime' = runtime \/ runtime' # "running"
    /\ \A d \in Drivers : Unbound(d)
    /\ \A g \in Turns : \/ exec'[g] = exec[g]
                        \/ exec[g] \in Open /\ exec'[g] \in Open \ {"assigned"}
    /\ \A u \in TaskIds : u # t => task'[u] = task[u]
    /\ \/ task'[t].gen = task[t].gen /\ task'[t].prep = task[t].prep
       \/ task'[t].gen = 0 /\ task'[t].prep = 0
    /\ task'[t].pc # "spawned"
    /\ task[t].pc # "reported" \/ task'[t].gen = 0
    /\ \A p \in TaskIds : prep'[p].gen = prep[p].gen
    /\ \A p \in TaskIds : p # t => prep'[p] = prep[p]

\* It keeps the second layer if it keeps what is said of the task itself.
LEMMA TaskStepExact ==
    ASSUME TurnInv, ExactInv, NEW t \in TaskIds, TaskStep(t),
           PhaseOf(t)', DoorOf(t)'
    PROVE  ExactInv'
<1> USE DEF Acts
<1>b. /\ "actor" \in Drivers /\ "recon" \in Drivers /\ turn \in Nat
      /\ 1..turn \subseteq Turns /\ \A g \in 0..turn : g # 0 => g \in Turns
      /\ 0 \notin TaskIds
  BY BoundsAssumption, Literals DEF TurnInv, TypeOK, TaskIds, Turns
<1>d. /\ OwnTask /\ OwnPreparation /\ NotStartedOK /\ StoppedOK
      /\ \A u \in TaskIds : PhaseOf(u) /\ DoorOf(u) /\ TaskOf(u)
      /\ \A d \in Drivers : WaitsFor(d) /\ ReleaseOK(d) /\ DriverOf(d)
  BY DEF ExactInv, TurnInv, TasksInv, DriversInv
<1>1. OwnTask' BY <1>d DEF TaskStep, OwnTask
<1>2. OwnPreparation' BY <1>b, <1>d DEF OwnPreparation, TaskStep
<1>3. ASSUME NEW u \in TaskIds PROVE PhaseOf(u)' BY <1>d DEF TaskStep, PhaseOf
<1>4. ASSUME NEW u \in TaskIds PROVE DoorOf(u)' BY <1>b, <1>d DEF TaskOf, TaskStep, DoorOf
<1>5. ASSUME NEW d \in Drivers PROVE WaitsFor(d)' BY <1>d DEF TaskStep, Unbound, WaitsFor
<1>6. ASSUME NEW d \in Drivers PROVE ReleaseOK(d)'
  BY <1>b, <1>d DEF DriverOf, Turnless, TaskStep, Unbound, Open, Terminal, ReleaseOK
<1>7. NotStartedOK' BY <1>b, <1>d DEF DriverOf, Turnless, TaskStep, Unbound, NotStartedOK
<1>8. StoppedOK' BY <1>b, <1>d DEF TaskStep, Unbound, StoppedOK
<1> QED BY <1>1, <1>2, <1>3, <1>4, <1>5, <1>6, <1>7, <1>8 DEF ExactInv

\* A step that leaves tasks and preparations alone and may empty the slot.
LEMMA SlotStepExact ==
    ASSUME TurnInv, ExactInv, UNCHANGED <<turn, exec, task, prep>>,
           slot' \in {0, slot}, \A d \in Drivers : Unbound(d), StoppedOK',
           \A p \in TaskIds : prep[p].gen # 0 /\ exec[prep[p].gen] = "assigned" =>
                                slot' = p \/ runtime' # "running"
    PROVE  ExactInv'
<1> USE DEF Acts
<1>b. /\ "actor" \in Drivers /\ "recon" \in Drivers /\ 0 \notin TaskIds BY Literals DEF TaskIds
<1>d. /\ OwnTask /\ OwnPreparation /\ NotStartedOK
      /\ \A u \in TaskIds : PhaseOf(u) /\ DoorOf(u) /\ TaskOf(u)
      /\ \A d \in Drivers : WaitsFor(d) /\ ReleaseOK(d)
  BY DEF ExactInv, TurnInv, TasksInv
<1>1. OwnTask' /\ OwnPreparation' BY <1>d DEF OwnTask, OwnPreparation
<1>2. ASSUME NEW u \in TaskIds PROVE PhaseOf(u)' /\ DoorOf(u)' BY <1>b, <1>d DEF PhaseOf, DoorOf, TaskOf
<1>3. ASSUME NEW d \in Drivers PROVE WaitsFor(d)' /\ ReleaseOK(d)' BY <1>d DEF Unbound, WaitsFor, ReleaseOK
<1>4. NotStartedOK' BY <1>b, <1>d DEF Unbound, NotStartedOK
<1> QED BY <1>1, <1>2, <1>3, <1>4 DEF ExactInv

\* A fresh task m is spawned for turn g, which no task and no preparation has.
LEMMA SpawnExact ==
    ASSUME TurnInv, ExactInv, NEW m \in TaskIds, task[m].pc = "none", NEW g \in Nat,
           task'[m].pc = "spawned", task'[m].gen = g, task'[m].prep = 0,
           \A u \in TaskIds : u # m => task'[u] = task[u],
           \A u \in TaskIds : task[u].gen # g,
           \A p \in TaskIds : prep[p].gen # g,
           turn' \in {turn, turn + 1}, UNCHANGED <<runtime, slot>>,
           \A h \in 1..turn : exec'[h] = exec[h],
           \A p \in TaskIds : prep'[p] = IF Held(p) THEN prep[p] ELSE NoPrep,
           \A d \in Drivers : Unbound(d),
           driver'["recon"].pc = "not_started" => driver["recon"].gen # g
    PROVE  ExactInv'
<1> USE DEF Acts
<1>b. /\ "actor" \in Drivers /\ "recon" \in Drivers /\ turn \in Nat
      /\ 0..turn \subseteq 0..turn' /\ \A h \in 0..turn : h # 0 => h \in 1..turn
      /\ 0 \notin TaskIds /\ NoPrep.gen = 0 /\ NoPrep.phase = "none"
      /\ NoPrep.result = "none" /\ 0 \in 0..turn /\ g # 0
  BY Literals DEF TurnInv, TypeOK, TaskIds, NoPrep, TasksInv, TaskOf
<1>d. /\ OwnTask /\ OwnPreparation /\ NotStartedOK /\ StoppedOK
      /\ \A u \in TaskIds : PhaseOf(u) /\ DoorOf(u) /\ TaskOf(u)
      /\ \A d \in Drivers : WaitsFor(d) /\ ReleaseOK(d) /\ DriverOf(d)
  BY DEF ExactInv, TurnInv, TasksInv, DriversInv
<1>1. OwnTask' BY <1>d DEF OwnTask
<1>2. OwnPreparation' BY <1>b, <1>d DEF OwnPreparation, TaskOf
<1>3. ASSUME NEW u \in TaskIds PROVE PhaseOf(u)' BY <1>d, <1>b DEF PhaseOf, OwnTask, TaskOf, Held
<1>4. ASSUME NEW u \in TaskIds PROVE DoorOf(u)' BY <1>d DEF TaskOf, DoorOf
<1>5. ASSUME NEW d \in Drivers PROVE WaitsFor(d)' BY <1>d DEF Held, Unbound, WaitsFor
<1>6. ASSUME NEW d \in Drivers PROVE ReleaseOK(d)' BY <1>b, <1>d DEF Unbound, ReleaseOK, DriverOf, Turnless
<1>7. NotStartedOK' BY <1>b, <1>d DEF Unbound, NotStartedOK
<1>8. StoppedOK' BY <1>b, <1>d DEF Unbound, StoppedOK
<1> QED BY <1>1, <1>2, <1>3, <1>4, <1>5, <1>6, <1>7, <1>8 DEF ExactInv


\* Tasks, releases, stops, starts and crashes keep the second layer.
LEMMA TurnActionExact ==
    ASSUME ~Duplicates, TurnInv, ExactInv, TurnAction
    PROVE  ExactInv'
<1> USE DEF Acts
<1>a. /\ exec \in [Turns -> ExecStates] /\ prep \in [TaskIds -> PrepState]
      /\ task \in [TaskIds -> TaskState] /\ driver \in [Drivers -> DriverState]
      /\ turn \in Nat /\ 0 \notin TaskIds /\ 0 \notin Turns
      /\ 1..turn \subseteq Turns /\ \A g \in 0..turn : g # 0 => g \in 1..turn
      /\ slot \in {0} \cup TaskIds
      /\ "actor" \in Drivers /\ "recon" \in Drivers /\ TypeOK
  BY BoundsAssumption, Literals DEF TurnInv, TypeOK, TaskIds, Turns
<1>b. \A t \in TaskIds : TaskOf(t) /\ FreshOf(t) /\ PhaseOf(t) /\ DoorOf(t) BY DEF TurnInv, TasksInv, ExactInv
<1>c. ActsInSlot /\ SlotOK /\ OwnTask /\ OwnPreparation /\ StoppedOK BY DEF TurnInv, SlotInv, ExactInv
<1>1. CASE Assign
  <2>1. PICK m \in TaskIds : task[m].pc = "none" /\ Min(FreshTasks) = m BY <1>1, FreshExists DEF Assign, FreshTasks
  <2> DEFINE r == [NoTask EXCEPT !.pc = "spawned", !.gen = turn + 1, !.guarded = FALSE]
  <2>2. task' = [task EXCEPT ![m] = r] BY <1>1, <2>1 DEF Assign, Spawn
  <2>3. r.pc = "spawned" /\ r.gen = turn + 1 /\ r.prep = 0 BY DEF NoTask
  <2> HIDE DEF r
  <2>4. /\ task'[m].pc = "spawned" /\ task'[m].gen = turn + 1 /\ task'[m].prep = 0
        /\ \A u \in TaskIds : u # m => task'[u] = task[u]
    BY <1>a, <2>2, <2>3
  <2>5. /\ \A u \in TaskIds : task[u].gen \in 0..turn
        /\ \A p \in TaskIds : prep[p].gen \in 0..turn
        /\ driver["recon"].pc = "not_started" => driver["recon"].gen \in 0..turn
    BY <1>a, <1>b, <1>c DEF TaskOf, TurnInv, DriversInv, DriverOf, Turnless, OwnPreparation
  <2>6. turn + 1 \in Nat /\ turn + 1 \notin 0..turn /\ \A h \in 1..turn : h # turn + 1 BY <1>a
  <2>7. /\ turn' = turn + 1 /\ UNCHANGED <<runtime, slot, driver>>
        /\ \A h \in 1..turn : exec'[h] = exec[h]
        /\ \A p \in TaskIds : prep'[p] = IF Held(p) THEN prep[p] ELSE NoPrep
    BY <1>1, <1>a, <2>6 DEF Assign
  <2>8. \A d \in Drivers : Unbound(d) BY <2>7 DEF Unbound
  <2> QED BY <2>1, <2>4, <2>5, <2>6, <2>7, <2>8, SpawnExact
<1>2. ASSUME NEW t \in TaskIds, Prepare(t)
      PROVE  ExactInv'
  <2>1. task[t].pc = "spawned" /\ task[t].gen \in 1..turn /\ task[t].gen # 0 BY <1>2, <1>a, <1>b, PrepareShape DEF TaskOf
  <2>2. CASE UNCHANGED <<slot, prep>>
    <3>1. /\ UNCHANGED <<turn, exec, runtime, driver, slot, prep>>
          /\ \A u \in TaskIds : u # t => task'[u] = task[u]
          /\ task'[t].pc = "done" /\ task'[t].gen = 0 /\ task'[t].prep = 0
      BY <1>2, <1>a, <1>c, <2>1, <2>2, PrepareShape DEF OwnPreparation
    <3>2. TaskStep(t) BY <2>1, <3>1 DEF TaskStep, Unbound
    <3>3. PhaseOf(t)' /\ DoorOf(t)' BY <1>b, <3>1 DEF PhaseOf, DoorOf
    <3> QED BY <3>2, <3>3, TaskStepExact
  <2>3. CASE slot = 0 /\ slot' = t
    <3> QED
      BY <1>2, <1>a, <1>b, <1>c, <2>1, <2>3, PrepareShape DEF FreshOf, OwnPreparation,
         PhaseOf, DoorOf, OwnTask, ExactInv, WaitsFor, ReleaseOK, NotStartedOK, StoppedOK
  <2> QED BY <1>2, <1>a, <2>2, <2>3, PrepareShape
<1>3. ASSUME NEW t \in TaskIds, AuthorizeStart(t)
      PROVE  ExactInv'
  <2> DEFINE g == task[t].gen
             r == [task[t] EXCEPT !.pc = "authorized"]
             s == [task[t] EXCEPT !.pc = "refused"]
  <2>1. UNCHANGED <<turn, slot, runtime, prep, driver>> /\ task[t].pc = "prepared" BY <1>3 DEF AuthorizeStart, adapter
  <2>2. /\ \/ /\ exec[g] = "assigned"
              /\ exec' = [exec EXCEPT ![g] = "start_dispatching"]
              /\ task' = [task EXCEPT ![t] = r]
           \/ task' = [task EXCEPT ![t] = s] /\ UNCHANGED exec
        /\ g \in Turns
    BY <1>3, <1>a, <1>b, <2>1 DEF AuthorizeStart, TaskOf
  <2>3. /\ r.pc = "authorized" /\ r.gen = g /\ r.prep = task[t].prep
        /\ s.pc = "refused" /\ s.gen = g /\ s.prep = task[t].prep
    BY <1>a DEF TaskState
  <2> HIDE DEF g, r, s
  <2>4. TaskStep(t) BY <1>a, <2>1, <2>2, <2>3 DEF TaskStep, Unbound, Open, g
  <2>5. PhaseOf(t)' BY <1>a, <1>b, <2>1, <2>2, <2>3 DEF PhaseOf
  <2>6. DoorOf(t)' BY <1>a, <2>1, <2>2, <2>3 DEF DoorOf, Open
  <2> QED BY <2>4, <2>5, <2>6, TaskStepExact
<1>4. ASSUME NEW t \in TaskIds, TaskPanics(t)
      PROVE  ExactInv'
  BY <1>4, <1>a, <1>b, TaskStepExact DEF TaskPanics, TaskStep, Unbound, TaskState, durable, adapter, PhaseOf,
     DoorOf
<1>5. ASSUME NEW t \in TaskIds, RetainUnstarted(t)
      PROVE  ExactInv'
  <2> DEFINE q == [prep[slot] EXCEPT !.phase = "not_started"]
  <2>1. /\ UNCHANGED <<turn, exec, runtime, slot, driver>> /\ task[t].pc = "refused"
        /\ task' = [task EXCEPT ![t] = DoneTask]
        /\ \/ UNCHANGED prep
           \/ /\ slot = task[t].prep /\ prep[slot].phase = "preparing"
              /\ prep' = [prep EXCEPT ![slot] = q]
    BY <1>5 DEF RetainUnstarted, durable
  <2>2. /\ task[t].prep = t
        /\ DoneTask.pc = "done" /\ DoneTask.gen = 0 /\ DoneTask.prep = 0
    BY <1>b, <1>c, <1>a, <2>1 DEF TaskOf, OwnTask, DoneTask, NoTask
  <2>3. slot = t => /\ q.gen = prep[t].gen /\ q.phase = "not_started"
                    /\ q.result = prep[t].result
    BY <1>a DEF PrepState
  <2> HIDE DEF q
  <2>4. TaskStep(t) BY <1>a, <2>1, <2>2, <2>3 DEF TaskStep, Unbound
  <2>5. PhaseOf(t)' /\ DoorOf(t)' BY <1>a, <1>b, <2>1, <2>2, <2>3 DEF PhaseOf, DoorOf
  <2> QED BY <2>4, <2>5, TaskStepExact
<1>6. ASSUME NEW t \in TaskIds, AuthorityUnresolved(t)
      PROVE  ExactInv'
  <2> DEFINE q == [prep[slot] EXCEPT !.phase = "result_uncertain",
                                      !.result = "uncertain"]
             r == [task[t] EXCEPT !.pc = "reported", !.result = "uncertain"]
  <2>1. /\ UNCHANGED <<turn, exec, runtime, slot, driver>>
        /\ task[t].pc = "authorized" /\ task' = [task EXCEPT ![t] = r]
        /\ \/ UNCHANGED prep
           \/ slot = task[t].prep /\ prep' = [prep EXCEPT ![slot] = q]
    BY <1>6 DEF AuthorityUnresolved, durable
  <2>2. /\ task[t].prep = t
        /\ r.pc = "reported" /\ r.gen = task[t].gen /\ r.prep = task[t].prep
    BY <1>b, <1>c, <1>a, <2>1 DEF TaskOf, OwnTask, TaskState
  <2>3. slot = t => /\ q.gen = prep[t].gen /\ q.phase = "result_uncertain"
                    /\ q.result = "uncertain"
    BY <1>a DEF PrepState
  <2> HIDE DEF q, r
  <2>4. TaskStep(t) BY <1>a, <2>1, <2>2, <2>3 DEF TaskStep, Unbound
  <2>5. PhaseOf(t)' /\ DoorOf(t)' BY <1>a, <1>b, <2>1, <2>2, <2>3 DEF PhaseOf, DoorOf
  <2> QED BY <2>4, <2>5, TaskStepExact
<1>7. ASSUME NEW t \in TaskIds, Enter(t)
      PROVE  ExactInv'
  BY <1>7, <1>a, EnterShape, <1>b, <1>c, TaskStepExact DEF TaskOf, OwnTask, TaskStep, Unbound, PhaseOf, DoorOf
<1>8. ASSUME NEW t \in TaskIds, NEW r \in Results \ {"none"}, Finish(t, r)
      PROVE  ExactInv'
  <2> DEFINE q == [prep[slot] EXCEPT
                     !.phase = IF r \in {"uncertain", "stopped"}
                               THEN "result_uncertain" ELSE "result_retained",
                     !.result = r]
             s == [task[t] EXCEPT !.pc = "reported", !.result = r]
  <2>1. /\ UNCHANGED <<turn, exec, slot, driver>> /\ task[t].pc = "io"
        /\ task' = [task EXCEPT ![t] = s]
        /\ runtime' = runtime \/ runtime' = "stopped"
        /\ prep' = prep \/ prep' = [prep EXCEPT ![slot] = q]
    BY <1>8 DEF Finish, durable
  <2>2. /\ task[t].prep = t /\ slot = t
        /\ s.pc = "reported" /\ s.gen = task[t].gen /\ s.prep = task[t].prep
    BY <1>b, <1>c, <1>a, <2>1 DEF TaskOf, OwnTask, TaskState, ActsInSlot
  <2>3. /\ q.gen = prep[t].gen
        /\ q.phase \in {"result_uncertain", "result_retained"}
        /\ q.result = "stopped" => q.phase = "result_uncertain"
    BY <1>a, <2>2 DEF PrepState
  <2> HIDE DEF q, s
  <2>4. TaskStep(t) BY <1>a, <2>1, <2>2, <2>3 DEF TaskStep, Unbound
  <2>5. PhaseOf(t)' /\ DoorOf(t)' BY <1>a, <1>b, <2>1, <2>2, <2>3 DEF PhaseOf, DoorOf
  <2> QED BY <2>4, <2>5, TaskStepExact
<1>9. ASSUME NEW t \in TaskIds, TakeResult(t)
      PROVE  ExactInv'
  BY <1>9, <1>a, <1>b, TaskStepExact DEF TakeResult, Unbound, Idle, Waiting, TaskStep, DoneTask, NoTask,
     durable, adapter, PhaseOf, DoorOf
<1>10. CASE RecoverAssigned
  <2> DEFINE g == driver["recon"].gen
  <2>1. /\ UNCHANGED <<turn, exec, runtime, slot, prep>> /\ EndRun("recon")
        /\ driver["recon"].pc = "unowned" /\ runtime = "running"
    BY <1>10 DEF RecoverAssigned, durable, adapter
  <2>2. \A d \in Drivers : Unbound(d) BY <1>a, <2>1, RunShape DEF Unbound, Waiting
  <2>3. driver'["recon"].pc = "idle" BY <1>a, <2>1, RunShape
  <2>4. CASE UNCHANGED task
    BY <1>a, <1>c, <2>1, RunShape, <2>2, <2>4, SlotStepExact DEF StoppedOK, Drivers, OwnPreparation
  <2>5. CASE /\ exec[g] = "assigned" /\ ~OwnsTurn(g)
             /\ \A u \in TaskIds : task[u].gen # g
             /\ FreshTasks # {} /\ Spawn(g, TRUE)
    <3>1. PICK m \in TaskIds : task[m].pc = "none" /\ Min(FreshTasks) = m BY <2>5, FreshExists DEF FreshTasks
    <3> DEFINE r == [NoTask EXCEPT !.pc = "spawned", !.gen = g, !.guarded = TRUE]
    <3>2. task' = [task EXCEPT ![m] = r] BY <2>5, <3>1 DEF Spawn
    <3>3. r.pc = "spawned" /\ r.gen = g /\ r.prep = 0 BY DEF NoTask
    <3> HIDE DEF r
    <3>4. /\ task'[m].pc = "spawned" /\ task'[m].gen = g /\ task'[m].prep = 0
          /\ \A u \in TaskIds : u # m => task'[u] = task[u]
      BY <1>a, <3>2, <3>3
    <3>5. g \in 1..turn /\ g # 0 BY <1>a, <2>1 DEF TurnInv, DriversInv, DriverOf, Turnless
    <3>6. \A p \in TaskIds : prep[p].gen # g BY <1>a, <1>c, <2>1, <2>5, <3>5 DEF OwnPreparation, OwnsTurn
    <3> HIDE DEF g
    <3>7. OwnTask' BY <1>c, <2>5, <3>4 DEF OwnTask
    <3>8. OwnPreparation' BY <1>c, <2>1, <3>4, <3>6 DEF OwnPreparation
    <3>9. ASSUME NEW u \in TaskIds PROVE PhaseOf(u)' /\ DoorOf(u)' BY <1>b, <2>1, <3>4 DEF PhaseOf, DoorOf
    <3>10. ASSUME NEW d \in Drivers PROVE WaitsFor(d)' /\ ReleaseOK(d)'
      BY <2>1, <2>2 DEF ExactInv, WaitsFor, ReleaseOK, Unbound
    <3>11. NotStartedOK' /\ StoppedOK' BY <1>a, <1>c, <2>1, <2>2, <2>3 DEF NotStartedOK, StoppedOK, Unbound
    <3> QED BY <3>7, <3>8, <3>9, <3>10, <3>11 DEF ExactInv
  <2> QED BY <1>10, <2>4, <2>5 DEF RecoverAssigned
<1>11. ASSUME NEW d \in Drivers, Release(d)
       PROVE  ExactInv'
  BY <1>11, <1>a, <1>c, RunShape, SlotStepExact DEF Release, durable, Unbound, Waiting, StoppedOK, ExactInv,
     ReleaseOK, Terminal, OwnPreparation
<1>12. ASSUME NEW d \in Drivers, Vacate(d)
       PROVE  ExactInv'
  BY <1>12, <1>a, <1>c, RunShape, SlotStepExact DEF Vacate, durable, Unbound, Waiting, StoppedOK, OwnPreparation
<1>13. CASE StopRuntime
  <2>1. Goto("actor", "stopped") /\ UNCHANGED <<turn, exec>> BY <1>13 DEF StopRuntime, durable
  <2>2. /\ driver'["recon"] = driver["recon"] /\ driver'["actor"].pc = "stopped"
        /\ Drivers = {"actor", "recon"}
    BY <1>a, <2>1, RunShape DEF Drivers
  <2>3. \/ UNCHANGED <<slot, prep, task, runtime>> /\ runtime # "running"
        \/ /\ slot' = 0 /\ runtime' = "stopped"
           /\ prep' = IF slot = 0 THEN prep ELSE [prep EXCEPT ![slot].phase = "gone"]
           /\ \E x : task' = [t \in TaskIds |->
                               IF task[t].pc = "io"
                               THEN [task[t] EXCEPT !.pc = "reported", !.result = x]
                               ELSE task[t]]
    BY <1>13 DEF StopRuntime, adapter
  <2>4. \A u \in TaskIds : /\ task'[u].gen = task[u].gen
                            /\ task'[u].prep = task[u].prep
                            /\ \/ task'[u].pc = task[u].pc
                               \/ task'[u].pc = "reported"
    <3>1. ASSUME NEW x,
                 task' = [t \in TaskIds |->
                            IF task[t].pc = "io"
                            THEN [task[t] EXCEPT !.pc = "reported", !.result = x]
                            ELSE task[t]]
          PROVE  \A u \in TaskIds : /\ task'[u].gen = task[u].gen
                                     /\ task'[u].prep = task[u].prep
                                     /\ \/ task'[u].pc = task[u].pc
                                        \/ task'[u].pc = "reported"
      BY <1>a, <3>1 DEF TaskState
    <3> QED BY <2>3, <3>1
  <2>5. \A p \in TaskIds : /\ prep'[p].gen = prep[p].gen
                            /\ prep'[p].result = prep[p].result
                            /\ \/ prep'[p].phase = prep[p].phase
                               \/ prep'[p].phase = "gone" /\ slot' = 0
    <3>1. CASE UNCHANGED prep BY <3>1
    <3>2. CASE prep' = [prep EXCEPT ![slot].phase = "gone"] /\ slot' = 0 BY <1>a, <3>2 DEF PrepState
    <3> QED BY <2>3, <3>1, <3>2
  <2>6. slot' \in {0, slot} /\ runtime' # "running" BY <2>3
  <2>7. OwnTask' /\ OwnPreparation' BY <1>c, <2>1, <2>4, <2>5, <2>6 DEF OwnTask, OwnPreparation
  <2>8. ASSUME NEW u \in TaskIds PROVE PhaseOf(u)' BY <1>a, <1>b, <2>4, <2>5, <2>6 DEF PhaseOf
  <2>9. ASSUME NEW u \in TaskIds PROVE DoorOf(u)' BY <1>a, <1>b, <2>1, <2>4, <2>6 DEF DoorOf, TaskOf
  <2>10. ASSUME NEW d \in Drivers PROVE WaitsFor(d)' /\ ReleaseOK(d)'
    BY <2>1, <2>2, <2>5 DEF ExactInv, WaitsFor, ReleaseOK, Waiting
  <2>11. NotStartedOK' /\ StoppedOK' BY <2>2, <2>4, <2>6 DEF ExactInv, NotStartedOK, StoppedOK
  <2> QED BY <2>7, <2>8, <2>9, <2>10, <2>11 DEF ExactInv
<1>14. CASE StartRuntime
  BY <1>14, <1>a, <1>c, SlotStepExact DEF StartRuntime, Unbound, StoppedOK, Turns, TurnOpen, TurnInv, RowsInv,
     RowOf, Open, Terminal, OwnPreparation
<1>15. CASE Restart
  BY <1>15, <1>a DEF Restart, durable, Idle, NoPrep, NoTask, DoneTask, OwnTask, OwnPreparation, PhaseOf, DoorOf,
     WaitsFor, ReleaseOK, Waiting, NotStartedOK, StoppedOK, ExactInv
<1> QED BY <1>1, <1>2, <1>3, <1>4, <1>5, <1>6, <1>7, <1>8, <1>9, <1>10, <1>11,
     <1>12, <1>13, <1>14, <1>15
     DEF TurnAction, TaskNext


\* The second layer holds before the first turn.
LEMMA ExactInvInit ==
    ASSUME Init
    PROVE  ExactInv
BY Literals DEF Idle, NoPrep, NoTask, Init, OwnTask, OwnPreparation, PhaseOf, DoorOf, Acts, WaitsFor, ReleaseOK,
   Waiting, NotStartedOK, StoppedOK, ExactInv

\* Every step keeps it.
LEMMA ExactInvStep ==
    ASSUME ~Duplicates, TurnInv, ExactInv, [Next]_vars
    PROVE  ExactInv'
<1>1. CASE RowAction BY <1>1, RowActionExact
<1>2. CASE TurnAction BY <1>2, TurnActionExact
<1>3. CASE UNCHANGED vars
  <2> USE <1>3 DEF vars, durable, adapter, counters, ExactInv, Acts
  <2>1. OwnTask' /\ OwnPreparation' BY DEF OwnTask, OwnPreparation
  <2>2. ASSUME NEW u \in TaskIds PROVE PhaseOf(u)' /\ DoorOf(u)' BY DEF PhaseOf, DoorOf
  <2>3. ASSUME NEW d \in Drivers PROVE WaitsFor(d)' /\ ReleaseOK(d)' BY DEF WaitsFor, ReleaseOK
  <2>4. NotStartedOK' /\ StoppedOK' BY DEF NotStartedOK, StoppedOK
  <2> QED BY <2>1, <2>2, <2>3, <2>4
<1> QED BY <1>1, <1>2, <1>3, TwoKinds

\* When no assigned turn is handed out twice, a preparation belongs to one task,
\* and a turn is ended only when its task has given up its authority or has
\* lost the slot for good.
THEOREM ExactInvariant ==
    ASSUME ~Duplicates
    PROVE  Spec => [](TurnInv /\ ExactInv)
<1>1. Init => TurnInv /\ ExactInv BY TurnInvInit, ExactInvInit
<1>2. TurnInv /\ ExactInv /\ [Next]_vars => (TurnInv /\ ExactInv)' BY TurnInvStep, ExactInvStep
<1> QED BY <1>1, <1>2, PTL DEF Spec

------------------------
(* The promise.                                                             *)

Life       == [g \in Turns |-> IF exec[g] \in Open THEN "open" ELSE exec[g]]
Authorized == {g \in Turns : started[g]}
Acting     == {task[t].gen : t \in {t \in TaskIds : task[t].pc = "io"}}

\* A step that changes neither rows nor who acts is a stutter of the promise.
LEMMA SameActing ==
    ASSUME \A u \in TaskIds :
             /\ task[u].pc = "io" => task'[u].pc = "io" /\ task'[u].gen = task[u].gen
             /\ task'[u].pc = "io" => task[u].pc = "io" /\ task'[u].gen = task[u].gen
    PROVE  Acting' = Acting
BY DEF Acting

\* A row action leaves the promise alone or ends one turn.
LEMMA RowActionPromise ==
    ASSUME TurnInv, ExactInv, RowAction
    PROVE  Promise!PromiseNext \/ UNCHANGED <<Life, Authorized, Acting>>
<1>1. UNCHANGED <<started, task>> BY RowActionFrame DEF TurnInv, RowStep
<1>2. Authorized' = Authorized /\ Acting' = Acting BY <1>1 DEF Authorized, Acting
<1>3. CASE KeepsLives BY <1>3, <1>2 DEF KeepsLives, Life
<1>4. ASSUME NEW g \in Turns, EndsTurn(g)
      PROVE  Promise!PromiseNext
  <2>1. PICK how \in Terminal : how = exec'[g] /\ how \notin Open BY <1>4 DEF EndsTurn, Open, Terminal
  <2>2. Life[g] = "open" /\ Life' = [Life EXCEPT ![g] = how] BY <1>4, <2>1 DEF EndsTurn, Life
  <2>3. g \notin Acting BY <1>4
       DEF EndsTurn, OutOfReach, Acting, Acts, TurnInv, SlotInv, ActsInSlot
  <2>4. how = "completed" => g \in Authorized BY <1>4, <2>1 DEF EndsTurn, Authorized
  <2>5. Promise!End(g, how) BY <1>2, <2>2, <2>3, <2>4 DEF Promise!End, Life, Authorized, Acting
  <2>6. how \in Promise!Ends BY <2>1 DEF Promise!Ends, Terminal
  <2> QED BY <2>5, <2>6 DEF Promise!PromiseNext
<1> QED BY <1>3, <1>4, RowActionEnds

\* Assign begins a turn, authorize_start_in authorizes it, enter_prepared_turn
\* lets the provider act, and a result, a stop or a crash puts it to rest.
LEMMA TurnActionPromise ==
    ASSUME TurnInv, ExactInv, TurnAction
    PROVE  Promise!PromiseNext \/ UNCHANGED <<Life, Authorized, Acting>>
<1>a. /\ exec \in [Turns -> ExecStates] /\ started \in [Turns -> BOOLEAN]
      /\ task \in [TaskIds -> TaskState]
      /\ turn \in Nat /\ 1..turn \subseteq Turns /\ TypeOK
      /\ \A g \in Turns : g \in Nat /\ g > 0 /\ RowOf(g)
      /\ \A t \in TaskIds : TaskOf(t) /\ DoorOf(t)
  BY BoundsAssumption DEF TurnInv, TypeOK, Turns, RowsInv, TasksInv, ExactInv
<1>b. ASSUME UNCHANGED <<exec, started>>
      PROVE  Life' = Life /\ Authorized' = Authorized
  BY <1>b DEF Life, Authorized
<1>c. ASSUME UNCHANGED <<exec, started>>, Acting' \subseteq Acting
      PROVE  Promise!PromiseNext
  <2>1. PICK gs \in SUBSET Acting : gs = Acting \ Acting' OBVIOUS
  <2>2. Acting' = Acting \ gs BY <1>c, <2>1
  <2>3. Promise!Rest(gs) BY <1>b, <1>c, <2>2 DEF Promise!Rest, Life, Authorized, Acting
  <2> QED BY <2>3 DEF Promise!PromiseNext, Acting
<1>1. CASE Assign
  <2>1. PICK g \in Turns : g = turn + 1 /\ turn < g BY <1>1, <1>a, BoundsAssumption DEF Assign, Turns
  <2>2. Life[g] = "none" BY <1>a, <2>1 DEF RowOf, Life, Open
  <2>3. \A h \in Turns : h < g => Life[h] \in Terminal
    BY <1>a, <1>1, <2>1 DEF Life, Open, Terminal, RowOf, Assign, TurnOpen
  <2>4. Life' = [Life EXCEPT ![g] = "open"] BY <1>1, <1>a, <2>1 DEF Assign, Life, Open
  <2>5. Authorized' = Authorized BY <1>1 DEF Assign, Authorized
  <2>6. Acting' = Acting BY <1>1, FreshExists, <1>a, SameActing DEF Assign, FreshTasks, Spawn, NoTask
  <2>7. Promise!Begin(g) BY <2>2, <2>3, <2>4, <2>5, <2>6
       DEF Promise!Begin, Promise!Ends, Terminal, Life, Authorized, Acting
  <2> QED BY <2>7 DEF Promise!PromiseNext
<1>2. ASSUME NEW t \in TaskIds, Prepare(t)
      PROVE  UNCHANGED <<Life, Authorized, Acting>>
  BY <1>2, <1>a, PrepareShape, <1>b, SameActing
<1>3. ASSUME NEW t \in TaskIds, AuthorizeStart(t)
      PROVE  Promise!PromiseNext \/ UNCHANGED <<Life, Authorized, Acting>>
  <2>a. PICK g \in Turns : g = task[t].gen BY <1>3, <1>a DEF AuthorizeStart, TaskOf
  <2>1. Acting' = Acting BY <1>3, <1>a, SameActing DEF AuthorizeStart, TaskState
  <2>2. CASE UNCHANGED <<exec, started>> BY <1>b, <2>1, <2>2
  <2>3. CASE /\ exec[g] = "assigned"
             /\ exec' = [exec EXCEPT ![g] = "start_dispatching"]
             /\ started' = [started EXCEPT ![g] = TRUE]
    BY <1>a, <2>3, <2>1 DEF Life, Open, Authorized, Promise!Authorize, Acting, Promise!PromiseNext
  <2> QED BY <1>3, <2>a, <2>2, <2>3 DEF AuthorizeStart
<1>4. ASSUME NEW t \in TaskIds,
             TaskPanics(t) \/ RetainUnstarted(t) \/ AuthorityUnresolved(t)
             \/ TakeResult(t)
      PROVE  UNCHANGED <<Life, Authorized, Acting>>
  BY <1>4, <1>a, <1>b, SameActing DEF TaskPanics, RetainUnstarted, AuthorityUnresolved, TakeResult, TaskState,
     DoneTask, NoTask, durable
<1>5. ASSUME NEW t \in TaskIds, Enter(t)
      PROVE  Promise!PromiseNext \/ UNCHANGED <<Life, Authorized, Acting>>
  <2>a. PICK g \in Turns : g = task[t].gen BY <1>5, <1>a DEF Enter, TaskOf
  <2>1. /\ UNCHANGED <<exec, started>> /\ task[t].pc = "authorized"
        /\ \A u \in TaskIds : u # t => task'[u] = task[u]
        /\ task'[t].gen = g
        /\ \/ task'[t].pc = "reported"
           \/ task'[t].pc = "io" /\ slot = task[t].prep
    BY <1>5, <1>a, <2>a, EnterShape
  <2>2. CASE task'[t].pc = "reported" BY <1>b, <2>a, <2>1, <2>2, SameActing
  <2>3. CASE task'[t].pc = "io" /\ slot = task[t].prep
    BY <1>a, <2>a, <2>1, <2>3, <1>b DEF TaskOf, DoorOf, Acts, Acting, Life, Authorized, Promise!Act,
       Promise!PromiseNext
  <2> QED BY <2>1, <2>2, <2>3
<1>6. ASSUME NEW t \in TaskIds, NEW r \in Results \ {"none"}, Finish(t, r)
      PROVE  Promise!PromiseNext
  BY <1>6, <1>a, <1>c DEF Finish, TaskState, durable, Acting
<1>7. CASE RecoverAssigned
  BY <1>7, <1>b, SameActing, FreshExists, <1>a DEF RecoverAssigned, durable, FreshTasks, Spawn, NoTask
<1>8. ASSUME StartRuntime \/ \E d \in Drivers : Release(d) \/ Vacate(d)
      PROVE  UNCHANGED <<Life, Authorized, Acting>>
  BY <1>8, <1>b, SameActing DEF StartRuntime, Release, Vacate, durable
<1>9. CASE StopRuntime
  <2>1. UNCHANGED <<exec, started>> BY <1>9 DEF StopRuntime, durable
  <2>2. CASE UNCHANGED task BY <1>b, <2>1, <2>2, SameActing
  <2>3. ASSUME NEW x,
               task' = [t \in TaskIds |->
                          IF task[t].pc = "io"
                          THEN [task[t] EXCEPT !.pc = "reported", !.result = x]
                          ELSE task[t]]
        PROVE  Promise!PromiseNext
    BY <1>a, <2>3, <1>c, <2>1 DEF TaskState, Acting
  <2> QED BY <1>9, <2>2, <2>3 DEF StopRuntime
<1>10. CASE Restart BY <1>10, <1>c DEF Restart, durable, NoTask, DoneTask, Acting
<1> QED BY <1>1, <1>2, <1>3, <1>4, <1>5, <1>6, <1>7, <1>8, <1>9, <1>10
     DEF TurnAction, TaskNext

\* The four processes keep the promise of TurnPromise when no assigned turn is
\* handed out twice: turns come one after the other and end once, the provider
\* acts on a turn only between its authorized start and its end, and whoever
\* ends a turn knew that the provider had not started or had quiesced.
THEOREM PromiseKept ==
    ASSUME ~Duplicates
    PROVE  Spec => KeepsPromise
<1>1. Init => Promise!PromiseInit BY DEF Init, NoTask, Promise!PromiseInit, Open
<1>2. TurnInv /\ ExactInv /\ [Next]_vars =>
        Promise!PromiseNext \/ UNCHANGED <<Life, Authorized, Acting>>
  BY TwoKinds, RowActionPromise, TurnActionPromise DEF vars, durable, Life, Authorized, Acting
<1>3. TurnInv /\ ExactInv /\ [Next]_vars =>
        [Promise!PromiseNext]_<<[g \in Turns |-> IF exec[g] \in Open
                                                 THEN "open" ELSE exec[g]],
                                {g \in Turns : started[g]},
                                {task[t].gen : t \in {t \in TaskIds :
                                                        task[t].pc = "io"}}>>
  BY <1>2 DEF Life, Authorized, Acting
<1> QED BY <1>1, <1>3, ExactInvariant, PTL DEF Spec, KeepsPromise, Promise!PromiseSpec

------------------------
(* The third layer: who still serves the slot once its turn has ended.      *)

\* The runtime that turn g was given to does not run any more.
Gone(g) == runtime # "running" \/ ~bound[g]

\* A stopped runtime still shows turn g.
StoppedWith(g) == slot # 0 /\ runtime = "stopped" /\ prep[slot].gen = g

\* The slot is given to a turn of the present launch, and a task is on the way
\* to the provider as long as it says "preparing".
SlotServed ==
    slot # 0 =>
        /\ bound[prep[slot].gen] /\ prep[slot].phase # "none"
        /\ runtime = "stopped" => prep[slot].result = "stopped"
        /\ prep[slot].phase = "preparing" =>
             /\ task[slot].pc \in {"prepared", "authorized", "refused"}
             /\ task[slot].gen = prep[slot].gen
        /\ exec[prep[slot].gen] \in Terminal => prep[slot].phase \in Quiesced

\* What is known of a task that has not started, and of one that reported.
ServedTask(t) ==
    /\ task[t].pc \in {"spawned", "prepared"} => ~started[task[t].gen]
    /\ task[t].pc = "spawned" /\ exec[task[t].gen] \in Terminal => Gone(task[t].gen)
    /\ task[t].pc = "reported" /\ task[t].result = "stopped" => Gone(task[t].gen)
    /\ task[t].pc = "reported" /\ StoppedWith(task[t].gen) =>
          task[t].result = "stopped"

\* A preparation that shows the end of its runtime.
GonePrep(p) ==
    prep[p].gen # 0 /\ (prep[p].phase = "gone" \/ prep[p].result = "stopped") =>
        Gone(prep[p].gen)

\* What a driver that ends a turn has seen: a stop is committed as one, a slot
\* is released while the runtime runs, and vacated when it does not.
ServedDriver(d) ==
    /\ StoppedWith(driver[d].gen) =>
         /\ driver[d].pc = "commit" => driver[d].result = "stopped"
         /\ driver[d].pc \notin {"complete", "release"}
         /\ d = "recon" => driver[d].pc # "not_started"
    /\ /\ driver[d].pc \in {"commit", "complete"}
       /\ slot # 0 /\ prep[slot].gen = driver[d].gen
       => prep[slot].phase \in Quiesced
    /\ /\ driver[d].gen # 0
       /\ \/ driver[d].pc = "vacate"
          \/ driver[d].pc = "commit" /\ driver[d].result = "stopped"
       => Gone(driver[d].gen)
    /\ driver[d].pc = "vacate" => driver[d].gen \in 0..turn

\* A stop that finds its runtime stopped by a turn will find that turn's task.
StopFindsTask ==
    /\ driver["actor"].pc \in {"stop", "stopped"} => driver["actor"].gen = 0
    /\ /\ driver["actor"].pc \in {"stop", "stopped", "vacate"}
       /\ driver["actor"].gen = 0 /\ slot # 0 /\ runtime = "stopped"
       => \E t \in TaskIds :
             task[t].pc = "reported" /\ task[t].gen = prep[slot].gen

\* Somebody is about to empty the slot of a turn that has ended.
Emptied ==
    slot # 0 /\ exec[prep[slot].gen] \in Terminal =>
        \/ \E d \in Drivers : /\ driver[d].pc \in {"release", "vacate"}
                              /\ driver[d].gen = prep[slot].gen
        \/ /\ driver["actor"].pc = "vacate" /\ driver["actor"].gen = 0
           /\ runtime = "stopped"

ServeInv ==
    /\ SlotServed /\ StopFindsTask /\ Emptied
    /\ \A t \in TaskIds : ServedTask(t) /\ GonePrep(t)
    /\ \A d \in Drivers : ServedDriver(d)

\* Where a driver carries an end of a turn, or a stop.
Bearing == {"commit", "complete", "release", "vacate", "not_started", "stop",
            "stopped"}

\* How a row action moves a driver to such a place, and from where.
Carries(d) ==
    LET from == driver[d].pc
        to   == driver'[d].pc
        p    == driver[d].prep
    IN
    \/ from = "commit" /\ to = "complete" /\ driver[d].result = "completed"
    \/ from = "commit" /\ to = "release" /\ driver[d].result # "stopped"
    \/ from = "complete" /\ to = "release"
    \/ from = "commit" /\ to = "vacate" /\ driver[d].result = "stopped"
    \/ /\ from = "wait" /\ to = "release"
       /\ prep[p].phase \in {"not_started", "result_retained"}
    \/ /\ from = "wait" /\ to = "vacate"
       /\ prep[p].phase = "gone" \/ prep[p].result = "stopped"
    \/ d = "recon" /\ from = "not_started" /\ to = "release"
    \/ from = "unowned" /\ to = "vacate" /\ runtime # "running"
    \/ /\ from = "look" /\ to = "commit" /\ slot # 0
       /\ prep[slot].gen = driver[d].gen /\ prep[slot].phase \in Quiesced
       /\ driver'[d].result = prep[slot].result
    \/ from = "look" /\ to = "not_started" /\ runtime = "running"
    \/ d = "actor" /\ from = "idle" /\ to = "stop" /\ runtime = "running"
    \/ d = "actor" /\ from = "stopped" /\ to = "vacate"

DriverMove(d) ==
    \/ driver'[d] = driver[d]
    \/ driver[d].pc \notin {"release", "vacate"} /\ driver'[d].pc \notin Bearing
    \/ driver'[d].gen = driver[d].gen /\ Carries(d)

\* Every row action moves the drivers so.
LEMMA RowActionMoves ==
    ASSUME TurnInv, RowAction, NEW e \in Drivers
    PROVE  DriverMove(e)
<1> USE DEF Bearing
<1>a. /\ driver \in [Drivers -> DriverState]
      /\ "actor" \in Drivers /\ "recon" \in Drivers /\ Drivers = {"actor", "recon"}
  BY DEF TurnInv, TypeOK, Drivers
<1>1. ASSUME NEW d \in Drivers, CommitRunning(d)
      PROVE  DriverMove(e)
  BY <1>1, <1>a, RunShape DEF CommitRunning, Yielded, DriverMove, Carries
<1>2. ASSUME NEW d \in Drivers, CommitCompletion(d)
      PROVE  DriverMove(e)
  BY <1>2, <1>a, RunShape DEF CommitCompletion, Yielded, DriverMove, Carries
<1>3. ASSUME NEW d \in Drivers, CommitFailure(d)
      PROVE  DriverMove(e)
  BY <1>3, <1>a, RunShape DEF CommitFailure, Yielded, DriverMove, Carries
<1>4. ASSUME NEW d \in Drivers, CommitUncertain(d)
      PROVE  DriverMove(e)
  BY <1>4, <1>a, RunShape DEF CommitUncertain, DriverMove
<1>5. ASSUME NEW d \in Drivers, QuiescedRetained(d)
      PROVE  DriverMove(e)
  BY <1>5, <1>a, RunShape DEF QuiescedRetained, DriverMove, Carries
<1>6. ASSUME NEW d \in Drivers, QuiescedGone(d)
      PROVE  DriverMove(e)
  BY <1>6, <1>a, RunShape DEF QuiescedGone, DriverMove, Carries
<1>7. ASSUME NEW d \in Drivers, Unconfirmed(d)
      PROVE  DriverMove(e)
  BY <1>7, <1>a, RunShape DEF Unconfirmed, DriverMove
<1>8. CASE Mute BY <1>8, <1>a, RunShape DEF Mute, DriverMove
<1>9. CASE Unmute BY <1>9, <1>a DEF Unmute, DriverMove
<1>10. CASE AgentInterrupt BY <1>10, <1>a, RunShape DEF AgentInterrupt, DriverMove
<1>11. CASE AgentInterruptCommit BY <1>11, <1>a, RunShape DEF AgentInterruptCommit, DriverMove
<1>12. CASE ApplyClaim BY <1>12, <1>a, RunShape DEF ApplyClaim, DriverMove
<1>13. CASE ApplyBegin BY <1>13, <1>a, RunShape DEF ApplyBegin, DriverMove
<1>14. CASE ApplyWaiting BY <1>14, <1>a, RunShape DEF ApplyWaiting, DriverMove
<1>15. CASE ApplyDispatch BY <1>15, <1>a, RunShape DEF ApplyDispatch, DriverMove
<1>16. CASE ApplyIssued BY <1>16, <1>a, RunShape DEF ApplyIssued, DriverMove
<1>17. CASE LoadCandidate
  <2> DEFINE r == [Idle EXCEPT !.gen = turn,
                      !.pc = IF effect[turn].phase = "none"
                             THEN "look" ELSE "recover_claim",
                      !.snap = [exec       |-> exec[turn],
                                effect     |-> effect[turn].phase,
                                dispatched |-> effect[turn].dispatched,
                                started    |-> started[turn]]]
  <2>1. driver["recon"].pc = "idle" /\ driver' = [driver EXCEPT !["recon"] = r] BY <1>17 DEF LoadCandidate
  <2>2. r.pc \in {"look", "recover_claim"} BY DEF Idle
  <2> HIDE DEF r
  <2> QED BY <1>a, <2>1, <2>2 DEF DriverMove
<1>18. CASE RecoverClaim BY <1>18, <1>a, RunShape DEF RecoverClaim, DriverMove
<1>19. CASE RecoverBegin BY <1>19, <1>a, RunShape DEF RecoverBegin, DriverMove
<1>20. CASE RecoverWait BY <1>20, <1>a, RunShape DEF RecoverWait, DriverMove
<1>21. CASE Look
  <2> DEFINE r == [driver["recon"] EXCEPT !.pc = "commit",
                                         !.result = prep[slot].result]
             g == driver["recon"].gen
  <2>1. /\ driver["recon"].pc = "look"
        /\ \/ EndRun("recon") \/ Goto("recon", "unowned")
           \/ Goto("recon", "not_started") /\ runtime = "running"
           \/ /\ driver' = [driver EXCEPT !["recon"] = r]
              /\ slot # 0 /\ prep[slot].gen = g
              /\ prep[slot].phase \in Quiesced
    BY <1>21 DEF Look, OwnsTurn, Quiesced
  <2>2. r.pc = "commit" /\ r.result = prep[slot].result /\ r.gen = g BY <1>a DEF DriverState
  <2> HIDE DEF r
  <2> QED BY <1>a, <2>1, <2>2, RunShape DEF DriverMove, Carries
<1>22. CASE FinalizeNotStarted BY <1>22, <1>a, RunShape DEF FinalizeNotStarted, DriverMove, Carries
<1>23. CASE FinalizeGone BY <1>23, <1>a, RunShape DEF FinalizeGone, DriverMove, Carries
<1>24. CASE Inconclusive BY <1>24, <1>a, RunShape DEF Inconclusive, DriverMove
<1>25. CASE TaskDeath BY <1>25, <1>a, RunShape DEF TaskDeath, DriverMove
<1>26. CASE LeaveQuarantined BY <1>26, <1>a, RunShape DEF LeaveQuarantined, DriverMove
<1>27. CASE AgentStop BY <1>27, <1>a, RunShape DEF AgentStop, DriverMove, Carries
<1>28. CASE RecordStop BY <1>28, <1>a, RunShape DEF RecordStop, DriverMove, Carries
<1>29. ASSUME NEW g \in Turns, Expire(g)
       PROVE  DriverMove(e)
  BY <1>29, <1>a DEF Expire, DriverMove
<1> QED BY <1>1, <1>2, <1>3, <1>4, <1>5, <1>6, <1>7, <1>8, <1>9, <1>10, <1>11,
     <1>12, <1>13, <1>14, <1>15, <1>16, <1>17, <1>18, <1>19, <1>20, <1>21,
     <1>22, <1>23, <1>24, <1>25, <1>26, <1>27, <1>28, <1>29
     DEF RowAction, WaitNext, ApplyNext

\* A row action that ends turn g: a driver carries its end on, from a committed
\* result, a quiesced or unstarted preparation or a runtime that is gone, or a
\* stop is recorded.
EndCarried(g) ==
    \/ \E d \in Drivers :
         /\ driver[d].gen = g /\ driver'[d].gen = g
         /\ driver[d].pc \in {"commit", "complete", "wait", "unowned"}
         /\ driver'[d].pc \in {"release", "vacate"}
    \/ /\ driver["recon"].gen = g /\ driver'["recon"].gen = g
       /\ driver["recon"].pc = "not_started" /\ driver'["recon"].pc = "release"
    \/ driver["actor"].pc = "stopped" /\ driver'["actor"].pc = "vacate"

(* A row that an operation brings to its end is carried to the room in the same transaction. *)
LEMMA RowActionCarries ==
    ASSUME TurnInv, RowAction, NEW g \in Turns,
           exec[g] \notin Terminal, exec'[g] \in Terminal
    PROVE  EndCarried(g)
<1> USE DEF Terminal
<1>a. /\ driver \in [Drivers -> DriverState] /\ exec \in [Turns -> ExecStates]
      /\ "actor" \in Drivers /\ "recon" \in Drivers /\ Drivers = {"actor", "recon"}
      /\ exec[g] \notin Terminal /\ exec'[g] \in Terminal
  BY DEF TurnInv, TypeOK, Drivers
<1>1. ASSUME NEW d \in Drivers, CommitRunning(d)
      PROVE  EndCarried(g)
  BY <1>1, <1>a DEF CommitRunning
<1>2. ASSUME NEW d \in Drivers, CommitCompletion(d)
      PROVE  EndCarried(g)
  BY <1>2, <1>a, RunShape DEF CommitCompletion, EndCarried
<1>3. ASSUME NEW d \in Drivers, CommitFailure(d)
      PROVE  EndCarried(g)
  BY <1>3, <1>a, RunShape DEF CommitFailure, EndCarried
<1>4. ASSUME NEW d \in Drivers, CommitUncertain(d)
      PROVE  EndCarried(g)
  BY <1>4, <1>a DEF CommitUncertain
<1>5. ASSUME NEW d \in Drivers, QuiescedRetained(d)
      PROVE  EndCarried(g)
  BY <1>5, <1>a, RunShape DEF QuiescedRetained, Settle, EndCarried
<1>6. ASSUME NEW d \in Drivers, QuiescedGone(d)
      PROVE  EndCarried(g)
  BY <1>6, <1>a, RunShape DEF QuiescedGone, Settle, EndCarried
<1>7. ASSUME NEW d \in Drivers, Unconfirmed(d)
      PROVE  EndCarried(g)
  BY <1>7, <1>a DEF Unconfirmed, SetPair
<1>8. CASE Mute BY <1>8, <1>a DEF Mute, RecordInterrupt
<1>9. CASE AgentInterruptCommit BY <1>9, <1>a DEF AgentInterruptCommit, RecordInterrupt
<1>10. CASE ApplyBegin BY <1>10, <1>a DEF ApplyBegin
<1>11. CASE ApplyWaiting BY <1>11, <1>a DEF ApplyWaiting, SetPair
<1>12. CASE ApplyIssued BY <1>12, <1>a DEF ApplyIssued, SetPair
<1>13. CASE RecoverWait BY <1>13, <1>a DEF RecoverWait, SetPair
<1>14. CASE FinalizeNotStarted BY <1>14, <1>a, RunShape DEF FinalizeNotStarted, EndCarried
<1>15. CASE FinalizeGone BY <1>15, <1>a, RunShape DEF FinalizeGone, Settle, EndCarried
<1>16. CASE TaskDeath BY <1>16, <1>a DEF TaskDeath, SetPair
<1>17. CASE RecordStop BY <1>17, <1>a, RunShape DEF RecordStop, EndCarried
<1>18. CASE UNCHANGED exec BY <1>18, <1>a
<1> QED BY <1>1, <1>2, <1>3, <1>4, <1>5, <1>6, <1>7, <1>8, <1>9, <1>10, <1>11,
     <1>12, <1>13, <1>14, <1>15, <1>16, <1>17, <1>18
     DEF RowAction, WaitNext, ApplyNext, Unmute, AgentInterrupt, ApplyClaim, ApplyDispatch, LoadCandidate, RecoverClaim, RecoverBegin, Look, Inconclusive, LeaveQuarantined, AgentStop, Expire, durable

\* No row action binds a turn to a launch.
LEMMA RowActionBound ==
    ASSUME RowAction
    PROVE  bound' = bound
BY DEF RowAction, WaitNext, ApplyNext, CommitRunning, CommitCompletion, CommitFailure,
       CommitUncertain, QuiescedRetained, QuiescedGone, Unconfirmed, Mute, Unmute,
       AgentInterrupt, AgentInterruptCommit, ApplyClaim, ApplyBegin, ApplyWaiting,
       ApplyDispatch, ApplyIssued, LoadCandidate, RecoverClaim, RecoverBegin,
       RecoverWait, Look, FinalizeNotStarted, FinalizeGone, Inconclusive, TaskDeath,
       LeaveQuarantined, AgentStop, RecordStop, Expire, adapter

\* What the slot, the tasks and the drivers are known to be.
LEMMA ServeFacts ==
    ASSUME TurnInv, ExactInv
    PROVE  /\ "actor" \in Drivers /\ "recon" \in Drivers /\ Drivers = {"actor", "recon"}
           /\ 0 \notin TaskIds /\ 0 \notin Turns /\ 1..turn \subseteq Turns
           /\ slot \in {0} \cup TaskIds
           /\ slot # 0 => /\ prep[slot].gen \in 1..turn /\ prep[slot].gen \in Turns
                          /\ \/ runtime = "running"
                             \/ runtime = "stopped" /\ prep[slot].phase = "result_uncertain"
                          /\ \A p \in TaskIds : prep[p].gen = prep[slot].gen => p = slot
           /\ \A t \in TaskIds :
                /\ task[t].prep \in {0, t}
                /\ task[t].pc \in {"none", "done"} <=> task[t].gen = 0
                /\ task[t].pc \in TaskPcs
                /\ task[t].gen # 0 => task[t].gen \in 1..turn /\ task[t].gen \in Turns
                /\ task[t].pc \in {"prepared", "authorized", "refused", "io"} =>
                     task[t].prep = t /\ prep[t].gen = task[t].gen
                /\ task[t].pc = "spawned" =>
                     \A p \in TaskIds : prep[p].gen # task[t].gen
                /\ \A u \in TaskIds : task[u].gen = task[t].gen /\ task[u].gen # 0 => u = t
           /\ \A p \in TaskIds :
                prep[p].gen # 0 => prep[p].gen \in 1..turn /\ prep[p].gen \in Turns
           /\ \A d \in Drivers : driver[d].gen # 0 => driver[d].gen \in 0..MaxTurns
           /\ \A d \in Drivers : driver[d].pc \notin Turnless =>
                driver[d].gen \in 1..turn /\ driver[d].gen \in Turns
<1>1. /\ "actor" \in Drivers /\ "recon" \in Drivers /\ Drivers = {"actor", "recon"}
      /\ 0 \notin TaskIds /\ 0 \notin Turns /\ turn \in Nat /\ 1..turn \subseteq Turns
      /\ slot \in {0} \cup TaskIds
      /\ \A g \in 0..turn : g # 0 => g \in 1..turn
      /\ \A g \in 1..turn : g # 0
  BY BoundsAssumption DEF TurnInv, TypeOK, TaskIds, Turns, Drivers
<1>2. /\ OwnTask /\ OwnPreparation /\ SlotOK
      /\ \A t \in TaskIds : TaskOf(t)
      /\ \A d \in Drivers : DriverOf(d)
  BY DEF TurnInv, TasksInv, SlotInv, DriversInv, ExactInv
<1>3. /\ \A t \in TaskIds : task[t].pc \in TaskPcs /\ task[t].gen \in 0..MaxTurns
      /\ \A d \in Drivers : driver[d].gen \in 0..MaxTurns
  BY DEF TurnInv, TypeOK, TaskState, DriverState
<1>4. slot # 0 => /\ prep[slot].gen \in 1..turn /\ prep[slot].gen \in Turns
                  /\ \/ runtime = "running"
                     \/ runtime = "stopped" /\ prep[slot].phase = "result_uncertain"
                  /\ \A p \in TaskIds : prep[p].gen = prep[slot].gen => p = slot
  BY <1>1, <1>2 DEF SlotOK, OwnPreparation
<1>5. ASSUME NEW t \in TaskIds
      PROVE  /\ task[t].prep \in {0, t}
             /\ task[t].pc \in {"none", "done"} <=> task[t].gen = 0
             /\ task[t].gen # 0 => task[t].gen \in 1..turn /\ task[t].gen \in Turns
             /\ task[t].pc \in {"prepared", "authorized", "refused", "io"} =>
                  task[t].prep = t /\ prep[t].gen = task[t].gen
             /\ task[t].pc = "spawned" =>
                  \A p \in TaskIds : prep[p].gen # task[t].gen
             /\ \A u \in TaskIds : task[u].gen = task[t].gen /\ task[u].gen # 0 => u = t
  BY <1>1, <1>2, <1>3 DEF TaskOf, OwnTask, OwnPreparation
<1>6. \A p \in TaskIds :
        prep[p].gen # 0 => prep[p].gen \in 1..turn /\ prep[p].gen \in Turns
  BY <1>1, <1>2 DEF OwnPreparation
<1>7. \A d \in Drivers : driver[d].pc \notin Turnless =>
        driver[d].gen \in 1..turn /\ driver[d].gen \in Turns
  BY <1>1, <1>2 DEF DriverOf
<1> QED BY <1>1, <1>3, <1>4, <1>5, <1>6, <1>7

\* A turn that a row action ends has a quiesced preparation in the slot, if
\* any, and no task that could still prepare it.
LEMMA EndedIsQuiet ==
    ASSUME TurnInv, ExactInv, ServeInv, RowAction, NEW g \in Turns,
           exec[g] \notin Terminal, exec'[g] \in Terminal
    PROVE  /\ slot # 0 /\ prep[slot].gen = g => prep[slot].phase \in Quiesced
           /\ \A t \in TaskIds : task[t].pc = "spawned" /\ task[t].gen = g => Gone(g)
<1>a. /\ SlotServed /\ EnteredActs /\ StoppedOK /\ NotStartedOK
      /\ \A t \in TaskIds : ServedTask(t) /\ GonePrep(t) /\ PhaseOf(t)
      /\ \A d \in Drivers : ServedDriver(d) /\ DriverOf(d) /\ WaitsFor(d)
  BY DEF ServeInv, TurnInv, SlotInv, DriversInv, ExactInv
<1>b. /\ 0 \notin TaskIds /\ slot \in {0} \cup TaskIds /\ g # 0 /\ "recon" \in Drivers
      /\ slot # 0 => /\ prep[slot].gen \in Turns
                     /\ \/ runtime = "running"
                        \/ prep[slot].phase = "result_uncertain"
                     /\ \A p \in TaskIds : prep[p].gen = prep[slot].gen => p = slot
      /\ \A t \in TaskIds : task[t].pc = "spawned" =>
                              \A p \in TaskIds : prep[p].gen # task[t].gen
  BY ServeFacts
<1>c. /\ slot # 0 => prep[slot].phase \in PrepPhases
      /\ "result_uncertain" \in Quiesced
  BY <1>b DEF TurnInv, TypeOK, PrepState, Quiesced
<1>1. CASE runtime # "running" BY <1>1, <1>b, <1>c DEF Gone
<1>2. ASSUME NEW d \in Drivers, driver[d].gen = g, driver[d].pc \in {"commit", "complete"}
      PROVE  /\ slot # 0 /\ prep[slot].gen = g => prep[slot].phase \in Quiesced
             /\ \A t \in TaskIds : task[t].pc = "spawned" /\ task[t].gen = g => Gone(g)
  BY <1>2, <1>a DEF DriverOf, ServedDriver, ServedTask
<1>3. ASSUME NEW d \in Drivers, driver[d].gen = g, driver[d].pc = "wait",
             \/ prep[driver[d].prep].phase \in {"not_started", "result_retained", "gone"}
             \/ prep[driver[d].prep].result = "stopped"
      PROVE  /\ slot # 0 /\ prep[slot].gen = g => prep[slot].phase \in Quiesced
             /\ \A t \in TaskIds : task[t].pc = "spawned" /\ task[t].gen = g => Gone(g)
  BY <1>3, <1>a, <1>b DEF WaitsFor, Waiting, PhaseOf, Quiesced
<1>4. ASSUME driver["recon"].gen = g, driver["recon"].pc = "not_started"
      PROVE  /\ slot # 0 /\ prep[slot].gen = g => prep[slot].phase \in Quiesced
             /\ \A t \in TaskIds : task[t].pc = "spawned" /\ task[t].gen = g => Gone(g)
  BY <1>4, <1>a, <1>b, <1>c DEF NotStartedOK, SlotServed, EnteredActs, TurnInv, TasksInv, TaskOf, PrepPhases
<1>5. EndCarried(g) BY RowActionCarries
<1>6. CASE driver["actor"].pc = "stopped" BY <1>1, <1>6, <1>a DEF StoppedOK
<1>7. ASSUME NEW d \in Drivers, driver[d].gen = g, driver'[d].gen = g,
             driver[d].pc \in {"commit", "complete", "wait", "unowned"},
             driver'[d].pc \in {"release", "vacate"}
      PROVE  /\ slot # 0 /\ prep[slot].gen = g => prep[slot].phase \in Quiesced
             /\ \A t \in TaskIds : task[t].pc = "spawned" /\ task[t].gen = g => Gone(g)
  BY <1>7, RowActionMoves, <1>3, <1>1, <1>2 DEF DriverMove, Bearing, Carries
<1> QED BY <1>4, <1>5, <1>6, <1>7 DEF EndCarried


\* Row actions keep the third layer.
LEMMA RowActionServes ==
    ASSUME TurnInv, ExactInv, ServeInv, RowAction
    PROVE  ServeInv'
<1>a. /\ UNCHANGED <<turn, started, runtime, slot, task, bound>>
      /\ \A p \in TaskIds : /\ prep'[p].gen = prep[p].gen
                            /\ prep'[p].phase = prep[p].phase
                            /\ prep'[p].result = prep[p].result
  BY RowActionFrame, RowActionBound DEF TurnInv, RowStep
<1>b. /\ SlotServed /\ StopFindsTask /\ Emptied
      /\ \A t \in TaskIds : ServedTask(t) /\ GonePrep(t) /\ PhaseOf(t)
      /\ \A d \in Drivers : ServedDriver(d) /\ WaitsFor(d)
  BY DEF ServeInv, ExactInv
<1>c. /\ "actor" \in Drivers /\ "recon" \in Drivers
      /\ 0 \notin TaskIds /\ slot \in {0} \cup TaskIds
      /\ slot # 0 => /\ prep[slot].gen \in Turns
                     /\ \/ runtime = "running"
                        \/ runtime = "stopped" /\ prep[slot].phase = "result_uncertain"
                     /\ \A p \in TaskIds : prep[p].gen = prep[slot].gen => p = slot
      /\ \A t \in TaskIds : task[t].gen # 0 => task[t].gen \in Turns
      /\ \A t \in TaskIds : task[t].pc \in {"none", "done"} <=> task[t].gen = 0
      /\ \A d \in Drivers : driver[d].pc \notin Turnless =>
                               driver[d].gen \in Turns /\ driver[d].gen # 0
  BY ServeFacts
<1>d. \A d \in Drivers : DriverMove(d) BY RowActionMoves
<1>e. \A g \in Turns :
        /\ exec[g] \in Terminal => exec'[g] \in Terminal
        /\ exec[g] \notin Terminal /\ exec'[g] \in Terminal =>
             /\ EndCarried(g)
             /\ slot # 0 /\ prep[slot].gen = g => prep[slot].phase \in Quiesced
             /\ \A t \in TaskIds : task[t].pc = "spawned" /\ task[t].gen = g => Gone(g)
  BY RowActionEnds, RowActionCarries, EndedIsQuiet DEF KeepsLives, EndsTurn, Open, Terminal
<1>f. /\ \A g : Gone(g)' <=> Gone(g)
      /\ \A g : StoppedWith(g)' <=> StoppedWith(g)
  BY <1>a, <1>c DEF Gone, StoppedWith
<1>g. /\ 0 \in 0..turn
      /\ \A d \in Drivers : driver[d].pc \notin Turnless => driver[d].gen \in 0..turn
  BY ServeFacts DEF TurnInv, TypeOK
<1>1. SlotServed' BY <1>a, <1>c, <1>b, <1>e DEF SlotServed
<1>2. ASSUME NEW t \in TaskIds PROVE ServedTask(t)' BY <1>c, <1>b, <1>e, <1>a, <1>f DEF ServedTask
<1>3. ASSUME NEW p \in TaskIds PROVE GonePrep(p)' BY <1>a, <1>b, <1>f DEF GonePrep
<1>4. ASSUME NEW d \in Drivers PROVE ServedDriver(d)'
  <2>1. CASE driver'[d] = driver[d] BY <1>a, <1>b, <1>c, <1>f, <2>1 DEF ServedDriver
  <2>2. CASE driver'[d].pc \notin Bearing BY <2>2 DEF ServedDriver, Bearing
  <2>3. CASE driver'[d].gen = driver[d].gen /\ Carries(d)
    <3> DEFINE g == driver[d].gen
    <3>1. driver'[d].gen = g BY <2>3
    <3>2. /\ StoppedWith(g) => /\ driver[d].pc = "commit" => driver[d].result = "stopped"
                               /\ driver[d].pc \notin {"complete", "release"}
                               /\ d = "recon" => driver[d].pc # "not_started"
          /\ /\ driver[d].pc \in {"commit", "complete"}
             /\ slot # 0 /\ prep[slot].gen = g
             => prep[slot].phase \in Quiesced
          /\ driver[d].pc = "commit" /\ driver[d].result = "stopped" /\ g # 0 => Gone(g)
      BY <1>b DEF ServedDriver
    <3>3. driver[d].pc = "wait" =>
            LET p == driver[d].prep IN
            /\ p \in TaskIds /\ prep[p].gen = g /\ g # 0
            /\ prep[p].phase = "gone" \/ prep[p].result = "stopped" => Gone(g)
            /\ slot # 0 /\ prep[slot].gen = g => slot = p
      BY <1>b, <1>c DEF WaitsFor, Waiting, GonePrep, Turnless
    <3>4. StoppedWith(g) => /\ slot # 0 /\ runtime = "stopped" /\ prep[slot].gen = g
                           /\ prep[slot].phase = "result_uncertain"
                           /\ prep[slot].result = "stopped"
      BY <1>b, <1>c DEF StoppedWith, SlotServed
    <3>5. StoppedWith(g) =>
            /\ driver'[d].pc = "commit" => driver'[d].result = "stopped"
            /\ driver'[d].pc \notin {"complete", "release", "not_started"}
      BY <3>4, <3>2, <3>3, <2>3 DEF Carries
    <3>9. driver'[d].pc = "vacate" => g \in 0..turn BY <1>b, <1>g, <2>3 DEF StopFindsTask, Carries, Turnless
    <3>6. /\ driver'[d].pc \in {"commit", "complete"}
          /\ slot # 0 /\ prep[slot].gen = g
          => prep[slot].phase \in Quiesced
      BY <2>3, <3>2 DEF Carries
    <3>7. /\ g # 0
          /\ \/ driver'[d].pc = "vacate"
             \/ driver'[d].pc = "commit" /\ driver'[d].result = "stopped"
          => Gone(g)
      BY <1>b, <2>3, <1>c, <3>2, <3>3 DEF StopFindsTask, Carries, GonePrep, Gone
    <3> HIDE DEF g
    <3>8. slot # 0 => prep'[slot].gen = prep[slot].gen /\ prep'[slot].phase = prep[slot].phase BY <1>a, <1>c
    <3> QED BY <1>a, <1>f, <3>1, <3>5, <3>6, <3>7, <3>8, <3>9 DEF ServedDriver
  <2> QED BY <1>d, <2>1, <2>2, <2>3 DEF DriverMove
<1>5. StopFindsTask'
  <2> DEFINE a == driver["actor"]
             b == driver'["actor"]
             Found == slot # 0 /\ runtime = "stopped" =>
                        \E t \in TaskIds :
                           task[t].pc = "reported" /\ task[t].gen = prep[slot].gen
  <2>1. SUFFICES /\ b.pc \in {"stop", "stopped"} => b.gen = 0
                 /\ b.pc \in {"stop", "stopped", "vacate"} /\ b.gen = 0 => Found
    BY <1>a, <1>c DEF StopFindsTask
  <2>2. /\ a.pc \in {"stop", "stopped"} => a.gen = 0
        /\ a.pc \in {"stop", "stopped", "vacate"} /\ a.gen = 0 => Found
        /\ a.pc \in {"commit", "wait", "unowned"} => a.gen # 0
        /\ a.pc = "idle" => a.gen = 0
    BY <1>b, <1>c DEF StopFindsTask, Turnless, TurnInv, DriversInv, DriverOf
  <2>3. \/ b = a
        \/ b.pc \notin {"stop", "stopped", "vacate"}
        \/ b.gen = a.gen /\ a.pc \in {"commit", "wait", "unowned"} /\ b.pc = "vacate"
        \/ b.gen = a.gen /\ a.pc = "idle" /\ runtime = "running" /\ b.pc = "stop"
        \/ b.gen = a.gen /\ a.pc = "stopped" /\ b.pc = "vacate"
    BY <1>c, <1>d DEF DriverMove, Carries, Bearing
  <2>4. runtime = "running" => Found OBVIOUS
  <2> HIDE DEF a, b, Found
  <2> QED BY <2>2, <2>3, <2>4
<1>6. Emptied'
  <2> DEFINE g == prep[slot].gen
  <2>1. SUFFICES ASSUME slot # 0, exec'[g] \in Terminal
                 PROVE  \/ \E d \in Drivers : /\ driver'[d].pc \in {"release", "vacate"}
                                              /\ driver'[d].gen = g
                        \/ /\ driver'["actor"].pc = "vacate" /\ driver'["actor"].gen = 0
                           /\ runtime = "stopped"
    BY <1>a, <1>c DEF Emptied
  <2>2. \A d \in Drivers : driver[d].pc \in {"release", "vacate"} => driver'[d] = driver[d]
    BY <1>d DEF DriverMove, Carries
  <2>3. CASE exec[g] \in Terminal BY <1>b, <1>c, <2>1, <2>2, <2>3 DEF Emptied
  <2>4. CASE exec[g] \notin Terminal
    BY <1>c, <2>1, <1>e, <2>4, <1>d, <1>b DEF DriverMove, Bearing, StopFindsTask, ExactInv, StoppedOK,
       EndCarried
  <2> QED BY <2>3, <2>4
<1> QED BY <1>1, <1>2, <1>3, <1>4, <1>5, <1>6 DEF ServeInv

\* A step of task t on its way to and through the provider, when it does not
\* stop the runtime.
TaskMove(t) ==
    /\ UNCHANGED <<turn, slot, bound, runtime, driver>>
    /\ task[t].pc \in {"prepared", "authorized", "refused", "io"}
    /\ task'[t].pc \in {"authorized", "refused", "io", "reported", "done"}
    /\ task'[t].gen = task[t].gen \/ task'[t].pc = "done"
    /\ task'[t].pc = "reported" =>
         task[t].pc \in {"authorized", "io"} /\ task'[t].result # "stopped"
    /\ \A u \in TaskIds : u # t => task'[u] = task[u]
    /\ \A g \in Turns : (exec'[g] \in Terminal) <=> (exec[g] \in Terminal)
    /\ \A g \in Turns : \/ started'[g] = started[g]
                        \/ g = task[t].gen /\ task'[t].pc = "authorized"
    /\ \A p \in TaskIds : p # t => prep'[p] = prep[p]
    /\ prep'[t].gen = prep[t].gen
    /\ prep'[t].result = "stopped" => prep[t].result = "stopped"
    /\ \/ prep'[t] = prep[t]
       \/ /\ slot = t /\ runtime = "running"
          /\ prep[t].phase \in {"preparing", "entered"}
          /\ prep'[t].phase \in {"entered"} \cup (Quiesced \ {"gone"})
    /\ slot = t /\ prep'[t].phase = "preparing" =>
         task'[t].pc \in {"authorized", "refused"}

(* A step of a turn's task keeps the slot serving the turn it was taken for. *)
LEMMA TaskMoveServes ==
    ASSUME TurnInv, ExactInv, ServeInv, NEW t \in TaskIds, TaskMove(t)
    PROVE  ServeInv'
<1>a. /\ SlotServed /\ StopFindsTask /\ Emptied
      /\ \A u \in TaskIds : ServedTask(u) /\ GonePrep(u) /\ DoorOf(u)
      /\ \A d \in Drivers : ServedDriver(d)
  BY DEF ServeInv, ExactInv
<1>b. /\ "actor" \in Drivers /\ "recon" \in Drivers
      /\ 0 \notin TaskIds /\ slot \in {0} \cup TaskIds
      /\ slot # 0 => /\ prep[slot].gen \in Turns
                     /\ \/ runtime = "running"
                        \/ runtime = "stopped" /\ prep[slot].phase = "result_uncertain"
                     /\ \A p \in TaskIds : prep[p].gen = prep[slot].gen => p = slot
      /\ \A u \in TaskIds :
           /\ task[u].gen # 0 => task[u].gen \in Turns
           /\ task[u].pc \in {"none", "done"} <=> task[u].gen = 0
           /\ \A v \in TaskIds : task[v].gen = task[u].gen /\ task[v].gen # 0 => v = u
           /\ task[u].pc \in {"prepared", "authorized", "refused", "io"} =>
                prep[u].gen = task[u].gen /\ task[u].prep = u
  BY ServeFacts
<1>c. /\ UNCHANGED <<turn, slot, bound, runtime, driver>>
      /\ \A u \in TaskIds : u # t => task'[u] = task[u]
      /\ \A p \in TaskIds : p # t => prep'[p] = prep[p]
      /\ \A p \in TaskIds : prep'[p].gen = prep[p].gen
      /\ \A g \in Turns : (exec'[g] \in Terminal) <=> (exec[g] \in Terminal)
  BY DEF TaskMove
<1>d. /\ \A p \in TaskIds : prep[p].phase \in Quiesced => prep'[p] = prep[p]
      /\ \A p \in TaskIds : prep'[p].phase = "gone" => prep'[p] = prep[p]
      /\ \A p \in TaskIds : prep'[p].result = "stopped" => prep[p].result = "stopped"
      /\ \A p \in TaskIds : prep'[p].phase = "none" => prep'[p] = prep[p]
      /\ runtime # "running" => \A p \in TaskIds : prep'[p] = prep[p]
  BY DEF TaskMove, Quiesced
<1>e. /\ \A g : Gone(g)' <=> Gone(g)
      /\ \A g : StoppedWith(g)' <=> StoppedWith(g)
  BY <1>b, <1>c DEF Gone, StoppedWith
<1>1. SlotServed' BY <1>b, <1>c, <1>a, <1>d DEF SlotServed, TaskMove
<1>2. ASSUME NEW u \in TaskIds PROVE ServedTask(u)'
  BY <1>c, <1>b, <1>a, <1>e, HeldTurn DEF TaskMove, ServedTask, Acts, StoppedWith
<1>3. ASSUME NEW p \in TaskIds PROVE GonePrep(p)' BY <1>a, <1>c, <1>d, <1>e DEF GonePrep
<1>4. ASSUME NEW d \in Drivers PROVE ServedDriver(d)' BY <1>b, <1>c, <1>d, <1>a, <1>e DEF ServedDriver
<1>5. StopFindsTask' BY <1>b, <1>c, <1>a DEF TaskMove, StopFindsTask
<1>6. Emptied' BY <1>b, <1>c, <1>a DEF Emptied
<1> QED BY <1>1, <1>2, <1>3, <1>4, <1>5, <1>6 DEF ServeInv

\* The steps of a task are such moves, but for preparing, and for a finish that
\* stops the runtime.
LEMMA TaskMoves ==
    ASSUME TurnInv, ExactInv, ServeInv, NEW t \in TaskIds,
           \/ AuthorizeStart(t) \/ TaskPanics(t) \/ RetainUnstarted(t)
           \/ AuthorityUnresolved(t) \/ Enter(t)
           \/ \E r \in Results \ {"none", "stopped"} : Finish(t, r)
    PROVE  TaskMove(t)
<1>a. /\ exec \in [Turns -> ExecStates] /\ started \in [Turns -> BOOLEAN]
      /\ prep \in [TaskIds -> PrepState]
      /\ task \in [TaskIds -> TaskState] /\ 0 \notin TaskIds
  BY DEF TurnInv, TypeOK, TaskIds
<1>b. /\ task[t].pc \in {"prepared", "authorized", "refused", "io"} =>
           /\ task[t].gen \in Turns /\ task[t].prep = t
      /\ slot # 0 => \/ runtime = "running"
                     \/ runtime = "stopped" /\ prep[slot].phase = "result_uncertain"
      /\ task[t].pc \in {"none", "done"} <=> task[t].gen = 0
  BY ServeFacts
<1>c. /\ Acts(t) /\ slot = t =>
           /\ prep[t].phase \in {"preparing", "entered"} /\ runtime = "running"
           /\ task[t].pc \in {"authorized", "io"}
      /\ task[t].pc = "io" => slot = t /\ prep[t].phase = "entered"
  BY <1>b, HeldTurn DEF Acts, TurnInv, SlotInv, ActsInSlot
<1>1. CASE AuthorizeStart(t)
  <2> DEFINE g == task[t].gen
             r == [task[t] EXCEPT !.pc = "authorized"]
             s == [task[t] EXCEPT !.pc = "refused"]
  <2>1. UNCHANGED <<turn, slot, bound, runtime, prep, driver>> /\ task[t].pc = "prepared"
    BY <1>1 DEF AuthorizeStart, adapter
  <2>2. \/ /\ exec[g] = "assigned"
           /\ exec' = [exec EXCEPT ![g] = "start_dispatching"]
           /\ started' = [started EXCEPT ![g] = TRUE]
           /\ task' = [task EXCEPT ![t] = r]
        \/ task' = [task EXCEPT ![t] = s] /\ UNCHANGED <<exec, started>>
    BY <1>1 DEF AuthorizeStart
  <2>3. g \in Turns BY <1>b, <2>1
  <2>4. /\ r.pc = "authorized" /\ r.gen = g
        /\ s.pc = "refused" /\ s.gen = g
    BY <1>a DEF TaskState
  <2> HIDE DEF r, s
  <2> QED BY <1>a, <2>1, <2>2, <2>3, <2>4 DEF TaskMove, Terminal
<1>2. CASE TaskPanics(t)
  <2> DEFINE s == [task[t] EXCEPT !.pc = "refused"]
  <2>1. /\ UNCHANGED <<turn, exec, started, slot, bound, runtime, prep, driver>>
        /\ task[t].pc \in {"prepared", "authorized"} /\ task' = [task EXCEPT ![t] = s]
    BY <1>2 DEF TaskPanics, durable, adapter
  <2>2. s.pc = "refused" /\ s.gen = task[t].gen BY <1>a DEF TaskState
  <2> HIDE DEF s
  <2> QED BY <1>a, <2>1, <2>2 DEF TaskMove
<1>3. CASE RetainUnstarted(t)
  <2> DEFINE q == [prep[slot] EXCEPT !.phase = "not_started"]
  <2>1. /\ UNCHANGED <<turn, exec, started, slot, bound, runtime, driver>>
        /\ task[t].pc = "refused" /\ task' = [task EXCEPT ![t] = DoneTask]
        /\ \/ /\ UNCHANGED prep
              /\ ~(runtime = "running" /\ slot = task[t].prep /\ prep[slot].phase = "preparing")
           \/ /\ slot = task[t].prep /\ prep[slot].phase = "preparing"
              /\ runtime = "running" /\ prep' = [prep EXCEPT ![slot] = q]
    BY <1>3 DEF RetainUnstarted, durable
  <2>2. task[t].prep = t /\ DoneTask.pc = "done" BY <1>b, <2>1 DEF DoneTask, NoTask
  <2>3. slot = t => /\ q.gen = prep[t].gen /\ q.phase = "not_started"
                    /\ q.result = prep[t].result
    BY <1>a DEF PrepState
  <2> HIDE DEF q
  <2>4. \/ /\ UNCHANGED prep
           /\ ~(runtime = "running" /\ slot = t /\ prep[t].phase = "preparing")
        \/ /\ slot = t /\ prep[t].phase = "preparing" /\ runtime = "running"
           /\ prep'[t].gen = prep[t].gen /\ prep'[t].phase = "not_started"
           /\ prep'[t].result = prep[t].result
           /\ \A p \in TaskIds : p # t => prep'[p] = prep[p]
    BY <1>a, <2>1, <2>2, <2>3
  <2>5. slot = t => prep'[t].phase # "preparing" BY <1>a, <1>b, <2>4
  <2>6. task'[t].pc = "done" /\ \A u \in TaskIds : u # t => task'[u] = task[u] BY <1>a, <2>1, <2>2
  <2> QED BY <2>1, <2>4, <2>5, <2>6 DEF TaskMove, Quiesced
<1>4. CASE AuthorityUnresolved(t)
  <2> DEFINE q == [prep[slot] EXCEPT !.phase = "result_uncertain",
                                      !.result = "uncertain"]
             r == [task[t] EXCEPT !.pc = "reported", !.result = "uncertain"]
  <2>1. /\ UNCHANGED <<turn, exec, started, slot, bound, runtime, driver>>
        /\ task[t].pc = "authorized" /\ task' = [task EXCEPT ![t] = r]
        /\ \/ /\ UNCHANGED prep
              /\ ~(runtime \in {"running", "stopped"} /\ slot = task[t].prep)
           \/ slot = task[t].prep /\ prep' = [prep EXCEPT ![slot] = q]
    BY <1>4 DEF AuthorityUnresolved, durable
  <2>2. /\ task[t].prep = t
        /\ r.pc = "reported" /\ r.gen = task[t].gen /\ r.result = "uncertain"
    BY <1>a, <1>b, <2>1 DEF TaskState
  <2>3. slot = t => /\ q.gen = prep[t].gen /\ q.phase = "result_uncertain"
                    /\ q.result = "uncertain"
    BY <1>a DEF PrepState
  <2> HIDE DEF q, r
  <2>4. slot = t => prep[t].phase \in {"preparing", "entered"} /\ runtime = "running" BY <1>c, <2>1 DEF Acts
  <2>5. \/ UNCHANGED prep /\ slot # t
        \/ /\ slot = t
           /\ prep'[t].gen = prep[t].gen /\ prep'[t].phase = "result_uncertain"
           /\ prep'[t].result = "uncertain"
           /\ \A p \in TaskIds : p # t => prep'[p] = prep[p]
    BY <1>a, <2>1, <2>2, <2>3, <2>4
  <2>6. /\ task'[t].pc = "reported" /\ task'[t].gen = task[t].gen
        /\ task'[t].result = "uncertain"
        /\ \A u \in TaskIds : u # t => task'[u] = task[u]
    BY <1>a, <2>1, <2>2
  <2> QED BY <2>1, <2>4, <2>5, <2>6 DEF TaskMove, Quiesced
<1>5. CASE Enter(t)
  <2>1. /\ UNCHANGED <<turn, exec, started, runtime, slot, driver>>
        /\ task[t].pc = "authorized"
        /\ task'[t].gen = task[t].gen
        /\ \A u \in TaskIds : u # t => task'[u] = task[u]
        /\ \/ task'[t].pc = "reported" /\ UNCHANGED prep
           \/ /\ task'[t].pc \in {"reported", "io"} /\ slot = task[t].prep
              /\ slot \in TaskIds =>
                   /\ prep'[slot].gen = prep[slot].gen
                   /\ prep'[slot].phase \in {"not_started", "entered"}
                   /\ prep'[slot].result = prep[slot].result
              /\ \A p \in TaskIds : p # slot => prep'[p] = prep[p]
    BY <1>5, EnterShape DEF TurnInv
  <2>2. /\ task'[t].pc = "reported" => task'[t].result \in {"failed", "interrupted"}
        /\ UNCHANGED bound
        /\ UNCHANGED prep => slot # task[t].prep \/ prep'[slot].phase \in {"entered", "not_started"}
    <3> DEFINE a == [task[t] EXCEPT !.pc = "reported", !.result = "failed"]
               b == [task[t] EXCEPT !.pc = "reported", !.result = "interrupted"]
               c == [task[t] EXCEPT !.pc = "io"]
               p == [prep[slot] EXCEPT !.phase = "not_started"]
               q == [prep[slot] EXCEPT !.phase = "entered"]
    <3>1. /\ \/ task' = [task EXCEPT ![t] = a] /\ UNCHANGED prep /\ slot # task[t].prep
             \/ /\ task' = [task EXCEPT ![t] = b] /\ slot = task[t].prep
                /\ prep' = [prep EXCEPT ![slot] = p]
             \/ /\ task' = [task EXCEPT ![t] = c] /\ slot = task[t].prep
                /\ prep' = [prep EXCEPT ![slot] = q]
          /\ UNCHANGED bound
      BY <1>5 DEF Enter
    <3>2. a.result = "failed" /\ b.result = "interrupted" /\ c.pc = "io" BY <1>a DEF TaskState
    <3>3. slot \in TaskIds => p.phase = "not_started" /\ q.phase = "entered" BY <1>a DEF PrepState
    <3> HIDE DEF a, b, c, p, q
    <3> QED BY <1>a, <1>b, <2>1, <3>1, <3>2, <3>3
  <2>3. task[t].prep = t BY <1>b, <2>1
  <2>4. slot = t => prep[t].phase \in {"preparing", "entered"} /\ runtime = "running" BY <1>c, <2>1 DEF Acts
  <2>5. \/ UNCHANGED prep /\ task'[t].pc = "reported"
        \/ /\ slot = t /\ task'[t].pc \in {"reported", "io"}
           /\ prep'[t].gen = prep[t].gen
           /\ prep'[t].phase \in {"not_started", "entered"}
           /\ prep'[t].result = prep[t].result
           /\ \A p \in TaskIds : p # t => prep'[p] = prep[p]
    BY <2>1, <2>3
  <2>6. slot = t => prep'[t].phase # "preparing" BY <2>2, <2>3, <2>5
  <2> QED BY <2>1, <2>2, <2>4, <2>5, <2>6 DEF TaskMove, Quiesced
<1>6. ASSUME NEW x \in Results \ {"none", "stopped"}, Finish(t, x)
      PROVE  TaskMove(t)
  <2> DEFINE q == [prep[slot] EXCEPT
                     !.phase = IF x \in {"uncertain", "stopped"}
                               THEN "result_uncertain" ELSE "result_retained",
                     !.result = x]
             s == [task[t] EXCEPT !.pc = "reported", !.result = x]
  <2>1. /\ UNCHANGED <<turn, exec, started, slot, bound, driver>> /\ task[t].pc = "io"
        /\ task' = [task EXCEPT ![t] = s]
        /\ runtime' = runtime
        /\ prep' = IF slot # 0 /\ slot = task[t].prep
                   THEN [prep EXCEPT ![slot] = q] ELSE prep
    BY <1>6 DEF Finish, durable
  <2>2. /\ task[t].prep = t /\ slot = t /\ prep[t].phase = "entered"
        /\ runtime = "running"
    BY <1>b, <1>c, <2>1 DEF Acts
  <2>3. s.pc = "reported" /\ s.gen = task[t].gen /\ s.result = x BY <1>a DEF TaskState
  <2>4. /\ q.gen = prep[t].gen
        /\ q.phase \in {"result_uncertain", "result_retained"}
        /\ q.result = x
    BY <1>a, <2>2 DEF PrepState
  <2> HIDE DEF q, s
  <2>5. /\ prep'[t].gen = prep[t].gen
        /\ prep'[t].phase \in {"result_uncertain", "result_retained"}
        /\ prep'[t].result # "stopped"
        /\ \A p \in TaskIds : p # t => prep'[p] = prep[p]
    BY <1>a, <2>1, <2>2, <2>4
  <2>6. /\ task'[t].pc = "reported" /\ task'[t].gen = task[t].gen
        /\ task'[t].result # "stopped"
        /\ \A u \in TaskIds : u # t => task'[u] = task[u]
    BY <1>a, <2>1, <2>3
  <2> QED BY <2>1, <2>2, <2>5, <2>6 DEF TaskMove, Quiesced
<1> QED BY <1>1, <1>2, <1>3, <1>4, <1>5, <1>6


\* A turn is assigned to a runtime that runs, with a fresh task.
LEMMA AssignServes ==
    ASSUME TurnInv, ExactInv, ServeInv, Assign
    PROVE  ServeInv'
<1>a. /\ SlotServed /\ StopFindsTask /\ Emptied
      /\ \A t \in TaskIds : ServedTask(t) /\ GonePrep(t)
      /\ \A d \in Drivers : ServedDriver(d)
  BY DEF ServeInv
<1>b. /\ 0 \notin TaskIds /\ slot \in {0} \cup TaskIds
      /\ slot # 0 => prep[slot].gen \in 1..turn
      /\ \A t \in TaskIds :
           /\ task[t].pc \in {"none", "done"} <=> task[t].gen = 0
           /\ task[t].gen # 0 => task[t].gen \in 1..turn
      /\ \A p \in TaskIds : prep[p].gen # 0 => prep[p].gen \in 1..turn
      /\ "actor" \in Drivers
      /\ \A d \in Drivers : driver[d].pc \notin Turnless => driver[d].gen \in 1..turn
  BY ServeFacts
<1>c. /\ exec \in [Turns -> ExecStates] /\ bound \in [Turns -> BOOLEAN]
      /\ task \in [TaskIds -> TaskState] /\ turn \in Nat /\ turn + 1 \in Turns
      /\ 1..turn \subseteq Turns /\ \A g \in 1..turn : g # turn + 1
      /\ 0..turn \subseteq 0..(turn + 1)
      /\ \A g \in 0..turn : g # 0 => g \in 1..turn
  BY BoundsAssumption DEF TurnInv, TypeOK, Assign, Turns
<1>1. PICK m \in TaskIds : task[m].pc = "none" /\ Min(FreshTasks) = m BY FreshExists DEF Assign, FreshTasks
<1>2. slot # m BY <1>1 DEF TurnInv, TasksInv, FreshOf
<1> DEFINE r == [NoTask EXCEPT !.pc = "spawned", !.gen = turn + 1, !.guarded = FALSE]
<1>3. task' = [task EXCEPT ![m] = r] BY <1>1 DEF Assign, Spawn
<1>4. r.pc = "spawned" /\ r.gen = turn + 1 BY DEF NoTask
<1> HIDE DEF r
<1>5. /\ task'[m].pc = "spawned" /\ task'[m].gen = turn + 1
      /\ \A u \in TaskIds : u # m => task'[u] = task[u]
  BY <1>c, <1>3, <1>4
<1>6. /\ turn' = turn + 1 /\ UNCHANGED <<runtime, slot, driver, started>>
      /\ runtime = "running" /\ driver["actor"].pc = "idle"
      /\ exec'[turn + 1] = "assigned"
      /\ \A g \in 1..turn : exec'[g] = exec[g] /\ bound'[g] = bound[g]
  BY <1>c DEF Assign
<1>7. \A p \in TaskIds : prep'[p] = IF Held(p) THEN prep[p] ELSE NoPrep BY DEF Assign
<1>8. /\ slot # 0 => prep'[slot] = prep[slot]
      /\ \A p \in TaskIds : prep'[p] = prep[p] \/ prep'[p].gen = 0
  BY <1>b, <1>7 DEF Held, NoPrep
<1>9. ~started[turn + 1] BY <1>c DEF TurnInv, RowsInv, RowOf
<1>10. /\ \A g \in 1..turn : Gone(g)' <=> Gone(g)
       /\ \A g : ~StoppedWith(g)'
  BY <1>6 DEF Gone, StoppedWith
<1>11. SlotServed' BY <1>6, <1>8, <1>a, <1>b, <1>2, <1>5 DEF SlotServed
<1>12. ASSUME NEW u \in TaskIds PROVE ServedTask(u)' BY <1>5, <1>6, <1>9, <1>b, <1>a, <1>10 DEF ServedTask, Terminal
<1>13. ASSUME NEW p \in TaskIds PROVE GonePrep(p)' BY <1>a, <1>b, <1>8, <1>10 DEF GonePrep
<1>14. ASSUME NEW d \in Drivers PROVE ServedDriver(d)'
  BY <1>a, <1>b, <1>c, <1>6, <1>10, <1>8 DEF ServedDriver, Turnless
<1>15. StopFindsTask' BY <1>6 DEF StopFindsTask
<1>16. Emptied' BY <1>a, <1>b, <1>6, <1>8 DEF Emptied
<1> QED BY <1>11, <1>12, <1>13, <1>14, <1>15, <1>16 DEF ServeInv

\* A task that prepares its turn takes the empty slot of the running launch, or
\* gives up.
LEMMA PrepareServes ==
    ASSUME TurnInv, ExactInv, ServeInv, NEW t \in TaskIds, Prepare(t)
    PROVE  ServeInv'
<1>a. /\ SlotServed /\ StopFindsTask /\ Emptied
      /\ \A u \in TaskIds : ServedTask(u) /\ GonePrep(u)
      /\ \A d \in Drivers : ServedDriver(d) /\ DriverOf(d)
  BY DEF ServeInv, TurnInv, DriversInv
<1>b. /\ 0 \notin TaskIds /\ slot \in {0} \cup TaskIds
      /\ \A u \in TaskIds : task[u].pc = "spawned" =>
                              \A p \in TaskIds : prep[p].gen # task[u].gen
      /\ "actor" \in Drivers
  BY ServeFacts
<1>c. /\ task[t].pc = "spawned" /\ TypeOK
      /\ \A u \in TaskIds : u # t => task'[u] = task[u]
      /\ UNCHANGED <<turn, exec, started, runtime, driver>>
  BY PrepareShape DEF TurnInv
<1>d. UNCHANGED bound /\ (slot # slot' => OwnRuntime(task[t].gen)) BY DEF Prepare
<1>e. \A g : Gone(g)' <=> Gone(g) BY <1>c, <1>d DEF Gone
<1>1. CASE /\ task'[t].pc = "done" /\ UNCHANGED <<slot, prep>>
  BY <1>c, <1>1, <1>a, <1>b, <1>d, <1>e DEF StoppedWith, SlotServed, ServedTask, GonePrep, ServedDriver,
     StopFindsTask, Emptied, ServeInv
<1>2. CASE /\ task'[t].pc = "prepared" /\ task'[t].gen = task[t].gen
           /\ slot = 0 /\ slot' = t /\ runtime = "running"
           /\ prep'[t].gen = task[t].gen /\ prep'[t].phase = "preparing"
           /\ prep'[t].result = "none"
           /\ \A p \in TaskIds : p # t => prep'[p] = prep[p]
  BY <1>a, <1>b, <1>c, <1>d, <1>2, <1>e DEF OwnRuntime, Gone, ServedTask, StoppedWith, SlotServed, GonePrep,
     DriverOf, ServedDriver, StopFindsTask, Emptied, ServeInv
<1> QED BY <1>b, <1>c, <1>1, <1>2, PrepareShape

\* A turn whose provider stops takes the runtime with it: the slot keeps the
\* stop, and the task that reports it will have it committed.
LEMMA StoppedServes ==
    ASSUME TurnInv, ExactInv, ServeInv, NEW t \in TaskIds, Finish(t, "stopped")
    PROVE  ServeInv'
<1>a. /\ SlotServed /\ StopFindsTask
      /\ \A u \in TaskIds : ServedTask(u) /\ GonePrep(u) /\ DoorOf(u)
      /\ \A d \in Drivers : ServedDriver(d) /\ DriverOf(d) /\ ReleaseOK(d)
      /\ NotStartedOK
  BY DEF ServeInv, TurnInv, DriversInv, ExactInv
<1>b. /\ 0 \notin TaskIds /\ "actor" \in Drivers /\ "recon" \in Drivers
      /\ \A u \in TaskIds :
           /\ task[u].pc \in {"none", "done"} <=> task[u].gen = 0
           /\ \A v \in TaskIds : task[v].gen = task[u].gen /\ task[v].gen # 0 => v = u
           /\ task[u].pc = "io" => prep[u].gen = task[u].gen /\ task[u].prep = u
  BY ServeFacts
<1>c. /\ prep \in [TaskIds -> PrepState] /\ task \in [TaskIds -> TaskState]
      /\ ActsInSlot
  BY DEF TurnInv, TypeOK, SlotInv
<1> DEFINE q == [prep[slot] EXCEPT
                   !.phase = IF "stopped" \in {"uncertain", "stopped"}
                             THEN "result_uncertain" ELSE "result_retained",
                   !.result = "stopped"]
           s == [task[t] EXCEPT !.pc = "reported", !.result = "stopped"]
           g == task[t].gen
<1>1. /\ UNCHANGED <<turn, exec, started, slot, bound, driver>> /\ task[t].pc = "io"
      /\ task' = [task EXCEPT ![t] = s]
      /\ prep' = IF slot # 0 THEN [prep EXCEPT ![slot] = q] ELSE prep
      /\ runtime' = "stopped"
  BY DEF Finish, durable
<1>2. /\ slot = t /\ t # 0 /\ prep[t].gen = g /\ g # 0
      /\ Acts(t) /\ slot = task[t].prep
  BY <1>b, <1>c, <1>1 DEF ActsInSlot, Acts
<1>3. /\ s.pc = "reported" /\ s.gen = g /\ s.result = "stopped"
      /\ q.gen = g /\ q.phase = "result_uncertain" /\ q.result = "stopped"
  BY <1>c, <1>2 DEF TaskState, PrepState
<1> HIDE DEF q, s, g
<1>4. /\ task'[t].pc = "reported" /\ task'[t].gen = g /\ task'[t].result = "stopped"
      /\ \A u \in TaskIds : u # t => task'[u] = task[u]
      /\ prep'[t].gen = g /\ prep'[t].phase = "result_uncertain"
      /\ prep'[t].result = "stopped"
  BY <1>c, <1>1, <1>2, <1>3
<1>5. exec[g] \notin Terminal BY <1>a, <1>2 DEF DoorOf, Open, Terminal, g
<1>6. /\ \A h : Gone(h)'
      /\ \A h : StoppedWith(h)' => h = g
  BY <1>1, <1>2, <1>4 DEF Gone, StoppedWith
<1>7. SlotServed' BY <1>a, <1>1, <1>2, <1>4 DEF SlotServed, Quiesced
<1>8. ASSUME NEW u \in TaskIds PROVE ServedTask(u)' /\ GonePrep(u)'
  BY <1>b, <1>2, <1>1, <1>a, <1>4, <1>6 DEF g, ServedTask, GonePrep
<1>9. ASSUME NEW d \in Drivers PROVE ServedDriver(d)'
  BY <1>a, <1>1, <1>2, <1>5, <1>4, <1>6 DEF DriverOf, ReleaseOK, NotStartedOK, g, Quiesced, ServedDriver
<1>10. StopFindsTask' BY <1>a, <1>1, <1>2, <1>4 DEF StopFindsTask
<1>11. Emptied' BY <1>1, <1>2, <1>4, <1>5 DEF Emptied
<1> QED BY <1>7, <1>8, <1>9, <1>10, <1>11 DEF ServeInv

\* The actor takes the result of a task that reported.
LEMMA TakeServes ==
    ASSUME TurnInv, ExactInv, ServeInv, NEW t \in TaskIds, TakeResult(t)
    PROVE  ServeInv'
<1>a. /\ SlotServed /\ StopFindsTask /\ Emptied /\ EnteredActs
      /\ \A u \in TaskIds : ServedTask(u) /\ GonePrep(u)
      /\ \A d \in Drivers : ServedDriver(d)
  BY DEF ServeInv, TurnInv, SlotInv
<1>b. /\ 0 \notin TaskIds /\ slot \in {0} \cup TaskIds
      /\ "actor" \in Drivers /\ "recon" \in Drivers
      /\ \A u \in TaskIds :
           /\ task[u].pc \in {"none", "done"} <=> task[u].gen = 0
           /\ \A v \in TaskIds : task[v].gen = task[u].gen /\ task[v].gen # 0 => v = u
           /\ task[u].pc = "io" => prep[u].gen = task[u].gen /\ task[u].prep = u
  BY ServeFacts
<1>c. /\ prep \in [TaskIds -> PrepState] /\ task \in [TaskIds -> TaskState]
      /\ driver \in [Drivers -> DriverState]
  BY DEF TurnInv, TypeOK
<1> DEFINE g == task[t].gen
           r == [Idle EXCEPT !.pc = "commit", !.gen = g, !.result = task[t].result]
<1>1. /\ UNCHANGED <<turn, exec, started, slot, bound, runtime, prep>>
      /\ driver["actor"].pc = "idle" /\ task[t].pc = "reported"
      /\ driver' = [driver EXCEPT !["actor"] = r]
      /\ task' = [task EXCEPT ![t] = DoneTask]
  BY DEF TakeResult, durable, adapter
<1>2. /\ r.pc = "commit" /\ r.gen = g /\ r.result = task[t].result
      /\ DoneTask.pc = "done"
  BY DEF Idle, DoneTask, NoTask
<1> HIDE DEF r, g
<1>3. /\ driver'["actor"].pc = "commit" /\ driver'["actor"].gen = g
      /\ driver'["actor"].result = task[t].result
      /\ \A d \in Drivers : d # "actor" => driver'[d] = driver[d]
      /\ task'[t].pc = "done" /\ \A u \in TaskIds : u # t => task'[u] = task[u]
  BY <1>b, <1>c, <1>1, <1>2
<1>4. /\ \A h : Gone(h)' <=> Gone(h)
      /\ \A h : StoppedWith(h)' <=> StoppedWith(h)
  BY <1>1 DEF Gone, StoppedWith
<1>5. SlotServed' BY <1>a, <1>b, <1>1, <1>3 DEF SlotServed
<1>6. ASSUME NEW u \in TaskIds PROVE ServedTask(u)' /\ GonePrep(u)' BY <1>1, <1>a, <1>3, <1>4 DEF ServedTask, GonePrep
<1>7. ServedDriver("actor")'
  BY <1>b, <1>1, <1>a, <1>c, <1>3, <1>4 DEF g, SlotServed, EnteredActs, PrepState, PrepPhases, ServedTask,
     ServedDriver
<1>8. ASSUME NEW d \in Drivers PROVE ServedDriver(d)' BY <1>1, <1>a, <1>3, <1>4, <1>7 DEF ServedDriver
<1>9. StopFindsTask' BY <1>3 DEF StopFindsTask
<1>10. Emptied' BY <1>a, <1>b, <1>1, <1>3 DEF Emptied
<1> QED BY <1>5, <1>6, <1>8, <1>9, <1>10 DEF ServeInv

\* Driver d ends its run; nothing else of what the layer speaks of changes,
\* unless the slot is emptied.
EndsRun(d) ==
    /\ UNCHANGED <<turn, exec, started, bound, task, prep>>
    /\ driver'[d].pc = "idle" /\ driver'[d].gen = 0
    /\ \A e \in Drivers : e # d => driver'[e] = driver[e]
    /\ \/ UNCHANGED <<slot, runtime>>
       \/ slot' = 0 /\ (runtime' = runtime \/ runtime' # "running")

\* It keeps the layer if the driver was not needed to empty the slot.
LEMMA EndsRunServes ==
    ASSUME TurnInv, ExactInv, ServeInv, NEW d \in Drivers, EndsRun(d),
           slot' = slot /\ slot # 0 /\ exec[prep[slot].gen] \in Terminal =>
             /\ ~(driver[d].pc \in {"release", "vacate"}
                  /\ driver[d].gen = prep[slot].gen)
             /\ ~(d = "actor" /\ driver[d].pc = "vacate" /\ driver[d].gen = 0
                  /\ runtime = "stopped")
    PROVE  ServeInv'
BY ServeFacts DEF ServeInv, TurnInv, TypeOK, EndsRun, Gone, StoppedWith, SlotServed, ServedTask, GonePrep,
   ServedDriver, StopFindsTask, Emptied

\* A release empties the slot of its turn, a quiesced one of a running runtime.
LEMMA ReleaseServes ==
    ASSUME TurnInv, ExactInv, ServeInv, NEW d \in Drivers, Release(d)
    PROVE  ServeInv'
<1>a. /\ SlotServed /\ ServedDriver(d)
      /\ driver \in [Drivers -> DriverState]
      /\ slot # 0 => runtime \in {"running", "stopped"}
  BY ServeFacts DEF ServeInv, TurnInv, TypeOK
<1>1. /\ UNCHANGED <<turn, exec, started, bound, task, prep, runtime>> /\ EndRun(d)
      /\ driver[d].pc = "release"
      /\ slot' = IF /\ runtime = "running" /\ slot # 0
                    /\ prep[slot].gen = driver[d].gen
                    /\ prep[slot].phase \in Quiesced
                 THEN 0 ELSE slot
  BY DEF Release, durable
<1>2. EndsRun(d) BY <1>a, <1>1, RunShape DEF EndsRun
<1>3. ASSUME slot # 0, exec[prep[slot].gen] \in Terminal, driver[d].gen = prep[slot].gen
      PROVE  slot' = 0
  BY <1>a, <1>1, <1>3 DEF ServedDriver, SlotServed, StoppedWith
<1> QED BY <1>1, <1>2, <1>3, EndsRunServes

\* A runtime is vacated exactly when it has stopped with the turn, or the stop
\* was the agent's.
LEMMA VacateServes ==
    ASSUME TurnInv, ExactInv, ServeInv, NEW d \in Drivers, Vacate(d)
    PROVE  ServeInv'
<1>a. /\ SlotServed /\ ServedDriver(d)
      /\ driver \in [Drivers -> DriverState]
      /\ slot # 0 => prep[slot].gen # 0 /\ runtime \in {"running", "stopped"}
  BY ServeFacts DEF ServeInv, TurnInv, TypeOK
<1> DEFINE exact == runtime = "stopped" /\ (driver[d].gen # 0 => bound[driver[d].gen])
<1>1. /\ UNCHANGED <<turn, exec, started, bound, task, prep>> /\ EndRun(d)
      /\ driver[d].pc = "vacate"
      /\ runtime' = IF exact THEN "vacant" ELSE runtime
      /\ slot' = IF exact THEN 0 ELSE slot
  BY DEF Vacate, durable
<1>2. EndsRun(d) BY <1>a, <1>1, RunShape DEF EndsRun
<1>3. ASSUME slot # 0, driver[d].gen = prep[slot].gen
      PROVE  exact
  BY <1>a, <1>1, <1>3 DEF SlotServed, ServedDriver, Gone
<1>4. ASSUME driver[d].gen = 0, runtime = "stopped"
      PROVE  exact
  BY <1>4
<1> HIDE DEF exact
<1> QED BY <1>1, <1>2, <1>3, <1>4, EndsRunServes

\* An assigned turn that nobody owns is handed to a fresh task.
LEMMA RecoverServes ==
    ASSUME ~Duplicates, TurnInv, ExactInv, ServeInv, RecoverAssigned
    PROVE  ServeInv'
<1>a. /\ SlotServed /\ StopFindsTask /\ Emptied
      /\ \A u \in TaskIds : ServedTask(u) /\ GonePrep(u)
      /\ \A d \in Drivers : ServedDriver(d) /\ DriverOf(d)
  BY DEF ServeInv, TurnInv, DriversInv
<1>b. /\ "actor" \in Drivers /\ "recon" \in Drivers /\ 0 \notin TaskIds
      /\ slot \in {0} \cup TaskIds
      /\ task \in [TaskIds -> TaskState] /\ driver \in [Drivers -> DriverState]
      /\ driver["recon"].pc = "unowned" => driver["recon"].gen \in Turns
  BY ServeFacts DEF TurnInv, TypeOK, Turnless
<1> DEFINE g == driver["recon"].gen
<1>1. /\ UNCHANGED <<turn, exec, started, runtime, slot, prep, bound>> /\ EndRun("recon")
      /\ driver["recon"].pc = "unowned" /\ runtime = "running"
      /\ UNCHANGED task \/ (exec[g] = "assigned" /\ FreshTasks # {} /\ Spawn(g, TRUE))
  BY DEF RecoverAssigned, durable, adapter
<1>2. CASE UNCHANGED task BY <1>b, <1>1, <1>2, RunShape, EndsRunServes DEF EndsRun
<1>3. CASE exec[g] = "assigned" /\ FreshTasks # {} /\ Spawn(g, TRUE)
  <2>1. PICK m \in TaskIds : task[m].pc = "none" /\ Min(FreshTasks) = m BY <1>3, FreshExists DEF FreshTasks
  <2>2. slot # m BY <2>1 DEF TurnInv, TasksInv, FreshOf
  <2> DEFINE r == [NoTask EXCEPT !.pc = "spawned", !.gen = g, !.guarded = TRUE]
  <2>3. task' = [task EXCEPT ![m] = r] BY <1>3, <2>1 DEF Spawn
  <2>4. r.pc = "spawned" /\ r.gen = g BY DEF NoTask
  <2> HIDE DEF r
  <2>5. /\ task'[m].pc = "spawned" /\ task'[m].gen = g
        /\ \A u \in TaskIds : u # m => task'[u] = task[u]
    BY <1>b, <2>3, <2>4
  <2>6. ~started[g] /\ exec[g] \notin Terminal BY <1>b, <1>1, <1>3 DEF TurnInv, RowsInv, RowOf, Terminal
  <2> HIDE DEF g
  <2>7. /\ driver'["recon"].pc = "idle" /\ driver'["recon"].gen = 0
        /\ \A d \in Drivers : d # "recon" => driver'[d] = driver[d]
    BY <1>b, <1>1, RunShape
  <2>8. /\ \A h : Gone(h)' <=> Gone(h)
        /\ \A h : ~StoppedWith(h)'
    BY <1>1 DEF Gone, StoppedWith
  <2>9. SlotServed' BY <1>a, <1>b, <1>1, <2>1, <2>2, <2>5 DEF SlotServed
  <2>10. ASSUME NEW u \in TaskIds PROVE ServedTask(u)' /\ GonePrep(u)'
    BY <1>1, <1>a, <2>5, <2>6, <2>8 DEF ServedTask, GonePrep
  <2>11. ASSUME NEW d \in Drivers PROVE ServedDriver(d)' BY <1>1, <2>7, <2>8, <1>a DEF ServedDriver
  <2>12. StopFindsTask' BY <1>a, <1>b, <1>1, <2>7 DEF StopFindsTask
  <2>13. Emptied' BY <1>a, <1>b, <1>1, <2>7 DEF Emptied
  <2> QED BY <2>9, <2>10, <2>11, <2>12, <2>13 DEF ServeInv
<1> QED BY <1>1, <1>2, <1>3

\* The adapter is stopped: whatever ran is gone, and the slot with it.
LEMMA StopServes ==
    ASSUME TurnInv, ExactInv, ServeInv, StopRuntime
    PROVE  ServeInv'
<1>a. /\ SlotServed /\ StopFindsTask /\ Emptied
      /\ \A u \in TaskIds : ServedTask(u) /\ GonePrep(u)
      /\ \A d \in Drivers : ServedDriver(d)
  BY DEF ServeInv
<1>b. /\ "actor" \in Drivers /\ task \in [TaskIds -> TaskState]
      /\ driver \in [Drivers -> DriverState] /\ turn \in Nat
  BY ServeFacts DEF TurnInv, TypeOK
<1>1. /\ UNCHANGED <<turn, exec, started, bound>>
      /\ driver["actor"].pc = "stop" /\ Goto("actor", "stopped")
      /\ \/ UNCHANGED <<slot, runtime, prep, task>> /\ runtime # "running"
         \/ /\ slot' = 0 /\ runtime' = "stopped"
            /\ \E x : task' = [t \in TaskIds |->
                                 IF task[t].pc = "io"
                                 THEN [task[t] EXCEPT !.pc = "reported", !.result = x]
                                 ELSE task[t]]
  BY DEF StopRuntime, durable, adapter
<1>2. /\ driver'["actor"].pc = "stopped" /\ driver'["actor"].gen = 0
      /\ \A d \in Drivers : d # "actor" => driver'[d] = driver[d]
  BY <1>a, <1>b, <1>1, RunShape DEF StopFindsTask
<1>3. (\A g : Gone(g)') /\ (\A g : StoppedWith(g)' => StoppedWith(g)) BY <1>1 DEF Gone, StoppedWith
<1>4. \A u \in TaskIds : \/ task'[u] = task[u]
                         \/ task'[u].pc = "reported" /\ slot' = 0
  BY <1>b, <1>1 DEF TaskState
<1>5. slot' # 0 => UNCHANGED <<slot, runtime, prep, task>> BY <1>1
<1>6. SlotServed' BY <1>a, <1>1, <1>5 DEF SlotServed
<1>7. ASSUME NEW u \in TaskIds PROVE ServedTask(u)' /\ GonePrep(u)'
  BY <1>3, <1>1, <1>a, <1>4 DEF GonePrep, ServedTask, StoppedWith
<1>8. ASSUME NEW d \in Drivers PROVE ServedDriver(d)' BY <1>2, <1>3, <1>a, <1>1, <1>5 DEF ServedDriver
<1>9. StopFindsTask' BY <1>a, <1>1, <1>2, <1>5 DEF StopFindsTask
<1>10. Emptied' BY <1>a, <1>1, <1>2, <1>5 DEF Emptied
<1> QED BY <1>6, <1>7, <1>8, <1>9, <1>10 DEF ServeInv

\* A start and a crash leave no slot, and no turn bound to the launch that runs.
LEMMA LaunchServes ==
    ASSUME TurnInv, ExactInv, ServeInv, StartRuntime \/ Restart
    PROVE  ServeInv'
<1>a. /\ \A u \in TaskIds : ServedTask(u) /\ GonePrep(u)
      /\ \A d \in Drivers : ServedDriver(d)
      /\ "actor" \in Drivers /\ turn \in Nat /\ 0 \in 0..turn
  BY ServeFacts DEF ServeInv, TurnInv, TypeOK
<1>b. /\ slot # 0 => runtime \in {"running", "stopped"}
      /\ \A u \in TaskIds : task[u].pc \in {"spawned", "reported"} => task[u].gen \in Turns
      /\ \A p \in TaskIds : prep[p].gen # 0 => prep[p].gen \in Turns
      /\ \A d \in Drivers : driver[d].gen # 0 => driver[d].gen \in Turns
  BY BoundsAssumption, ServeFacts DEF Turns
<1>1. CASE StartRuntime
  BY <1>b, <1>1, <1>a DEF StartRuntime, Gone, StoppedWith, SlotServed, StopFindsTask, Emptied, ServedTask,
     GonePrep, ServedDriver, ServeInv
<1>2. CASE Restart
  BY <1>2, <1>a DEF Restart, durable, Idle, NoPrep, NoTask, DoneTask, SlotServed, StopFindsTask, Emptied,
     ServedTask, GonePrep, ServedDriver, ServeInv
<1> QED BY <1>1, <1>2

\* Tasks, releases, stops, starts and crashes keep the third layer.
LEMMA TurnActionServes ==
    ASSUME ~Duplicates, TurnInv, ExactInv, ServeInv, TurnAction
    PROVE  ServeInv'
BY PrepareServes, StoppedServes, TaskMoves, TaskMoveServes, AssignServes, TakeServes, ReleaseServes,
   VacateServes, RecoverServes, StopServes, LaunchServes DEF TaskNext, TurnAction

\* The third layer holds before the first turn.
LEMMA ServeInvInit ==
    ASSUME Init
    PROVE  ServeInv
BY Literals DEF Idle, NoPrep, NoTask, Init, SlotServed, StopFindsTask, Emptied, ServedTask, GonePrep,
   ServedDriver, ServeInv

\* Every step keeps it.
LEMMA ServeInvStep ==
    ASSUME ~Duplicates, TurnInv, ExactInv, ServeInv, [Next]_vars
    PROVE  ServeInv'
<1>1. CASE RowAction BY <1>1, RowActionServes
<1>2. CASE TurnAction BY <1>2, TurnActionServes
<1>3. CASE UNCHANGED vars
  <2> USE <1>3 DEF vars, durable, adapter, counters, ServeInv, Gone, StoppedWith
  <2>1. SlotServed' /\ StopFindsTask' /\ Emptied' BY DEF SlotServed, StopFindsTask, Emptied
  <2>2. ASSUME NEW u \in TaskIds PROVE ServedTask(u)' /\ GonePrep(u)' BY DEF ServedTask, GonePrep
  <2>3. ASSUME NEW d \in Drivers PROVE ServedDriver(d)' BY DEF ServedDriver
  <2> QED BY <2>1, <2>2, <2>3
<1> QED BY <1>1, <1>2, <1>3, TwoKinds

\* The slot of a turn that has ended is never forgotten: a task or a driver of
\* that turn is still on its way to empty it, so a later turn does not find the
\* adapter busy for ever (provider_runtime.rs, release_exact_turn).
THEOREM SlotIsServed ==
    ASSUME ~Duplicates
    PROVE  Spec => []SlotServesOpenTurn
<1>1. Init => TurnInv /\ ExactInv /\ ServeInv BY TurnInvInit, ExactInvInit, ServeInvInit
<1>2. TurnInv /\ ExactInv /\ ServeInv /\ [Next]_vars => (TurnInv /\ ExactInv /\ ServeInv)'
  BY TurnInvStep, ExactInvStep, ServeInvStep
<1>3. TurnInv /\ ExactInv /\ ServeInv => SlotServesOpenTurn
  BY DEF SlotServesOpenTurn, ServeInv, Emptied, StopFindsTask
<1> QED BY <1>1, <1>2, <1>3, PTL DEF Spec

=============================================================================
