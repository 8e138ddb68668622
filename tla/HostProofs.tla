------------------------------ MODULE HostProofs ------------------------------
(***************************************************************************)
(* Proofs about the server process and its edge: the rolling restart       *)
(* (RuntimeRestart), the managed public ingress (PublicIngress), the       *)
(* provider installations (ProviderOps) and the side chat a process keeps  *)
(* in memory (SideChat), each under its own specification.                 *)
(***************************************************************************)
EXTENDS RuntimeRestart, PublicIngress, ProviderOps, SideChat, FiniteSetTheorems, TLAPS

Phases == Blocking \cup {None, "completed", "failed"}
Builds == Images \cup {0, Min(Images)}
Restart == [op : Ops \cup {None}, phase : Phases, targets : SUBSET Sessions,
            paused : SUBSET Sessions, source : Nat, recovery : Nat, image : Builds]
Requests == [pc : {"idle", "image", "prepare", "send"}, image : Builds]

(* The shape of the state a restart reads and writes. *)
RestartTypes ==
    /\ rec \in Restart
    /\ row \in [Sessions -> Row]
    /\ alive \in [Sessions -> 0..MaxGeneration]
    /\ gen \in 1..MaxGeneration
    /\ mail.image \in Builds
    /\ req \in [Ops -> Requests]
    /\ installed \in Builds

(* The record that closes admission: no agent works under it, and as long as the life  *)
(* that wrote it serves, no agent is even on its way to a turn, and the targets and    *)
(* pauses it names are the ones the rows say.                                          *)
RecordHolds ==
    ~Admits =>
        /\ \A s \in Sessions : row[s].run # "busy"
        /\ stage # "wake"
        /\ (gen = rec.source /\ Serving) =>
               /\ \A s \in Sessions : ~Unquiet(s)
               /\ rec.targets = Targets
               /\ rec.paused = {s \in Targets : row[s].run = "paused"}

(* A row that says stopped has no process; a row that is being started has none either *)
(* as long as somebody may still launch it, except the one that a recovery launched    *)
(* itself and has not completed; and a recovery starts only its targets.               *)
RowHolds(s) ==
    /\ row[s].run = "stopped" => alive[s] = 0
    /\ row[s].run = "starting" =>
         /\ stage \notin {"abandoned", "begin"}
         /\ stage \in {"serve", "closing", "wake"} => alive[s] = 0
         /\ stage = "recover" => s \in rec.targets /\ alive[s] \in {0, gen}

RecoversTargets == stage = "recover" => todo \subseteq rec.targets

RestartInv == RestartTypes /\ RecordHolds /\ RecoversTargets /\ \A s \in Sessions : RowHolds(s)

------------------------
(* The steps. *)

(* What the restart writes in its record and in the rows has their shape. *)
LEMMA RestartRows ==
    ASSUME RestartTypes
    PROVE  /\ StoppedRow \in Row
           /\ \A s \in Sessions, gone \in SUBSET Sessions :
                 /\ row[s] \in Row
                 /\ [row[s] EXCEPT !.run = "disconnected", !.enabled = FALSE] \in Row
                 /\ [row[s] EXCEPT !.run = "paused", !.enabled = FALSE] \in Row
                 /\ [row[s] EXCEPT !.run = "idle"] \in Row
           /\ \A gone \in SUBSET Sessions :
                 /\ [s \in Sessions |-> IF s \in gone /\ row[s].by = gen THEN StoppedRow ELSE row[s]]
                       \in [Sessions -> Row]
                 /\ [s \in Sessions |-> IF s \in gone THEN 0 ELSE alive[s]]
                       \in [Sessions -> 0..MaxGeneration]
<1> USE RestartBounds
<1>1. StoppedRow \in Row BY DEF StoppedRow, Row
<1>2. ASSUME NEW s \in Sessions
      PROVE  /\ row[s] \in Row
             /\ [row[s] EXCEPT !.run = "disconnected", !.enabled = FALSE] \in Row
             /\ [row[s] EXCEPT !.run = "paused", !.enabled = FALSE] \in Row
             /\ [row[s] EXCEPT !.run = "idle"] \in Row
  BY DEF RestartTypes, Row
<1>3. ASSUME NEW gone \in SUBSET Sessions
      PROVE  /\ [s \in Sessions |-> IF s \in gone /\ row[s].by = gen THEN StoppedRow ELSE row[s]]
                   \in [Sessions -> Row]
             /\ [s \in Sessions |-> IF s \in gone THEN 0 ELSE alive[s]]
                   \in [Sessions -> 0..MaxGeneration]
  <2>2. [s \in Sessions |-> IF s \in gone THEN 0 ELSE alive[s]] \in [Sessions -> 0..MaxGeneration] BY DEF RestartTypes
  <2> QED BY <1>1, <1>2, <2>2, Zenon
<1> QED BY <1>1, <1>2, <1>3

(* Each move of the persisted restart gives a restart record and keeps its targets. *)
LEMMA RestartRecords ==
    ASSUME RestartTypes
    PROVE  /\ \A p \in Phases : /\ [rec EXCEPT !.phase = p] \in Restart
                                /\ [rec EXCEPT !.phase = p].targets = rec.targets
           /\ \A p \in Phases, g \in Nat :
                 /\ [rec EXCEPT !.phase = p, !.recovery = g] \in Restart
                 /\ [rec EXCEPT !.phase = p, !.recovery = g].targets = rec.targets
           /\ \A p \in Phases, i \in Builds :
                 /\ [rec EXCEPT !.phase = p, !.image = i] \in Restart
                 /\ [rec EXCEPT !.phase = p, !.image = i].targets = rec.targets
  BY DEF RestartTypes, Restart

(* The steps keep the shape of the state. *)
LEMMA RestartTypesStep == RestartTypes /\ [Next]_vars => RestartTypes'
<1> SUFFICES ASSUME RestartTypes, [Next]_vars PROVE RestartTypes'
  OBVIOUS
<1> USE RestartBounds
<1>1. ASSUME NEW s \in Sessions, TurnStarts(s) PROVE RestartTypes'
  BY <1>1 DEF TurnStarts, Move, Admitted, procVars, askVars, RestartTypes, Row, Restart, Requests, Builds, Phases, None
<1>2. ASSUME NEW s \in Sessions, TurnEnds(s) PROVE RestartTypes'
  BY <1>2 DEF TurnEnds, Move, Admitted, procVars, askVars, RestartTypes, Row, Restart, Requests, Builds, Phases, None
<1>3. ASSUME NEW s \in Sessions, Pause(s) PROVE RestartTypes'
  BY <1>3, ZenonT(60) DEF Pause, Move, Admitted, procVars, askVars, RestartTypes, Row, Restart, Requests, Builds, Phases, None
<1>4. ASSUME NEW s \in Sessions, Resume(s) PROVE RestartTypes'
  BY <1>4, ZenonT(60) DEF Resume, Move, Admitted, procVars, askVars, RestartTypes, Row, Restart, Requests, Builds, Phases, None
<1>5. ASSUME NEW s \in Sessions, StartAgent(s) PROVE RestartTypes'
  BY <1>5 DEF StartAgent, Move, Admitted, procVars, askVars, RestartTypes, Row, Restart, Requests, Builds, Phases, None
<1>6. ASSUME NEW s \in Sessions, AgentStarted(s) PROVE RestartTypes'
  BY <1>6 DEF AgentStarted, Move, Admitted, procVars, askVars, RestartTypes, Row, Restart, Requests, Builds, Phases, None
<1>7. ASSUME NEW s \in Sessions, StopAgent(s) PROVE RestartTypes'
  BY <1>7 DEF StopAgent, Move, Admitted, procVars, askVars, StoppedRow, RestartTypes, Row, Restart, Requests, Builds, Phases, None
<1>8. ASSUME NEW o \in Ops, Receipt(o) PROVE RestartTypes'
  BY <1>8 DEF Receipt, Reply, procVars, askVars, RestartTypes, Row, Restart, Requests, Builds, Phases, None
<1>9. ASSUME NEW o \in Ops, Ask(o) PROVE RestartTypes'
  BY <1>9 DEF Ask, Reply, procVars, askVars, RestartTypes, Row, Restart, Requests, Builds, Phases, None
<1>10. ASSUME NEW o \in Ops, Snapshot(o) PROVE RestartTypes'
  BY <1>10 DEF Snapshot, Reply, procVars, askVars, RestartTypes, Row, Restart, Requests, Builds, Phases, None
<1>11. ASSUME NEW o \in Ops, SnapshotFails(o) \/ Dropped(o) PROVE RestartTypes'
  BY <1>11 DEF SnapshotFails, Dropped, Reply, procVars, askVars, RestartTypes, Row, Restart, Requests, Builds, Phases, None
<1>12. ASSUME NEW o \in Ops, Prepare(o) PROVE RestartTypes'
  BY <1>12 DEF Quiescing, Targets, Restart, Phases, Blocking, Builds, RestartTypes, Prepare, procVars, Requests
<1>13. ASSUME NEW o \in Ops, PrepareBusy(o) PROVE RestartTypes'
  BY <1>13 DEF PrepareBusy, Reply, procVars, askVars, RestartTypes, Row, Restart, Requests, Builds, Phases, None
<1>14. ASSUME NEW o \in Ops, Send(o) PROVE RestartTypes'
  BY <1>14 DEF Send, Reply, procVars, askVars, NoHand, RestartTypes, Row, Restart, Requests, Builds, Phases, None
<1>15. ASSUME NEW i \in Images, Install(i) PROVE RestartTypes'
  BY <1>15 DEF Install, procVars, askVars, RestartTypes, Row, Restart, Requests, Builds, Phases, None
<1>16. ASSUME Drain PROVE RestartTypes'
  <2>1. PICK gone \in SUBSET {s \in Sessions : alive[s] = gen \/ row[s].by = gen} :
            ShutDown(gone, TRUE)
    BY <1>16 DEF Drain
  <2>3. row' \in [Sessions -> Row] /\ alive' \in [Sessions -> 0..MaxGeneration] BY <2>1, RestartRows DEF ShutDown
  <2>4. rec' \in Restart BY <1>16, RestartRecords DEF Drain, RestartTypes, Phases, Blocking
  <2> QED BY <1>16, <2>3, <2>4 DEF Drain, askVars, RestartTypes
<1>17. ASSUME Exit PROVE RestartTypes'
  BY <1>17 DEF Exit, procVars, askVars, ShutDown, StoppedRow, NoHand, Blocking, RestartTypes, Row, Restart, Requests, Builds, Phases, None
<1>18. ASSUME Exec PROVE RestartTypes'
  BY <1>18 DEF Exec, procVars, askVars, Boot, NoHand, RestartTypes, Row, Restart, Requests, Builds, Phases, None
<1>19. ASSUME ExecFails PROVE RestartTypes'
  BY <1>19 DEF ExecFails, procVars, askVars, NoHand, RestartTypes, Row, Restart, Requests, Builds, Phases, None
<1>20. ASSUME Start PROVE RestartTypes'
  BY <1>20 DEF Start, procVars, askVars, Boot, NoHand, RestartTypes, Row, Restart, Requests, Builds, Phases, None
<1>21. ASSUME Reconcile PROVE RestartTypes' BY <1>21, RestartRows DEF Reconcile, askVars, RestartTypes
<1>22. ASSUME RecoverAbandoned PROVE RestartTypes'
  <2>0. /\ "draining" \in Phases /\ "failed" \in Phases /\ "recovering" \in Phases
        /\ gen \in Nat
    BY DEF Phases, Blocking, RestartTypes
  <2>1. rec' \in {rec, [rec EXCEPT !.phase = "failed", !.recovery = gen]} BY <1>22 DEF RecoverAbandoned
  <2>2. rec' \in Restart
    <3>1. [rec EXCEPT !.phase = "failed", !.recovery = gen] \in Restart BY <2>0, RestartRecords
    <3>2. rec \in Restart BY DEF RestartTypes
    <3> QED BY <2>1, <3>1, <3>2
  <2> QED BY <1>22, <2>2 DEF RecoverAbandoned, askVars, RestartTypes
<1>23. ASSUME BeginRecovery PROVE RestartTypes'
  <2>0. /\ "draining" \in Phases /\ "failed" \in Phases /\ "recovering" \in Phases
        /\ gen \in Nat
    BY DEF Phases, Blocking, RestartTypes
  <2>1. rec' \in Restart BY <1>23, <2>0, RestartRecords DEF BeginRecovery, RestartTypes
  <2> QED BY <1>23, <2>1 DEF BeginRecovery, askVars, RestartTypes
<1>24. ASSUME CompleteRecovery PROVE RestartTypes'
  BY <1>24 DEF CompleteRecovery, procVars, askVars, RestartTypes, Row, Restart, Requests, Builds, Phases, None
<1>25. ASSUME PublishReady PROVE RestartTypes'
  BY <1>25 DEF PublishReady, procVars, askVars, RestartTypes, Row, Restart, Requests, Builds, Phases, None
<1>26. ASSUME RecoveryFails PROVE RestartTypes'
  <2>1. PICK gone \in SUBSET {s \in Sessions : alive[s] = gen \/ row[s].by = gen} :
            /\ alive' = [s \in Sessions |-> IF s \in gone THEN 0 ELSE alive[s]]
            /\ row' = [s \in Sessions |->
                         IF s \in gone /\ row[s].by = gen THEN StoppedRow ELSE row[s]]
            /\ rec' \in {[rec EXCEPT !.phase = "failed"], rec}
    BY <1>26 DEF RecoveryFails
  <2>3. row' \in [Sessions -> Row] /\ alive' \in [Sessions -> 0..MaxGeneration] BY <2>1, RestartRows
  <2>4. rec' \in Restart BY <2>1, RestartRecords DEF RestartTypes, Phases, Blocking
  <2> QED BY <1>26, <2>3, <2>4 DEF RecoveryFails, askVars, RestartTypes
<1>27. ASSUME Cancel PROVE RestartTypes'
  BY <1>27 DEF Cancel, procVars, askVars, RestartTypes, Row, Restart, Requests, Builds, Phases, None
<1>28. ASSUME Crash PROVE RestartTypes'
  BY <1>28 DEF Crash, procVars, askVars, NoHand, RestartTypes, Row, Restart, Requests, Builds, Phases, None
<1>29. ASSUME NEW s \in Sessions, GuardianEnds(s) PROVE RestartTypes'
  BY <1>29 DEF GuardianEnds, procVars, askVars, RestartTypes, Row, Restart, Requests, Builds, Phases, None
<1>30. ASSUME NEW s \in Sessions, Authorize(s) PROVE RestartTypes'
  BY <1>30 DEF Authorize, procVars, askVars, RestartTypes, Row, Restart, Requests, Builds, Phases, None
<1>31. ASSUME NEW s \in Sessions, Launch(s) PROVE RestartTypes'
  BY <1>31 DEF Launch, procVars, askVars, RestartTypes, Row, Restart, Requests, Builds, Phases, None
<1>32. ASSUME NEW s \in Sessions, CompleteTarget(s) PROVE RestartTypes'
  BY RestartRows, <1>32 DEF Rebuilt, CompleteTarget, RestartTypes, procVars, askVars
<1>33. ASSUME UNCHANGED vars PROVE RestartTypes'
  BY <1>33 DEF vars, RestartTypes, Row, Restart, Requests, Builds, Phases, None
<1> QED
  BY <1>1, <1>2, <1>3, <1>4, <1>5, <1>6, <1>7, <1>8, <1>9, <1>10, <1>11, <1>12, <1>13, <1>14, <1>15, <1>16, <1>17, <1>18, <1>19, <1>20, <1>21, <1>22, <1>23, <1>24, <1>25, <1>26, <1>27, <1>28, <1>29, <1>30, <1>31, <1>32, <1>33
     DEF Next, AgentStep, RequestStep, LifeStep, RecoverStep

(* The steps keep what a blocking record says. *)
LEMMA RecordStep == RestartInv /\ [Next]_vars => (RecordHolds /\ RecoversTargets)'
<1> SUFFICES ASSUME RestartInv, [Next]_vars PROVE (RecordHolds /\ RecoversTargets)'
  OBVIOUS
<1> USE RestartBounds DEF RestartInv, RestartTypes
<1>1. ASSUME NEW s \in Sessions, TurnStarts(s) PROVE (RecordHolds /\ RecoversTargets)'
  BY <1>1 DEF TurnStarts, Move, Admitted, procVars, askVars, RecordHolds, RecoversTargets, Admits, Serving, Unquiet, Targets, Blocking, Restart, Row
<1>2. ASSUME NEW s \in Sessions, TurnEnds(s) PROVE (RecordHolds /\ RecoversTargets)'
  BY <1>2 DEF TurnEnds, Move, Admitted, procVars, askVars, RecordHolds, RecoversTargets, Admits, Serving, Unquiet, Targets, Blocking, Restart, Row
<1>3. ASSUME NEW s \in Sessions, Pause(s) PROVE (RecordHolds /\ RecoversTargets)'
  BY <1>3 DEF Pause, Move, Admitted, procVars, askVars, RecordHolds, RecoversTargets, Admits, Serving, Unquiet, Targets, Blocking, Restart, Row
<1>4. ASSUME NEW s \in Sessions, Resume(s) PROVE (RecordHolds /\ RecoversTargets)'
  BY <1>4 DEF Resume, Move, Admitted, procVars, askVars, RecordHolds, RecoversTargets, Admits, Serving, Unquiet, Targets, Blocking, Restart, Row
<1>6. ASSUME NEW s \in Sessions, AgentStarted(s) PROVE (RecordHolds /\ RecoversTargets)'
  BY <1>6 DEF AgentStarted, Move, Admitted, procVars, askVars, RecordHolds, RecoversTargets, Admits, Serving, Unquiet, Targets, Blocking, Restart, Row
<1>7. ASSUME NEW s \in Sessions, StopAgent(s) PROVE (RecordHolds /\ RecoversTargets)'
  BY <1>7 DEF StopAgent, Move, Admitted, procVars, askVars, StoppedRow, RecordHolds, RecoversTargets, Admits, Serving, Unquiet, Targets, Blocking, Restart, Row
<1>8. ASSUME NEW o \in Ops, Receipt(o) PROVE (RecordHolds /\ RecoversTargets)'
  BY <1>8 DEF Receipt, procVars, askVars, RecordHolds, RecoversTargets, Admits, Serving, Unquiet, Targets, Blocking, Restart, Row
<1>9. ASSUME NEW o \in Ops, Ask(o) PROVE (RecordHolds /\ RecoversTargets)'
  BY <1>9 DEF Ask, procVars, askVars, RecordHolds, RecoversTargets, Admits, Serving, Unquiet, Targets, Blocking, Restart, Row
<1>10. ASSUME NEW o \in Ops, Snapshot(o) PROVE (RecordHolds /\ RecoversTargets)'
  BY <1>10 DEF Snapshot, procVars, askVars, RecordHolds, RecoversTargets, Admits, Serving, Unquiet, Targets, Blocking, Restart, Row
<1>11. ASSUME NEW o \in Ops, SnapshotFails(o) \/ Dropped(o) PROVE (RecordHolds /\ RecoversTargets)'
  BY <1>11 DEF SnapshotFails, Dropped, procVars, askVars, RecordHolds, RecoversTargets, Admits, Serving, Unquiet, Targets, Blocking, Restart, Row
<1>12. ASSUME NEW o \in Ops, Prepare(o) PROVE (RecordHolds /\ RecoversTargets)'
  BY <1>12 DEF Prepare, procVars, askVars, Quiescing, Busy, RecordHolds, RecoversTargets, Admits, Serving, Unquiet, Targets, Blocking, Restart, Row
<1>13. ASSUME NEW o \in Ops, PrepareBusy(o) PROVE (RecordHolds /\ RecoversTargets)'
  BY <1>13 DEF PrepareBusy, procVars, askVars, RecordHolds, RecoversTargets, Admits, Serving, Unquiet, Targets, Blocking, Restart, Row
<1>14. ASSUME NEW o \in Ops, Send(o) PROVE (RecordHolds /\ RecoversTargets)'
  BY <1>14 DEF Send, procVars, askVars, RecordHolds, RecoversTargets, Admits, Serving, Unquiet, Targets, Blocking, Restart, Row
<1>15. ASSUME NEW i \in Images, Install(i) PROVE (RecordHolds /\ RecoversTargets)'
  BY <1>15 DEF Install, procVars, askVars, RecordHolds, RecoversTargets, Admits, Serving, Unquiet, Targets, Blocking, Restart, Row
<1>16. ASSUME Drain PROVE (RecordHolds /\ RecoversTargets)'
  BY <1>16 DEF Drain, procVars, askVars, ShutDown, StoppedRow, RecordHolds, RecoversTargets, Admits, Serving, Unquiet, Targets, Blocking, Restart, Row
<1>17. ASSUME Exit PROVE (RecordHolds /\ RecoversTargets)'
  BY <1>17 DEF Exit, procVars, askVars, ShutDown, StoppedRow, RecordHolds, RecoversTargets, Admits, Serving, Unquiet, Targets, Blocking, Restart, Row
<1>18. ASSUME Exec PROVE (RecordHolds /\ RecoversTargets)'
  BY <1>18 DEF Exec, procVars, askVars, Boot, RecordHolds, RecoversTargets, Admits, Serving, Unquiet, Targets, Blocking, Restart, Row
<1>19. ASSUME ExecFails PROVE (RecordHolds /\ RecoversTargets)'
  BY <1>19 DEF ExecFails, procVars, askVars, RecordHolds, RecoversTargets, Admits, Serving, Unquiet, Targets, Blocking, Restart, Row
<1>20. ASSUME Start PROVE (RecordHolds /\ RecoversTargets)'
  BY <1>20 DEF Start, procVars, askVars, Boot, RecordHolds, RecoversTargets, Admits, Serving, Unquiet, Targets, Blocking, Restart, Row
<1>21. ASSUME Reconcile PROVE (RecordHolds /\ RecoversTargets)'
  BY <1>21, ZenonT(60) DEF Reconcile, procVars, askVars, StoppedRow, RecordHolds, RecoversTargets, Admits, Serving, Unquiet, Targets, Blocking, Restart, Row
<1>22. ASSUME RecoverAbandoned PROVE (RecordHolds /\ RecoversTargets)'
  BY <1>22, ZenonT(60) DEF RecoverAbandoned, procVars, askVars, RecordHolds, RecoversTargets, Admits, Serving, Unquiet, Targets, Blocking, Restart, Row
<1>23. ASSUME BeginRecovery PROVE (RecordHolds /\ RecoversTargets)'
  BY <1>23 DEF BeginRecovery, procVars, askVars, RecordHolds, RecoversTargets, Admits, Serving, Unquiet, Targets, Blocking, Restart, Row
<1>24. ASSUME CompleteRecovery PROVE (RecordHolds /\ RecoversTargets)'
  BY <1>24 DEF CompleteRecovery, procVars, askVars, RecordHolds, RecoversTargets, Admits, Serving, Unquiet, Targets, Blocking, Restart, Row
<1>25. ASSUME PublishReady PROVE (RecordHolds /\ RecoversTargets)'
  BY <1>25 DEF PublishReady, procVars, askVars, RecordHolds, RecoversTargets, Admits, Serving, Unquiet, Targets, Blocking, Restart, Row
<1>26. ASSUME RecoveryFails PROVE (RecordHolds /\ RecoversTargets)'
  BY <1>26 DEF RecoveryFails, procVars, askVars, StoppedRow, RecordHolds, RecoversTargets, Admits, Serving, Unquiet, Targets, Blocking, Restart, Row
<1>27. ASSUME Cancel PROVE (RecordHolds /\ RecoversTargets)'
  BY <1>27 DEF Cancel, procVars, askVars, RecordHolds, RecoversTargets, Admits, Serving, Unquiet, Targets, Blocking, Restart, Row
<1>28. ASSUME Crash PROVE (RecordHolds /\ RecoversTargets)'
  BY <1>28 DEF Crash, procVars, askVars, RecordHolds, RecoversTargets, Admits, Serving, Unquiet, Targets, Blocking, Restart, Row
<1>29. ASSUME NEW s \in Sessions, GuardianEnds(s) PROVE (RecordHolds /\ RecoversTargets)'
  BY <1>29 DEF GuardianEnds, procVars, askVars, RecordHolds, RecoversTargets, Admits, Serving, Unquiet, Targets, Blocking, Restart, Row
<1>30. ASSUME NEW s \in Sessions, Authorize(s) PROVE (RecordHolds /\ RecoversTargets)'
  BY <1>30 DEF Authorize, procVars, askVars, RecordHolds, RecoversTargets, Admits, Serving, Unquiet, Targets, Blocking, Restart, Row
<1>31. ASSUME NEW s \in Sessions, Launch(s) PROVE (RecordHolds /\ RecoversTargets)'
  BY <1>31 DEF Launch, procVars, askVars, RecordHolds, RecoversTargets, Admits, Serving, Unquiet, Targets, Blocking, Restart, Row
<1>32. ASSUME NEW s \in Sessions, CompleteTarget(s) PROVE (RecordHolds /\ RecoversTargets)'
  BY <1>32 DEF CompleteTarget, procVars, askVars, Rebuilt, RecordHolds, RecoversTargets, Admits, Serving, Unquiet, Targets, Blocking, Restart, Row
<1>33. ASSUME UNCHANGED vars PROVE (RecordHolds /\ RecoversTargets)'
  BY <1>33 DEF vars, RecordHolds, RecoversTargets, Admits, Serving, Unquiet, Targets, Blocking, Restart, Row
<1> QED BY <1>1, <1>2, <1>3, <1>4, <1>6, <1>7, <1>8, <1>9, <1>10, <1>11, <1>12, <1>13, <1>14, <1>15, <1>16, <1>17,
     <1>18, <1>19, <1>20, <1>21, <1>22, <1>23, <1>24, <1>25, <1>26, <1>27, <1>28, <1>29, <1>30, <1>31, <1>32,
     <1>33 DEF Next, AgentStep, RequestStep, LifeStep, RecoverStep, StartAgent, Move, Admitted, procVars, askVars,
     RecordHolds, RecoversTargets, Admits, Serving, Unquiet, Targets, Blocking, Restart, Row

(* The steps keep what a row says of its process. *)
LEMMA RowsStep == RestartInv /\ [Next]_vars => (\A q \in Sessions : RowHolds(q))'
<1> SUFFICES ASSUME RestartInv, [Next]_vars PROVE (\A q \in Sessions : RowHolds(q))'
  OBVIOUS
<1> USE RestartBounds DEF RestartInv, RestartTypes
<1>1. ASSUME NEW s \in Sessions, TurnStarts(s) PROVE (\A q \in Sessions : RowHolds(q))'
  BY <1>1 DEF TurnStarts, Move, Admitted, procVars, askVars, RowHolds, Serving, Restart, Row
<1>2. ASSUME NEW s \in Sessions, TurnEnds(s) PROVE (\A q \in Sessions : RowHolds(q))'
  BY <1>2 DEF TurnEnds, Move, Admitted, procVars, askVars, RowHolds, Serving, Restart, Row
<1>3. ASSUME NEW s \in Sessions, Pause(s) PROVE (\A q \in Sessions : RowHolds(q))'
  BY <1>3 DEF Pause, Move, Admitted, procVars, askVars, RowHolds, Serving, Restart, Row
<1>4. ASSUME NEW s \in Sessions, Resume(s) PROVE (\A q \in Sessions : RowHolds(q))'
  BY <1>4 DEF Resume, Move, Admitted, procVars, askVars, RowHolds, Serving, Restart, Row
<1>5. ASSUME NEW s \in Sessions, StartAgent(s) PROVE (\A q \in Sessions : RowHolds(q))'
  BY <1>5 DEF StartAgent, Move, Admitted, procVars, askVars, RowHolds, Serving, Restart, Row, StoppedRow
<1>6. ASSUME NEW s \in Sessions, AgentStarted(s) PROVE (\A q \in Sessions : RowHolds(q))'
  BY <1>6 DEF AgentStarted, Move, Admitted, procVars, askVars, RowHolds, Serving, Restart, Row
<1>7. ASSUME NEW s \in Sessions, StopAgent(s) PROVE (\A q \in Sessions : RowHolds(q))'
  BY <1>7 DEF StopAgent, Move, Admitted, procVars, askVars, StoppedRow, RowHolds, Serving, Restart, Row
<1>8. ASSUME NEW o \in Ops, Receipt(o) PROVE (\A q \in Sessions : RowHolds(q))'
  BY <1>8 DEF Receipt, procVars, askVars, RowHolds, Serving, Restart, Row
<1>9. ASSUME NEW o \in Ops, Ask(o) PROVE (\A q \in Sessions : RowHolds(q))'
  BY <1>9 DEF Ask, procVars, askVars, RowHolds, Serving, Restart, Row
<1>10. ASSUME NEW o \in Ops, Snapshot(o) PROVE (\A q \in Sessions : RowHolds(q))'
  BY <1>10 DEF Snapshot, procVars, askVars, RowHolds, Serving, Restart, Row
<1>11. ASSUME NEW o \in Ops, SnapshotFails(o) \/ Dropped(o) PROVE (\A q \in Sessions : RowHolds(q))'
  BY <1>11 DEF SnapshotFails, Dropped, procVars, askVars, RowHolds, Serving, Restart, Row
<1>12. ASSUME NEW o \in Ops, Prepare(o) PROVE (\A q \in Sessions : RowHolds(q))'
  BY <1>12 DEF Prepare, procVars, askVars, Quiescing, Busy, RowHolds, Serving, Restart, Row, Unquiet
<1>13. ASSUME NEW o \in Ops, PrepareBusy(o) PROVE (\A q \in Sessions : RowHolds(q))'
  BY <1>13 DEF PrepareBusy, procVars, askVars, RowHolds, Serving, Restart, Row
<1>14. ASSUME NEW o \in Ops, Send(o) PROVE (\A q \in Sessions : RowHolds(q))'
  BY <1>14 DEF Send, procVars, askVars, RowHolds, Serving, Restart, Row
<1>15. ASSUME NEW i \in Images, Install(i) PROVE (\A q \in Sessions : RowHolds(q))'
  BY <1>15 DEF Install, procVars, askVars, RowHolds, Serving, Restart, Row
<1>16. ASSUME Drain PROVE (\A q \in Sessions : RowHolds(q))'
  BY <1>16 DEF Drain, procVars, askVars, ShutDown, StoppedRow, RowHolds, Serving, Restart, Row
<1>17. ASSUME Exit PROVE (\A q \in Sessions : RowHolds(q))'
  BY <1>17 DEF Exit, procVars, askVars, ShutDown, StoppedRow, RowHolds, Serving, Restart, Row
<1>18. ASSUME Exec PROVE (\A q \in Sessions : RowHolds(q))'
  BY <1>18 DEF Exec, procVars, askVars, Boot, RowHolds, Serving, Restart, Row
<1>20. ASSUME Start PROVE (\A q \in Sessions : RowHolds(q))'
  BY <1>20 DEF Start, procVars, askVars, Boot, RowHolds, Serving, Restart, Row
<1>21. ASSUME Reconcile PROVE (\A q \in Sessions : RowHolds(q))'
  BY <1>21, ZenonT(60) DEF Reconcile, procVars, askVars, StoppedRow, RowHolds, Serving, Restart, Row
<1>22. ASSUME RecoverAbandoned PROVE (\A q \in Sessions : RowHolds(q))'
  BY <1>22 DEF RecoverAbandoned, procVars, askVars, RowHolds, Serving, Restart, Row
<1>23. ASSUME BeginRecovery PROVE (\A q \in Sessions : RowHolds(q))'
  BY <1>23 DEF BeginRecovery, procVars, askVars, RowHolds, Serving, Restart, Row, Stopped
<1>24. ASSUME CompleteRecovery PROVE (\A q \in Sessions : RowHolds(q))'
  BY <1>24 DEF CompleteRecovery, procVars, askVars, RowHolds, Serving, Restart, Row, Ready
<1>25. ASSUME PublishReady PROVE (\A q \in Sessions : RowHolds(q))'
  BY <1>25 DEF PublishReady, procVars, askVars, RowHolds, Serving, Restart, Row
<1>26. ASSUME RecoveryFails PROVE (\A q \in Sessions : RowHolds(q))'
  BY <1>26 DEF RecoveryFails, procVars, askVars, StoppedRow, RowHolds, Serving, Restart, Row
<1>27. ASSUME Cancel PROVE (\A q \in Sessions : RowHolds(q))'
  BY <1>27 DEF Cancel, procVars, askVars, RowHolds, Serving, Restart, Row
<1>29. ASSUME NEW s \in Sessions, GuardianEnds(s) PROVE (\A q \in Sessions : RowHolds(q))'
  BY <1>29 DEF GuardianEnds, procVars, askVars, RowHolds, Serving, Restart, Row
<1>30. ASSUME NEW s \in Sessions, Authorize(s) PROVE (\A q \in Sessions : RowHolds(q))'
  BY <1>30 DEF Authorize, procVars, askVars, RowHolds, Serving, Restart, Row, Stopped, StoppedRow, RecoversTargets
<1>31. ASSUME NEW s \in Sessions, Launch(s) PROVE (\A q \in Sessions : RowHolds(q))'
  BY <1>31 DEF Launch, procVars, askVars, RowHolds, Serving, Restart, Row
<1>32. ASSUME NEW s \in Sessions, CompleteTarget(s) PROVE (\A q \in Sessions : RowHolds(q))'
  BY <1>32 DEF CompleteTarget, procVars, askVars, Rebuilt, RowHolds, Serving, Restart, Row
<1> QED BY <1>1, <1>2, <1>3, <1>4, <1>5, <1>6, <1>7, <1>8, <1>9, <1>10, <1>11, <1>12, <1>13, <1>14, <1>15, <1>16,
     <1>17, <1>18, <1>20, <1>21, <1>22, <1>23, <1>24, <1>25, <1>26, <1>27, <1>29, <1>30, <1>31, <1>32 DEF Next,
     AgentStep, RequestStep, LifeStep, RecoverStep, vars, RowHolds, Serving, Restart, Row, Crash, procVars,
     askVars, ExecFails

(* The invariant of a restart holds in every reachable state. *)
THEOREM RestartInvariant == Spec => []RestartInv
<1>1. Init => RestartInv
  <2> SUFFICES ASSUME Init PROVE RestartInv
    OBVIOUS
  <2> USE RestartBounds DEF Init
  <2>0. /\ StoppedRow \in Row
        /\ [run |-> "idle", enabled |-> TRUE, by |-> 1] \in Row
        /\ [run |-> "paused", enabled |-> FALSE, by |-> 1] \in Row
    BY DEF Row, StoppedRow
  <2>1. row \in [Sessions -> Row] BY <2>0
  <2>2. alive \in [Sessions -> 0..MaxGeneration] /\ \A s \in Sessions : alive[s] = row[s].by BY <2>1 DEF Row
  <2>3. rec \in Restart /\ Admits BY DEF NoRecord, Restart, Phases, Builds, None, Admits, Blocking
  <2>4. /\ mail.image \in Builds /\ req \in [Ops -> Requests] /\ installed \in Builds
        /\ gen \in 1..MaxGeneration
    BY DEF NoHand, Builds, Requests
  <2>5. \A s \in Sessions : /\ row[s].run = "stopped" => row[s].by = 0
                            /\ row[s].run # "starting"
    BY DEF StoppedRow
  <2> QED
    <3>1. RestartTypes BY <2>1, <2>2, <2>3, <2>4 DEF RestartTypes
    <3>2. RecordHolds BY <2>3 DEF RecordHolds
    <3>3. \A s \in Sessions : RowHolds(s)
      <4> SUFFICES ASSUME NEW s \in Sessions PROVE RowHolds(s)
        OBVIOUS
      <4> HIDE DEF Init
      <4>1. /\ row[s].run = "stopped" => alive[s] = 0
            /\ row[s].run # "starting"
        BY <2>2, <2>5
      <4> QED BY <4>1 DEF RowHolds
    <3>4. RecoversTargets BY DEF RecoversTargets
    <3> QED BY <3>1, <3>2, <3>3, <3>4 DEF RestartInv
<1>2. RestartInv /\ [Next]_vars => RestartInv' BY RestartTypesStep, RecordStep, RowsStep DEF RestartInv
<1> QED BY <1>1, <1>2, PTL DEF Spec

(* From the moment prepare_runtime_restart records a restart no agent works, and until  *)
(* its source life ends the targets and pauses of the record are those of the rows.     *)
THEOREM RestartFreezesTargets == Spec => []TargetsFrozen
<1>1. RestartInv => TargetsFrozen BY DEF RestartInv, RecordHolds, TargetsFrozen
<1> QED BY <1>1, RestartInvariant, PTL

(* No agent is launched beside a process an earlier life may have left, by a command or *)
(* by the recovery of a restart, and a restart fails only with all its targets gone.    *)
THEOREM RestartNeverTwice == Spec => NeverTwice
<1> DEFINE Once == /\ \A s \in Sessions : alive'[s] \notin {0, alive[s]} => alive[s] = 0
                   /\ (rec'.phase = "failed" /\ rec' # rec)
                         => \A s \in rec.targets : alive'[s] = 0
<1>1. RestartInv /\ [Next]_vars => [Once]_vars
  <2> SUFFICES ASSUME RestartInv, Next PROVE Once
    BY Zenon
  <2> USE RestartBounds DEF RestartInv, RestartTypes
  <2>1. ASSUME NEW s \in Sessions, TurnStarts(s) PROVE Once BY <2>1 DEF TurnStarts, Move
  <2>3. ASSUME NEW s \in Sessions, Pause(s) PROVE Once BY <2>3 DEF Pause, Move
  <2>4. ASSUME NEW s \in Sessions, Resume(s) PROVE Once BY <2>4 DEF Resume, Move
  <2>6. ASSUME NEW s \in Sessions, AgentStarted(s) PROVE Once BY <2>6 DEF AgentStarted, Move, RowHolds, Serving
  <2>7. ASSUME NEW s \in Sessions, StopAgent(s) PROVE Once BY <2>7 DEF StopAgent, Move
  <2>8. ASSUME NEW o \in Ops, Receipt(o) PROVE Once BY <2>8 DEF Receipt
  <2>9. ASSUME NEW o \in Ops, Ask(o) PROVE Once BY <2>9 DEF Ask
  <2>10. ASSUME NEW o \in Ops, Snapshot(o) PROVE Once BY <2>10 DEF Snapshot
  <2>11. ASSUME NEW o \in Ops, SnapshotFails(o) \/ Dropped(o) PROVE Once BY <2>11 DEF SnapshotFails, Dropped
  <2>12. ASSUME NEW o \in Ops, Prepare(o) PROVE Once BY <2>12 DEF Prepare, Quiescing
  <2>13. ASSUME NEW o \in Ops, PrepareBusy(o) PROVE Once BY <2>13 DEF PrepareBusy
  <2>14. ASSUME NEW o \in Ops, Send(o) PROVE Once BY <2>14 DEF Send
  <2>15. ASSUME NEW i \in Images, Install(i) PROVE Once BY <2>15 DEF Install
  <2>16. ASSUME Drain PROVE Once BY <2>16 DEF Drain, ShutDown, Restart
  <2>17. ASSUME Exit PROVE Once BY <2>17 DEF Exit, ShutDown
  <2>18. ASSUME Exec PROVE Once BY <2>18 DEF Exec, Boot
  <2>22. ASSUME RecoverAbandoned PROVE Once
    BY <2>22 DEF RecoverAbandoned, AbandonEnds, Stopped, StoppedRow, RowHolds, Restart
  <2>24. ASSUME CompleteRecovery PROVE Once BY <2>24 DEF CompleteRecovery, Restart
  <2>26. ASSUME RecoveryFails PROVE Once
    <3>1. PICK gone \in SUBSET {s \in Sessions : alive[s] = gen \/ row[s].by = gen} :
            /\ alive' = [s \in Sessions |-> IF s \in gone THEN 0 ELSE alive[s]]
            /\ row' = [s \in Sessions |->
                         IF s \in gone /\ row[s].by = gen THEN StoppedRow ELSE row[s]]
            /\ \/ rec' = rec
               \/ \A s \in rec.targets : row'[s] = StoppedRow
      BY <2>26 DEF RecoveryFails
    <3>2. ASSUME NEW s \in Sessions
          PROVE  /\ alive'[s] \in {0, alive[s]}
                 /\ row'[s] = StoppedRow => alive'[s] = 0
      BY <3>1 DEF StoppedRow, RowHolds
    <3>3. rec.targets \subseteq Sessions BY DEF Restart
    <3> QED BY <3>1, <3>2, <3>3
  <2>27. ASSUME Cancel PROVE Once BY <2>27 DEF Cancel
  <2>28. ASSUME Crash PROVE Once BY <2>28 DEF Crash
  <2>29. ASSUME NEW s \in Sessions, GuardianEnds(s) PROVE Once BY <2>29 DEF GuardianEnds
  <2>30. ASSUME NEW s \in Sessions, Authorize(s) PROVE Once BY <2>30 DEF Authorize
  <2>31. ASSUME NEW s \in Sessions, Launch(s) PROVE Once BY <2>31 DEF Launch, RowHolds
  <2>32. ASSUME NEW s \in Sessions, CompleteTarget(s) PROVE Once BY <2>32 DEF CompleteTarget
  <2> QED BY <2>1, <2>3, <2>4, <2>6, <2>7, <2>8, <2>9, <2>10, <2>11, <2>12, <2>13, <2>14, <2>15, <2>16, <2>17, <2>18,
       <2>22, <2>24, <2>26, <2>27, <2>28, <2>29, <2>30, <2>31, <2>32 DEF Next, AgentStep, RequestStep, LifeStep,
       RecoverStep, ExecFails, StartAgent, Move, Reconcile, BeginRecovery, Restart, PublishReady, Start, Boot,
       TurnEnds
<1> QED BY <1>1, RestartInvariant, PTL DEF Spec, NeverTwice

------------------------
(* The managed ingress. *)

OriginIds == {0} \cup UNION {Origins[r] : r \in Runtimes}
Lifecycles == [up : BOOLEAN, life : {"free", "stopping", "shutting"}, closed : BOOLEAN,
               applied : SUBSET (Nat \ {0}), latest : Nat, gen : Nat,
               phase : {"stopped", "starting", "running", "stopping", "error"},
               trust : OriginIds, dirty : BOOLEAN, clean : BOOLEAN]
Tunnels == [kind : {"none", "tunnel", "clear"}, gen : Nat,
            at : {"none", "spawn", "observe", "join", "clear", "done"},
            cancelled : BOOLEAN, bad : BOOLEAN, error : BOOLEAN]
Publications == [target : OriginIds, cancelled : BOOLEAN, done : BOOLEAN, next : OriginIds]
Projections == [phase : {"pending", "ready", "failed"}, target : OriginIds, dirty : BOOLEAN]
Operations == [who : {"none", "publish", "clear"}, target : OriginIds, try : Nat]

(* The shape of the ingress state. *)
IngressTypes ==
    /\ ctl \in [Runtimes -> Lifecycles]
    /\ tun \in [Runtimes -> Tunnels]
    /\ pbl \in [Runtimes -> Publications]
    /\ stb \in [Runtimes -> Projections]
    /\ opn \in [Runtimes -> Operations]
    /\ flock \in Runtimes \cup {0}

(* The newest control is the last one that took effect; a generation that watches its *)
(* tunnel uncancelled is the work of a start, and trust needs one.                     *)
ControlHolds(c, t, r) ==
    /\ \A n \in c.applied : n <= c.latest
    /\ c.applied # {} => c.latest \in c.applied
    /\ (t.at \in {"spawn", "observe"} /\ ~t.cancelled) =>
          c.applied # {} /\ Kind(r, c.latest) = "start" /\ ~c.closed /\ c.up
    /\ c.trust # 0 => c.phase = "running" /\ t.at = "observe" /\ ~t.cancelled
    /\ t.kind # "none" => t.gen = c.gen
    /\ (t.kind = "none") = (t.at = "none")
    /\ t.at # "none" => c.up
    /\ c.life = "shutting" => c.closed

(* A stable operation belongs to the publication or to the clearing that waits for it, *)
(* and nothing is shown while it runs; a runtime that is down has none.                *)
OperationHolds(c, t, p, o, s) ==
    /\ p.target # 0 => t.at \in {"observe", "join"}
    /\ o.who = "publish" => p.target # 0 /\ ~p.done
    /\ o.who = "clear" => t.at = "clear" /\ o.target = 0
    /\ o.who # "none" => s.phase = "pending"
    /\ c.clean => ~c.up
    /\ (~c.up /\ ~c.closed) => s.phase = "pending" /\ ~c.clean

(* The remote key is written under the lock, by the owner. *)
LockHolds ==
    /\ ghost # {} => escaped
    /\ flock # 0 => ownerOf = flock /\ opn[flock].who # "none"

(* What an owner shows, has cleared or has shut down cleanly is what the key holds. *)
EntryHolds(r) ==
    (~escaped /\ ownerOf = r) =>
        /\ stb[r].phase = "ready" => kv = stb[r].target
        /\ (tun[r].at = "done" /\ ~ctl[r].dirty) \/ ctl[r].clean => kv = 0

IngressInv ==
    /\ IngressTypes
    /\ \A r \in Runtimes : ControlHolds(ctl[r], tun[r], r)
    /\ \A r \in Runtimes : OperationHolds(ctl[r], tun[r], pbl[r], opn[r], stb[r])
    /\ LockHolds
    /\ \A r \in Runtimes : EntryHolds(r)

------------------------
(* A step of one runtime leaves the others as they are. *)
Others(r) ==
    \A q \in Runtimes \ {r} :
        /\ ctl'[q] = ctl[q] /\ tun'[q] = tun[q] /\ pbl'[q] = pbl[q]
        /\ stb'[q] = stb[q] /\ opn'[q] = opn[q]

(* Who owns the entry changes only to the runtime that steps, and the key only under   *)
(* the hand of its owner.                                                              *)
Shared(r) ==
    /\ ownerOf' \in {ownerOf, r}
    /\ escaped => escaped'
    /\ kv' = kv \/ ownerOf = r \/ escaped'

(* The invariant after a step of a runtime is what the step says of that runtime. *)
LEMMA IngressFrame ==
    ASSUME IngressInv, NEW r \in Runtimes, IngressTypes', Others(r), Shared(r),
           ControlHolds(ctl[r], tun[r], r)',
           OperationHolds(ctl[r], tun[r], pbl[r], opn[r], stb[r])',
           LockHolds', EntryHolds(r)'
    PROVE  IngressInv'
BY DEF Others, IngressInv, EntryHolds, Shared

(* finish ends a generation: what it leaves of the runtime. *)
SettledAs(r, ok) ==
    /\ ctl' \in [Runtimes -> Lifecycles] /\ tun' \in [Runtimes -> Tunnels]
    /\ \A q \in Runtimes \ {r} : ctl'[q] = ctl[q] /\ tun'[q] = tun[q]
    /\ tun'[r].at = "done" /\ tun'[r].kind = tun[r].kind
    /\ tun'[r].gen = tun[r].gen /\ tun'[r].cancelled = tun[r].cancelled
    /\ ctl'[r].up = ctl[r].up /\ ctl'[r].closed = ctl[r].closed /\ ctl'[r].gen = ctl[r].gen
    /\ ctl'[r].applied = ctl[r].applied /\ ctl'[r].latest = ctl[r].latest
    /\ ctl'[r].clean = ctl[r].clean /\ ctl'[r].life = ctl[r].life /\ ctl'[r].trust = 0
    /\ ~ctl'[r].dirty => ok

(* finish of a tunnel task that has come to its end settles its runtime so. *)
LEMMA SettledFields ==
    ASSUME IngressInv, NEW r \in Runtimes, NEW ok \in BOOLEAN, Settled(r, ok),
           tun[r].at = "clear"
    PROVE  SettledAs(r, ok)
<1> DEFINE c == ctl[r]
           t == tun[r]
           dirty == t.bad \/ ~ok
           n == IF c.gen # t.gen THEN c
                ELSE IF t.kind = "tunnel"
                THEN [c EXCEPT !.trust = 0, !.dirty = dirty,
                               !.phase = IF t.error \/ dirty THEN "error" ELSE "stopped"]
                ELSE IF dirty THEN [c EXCEPT !.trust = 0, !.dirty = TRUE, !.phase = "error"] ELSE c
           u == [t EXCEPT !.at = "done"]
<1>1. /\ ctl \in [Runtimes -> Lifecycles] /\ tun \in [Runtimes -> Tunnels]
      /\ ctl' = [ctl EXCEPT ![r] = n] /\ tun' = [tun EXCEPT ![r] = u]
  BY DEF Settled, IngressInv, IngressTypes
<1>2. c \in Lifecycles /\ t \in Tunnels /\ c.trust = 0 /\ t.gen = c.gen /\ t.bad \in BOOLEAN
  BY <1>1 DEF IngressInv, ControlHolds, Tunnels
<1>3. u \in Tunnels /\ u.at = "done" /\ u.kind = t.kind /\ u.gen = t.gen /\ u.cancelled = t.cancelled
  BY <1>2 DEF Tunnels
<1>4. /\ n \in Lifecycles /\ n.up = c.up /\ n.closed = c.closed /\ n.gen = c.gen
      /\ n.applied = c.applied /\ n.latest = c.latest /\ n.clean = c.clean /\ n.trust = 0
      /\ n.life = c.life
      /\ ~n.dirty => ok
  <2>0. 0 \in OriginIds BY DEF OriginIds
  <2>1. CASE t.kind = "tunnel" BY <1>2, <2>0, <2>1, ZenonT(60) DEF Lifecycles
  <2>2. CASE t.kind # "tunnel" /\ dirty BY <1>2, <2>0, <2>2 DEF Lifecycles
  <2>3. CASE t.kind # "tunnel" /\ ~dirty BY <1>2, <2>3
  <2> QED BY <2>1, <2>2, <2>3
<1> HIDE DEF n, u
<1> QED BY <1>1, <1>3, <1>4 DEF SettledAs

(* What the invariant says of one runtime. *)
RuntimeHolds(r) ==
    /\ IngressTypes /\ r \in Runtimes /\ r # 0
    /\ ctl[r] \in Lifecycles /\ tun[r] \in Tunnels /\ pbl[r] \in Publications
    /\ stb[r] \in Projections /\ opn[r] \in Operations
    /\ ctl \in [Runtimes -> Lifecycles] /\ tun \in [Runtimes -> Tunnels]
    /\ pbl \in [Runtimes -> Publications] /\ stb \in [Runtimes -> Projections]
    /\ opn \in [Runtimes -> Operations]
    /\ 0 \in OriginIds /\ opn[r].target \in OriginIds
    /\ pbl[r].target \in OriginIds /\ pbl[r].next \in OriginIds
    /\ ctl[r].gen \in Nat /\ ctl[r].latest \in Nat /\ ctl[r].applied \subseteq Nat
    /\ ControlHolds(ctl[r], tun[r], r)
    /\ OperationHolds(ctl[r], tun[r], pbl[r], opn[r], stb[r])
    /\ LockHolds /\ EntryHolds(r)

(* The invariant says all of that of every runtime. *)
LEMMA RuntimeFacts ==
    ASSUME IngressInv, NEW r \in Runtimes
    PROVE  RuntimeHolds(r)
BY IngressConstants DEF IngressInv, IngressTypes, OriginIds, Publications, Operations, Lifecycles, RuntimeHolds

(* Claiming the stable entry keeps the invariant: a runtime that was never up shows nothing. *)
LEMMA IngressClaim ==
    ASSUME IngressInv, NEW r \in Runtimes, Claim(r)
    PROVE  IngressInv'
<1>0. RuntimeHolds(r) BY RuntimeFacts
<1> USE DEF RuntimeHolds
<1> DEFINE c2 == [ctl[r] EXCEPT !.up = TRUE]
<1>1. /\ ctl' = [ctl EXCEPT ![r] = c2]
      /\ tun' = tun
      /\ pbl' = pbl
      /\ stb' = stb
      /\ opn' = opn
      /\ ~ctl[r].up /\ ~ctl[r].closed /\ flock = 0
      /\ kv' = kv
      /\ ownerOf' = r
      /\ flock' = flock
      /\ ghost' = ghost
      /\ escaped' = escaped
  BY <1>0 DEF Claim
<1>2. /\ c2 \in Lifecycles
      /\ c2.up = TRUE /\ c2.life = ctl[r].life /\ c2.closed = ctl[r].closed
      /\ c2.applied = ctl[r].applied /\ c2.latest = ctl[r].latest /\ c2.gen = ctl[r].gen
      /\ c2.phase = ctl[r].phase /\ c2.trust = ctl[r].trust /\ c2.dirty = ctl[r].dirty
      /\ c2.clean = ctl[r].clean
  BY <1>0, <1>1 DEF Lifecycles
<1> HIDE DEF c2
<1>3. /\ IngressTypes' /\ Others(r)
      /\ ctl'[r] = c2 /\ tun'[r] = tun[r] /\ pbl'[r] = pbl[r] /\ stb'[r] = stb[r] /\ opn'[r] = opn[r]
  BY <1>0, <1>1, <1>2 DEF IngressTypes, Others
<1>4. ControlHolds(ctl[r], tun[r], r)' BY <1>0, <1>1, <1>2, <1>3 DEF ControlHolds
<1>5. OperationHolds(ctl[r], tun[r], pbl[r], opn[r], stb[r])'
  BY <1>0, <1>1, <1>2, <1>3 DEF ControlHolds, OperationHolds
<1>6. LockHolds' /\ EntryHolds(r)' /\ Shared(r)
  BY <1>0, <1>1, <1>2, <1>3 DEF ControlHolds, OperationHolds, LockHolds, EntryHolds, Shared
<1> QED BY <1>3, <1>4, <1>5, <1>6, IngressFrame

(* join_active keeps it: a shutdown that is clean has cleared the key. *)
LEMMA IngressJoinActive ==
    ASSUME IngressInv, NEW r \in Runtimes, JoinActive(r)
    PROVE  IngressInv'
<1>0. RuntimeHolds(r) BY RuntimeFacts
<1> USE DEF RuntimeHolds
<1> DEFINE c2 == [ctl[r] EXCEPT !.life = "free", !.up = (ctl[r].up /\ ctl[r].life = "stopping"), !.clean = (ctl[r].life = "shutting" /\ ~ctl[r].dirty)]
<1> DEFINE t2 == NoTunnel
<1>1. /\ ctl' = [ctl EXCEPT ![r] = c2]
      /\ tun' = [tun EXCEPT ![r] = t2]
      /\ pbl' = pbl
      /\ stb' = stb
      /\ opn' = opn
      /\ tun[r].at = "done"
      /\ ctl[r].life \in {"stopping", "shutting"}
      /\ kv' = kv
      /\ ownerOf' = ownerOf
      /\ flock' = flock
      /\ ghost' = ghost
      /\ escaped' = escaped
  BY <1>0 DEF JoinActive, Finished
<1>2. /\ c2 \in Lifecycles
      /\ c2.up = (ctl[r].up /\ ctl[r].life = "stopping") /\ c2.life = "free" /\ c2.closed = ctl[r].closed
      /\ c2.applied = ctl[r].applied /\ c2.latest = ctl[r].latest /\ c2.gen = ctl[r].gen
      /\ c2.phase = ctl[r].phase /\ c2.trust = ctl[r].trust /\ c2.dirty = ctl[r].dirty
      /\ c2.clean = (ctl[r].life = "shutting" /\ ~ctl[r].dirty)
  BY <1>0, <1>1 DEF Lifecycles
<1>3. /\ t2 \in Tunnels
      /\ t2.kind = "none" /\ t2.gen = 0 /\ t2.at = "none"
      /\ t2.cancelled = FALSE /\ t2.bad = FALSE /\ t2.error = FALSE
  BY <1>0, <1>1 DEF Tunnels, NoTunnel
<1> HIDE DEF c2, t2
<1>4. /\ IngressTypes' /\ Others(r)
      /\ ctl'[r] = c2 /\ tun'[r] = t2 /\ pbl'[r] = pbl[r] /\ stb'[r] = stb[r] /\ opn'[r] = opn[r]
  BY <1>0, <1>1, <1>2, <1>3 DEF IngressTypes, Others
<1>5. ControlHolds(ctl[r], tun[r], r)' BY <1>0, <1>1, <1>2, <1>3, <1>4 DEF ControlHolds
<1>6. OperationHolds(ctl[r], tun[r], pbl[r], opn[r], stb[r])'
  BY <1>0, <1>1, <1>2, <1>3, <1>4 DEF ControlHolds, OperationHolds
<1>7. LockHolds' /\ EntryHolds(r)' /\ Shared(r)
  BY <1>0, <1>1, <1>2, <1>3, <1>4 DEF ControlHolds, OperationHolds, LockHolds, EntryHolds, Shared
<1> QED BY <1>4, <1>5, <1>6, <1>7, IngressFrame

(* A spawned tunnel keeps it. *)
LEMMA IngressSpawned ==
    ASSUME IngressInv, NEW r \in Runtimes, Spawned(r)
    PROVE  IngressInv'
<1>0. RuntimeHolds(r) BY RuntimeFacts
<1> USE DEF RuntimeHolds
<1> DEFINE t2 == [tun[r] EXCEPT !.at = "observe"]
<1>1. /\ ctl' = ctl
      /\ tun' = [tun EXCEPT ![r] = t2]
      /\ pbl' = pbl
      /\ stb' = stb
      /\ opn' = opn
      /\ tun[r].at = "spawn"
      /\ kv' = kv
      /\ ownerOf' = ownerOf
      /\ flock' = flock
      /\ ghost' = ghost
      /\ escaped' = escaped
  BY <1>0 DEF Spawned
<1>2. /\ t2 \in Tunnels
      /\ t2.kind = tun[r].kind /\ t2.gen = tun[r].gen /\ t2.at = "observe"
      /\ t2.cancelled = tun[r].cancelled /\ t2.bad = tun[r].bad /\ t2.error = tun[r].error
  BY <1>0, <1>1 DEF Tunnels
<1> HIDE DEF t2
<1>3. /\ IngressTypes' /\ Others(r)
      /\ ctl'[r] = ctl[r] /\ tun'[r] = t2 /\ pbl'[r] = pbl[r] /\ stb'[r] = stb[r] /\ opn'[r] = opn[r]
  BY <1>0, <1>1, <1>2 DEF IngressTypes, Others
<1>4. ControlHolds(ctl[r], tun[r], r)' BY <1>0, <1>1, <1>2, <1>3 DEF ControlHolds
<1>5. OperationHolds(ctl[r], tun[r], pbl[r], opn[r], stb[r])'
  BY <1>0, <1>1, <1>2, <1>3 DEF ControlHolds, OperationHolds
<1>6. LockHolds' /\ EntryHolds(r)' /\ Shared(r)
  BY <1>0, <1>1, <1>2, <1>3 DEF ControlHolds, OperationHolds, LockHolds, EntryHolds, Shared
<1> QED BY <1>3, <1>4, <1>5, <1>6, IngressFrame

(* So does a spawn that fails. *)
LEMMA IngressSpawnFails ==
    ASSUME IngressInv, NEW r \in Runtimes, SpawnFails(r)
    PROVE  IngressInv'
<1>0. RuntimeHolds(r) BY RuntimeFacts
<1> USE DEF RuntimeHolds
<1> DEFINE t2 == [tun[r] EXCEPT !.at = "clear", !.error = TRUE]
<1>1. /\ ctl' = ctl
      /\ tun' = [tun EXCEPT ![r] = t2]
      /\ pbl' = pbl
      /\ stb' = stb
      /\ opn' = opn
      /\ tun[r].at = "spawn"
      /\ kv' = kv
      /\ ownerOf' = ownerOf
      /\ flock' = flock
      /\ ghost' = ghost
      /\ escaped' = escaped
  BY <1>0 DEF SpawnFails
<1>2. /\ t2 \in Tunnels
      /\ t2.kind = tun[r].kind /\ t2.gen = tun[r].gen /\ t2.at = "clear"
      /\ t2.cancelled = tun[r].cancelled /\ t2.bad = tun[r].bad /\ t2.error = TRUE
  BY <1>0, <1>1 DEF Tunnels
<1> HIDE DEF t2
<1>3. /\ IngressTypes' /\ Others(r)
      /\ ctl'[r] = ctl[r] /\ tun'[r] = t2 /\ pbl'[r] = pbl[r] /\ stb'[r] = stb[r] /\ opn'[r] = opn[r]
  BY <1>0, <1>1, <1>2 DEF IngressTypes, Others
<1>4. ControlHolds(ctl[r], tun[r], r)' BY <1>0, <1>1, <1>2, <1>3 DEF ControlHolds
<1>5. OperationHolds(ctl[r], tun[r], pbl[r], opn[r], stb[r])'
  BY <1>0, <1>1, <1>2, <1>3 DEF ControlHolds, OperationHolds
<1>6. LockHolds' /\ EntryHolds(r)' /\ Shared(r)
  BY <1>0, <1>1, <1>2, <1>3 DEF ControlHolds, OperationHolds, LockHolds, EntryHolds, Shared
<1> QED BY <1>3, <1>4, <1>5, <1>6, IngressFrame

(* wait_for_publication keeps it: the next target is published by the same generation. *)
LEMMA IngressPublicationEnds ==
    ASSUME IngressInv, NEW r \in Runtimes, PublicationEnds(r)
    PROVE  IngressInv'
<1>0. RuntimeHolds(r) BY RuntimeFacts
<1> USE DEF RuntimeHolds
<1> DEFINE p2 == [NoPublication EXCEPT !.target = pbl[r].next]
<1>1. /\ ctl' = ctl
      /\ tun' = tun
      /\ pbl' = [pbl EXCEPT ![r] = p2]
      /\ stb' = stb
      /\ opn' = opn
      /\ tun[r].at = "observe" /\ pbl[r].done
      /\ kv' = kv
      /\ ownerOf' = ownerOf
      /\ flock' = flock
      /\ ghost' = ghost
      /\ escaped' = escaped
  BY <1>0 DEF PublicationEnds
<1>2. /\ p2 \in Publications
      /\ p2.target = pbl[r].next /\ p2.cancelled = FALSE /\ p2.done = FALSE
      /\ p2.next = 0
  BY <1>0, <1>1 DEF Publications, NoPublication
<1> HIDE DEF p2
<1>3. /\ IngressTypes' /\ Others(r)
      /\ ctl'[r] = ctl[r] /\ tun'[r] = tun[r] /\ pbl'[r] = p2 /\ stb'[r] = stb[r] /\ opn'[r] = opn[r]
  BY <1>0, <1>1, <1>2 DEF IngressTypes, Others
<1>4. ControlHolds(ctl[r], tun[r], r)' BY <1>0, <1>1, <1>2, <1>3 DEF ControlHolds
<1>5. OperationHolds(ctl[r], tun[r], pbl[r], opn[r], stb[r])'
  BY <1>0, <1>1, <1>2, <1>3 DEF ControlHolds, OperationHolds
<1>6. LockHolds' /\ EntryHolds(r)' /\ Shared(r)
  BY <1>0, <1>1, <1>2, <1>3 DEF ControlHolds, OperationHolds, LockHolds, EntryHolds, Shared
<1> QED BY <1>3, <1>4, <1>5, <1>6, IngressFrame

(* join_publication keeps it: no publication outlives the observation. *)
LEMMA IngressPublicationJoined ==
    ASSUME IngressInv, NEW r \in Runtimes, PublicationJoined(r)
    PROVE  IngressInv'
<1>0. RuntimeHolds(r) BY RuntimeFacts
<1> USE DEF RuntimeHolds
<1> DEFINE t2 == [tun[r] EXCEPT !.at = "clear"]
<1> DEFINE p2 == NoPublication
<1>1. /\ ctl' = ctl
      /\ tun' = [tun EXCEPT ![r] = t2]
      /\ pbl' = [pbl EXCEPT ![r] = p2]
      /\ stb' = stb
      /\ opn' = opn
      /\ tun[r].at = "join" /\ (pbl[r].target = 0 \/ pbl[r].done)
      /\ kv' = kv
      /\ ownerOf' = ownerOf
      /\ flock' = flock
      /\ ghost' = ghost
      /\ escaped' = escaped
  BY <1>0 DEF PublicationJoined
<1>2. /\ t2 \in Tunnels
      /\ t2.kind = tun[r].kind /\ t2.gen = tun[r].gen /\ t2.at = "clear"
      /\ t2.cancelled = tun[r].cancelled /\ t2.bad = tun[r].bad /\ t2.error = tun[r].error
  BY <1>0, <1>1 DEF Tunnels
<1>3. /\ p2 \in Publications
      /\ p2.target = 0 /\ p2.cancelled = FALSE /\ p2.done = FALSE
      /\ p2.next = 0
  BY <1>0, <1>1 DEF Publications, NoPublication
<1> HIDE DEF t2, p2
<1>4. /\ IngressTypes' /\ Others(r)
      /\ ctl'[r] = ctl[r] /\ tun'[r] = t2 /\ pbl'[r] = p2 /\ stb'[r] = stb[r] /\ opn'[r] = opn[r]
  BY <1>0, <1>1, <1>2, <1>3 DEF IngressTypes, Others
<1>5. ControlHolds(ctl[r], tun[r], r)' BY <1>0, <1>1, <1>2, <1>3, <1>4 DEF ControlHolds
<1>6. OperationHolds(ctl[r], tun[r], pbl[r], opn[r], stb[r])'
  BY <1>0, <1>1, <1>2, <1>3, <1>4 DEF ControlHolds, OperationHolds
<1>7. LockHolds' /\ EntryHolds(r)' /\ Shared(r)
  BY <1>0, <1>1, <1>2, <1>3, <1>4 DEF ControlHolds, OperationHolds, LockHolds, EntryHolds, Shared
<1> QED BY <1>4, <1>5, <1>6, <1>7, IngressFrame

(* lock_if_current keeps it: only the owner locks. *)
LEMMA IngressLockCurrent ==
    ASSUME IngressInv, NEW r \in Runtimes, LockCurrent(r)
    PROVE  IngressInv'
<1>0. RuntimeHolds(r) BY RuntimeFacts
<1> USE DEF RuntimeHolds
<1>1. /\ ctl' = ctl
      /\ tun' = tun
      /\ pbl' = pbl
      /\ stb' = stb
      /\ opn' = opn
      /\ opn[r].who # "none" /\ ownerOf = r
      /\ kv' = kv
      /\ ownerOf' = ownerOf
      /\ flock' = r
      /\ ghost' = ghost
      /\ escaped' = escaped
  BY <1>0 DEF LockCurrent, IsCurrent
<1>2. /\ IngressTypes' /\ Others(r)
      /\ ctl'[r] = ctl[r] /\ tun'[r] = tun[r] /\ pbl'[r] = pbl[r] /\ stb'[r] = stb[r] /\ opn'[r] = opn[r]
  BY <1>0, <1>1 DEF IngressTypes, Others
<1>3. ControlHolds(ctl[r], tun[r], r)' BY <1>0, <1>1, <1>2 DEF ControlHolds
<1>4. OperationHolds(ctl[r], tun[r], pbl[r], opn[r], stb[r])' BY <1>0, <1>1, <1>2 DEF ControlHolds, OperationHolds
<1>5. LockHolds' /\ EntryHolds(r)' /\ Shared(r)
  BY <1>0, <1>1, <1>2 DEF ControlHolds, OperationHolds, LockHolds, EntryHolds, Shared
<1> QED BY <1>2, <1>3, <1>4, <1>5, IngressFrame

(* The death of a runtime keeps it: what its publisher may still do is a ghost. *)
LEMMA IngressRuntimeDies ==
    ASSUME IngressInv, NEW r \in Runtimes, RuntimeDies(r)
    PROVE  IngressInv'
<1>0. RuntimeHolds(r) BY RuntimeFacts
<1> USE DEF RuntimeHolds
<1> DEFINE c2 == [Fresh EXCEPT !.closed = TRUE]
<1> DEFINE t2 == NoTunnel
<1> DEFINE p2 == NoPublication
<1> DEFINE s2 == Unpublished
<1> DEFINE o2 == NoOperation
<1>1. /\ ctl' = [ctl EXCEPT ![r] = c2]
      /\ tun' = [tun EXCEPT ![r] = t2]
      /\ pbl' = [pbl EXCEPT ![r] = p2]
      /\ stb' = [stb EXCEPT ![r] = s2]
      /\ opn' = [opn EXCEPT ![r] = o2]
      /\ kv' = kv /\ ownerOf' = ownerOf
      /\ flock' = (IF flock = r THEN 0 ELSE flock)
      /\ flock # r => ghost' = ghost
      /\ escaped' = (escaped \/ flock = r)
  BY <1>0 DEF RuntimeDies
<1>2. /\ c2 \in Lifecycles
      /\ c2.up = FALSE /\ c2.life = "free" /\ c2.closed = TRUE
      /\ c2.applied = {} /\ c2.latest = 0 /\ c2.gen = 0
      /\ c2.phase = "stopped" /\ c2.trust = 0 /\ c2.dirty = FALSE
      /\ c2.clean = FALSE
  BY <1>0, <1>1 DEF Lifecycles, Fresh
<1>3. /\ t2 \in Tunnels
      /\ t2.kind = "none" /\ t2.gen = 0 /\ t2.at = "none"
      /\ t2.cancelled = FALSE /\ t2.bad = FALSE /\ t2.error = FALSE
  BY <1>0, <1>1 DEF Tunnels, NoTunnel
<1>4. /\ p2 \in Publications
      /\ p2.target = 0 /\ p2.cancelled = FALSE /\ p2.done = FALSE
      /\ p2.next = 0
  BY <1>0, <1>1 DEF Publications, NoPublication
<1>5. /\ s2 \in Projections
      /\ s2.phase = "pending" /\ s2.target = 0 /\ s2.dirty = FALSE
  BY <1>0, <1>1 DEF Projections, Unpublished
<1>6. /\ o2 \in Operations
      /\ o2.who = "none" /\ o2.target = 0 /\ o2.try = 0
  BY <1>0, <1>1 DEF Operations, NoOperation
<1> HIDE DEF c2, t2, p2, s2, o2
<1>7. /\ IngressTypes' /\ Others(r)
      /\ ctl'[r] = c2 /\ tun'[r] = t2 /\ pbl'[r] = p2 /\ stb'[r] = s2 /\ opn'[r] = o2
  BY <1>0, <1>1, <1>2, <1>3, <1>4, <1>5, <1>6 DEF IngressTypes, Others
<1>8. ControlHolds(ctl[r], tun[r], r)' BY <1>0, <1>1, <1>2, <1>3, <1>4, <1>5, <1>6, <1>7 DEF ControlHolds
<1>9. OperationHolds(ctl[r], tun[r], pbl[r], opn[r], stb[r])'
  BY <1>0, <1>1, <1>2, <1>3, <1>4, <1>5, <1>6, <1>7 DEF ControlHolds, OperationHolds
<1>10. LockHolds' /\ EntryHolds(r)' /\ Shared(r)
  BY <1>0, <1>1, <1>2, <1>3, <1>4, <1>5, <1>6, <1>7, ZenonT(60) DEF ControlHolds, OperationHolds, LockHolds, EntryHolds, Shared, Others, IngressTypes
<1> QED BY <1>7, <1>8, <1>9, <1>10, IngressFrame

(* BeginPublish takes the operation mutex and keeps the invariant. *)
LEMMA IngressBeginPublish ==
    ASSUME IngressInv, NEW r \in Runtimes, BeginPublish(r)
    PROVE  IngressInv'
<1>0. RuntimeHolds(r) BY RuntimeFacts
<1> USE DEF RuntimeHolds
<1> DEFINE s2 == Unpublished
<1> DEFINE o2 == [NoOperation EXCEPT !.who = "publish", !.target = pbl[r].target, !.try = 1]
<1>1. /\ ctl' = ctl
      /\ tun' = tun
      /\ pbl' = pbl
      /\ stb' = [stb EXCEPT ![r] = s2]
      /\ opn' = [opn EXCEPT ![r] = o2]
      /\ opn[r].who = "none"
      /\ pbl[r].target # 0 /\ ~pbl[r].done
      /\ kv' = kv
      /\ ownerOf' = ownerOf
      /\ flock' = flock
      /\ ghost' = ghost
      /\ escaped' = escaped
  BY <1>0 DEF BeginPublish, Begin, NoOperation
<1>2. /\ s2 \in Projections
      /\ s2.phase = "pending" /\ s2.target = 0 /\ s2.dirty = FALSE
  BY <1>0, <1>1 DEF Projections, Unpublished
<1>3. /\ o2 \in Operations
      /\ o2.who = "publish" /\ o2.target = pbl[r].target /\ o2.try = 1
  BY <1>0, <1>1 DEF Operations, NoOperation
<1> HIDE DEF s2, o2
<1>4. /\ IngressTypes' /\ Others(r)
      /\ ctl'[r] = ctl[r] /\ tun'[r] = tun[r] /\ pbl'[r] = pbl[r] /\ stb'[r] = s2 /\ opn'[r] = o2
  BY <1>0, <1>1, <1>2, <1>3 DEF IngressTypes, Others
<1>5. ControlHolds(ctl[r], tun[r], r)' BY <1>0, <1>1, <1>2, <1>3, <1>4 DEF ControlHolds
<1>6. OperationHolds(ctl[r], tun[r], pbl[r], opn[r], stb[r])'
  BY <1>0, <1>1, <1>2, <1>3, <1>4 DEF ControlHolds, OperationHolds
<1>7. LockHolds' /\ EntryHolds(r)' /\ Shared(r)
  BY <1>0, <1>1, <1>2, <1>3, <1>4 DEF ControlHolds, OperationHolds, LockHolds, EntryHolds, Shared, Others, IngressTypes
<1> QED BY <1>4, <1>5, <1>6, <1>7, IngressFrame

(* BeginClear takes the operation mutex and keeps the invariant. *)
LEMMA IngressBeginClear ==
    ASSUME IngressInv, NEW r \in Runtimes, BeginClear(r)
    PROVE  IngressInv'
<1>0. RuntimeHolds(r) BY RuntimeFacts
<1> USE DEF RuntimeHolds
<1> DEFINE s2 == Unpublished
<1> DEFINE o2 == [NoOperation EXCEPT !.who = "clear", !.target = 0, !.try = 1]
<1>1. /\ ctl' = ctl
      /\ tun' = tun
      /\ pbl' = pbl
      /\ stb' = [stb EXCEPT ![r] = s2]
      /\ opn' = [opn EXCEPT ![r] = o2]
      /\ opn[r].who = "none"
      /\ tun[r].at = "clear"
      /\ kv' = kv
      /\ ownerOf' = ownerOf
      /\ flock' = flock
      /\ ghost' = ghost
      /\ escaped' = escaped
  BY <1>0 DEF BeginClear, Begin, NoOperation
<1>2. /\ s2 \in Projections
      /\ s2.phase = "pending" /\ s2.target = 0 /\ s2.dirty = FALSE
  BY <1>0, <1>1 DEF Projections, Unpublished
<1>3. /\ o2 \in Operations
      /\ o2.who = "clear" /\ o2.target = 0 /\ o2.try = 1
  BY <1>0, <1>1 DEF Operations, NoOperation
<1> HIDE DEF s2, o2
<1>4. /\ IngressTypes' /\ Others(r)
      /\ ctl'[r] = ctl[r] /\ tun'[r] = tun[r] /\ pbl'[r] = pbl[r] /\ stb'[r] = s2 /\ opn'[r] = o2
  BY <1>0, <1>1, <1>2, <1>3 DEF IngressTypes, Others
<1>5. ControlHolds(ctl[r], tun[r], r)' BY <1>0, <1>1, <1>2, <1>3, <1>4 DEF ControlHolds
<1>6. OperationHolds(ctl[r], tun[r], pbl[r], opn[r], stb[r])'
  BY <1>0, <1>1, <1>2, <1>3, <1>4 DEF ControlHolds, OperationHolds
<1>7. LockHolds' /\ EntryHolds(r)' /\ Shared(r)
  BY <1>0, <1>1, <1>2, <1>3, <1>4 DEF ControlHolds, OperationHolds, LockHolds, EntryHolds, Shared, Others, IngressTypes
<1> QED BY <1>4, <1>5, <1>6, <1>7, IngressFrame

(* The end of an observation keeps it: trust ends with it. *)
LEMMA IngressBreak ==
    ASSUME IngressInv, NEW r \in Runtimes, TunnelStops(r) \/ TunnelFails(r)
    PROVE  IngressInv'
<1>0. RuntimeHolds(r) BY RuntimeFacts
<1> USE DEF RuntimeHolds
<1>b. PICK error \in BOOLEAN, bad \in BOOLEAN : tun[r].at = "observe" /\ Break(r, error, bad)
  BY DEF TunnelStops, TunnelFails
<1> DEFINE c2 == [ctl[r] EXCEPT !.trust = 0]
<1> DEFINE t2 == [tun[r] EXCEPT !.at = "join", !.error = error, !.bad = bad]
<1> DEFINE p2 == [pbl[r] EXCEPT !.cancelled = TRUE, !.next = 0]
<1>1. /\ ctl' = [ctl EXCEPT ![r] = c2]
      /\ tun' = [tun EXCEPT ![r] = t2]
      /\ pbl' = [pbl EXCEPT ![r] = p2]
      /\ stb' = stb
      /\ opn' = opn
      /\ tun[r].at = "observe"
      /\ kv' = kv
      /\ ownerOf' = ownerOf
      /\ flock' = flock
      /\ ghost' = ghost
      /\ escaped' = escaped
  BY <1>b DEF Break
<1>2. /\ c2 \in Lifecycles
      /\ c2.up = ctl[r].up /\ c2.life = ctl[r].life /\ c2.closed = ctl[r].closed
      /\ c2.applied = ctl[r].applied /\ c2.latest = ctl[r].latest /\ c2.gen = ctl[r].gen
      /\ c2.phase = ctl[r].phase /\ c2.trust = 0 /\ c2.dirty = ctl[r].dirty
      /\ c2.clean = ctl[r].clean
  BY <1>0, <1>1 DEF Lifecycles
<1>3. /\ t2 \in Tunnels
      /\ t2.kind = tun[r].kind /\ t2.gen = tun[r].gen /\ t2.at = "join"
      /\ t2.cancelled = tun[r].cancelled /\ t2.bad = bad /\ t2.error = error
  BY <1>0, <1>1 DEF Tunnels
<1>4. /\ p2 \in Publications
      /\ p2.target = pbl[r].target /\ p2.cancelled = TRUE /\ p2.done = pbl[r].done
      /\ p2.next = 0
  BY <1>0, <1>1 DEF Publications
<1> HIDE DEF c2, t2, p2
<1>5. /\ IngressTypes' /\ Others(r)
      /\ ctl'[r] = c2 /\ tun'[r] = t2 /\ pbl'[r] = p2 /\ stb'[r] = stb[r] /\ opn'[r] = opn[r]
  BY <1>0, <1>1, <1>2, <1>3, <1>4 DEF IngressTypes, Others
<1>6. ControlHolds(ctl[r], tun[r], r)' BY <1>0, <1>1, <1>2, <1>3, <1>4, <1>5 DEF ControlHolds
<1>7. OperationHolds(ctl[r], tun[r], pbl[r], opn[r], stb[r])'
  BY <1>0, <1>1, <1>2, <1>3, <1>4, <1>5 DEF ControlHolds, OperationHolds
<1>8. LockHolds' /\ EntryHolds(r)' /\ Shared(r)
  BY <1>0, <1>1, <1>2, <1>3, <1>4, <1>5 DEF ControlHolds, OperationHolds, LockHolds, EntryHolds, Shared
<1> QED BY <1>5, <1>6, <1>7, <1>8, IngressFrame

(* ready_managed keeps it: an origin is trusted under an uncancelled generation. *)
LEMMA IngressOriginSeen ==
    ASSUME IngressInv, NEW r \in Runtimes, NEW o \in Origins[r], OriginSeen(r, o)
    PROVE  IngressInv'
<1>0. RuntimeHolds(r) BY RuntimeFacts
<1> USE DEF RuntimeHolds
<1>1. o \in OriginIds BY DEF OriginIds
<1>2. CASE pbl[r].target # 0
  <2> DEFINE c2 == [ctl[r] EXCEPT !.phase = "running", !.trust = o]
  <2> DEFINE p2 == [pbl[r] EXCEPT !.next = o, !.cancelled = TRUE]
  <2>1. /\ ctl' = [ctl EXCEPT ![r] = c2]
        /\ tun' = tun
        /\ pbl' = [pbl EXCEPT ![r] = p2]
        /\ stb' = stb
        /\ opn' = opn
        /\ tun[r].at = "observe" /\ ~tun[r].cancelled /\ ctl[r].gen = tun[r].gen
        /\ kv' = kv
        /\ ownerOf' = ownerOf
        /\ flock' = flock
        /\ ghost' = ghost
        /\ escaped' = escaped
    BY <1>2 DEF OriginSeen, Queued
  <2>2. /\ c2 \in Lifecycles
        /\ c2.up = ctl[r].up /\ c2.life = ctl[r].life /\ c2.closed = ctl[r].closed
        /\ c2.applied = ctl[r].applied /\ c2.latest = ctl[r].latest /\ c2.gen = ctl[r].gen
        /\ c2.phase = "running" /\ c2.trust = o /\ c2.dirty = ctl[r].dirty
        /\ c2.clean = ctl[r].clean
    BY <1>0, <2>1, <1>1, <1>2 DEF Lifecycles
  <2>3. /\ p2 \in Publications
        /\ p2.target = pbl[r].target /\ p2.cancelled = TRUE /\ p2.done = pbl[r].done
        /\ p2.next = o
    BY <1>0, <2>1, <1>1, <1>2 DEF Publications
  <2> HIDE DEF c2, p2
  <2>4. /\ IngressTypes' /\ Others(r)
        /\ ctl'[r] = c2 /\ tun'[r] = tun[r] /\ pbl'[r] = p2 /\ stb'[r] = stb[r] /\ opn'[r] = opn[r]
    BY <1>0, <2>1, <2>2, <2>3 DEF IngressTypes, Others
  <2>5. ControlHolds(ctl[r], tun[r], r)' BY <1>0, <2>1, <2>2, <2>3, <2>4, <1>1, <1>2 DEF ControlHolds
  <2>6. OperationHolds(ctl[r], tun[r], pbl[r], opn[r], stb[r])'
    BY <1>0, <2>1, <2>2, <2>3, <2>4, <1>1, <1>2 DEF ControlHolds, OperationHolds
  <2>7. LockHolds' /\ EntryHolds(r)' /\ Shared(r)
    BY <1>0, <2>1, <2>2, <2>3, <2>4, <1>1, <1>2 DEF ControlHolds, OperationHolds, LockHolds, EntryHolds, Shared
  <2> QED BY <2>4, <2>5, <2>6, <2>7, IngressFrame
<1>3. CASE pbl[r].target = 0
  <2> DEFINE c2 == [ctl[r] EXCEPT !.phase = "running", !.trust = o]
  <2> DEFINE p2 == [NoPublication EXCEPT !.target = o]
  <2>1. /\ ctl' = [ctl EXCEPT ![r] = c2]
        /\ tun' = tun
        /\ pbl' = [pbl EXCEPT ![r] = p2]
        /\ stb' = stb
        /\ opn' = opn
        /\ tun[r].at = "observe" /\ ~tun[r].cancelled /\ ctl[r].gen = tun[r].gen
        /\ kv' = kv
        /\ ownerOf' = ownerOf
        /\ flock' = flock
        /\ ghost' = ghost
        /\ escaped' = escaped
    BY <1>3 DEF OriginSeen, Queued
  <2>2. /\ c2 \in Lifecycles
        /\ c2.up = ctl[r].up /\ c2.life = ctl[r].life /\ c2.closed = ctl[r].closed
        /\ c2.applied = ctl[r].applied /\ c2.latest = ctl[r].latest /\ c2.gen = ctl[r].gen
        /\ c2.phase = "running" /\ c2.trust = o /\ c2.dirty = ctl[r].dirty
        /\ c2.clean = ctl[r].clean
    BY <1>0, <2>1, <1>1, <1>3 DEF Lifecycles
  <2>3. /\ p2 \in Publications
        /\ p2.target = o /\ p2.cancelled = FALSE /\ p2.done = FALSE
        /\ p2.next = 0
    BY <1>0, <2>1, <1>1, <1>3 DEF Publications, NoPublication
  <2> HIDE DEF c2, p2
  <2>4. /\ IngressTypes' /\ Others(r)
        /\ ctl'[r] = c2 /\ tun'[r] = tun[r] /\ pbl'[r] = p2 /\ stb'[r] = stb[r] /\ opn'[r] = opn[r]
    BY <1>0, <2>1, <2>2, <2>3 DEF IngressTypes, Others
  <2>5. ControlHolds(ctl[r], tun[r], r)' BY <1>0, <2>1, <2>2, <2>3, <2>4, <1>1, <1>3 DEF ControlHolds
  <2>6. OperationHolds(ctl[r], tun[r], pbl[r], opn[r], stb[r])'
    BY <1>0, <2>1, <2>2, <2>3, <2>4, <1>1, <1>3 DEF ControlHolds, OperationHolds
  <2>7. LockHolds' /\ EntryHolds(r)' /\ Shared(r)
    BY <1>0, <2>1, <2>2, <2>3, <2>4, <1>1, <1>3 DEF ControlHolds, OperationHolds, LockHolds, EntryHolds, Shared
  <2> QED BY <2>4, <2>5, <2>6, <2>7, IngressFrame
<1> QED BY <1>2, <1>3

(* start keeps it, with a new generation or without. *)
LEMMA IngressStartTunnel ==
    ASSUME IngressInv, NEW r \in Runtimes, NEW n \in DOMAIN Controls[r], StartTunnel(r, n)
    PROVE  IngressInv'
<1>0. RuntimeHolds(r) BY RuntimeFacts
<1> USE DEF RuntimeHolds
<1>1. /\ n \in Nat /\ n # 0 /\ ctl[r].gen + 1 \in Nat /\ n \in ctl[r].applied \cup {n}
      /\ \A m \in ctl[r].applied \cup {n} : m <= n
  BY <1>0, IngressConstants DEF ControlHolds, StartTunnel, CanControl, AcceptControl
<1> DEFINE c == Accepted(r, n)
           fresh == tun[r].kind = "none" \/ Finished(r)
<1>2. /\ c \in Lifecycles /\ c.dirty = ctl[r].dirty /\ c.gen = ctl[r].gen
      /\ [c EXCEPT !.gen = @ + 1, !.phase = "starting", !.trust = 0]
           = [ctl[r] EXCEPT !.latest = n, !.applied = (ctl[r].applied \cup {n}),
                            !.gen = (ctl[r].gen + 1), !.phase = "starting", !.trust = 0]
  BY <1>0, <1>1 DEF Accepted, Lifecycles
<1>3. CASE fresh /\ ~c.dirty /\ stb[r].dirty
  <2> DEFINE c2 == [ctl[r] EXCEPT !.latest = n, !.applied = (ctl[r].applied \cup {n}), !.gen = (ctl[r].gen + 1), !.phase = "starting", !.trust = 0]
  <2> DEFINE t2 == [NoTunnel EXCEPT !.kind = "tunnel", !.gen = (ctl[r].gen + 1), !.at = "spawn"]
  <2>1. /\ ctl' = [ctl EXCEPT ![r] = c2]
        /\ tun' = [tun EXCEPT ![r] = t2]
        /\ pbl' = pbl
        /\ stb' = stb
        /\ opn' = opn
        /\ Kind(r, n) = "start"
        /\ ctl[r].up /\ ctl[r].life = "free" /\ ~ctl[r].closed /\ n > ctl[r].latest
        /\ kv' = kv
        /\ ownerOf' = ownerOf
        /\ flock' = flock
        /\ ghost' = ghost
        /\ escaped' = escaped
        /\ tun[r].at \in {"none", "done"}
    BY <1>0, <1>1, <1>2, <1>3 DEF StartTunnel, CanControl, AcceptControl, Accepted, Finished, ControlHolds
  <2>2. /\ c2 \in Lifecycles
        /\ c2.up = ctl[r].up /\ c2.life = ctl[r].life /\ c2.closed = ctl[r].closed
        /\ c2.applied = (ctl[r].applied \cup {n}) /\ c2.latest = n /\ c2.gen = (ctl[r].gen + 1)
        /\ c2.phase = "starting" /\ c2.trust = 0 /\ c2.dirty = ctl[r].dirty
        /\ c2.clean = ctl[r].clean
    BY <1>0, <2>1, <1>1, <1>3 DEF Lifecycles
  <2>3. /\ t2 \in Tunnels
        /\ t2.kind = "tunnel" /\ t2.gen = (ctl[r].gen + 1) /\ t2.at = "spawn"
        /\ t2.cancelled = FALSE /\ t2.bad = FALSE /\ t2.error = FALSE
    BY <1>0, <2>1, <1>1, <1>3 DEF Tunnels, NoTunnel
  <2> HIDE DEF c2, t2
  <2>4. /\ IngressTypes' /\ Others(r)
        /\ ctl'[r] = c2 /\ tun'[r] = t2 /\ pbl'[r] = pbl[r] /\ stb'[r] = stb[r] /\ opn'[r] = opn[r]
    BY <1>0, <2>1, <2>2, <2>3 DEF IngressTypes, Others
  <2>5. ControlHolds(ctl[r], tun[r], r)' BY <1>0, <2>1, <2>2, <2>3, <2>4, <1>1, <1>3 DEF ControlHolds
  <2>6. OperationHolds(ctl[r], tun[r], pbl[r], opn[r], stb[r])'
    BY <1>0, <2>1, <2>2, <2>3, <2>4, <1>1, <1>3 DEF ControlHolds, OperationHolds
  <2>7. LockHolds' /\ EntryHolds(r)' /\ Shared(r)
    BY <1>0, <2>1, <2>2, <2>3, <2>4, <1>1, <1>3 DEF ControlHolds, OperationHolds, LockHolds, EntryHolds, Shared
  <2> QED BY <2>4, <2>5, <2>6, <2>7, IngressFrame
<1>4. CASE fresh /\ ~c.dirty /\ ~stb[r].dirty
  <2> DEFINE c2 == [ctl[r] EXCEPT !.latest = n, !.applied = (ctl[r].applied \cup {n}), !.gen = (ctl[r].gen + 1), !.phase = "starting", !.trust = 0]
  <2> DEFINE t2 == [NoTunnel EXCEPT !.kind = "tunnel", !.gen = (ctl[r].gen + 1), !.at = "spawn"]
  <2> DEFINE s2 == Unpublished
  <2>1. /\ ctl' = [ctl EXCEPT ![r] = c2]
        /\ tun' = [tun EXCEPT ![r] = t2]
        /\ pbl' = pbl
        /\ stb' = [stb EXCEPT ![r] = s2]
        /\ opn' = opn
        /\ Kind(r, n) = "start"
        /\ ctl[r].up /\ ctl[r].life = "free" /\ ~ctl[r].closed /\ n > ctl[r].latest
        /\ kv' = kv
        /\ ownerOf' = ownerOf
        /\ flock' = flock
        /\ ghost' = ghost
        /\ escaped' = escaped
        /\ tun[r].at \in {"none", "done"}
    BY <1>0, <1>1, <1>2, <1>4 DEF StartTunnel, CanControl, AcceptControl, Accepted, Finished, ControlHolds
  <2>2. /\ c2 \in Lifecycles
        /\ c2.up = ctl[r].up /\ c2.life = ctl[r].life /\ c2.closed = ctl[r].closed
        /\ c2.applied = (ctl[r].applied \cup {n}) /\ c2.latest = n /\ c2.gen = (ctl[r].gen + 1)
        /\ c2.phase = "starting" /\ c2.trust = 0 /\ c2.dirty = ctl[r].dirty
        /\ c2.clean = ctl[r].clean
    BY <1>0, <2>1, <1>1, <1>4 DEF Lifecycles
  <2>3. /\ t2 \in Tunnels
        /\ t2.kind = "tunnel" /\ t2.gen = (ctl[r].gen + 1) /\ t2.at = "spawn"
        /\ t2.cancelled = FALSE /\ t2.bad = FALSE /\ t2.error = FALSE
    BY <1>0, <2>1, <1>1, <1>4 DEF Tunnels, NoTunnel
  <2>4. /\ s2 \in Projections
        /\ s2.phase = "pending" /\ s2.target = 0 /\ s2.dirty = FALSE
    BY <1>0, <2>1, <1>1, <1>4 DEF Projections, Unpublished
  <2> HIDE DEF c2, t2, s2
  <2>5. /\ IngressTypes' /\ Others(r)
        /\ ctl'[r] = c2 /\ tun'[r] = t2 /\ pbl'[r] = pbl[r] /\ stb'[r] = s2 /\ opn'[r] = opn[r]
    BY <1>0, <2>1, <2>2, <2>3, <2>4 DEF IngressTypes, Others
  <2>6. ControlHolds(ctl[r], tun[r], r)' BY <1>0, <2>1, <2>2, <2>3, <2>4, <2>5, <1>1, <1>4 DEF ControlHolds
  <2>7. OperationHolds(ctl[r], tun[r], pbl[r], opn[r], stb[r])'
    BY <1>0, <2>1, <2>2, <2>3, <2>4, <2>5, <1>1, <1>4 DEF ControlHolds, OperationHolds
  <2>8. LockHolds' /\ EntryHolds(r)' /\ Shared(r)
    BY <1>0, <2>1, <2>2, <2>3, <2>4, <2>5, <1>1, <1>4 DEF ControlHolds, OperationHolds, LockHolds, EntryHolds, Shared
  <2> QED BY <2>5, <2>6, <2>7, <2>8, IngressFrame
<1>5. CASE fresh /\ c.dirty
  <2> DEFINE c2 == [ctl[r] EXCEPT !.latest = n, !.applied = (ctl[r].applied \cup {n})]
  <2> DEFINE t2 == NoTunnel
  <2>1. /\ ctl' = [ctl EXCEPT ![r] = c2]
        /\ tun' = [tun EXCEPT ![r] = t2]
        /\ pbl' = pbl
        /\ stb' = stb
        /\ opn' = opn
        /\ Kind(r, n) = "start"
        /\ ctl[r].up /\ ctl[r].life = "free" /\ ~ctl[r].closed /\ n > ctl[r].latest
        /\ kv' = kv
        /\ ownerOf' = ownerOf
        /\ flock' = flock
        /\ ghost' = ghost
        /\ escaped' = escaped
        /\ tun[r].at \in {"none", "done"}
    BY <1>0, <1>1, <1>2, <1>5 DEF StartTunnel, CanControl, AcceptControl, Accepted, Finished, ControlHolds
  <2>2. /\ c2 \in Lifecycles
        /\ c2.up = ctl[r].up /\ c2.life = ctl[r].life /\ c2.closed = ctl[r].closed
        /\ c2.applied = (ctl[r].applied \cup {n}) /\ c2.latest = n /\ c2.gen = ctl[r].gen
        /\ c2.phase = ctl[r].phase /\ c2.trust = ctl[r].trust /\ c2.dirty = ctl[r].dirty
        /\ c2.clean = ctl[r].clean
    BY <1>0, <2>1, <1>1, <1>5 DEF Lifecycles
  <2>3. /\ t2 \in Tunnels
        /\ t2.kind = "none" /\ t2.gen = 0 /\ t2.at = "none"
        /\ t2.cancelled = FALSE /\ t2.bad = FALSE /\ t2.error = FALSE
    BY <1>0, <2>1, <1>1, <1>5 DEF Tunnels, NoTunnel
  <2> HIDE DEF c2, t2
  <2>4. /\ IngressTypes' /\ Others(r)
        /\ ctl'[r] = c2 /\ tun'[r] = t2 /\ pbl'[r] = pbl[r] /\ stb'[r] = stb[r] /\ opn'[r] = opn[r]
    BY <1>0, <2>1, <2>2, <2>3 DEF IngressTypes, Others
  <2>5. ControlHolds(ctl[r], tun[r], r)' BY <1>0, <2>1, <2>2, <2>3, <2>4, <1>1, <1>5 DEF ControlHolds
  <2>6. OperationHolds(ctl[r], tun[r], pbl[r], opn[r], stb[r])'
    BY <1>0, <2>1, <2>2, <2>3, <2>4, <1>1, <1>5 DEF ControlHolds, OperationHolds
  <2>7. LockHolds' /\ EntryHolds(r)' /\ Shared(r)
    BY <1>0, <2>1, <2>2, <2>3, <2>4, <1>1, <1>5 DEF ControlHolds, OperationHolds, LockHolds, EntryHolds, Shared
  <2> QED BY <2>4, <2>5, <2>6, <2>7, IngressFrame
<1>6. CASE ~fresh
  <2> DEFINE c2 == [ctl[r] EXCEPT !.latest = n, !.applied = (ctl[r].applied \cup {n})]
  <2>1. /\ ctl' = [ctl EXCEPT ![r] = c2]
        /\ tun' = tun
        /\ pbl' = pbl
        /\ stb' = stb
        /\ opn' = opn
        /\ Kind(r, n) = "start"
        /\ ctl[r].up /\ ctl[r].life = "free" /\ ~ctl[r].closed /\ n > ctl[r].latest
        /\ kv' = kv
        /\ ownerOf' = ownerOf
        /\ flock' = flock
        /\ ghost' = ghost
        /\ escaped' = escaped
    BY <1>0, <1>1, <1>2, <1>6 DEF StartTunnel, CanControl, AcceptControl, Accepted, Finished
  <2>2. /\ c2 \in Lifecycles
        /\ c2.up = ctl[r].up /\ c2.life = ctl[r].life /\ c2.closed = ctl[r].closed
        /\ c2.applied = (ctl[r].applied \cup {n}) /\ c2.latest = n /\ c2.gen = ctl[r].gen
        /\ c2.phase = ctl[r].phase /\ c2.trust = ctl[r].trust /\ c2.dirty = ctl[r].dirty
        /\ c2.clean = ctl[r].clean
    BY <1>0, <2>1, <1>1, <1>6 DEF Lifecycles
  <2> HIDE DEF c2
  <2>3. /\ IngressTypes' /\ Others(r)
        /\ ctl'[r] = c2 /\ tun'[r] = tun[r] /\ pbl'[r] = pbl[r] /\ stb'[r] = stb[r] /\ opn'[r] = opn[r]
    BY <1>0, <2>1, <2>2 DEF IngressTypes, Others
  <2>4. ControlHolds(ctl[r], tun[r], r)' BY <1>0, <2>1, <2>2, <2>3, <1>1, <1>6 DEF ControlHolds
  <2>5. OperationHolds(ctl[r], tun[r], pbl[r], opn[r], stb[r])'
    BY <1>0, <2>1, <2>2, <2>3, <1>1, <1>6 DEF ControlHolds, OperationHolds
  <2>6. LockHolds' /\ EntryHolds(r)' /\ Shared(r)
    BY <1>0, <2>1, <2>2, <2>3, <1>1, <1>6 DEF ControlHolds, OperationHolds, LockHolds, EntryHolds, Shared
  <2> QED BY <2>3, <2>4, <2>5, <2>6, IngressFrame
<1> QED BY <1>3, <1>4, <1>5, <1>6

(* stop keeps it: the generation is cancelled and its trust revoked. *)
LEMMA IngressStopTunnel ==
    ASSUME IngressInv, NEW r \in Runtimes, NEW n \in DOMAIN Controls[r], StopTunnel(r, n)
    PROVE  IngressInv'
<1>0. RuntimeHolds(r) BY RuntimeFacts
<1> USE DEF RuntimeHolds
<1>1. /\ n \in Nat /\ n # 0 /\ n \in ctl[r].applied \cup {n}
      /\ \A m \in ctl[r].applied \cup {n} : m <= n
  BY <1>0, IngressConstants DEF ControlHolds, StopTunnel, CanControl, AcceptControl
<1>2. CASE tun[r].kind = "none" /\ ctl[r].phase = "error"
  <2> DEFINE c2 == [ctl[r] EXCEPT !.latest = n, !.applied = (ctl[r].applied \cup {n}), !.life = "stopping", !.trust = ctl[r].trust, !.phase = ctl[r].phase]
  <2> DEFINE t2 == [NoTunnel EXCEPT !.kind = "clear", !.gen = ctl[r].gen, !.at = "clear"]
  <2>1. /\ ctl' = [ctl EXCEPT ![r] = c2]
        /\ tun' = [tun EXCEPT ![r] = t2]
        /\ pbl' = pbl
        /\ stb' = stb
        /\ opn' = opn
        /\ ~ctl[r].closed
        /\ n > ctl[r].latest /\ ctl[r].up
        /\ kv' = kv
        /\ ownerOf' = ownerOf
        /\ flock' = flock
        /\ ghost' = ghost
        /\ escaped' = escaped
    BY <1>0, <1>2, <1>1 DEF StopTunnel, StopActive, Finished, CanControl, AcceptControl, Accepted, Lifecycles
  <2>2. /\ c2 \in Lifecycles
        /\ c2.up = ctl[r].up /\ c2.life = "stopping" /\ c2.closed = ctl[r].closed
        /\ c2.applied = (ctl[r].applied \cup {n}) /\ c2.latest = n /\ c2.gen = ctl[r].gen
        /\ c2.phase = ctl[r].phase /\ c2.trust = ctl[r].trust /\ c2.dirty = ctl[r].dirty
        /\ c2.clean = ctl[r].clean
    BY <1>0, <2>1, <1>2, <1>1 DEF Lifecycles
  <2>3. /\ t2 \in Tunnels
        /\ t2.kind = "clear" /\ t2.gen = ctl[r].gen /\ t2.at = "clear"
        /\ t2.cancelled = FALSE /\ t2.bad = FALSE /\ t2.error = FALSE
    BY <1>0, <2>1, <1>2, <1>1 DEF Tunnels, NoTunnel
  <2> HIDE DEF c2, t2
  <2>4. /\ IngressTypes' /\ Others(r)
        /\ ctl'[r] = c2 /\ tun'[r] = t2 /\ pbl'[r] = pbl[r] /\ stb'[r] = stb[r] /\ opn'[r] = opn[r]
    BY <1>0, <2>1, <2>2, <2>3 DEF IngressTypes, Others
  <2>5. ControlHolds(ctl[r], tun[r], r)' BY <1>0, <2>1, <2>2, <2>3, <2>4, <1>2, <1>1 DEF ControlHolds
  <2>6. OperationHolds(ctl[r], tun[r], pbl[r], opn[r], stb[r])'
    BY <1>0, <2>1, <2>2, <2>3, <2>4, <1>2, <1>1 DEF ControlHolds, OperationHolds
  <2>7. LockHolds' /\ EntryHolds(r)' /\ Shared(r)
    BY <1>0, <2>1, <2>2, <2>3, <2>4, <1>2, <1>1 DEF ControlHolds, OperationHolds, LockHolds, EntryHolds, Shared
  <2> QED BY <2>4, <2>5, <2>6, <2>7, IngressFrame
<1>3. CASE tun[r].kind = "none" /\ ctl[r].phase # "error"
  <2> DEFINE c2 == [ctl[r] EXCEPT !.latest = n, !.applied = (ctl[r].applied \cup {n}), !.life = "stopping", !.trust = 0, !.phase = "stopped"]
  <2> DEFINE t2 == [NoTunnel EXCEPT !.kind = "clear", !.gen = ctl[r].gen, !.at = "clear"]
  <2>1. /\ ctl' = [ctl EXCEPT ![r] = c2]
        /\ tun' = [tun EXCEPT ![r] = t2]
        /\ pbl' = pbl
        /\ stb' = stb
        /\ opn' = opn
        /\ ~ctl[r].closed
        /\ n > ctl[r].latest /\ ctl[r].up
        /\ kv' = kv
        /\ ownerOf' = ownerOf
        /\ flock' = flock
        /\ ghost' = ghost
        /\ escaped' = escaped
    BY <1>0, <1>3, <1>1 DEF StopTunnel, StopActive, Finished, CanControl, AcceptControl, Accepted, Lifecycles
  <2>2. /\ c2 \in Lifecycles
        /\ c2.up = ctl[r].up /\ c2.life = "stopping" /\ c2.closed = ctl[r].closed
        /\ c2.applied = (ctl[r].applied \cup {n}) /\ c2.latest = n /\ c2.gen = ctl[r].gen
        /\ c2.phase = "stopped" /\ c2.trust = 0 /\ c2.dirty = ctl[r].dirty
        /\ c2.clean = ctl[r].clean
    BY <1>0, <2>1, <1>3, <1>1 DEF Lifecycles
  <2>3. /\ t2 \in Tunnels
        /\ t2.kind = "clear" /\ t2.gen = ctl[r].gen /\ t2.at = "clear"
        /\ t2.cancelled = FALSE /\ t2.bad = FALSE /\ t2.error = FALSE
    BY <1>0, <2>1, <1>3, <1>1 DEF Tunnels, NoTunnel
  <2> HIDE DEF c2, t2
  <2>4. /\ IngressTypes' /\ Others(r)
        /\ ctl'[r] = c2 /\ tun'[r] = t2 /\ pbl'[r] = pbl[r] /\ stb'[r] = stb[r] /\ opn'[r] = opn[r]
    BY <1>0, <2>1, <2>2, <2>3 DEF IngressTypes, Others
  <2>5. ControlHolds(ctl[r], tun[r], r)' BY <1>0, <2>1, <2>2, <2>3, <2>4, <1>3, <1>1 DEF ControlHolds
  <2>6. OperationHolds(ctl[r], tun[r], pbl[r], opn[r], stb[r])'
    BY <1>0, <2>1, <2>2, <2>3, <2>4, <1>3, <1>1 DEF ControlHolds, OperationHolds
  <2>7. LockHolds' /\ EntryHolds(r)' /\ Shared(r)
    BY <1>0, <2>1, <2>2, <2>3, <2>4, <1>3, <1>1 DEF ControlHolds, OperationHolds, LockHolds, EntryHolds, Shared
  <2> QED BY <2>4, <2>5, <2>6, <2>7, IngressFrame
<1>4. CASE tun[r].kind # "none" /\ Finished(r)
  <2> DEFINE c2 == [ctl[r] EXCEPT !.latest = n, !.applied = (ctl[r].applied \cup {n}), !.life = "stopping"]
  <2>1. /\ ctl' = [ctl EXCEPT ![r] = c2]
        /\ tun' = tun
        /\ pbl' = pbl
        /\ stb' = stb
        /\ opn' = opn
        /\ ~ctl[r].closed
        /\ n > ctl[r].latest /\ ctl[r].up
        /\ kv' = kv
        /\ ownerOf' = ownerOf
        /\ flock' = flock
        /\ ghost' = ghost
        /\ escaped' = escaped
        /\ tun[r].at = "done"
    BY <1>0, <1>4, <1>1 DEF StopTunnel, StopActive, Finished, CanControl, AcceptControl, Accepted, Lifecycles
  <2>2. /\ c2 \in Lifecycles
        /\ c2.up = ctl[r].up /\ c2.life = "stopping" /\ c2.closed = ctl[r].closed
        /\ c2.applied = (ctl[r].applied \cup {n}) /\ c2.latest = n /\ c2.gen = ctl[r].gen
        /\ c2.phase = ctl[r].phase /\ c2.trust = ctl[r].trust /\ c2.dirty = ctl[r].dirty
        /\ c2.clean = ctl[r].clean
    BY <1>0, <2>1, <1>4, <1>1 DEF Lifecycles
  <2> HIDE DEF c2
  <2>3. /\ IngressTypes' /\ Others(r)
        /\ ctl'[r] = c2 /\ tun'[r] = tun[r] /\ pbl'[r] = pbl[r] /\ stb'[r] = stb[r] /\ opn'[r] = opn[r]
    BY <1>0, <2>1, <2>2 DEF IngressTypes, Others
  <2>4. ControlHolds(ctl[r], tun[r], r)' BY <1>0, <2>1, <2>2, <2>3, <1>4, <1>1 DEF ControlHolds
  <2>5. OperationHolds(ctl[r], tun[r], pbl[r], opn[r], stb[r])'
    BY <1>0, <2>1, <2>2, <2>3, <1>4, <1>1 DEF ControlHolds, OperationHolds
  <2>6. LockHolds' /\ EntryHolds(r)' /\ Shared(r)
    BY <1>0, <2>1, <2>2, <2>3, <1>4, <1>1 DEF ControlHolds, OperationHolds, LockHolds, EntryHolds, Shared
  <2> QED BY <2>3, <2>4, <2>5, <2>6, IngressFrame
<1>5. CASE tun[r].kind # "none" /\ ~Finished(r) /\ ctl[r].phase \in {"starting", "running"}
  <2> DEFINE c2 == [ctl[r] EXCEPT !.latest = n, !.applied = (ctl[r].applied \cup {n}), !.life = "stopping", !.phase = "stopping", !.trust = 0]
  <2> DEFINE t2 == [tun[r] EXCEPT !.cancelled = TRUE]
  <2>1. /\ ctl' = [ctl EXCEPT ![r] = c2]
        /\ tun' = [tun EXCEPT ![r] = t2]
        /\ pbl' = pbl
        /\ stb' = stb
        /\ opn' = opn
        /\ ~ctl[r].closed
        /\ n > ctl[r].latest /\ ctl[r].up
        /\ kv' = kv
        /\ ownerOf' = ownerOf
        /\ flock' = flock
        /\ ghost' = ghost
        /\ escaped' = escaped
    BY <1>0, <1>5, <1>1 DEF StopTunnel, StopActive, Finished, CanControl, AcceptControl, Accepted, Lifecycles
  <2>2. /\ c2 \in Lifecycles
        /\ c2.up = ctl[r].up /\ c2.life = "stopping" /\ c2.closed = ctl[r].closed
        /\ c2.applied = (ctl[r].applied \cup {n}) /\ c2.latest = n /\ c2.gen = ctl[r].gen
        /\ c2.phase = "stopping" /\ c2.trust = 0 /\ c2.dirty = ctl[r].dirty
        /\ c2.clean = ctl[r].clean
    BY <1>0, <2>1, <1>5, <1>1 DEF Lifecycles
  <2>3. /\ t2 \in Tunnels
        /\ t2.kind = tun[r].kind /\ t2.gen = tun[r].gen /\ t2.at = tun[r].at
        /\ t2.cancelled = TRUE /\ t2.bad = tun[r].bad /\ t2.error = tun[r].error
    BY <1>0, <2>1, <1>5, <1>1 DEF Tunnels
  <2> HIDE DEF c2, t2
  <2>4. /\ IngressTypes' /\ Others(r)
        /\ ctl'[r] = c2 /\ tun'[r] = t2 /\ pbl'[r] = pbl[r] /\ stb'[r] = stb[r] /\ opn'[r] = opn[r]
    BY <1>0, <2>1, <2>2, <2>3 DEF IngressTypes, Others
  <2>5. ControlHolds(ctl[r], tun[r], r)' BY <1>0, <2>1, <2>2, <2>3, <2>4, <1>5, <1>1 DEF ControlHolds
  <2>6. OperationHolds(ctl[r], tun[r], pbl[r], opn[r], stb[r])'
    BY <1>0, <2>1, <2>2, <2>3, <2>4, <1>5, <1>1 DEF ControlHolds, OperationHolds
  <2>7. LockHolds' /\ EntryHolds(r)' /\ Shared(r)
    BY <1>0, <2>1, <2>2, <2>3, <2>4, <1>5, <1>1 DEF ControlHolds, OperationHolds, LockHolds, EntryHolds, Shared
  <2> QED BY <2>4, <2>5, <2>6, <2>7, IngressFrame
<1>6. CASE tun[r].kind # "none" /\ ~Finished(r) /\ ctl[r].phase \notin {"starting", "running"}
  <2> DEFINE c2 == [ctl[r] EXCEPT !.latest = n, !.applied = (ctl[r].applied \cup {n}), !.life = "stopping"]
  <2> DEFINE t2 == [tun[r] EXCEPT !.cancelled = TRUE]
  <2>1. /\ ctl' = [ctl EXCEPT ![r] = c2]
        /\ tun' = [tun EXCEPT ![r] = t2]
        /\ pbl' = pbl
        /\ stb' = stb
        /\ opn' = opn
        /\ ~ctl[r].closed
        /\ n > ctl[r].latest /\ ctl[r].up
        /\ kv' = kv
        /\ ownerOf' = ownerOf
        /\ flock' = flock
        /\ ghost' = ghost
        /\ escaped' = escaped
    BY <1>0, <1>6, <1>1 DEF StopTunnel, StopActive, Finished, CanControl, AcceptControl, Accepted, Lifecycles
  <2>2. /\ c2 \in Lifecycles
        /\ c2.up = ctl[r].up /\ c2.life = "stopping" /\ c2.closed = ctl[r].closed
        /\ c2.applied = (ctl[r].applied \cup {n}) /\ c2.latest = n /\ c2.gen = ctl[r].gen
        /\ c2.phase = ctl[r].phase /\ c2.trust = ctl[r].trust /\ c2.dirty = ctl[r].dirty
        /\ c2.clean = ctl[r].clean
    BY <1>0, <2>1, <1>6, <1>1 DEF Lifecycles
  <2>3. /\ t2 \in Tunnels
        /\ t2.kind = tun[r].kind /\ t2.gen = tun[r].gen /\ t2.at = tun[r].at
        /\ t2.cancelled = TRUE /\ t2.bad = tun[r].bad /\ t2.error = tun[r].error
    BY <1>0, <2>1, <1>6, <1>1 DEF Tunnels
  <2> HIDE DEF c2, t2
  <2>4. /\ IngressTypes' /\ Others(r)
        /\ ctl'[r] = c2 /\ tun'[r] = t2 /\ pbl'[r] = pbl[r] /\ stb'[r] = stb[r] /\ opn'[r] = opn[r]
    BY <1>0, <2>1, <2>2, <2>3 DEF IngressTypes, Others
  <2>5. ControlHolds(ctl[r], tun[r], r)' BY <1>0, <2>1, <2>2, <2>3, <2>4, <1>6, <1>1 DEF ControlHolds
  <2>6. OperationHolds(ctl[r], tun[r], pbl[r], opn[r], stb[r])'
    BY <1>0, <2>1, <2>2, <2>3, <2>4, <1>6, <1>1 DEF ControlHolds, OperationHolds
  <2>7. LockHolds' /\ EntryHolds(r)' /\ Shared(r)
    BY <1>0, <2>1, <2>2, <2>3, <2>4, <1>6, <1>1 DEF ControlHolds, OperationHolds, LockHolds, EntryHolds, Shared
  <2> QED BY <2>4, <2>5, <2>6, <2>7, IngressFrame
<1> QED BY <1>2, <1>3, <1>4, <1>5, <1>6

(* shutdown keeps it, for the same reason. *)
LEMMA IngressShutdown ==
    ASSUME IngressInv, NEW r \in Runtimes, Shutdown(r)
    PROVE  IngressInv'
<1>0. RuntimeHolds(r) BY RuntimeFacts
<1> USE DEF RuntimeHolds
<1>2. CASE tun[r].kind = "none" /\ ctl[r].phase = "error"
  <2> DEFINE c2 == [ctl[r] EXCEPT !.closed = TRUE, !.life = "shutting", !.trust = ctl[r].trust, !.phase = ctl[r].phase]
  <2> DEFINE t2 == [NoTunnel EXCEPT !.kind = "clear", !.gen = ctl[r].gen, !.at = "clear"]
  <2>1. /\ ctl' = [ctl EXCEPT ![r] = c2]
        /\ tun' = [tun EXCEPT ![r] = t2]
        /\ pbl' = pbl
        /\ stb' = stb
        /\ opn' = opn
        /\ ~ctl[r].closed /\ ctl[r].up
        /\ kv' = kv
        /\ ownerOf' = ownerOf
        /\ flock' = flock
        /\ ghost' = ghost
        /\ escaped' = escaped
    BY <1>0, <1>2 DEF Shutdown, StopActive, Finished, Lifecycles
  <2>2. /\ c2 \in Lifecycles
        /\ c2.up = ctl[r].up /\ c2.life = "shutting" /\ c2.closed = TRUE
        /\ c2.applied = ctl[r].applied /\ c2.latest = ctl[r].latest /\ c2.gen = ctl[r].gen
        /\ c2.phase = ctl[r].phase /\ c2.trust = ctl[r].trust /\ c2.dirty = ctl[r].dirty
        /\ c2.clean = ctl[r].clean
    BY <1>0, <2>1, <1>2 DEF Lifecycles
  <2>3. /\ t2 \in Tunnels
        /\ t2.kind = "clear" /\ t2.gen = ctl[r].gen /\ t2.at = "clear"
        /\ t2.cancelled = FALSE /\ t2.bad = FALSE /\ t2.error = FALSE
    BY <1>0, <2>1, <1>2 DEF Tunnels, NoTunnel
  <2> HIDE DEF c2, t2
  <2>4. /\ IngressTypes' /\ Others(r)
        /\ ctl'[r] = c2 /\ tun'[r] = t2 /\ pbl'[r] = pbl[r] /\ stb'[r] = stb[r] /\ opn'[r] = opn[r]
    BY <1>0, <2>1, <2>2, <2>3 DEF IngressTypes, Others
  <2>5. ControlHolds(ctl[r], tun[r], r)' BY <1>0, <2>1, <2>2, <2>3, <2>4, <1>2 DEF ControlHolds
  <2>6. OperationHolds(ctl[r], tun[r], pbl[r], opn[r], stb[r])'
    BY <1>0, <2>1, <2>2, <2>3, <2>4, <1>2 DEF ControlHolds, OperationHolds
  <2>7. LockHolds' /\ EntryHolds(r)' /\ Shared(r)
    BY <1>0, <2>1, <2>2, <2>3, <2>4, <1>2 DEF ControlHolds, OperationHolds, LockHolds, EntryHolds, Shared
  <2> QED BY <2>4, <2>5, <2>6, <2>7, IngressFrame
<1>3. CASE tun[r].kind = "none" /\ ctl[r].phase # "error"
  <2> DEFINE c2 == [ctl[r] EXCEPT !.closed = TRUE, !.life = "shutting", !.trust = 0, !.phase = "stopped"]
  <2> DEFINE t2 == [NoTunnel EXCEPT !.kind = "clear", !.gen = ctl[r].gen, !.at = "clear"]
  <2>1. /\ ctl' = [ctl EXCEPT ![r] = c2]
        /\ tun' = [tun EXCEPT ![r] = t2]
        /\ pbl' = pbl
        /\ stb' = stb
        /\ opn' = opn
        /\ ~ctl[r].closed /\ ctl[r].up
        /\ kv' = kv
        /\ ownerOf' = ownerOf
        /\ flock' = flock
        /\ ghost' = ghost
        /\ escaped' = escaped
    BY <1>0, <1>3 DEF Shutdown, StopActive, Finished, Lifecycles
  <2>2. /\ c2 \in Lifecycles
        /\ c2.up = ctl[r].up /\ c2.life = "shutting" /\ c2.closed = TRUE
        /\ c2.applied = ctl[r].applied /\ c2.latest = ctl[r].latest /\ c2.gen = ctl[r].gen
        /\ c2.phase = "stopped" /\ c2.trust = 0 /\ c2.dirty = ctl[r].dirty
        /\ c2.clean = ctl[r].clean
    BY <1>0, <2>1, <1>3 DEF Lifecycles
  <2>3. /\ t2 \in Tunnels
        /\ t2.kind = "clear" /\ t2.gen = ctl[r].gen /\ t2.at = "clear"
        /\ t2.cancelled = FALSE /\ t2.bad = FALSE /\ t2.error = FALSE
    BY <1>0, <2>1, <1>3 DEF Tunnels, NoTunnel
  <2> HIDE DEF c2, t2
  <2>4. /\ IngressTypes' /\ Others(r)
        /\ ctl'[r] = c2 /\ tun'[r] = t2 /\ pbl'[r] = pbl[r] /\ stb'[r] = stb[r] /\ opn'[r] = opn[r]
    BY <1>0, <2>1, <2>2, <2>3 DEF IngressTypes, Others
  <2>5. ControlHolds(ctl[r], tun[r], r)' BY <1>0, <2>1, <2>2, <2>3, <2>4, <1>3 DEF ControlHolds
  <2>6. OperationHolds(ctl[r], tun[r], pbl[r], opn[r], stb[r])'
    BY <1>0, <2>1, <2>2, <2>3, <2>4, <1>3 DEF ControlHolds, OperationHolds
  <2>7. LockHolds' /\ EntryHolds(r)' /\ Shared(r)
    BY <1>0, <2>1, <2>2, <2>3, <2>4, <1>3 DEF ControlHolds, OperationHolds, LockHolds, EntryHolds, Shared
  <2> QED BY <2>4, <2>5, <2>6, <2>7, IngressFrame
<1>4. CASE tun[r].kind # "none" /\ Finished(r)
  <2> DEFINE c2 == [ctl[r] EXCEPT !.closed = TRUE, !.life = "shutting"]
  <2>1. /\ ctl' = [ctl EXCEPT ![r] = c2]
        /\ tun' = tun
        /\ pbl' = pbl
        /\ stb' = stb
        /\ opn' = opn
        /\ ~ctl[r].closed /\ ctl[r].up
        /\ kv' = kv
        /\ ownerOf' = ownerOf
        /\ flock' = flock
        /\ ghost' = ghost
        /\ escaped' = escaped
        /\ tun[r].at = "done"
    BY <1>0, <1>4 DEF Shutdown, StopActive, Finished, Lifecycles
  <2>2. /\ c2 \in Lifecycles
        /\ c2.up = ctl[r].up /\ c2.life = "shutting" /\ c2.closed = TRUE
        /\ c2.applied = ctl[r].applied /\ c2.latest = ctl[r].latest /\ c2.gen = ctl[r].gen
        /\ c2.phase = ctl[r].phase /\ c2.trust = ctl[r].trust /\ c2.dirty = ctl[r].dirty
        /\ c2.clean = ctl[r].clean
    BY <1>0, <2>1, <1>4 DEF Lifecycles
  <2> HIDE DEF c2
  <2>3. /\ IngressTypes' /\ Others(r)
        /\ ctl'[r] = c2 /\ tun'[r] = tun[r] /\ pbl'[r] = pbl[r] /\ stb'[r] = stb[r] /\ opn'[r] = opn[r]
    BY <1>0, <2>1, <2>2 DEF IngressTypes, Others
  <2>4. ControlHolds(ctl[r], tun[r], r)' BY <1>0, <2>1, <2>2, <2>3, <1>4 DEF ControlHolds
  <2>5. OperationHolds(ctl[r], tun[r], pbl[r], opn[r], stb[r])'
    BY <1>0, <2>1, <2>2, <2>3, <1>4 DEF ControlHolds, OperationHolds
  <2>6. LockHolds' /\ EntryHolds(r)' /\ Shared(r)
    BY <1>0, <2>1, <2>2, <2>3, <1>4 DEF ControlHolds, OperationHolds, LockHolds, EntryHolds, Shared
  <2> QED BY <2>3, <2>4, <2>5, <2>6, IngressFrame
<1>5. CASE tun[r].kind # "none" /\ ~Finished(r) /\ ctl[r].phase \in {"starting", "running"}
  <2> DEFINE c2 == [ctl[r] EXCEPT !.closed = TRUE, !.life = "shutting", !.phase = "stopping", !.trust = 0]
  <2> DEFINE t2 == [tun[r] EXCEPT !.cancelled = TRUE]
  <2>1. /\ ctl' = [ctl EXCEPT ![r] = c2]
        /\ tun' = [tun EXCEPT ![r] = t2]
        /\ pbl' = pbl
        /\ stb' = stb
        /\ opn' = opn
        /\ ~ctl[r].closed /\ ctl[r].up
        /\ kv' = kv
        /\ ownerOf' = ownerOf
        /\ flock' = flock
        /\ ghost' = ghost
        /\ escaped' = escaped
    BY <1>0, <1>5 DEF Shutdown, StopActive, Finished, Lifecycles
  <2>2. /\ c2 \in Lifecycles
        /\ c2.up = ctl[r].up /\ c2.life = "shutting" /\ c2.closed = TRUE
        /\ c2.applied = ctl[r].applied /\ c2.latest = ctl[r].latest /\ c2.gen = ctl[r].gen
        /\ c2.phase = "stopping" /\ c2.trust = 0 /\ c2.dirty = ctl[r].dirty
        /\ c2.clean = ctl[r].clean
    BY <1>0, <2>1, <1>5 DEF Lifecycles
  <2>3. /\ t2 \in Tunnels
        /\ t2.kind = tun[r].kind /\ t2.gen = tun[r].gen /\ t2.at = tun[r].at
        /\ t2.cancelled = TRUE /\ t2.bad = tun[r].bad /\ t2.error = tun[r].error
    BY <1>0, <2>1, <1>5 DEF Tunnels
  <2> HIDE DEF c2, t2
  <2>4. /\ IngressTypes' /\ Others(r)
        /\ ctl'[r] = c2 /\ tun'[r] = t2 /\ pbl'[r] = pbl[r] /\ stb'[r] = stb[r] /\ opn'[r] = opn[r]
    BY <1>0, <2>1, <2>2, <2>3 DEF IngressTypes, Others
  <2>5. ControlHolds(ctl[r], tun[r], r)' BY <1>0, <2>1, <2>2, <2>3, <2>4, <1>5 DEF ControlHolds
  <2>6. OperationHolds(ctl[r], tun[r], pbl[r], opn[r], stb[r])'
    BY <1>0, <2>1, <2>2, <2>3, <2>4, <1>5 DEF ControlHolds, OperationHolds
  <2>7. LockHolds' /\ EntryHolds(r)' /\ Shared(r)
    BY <1>0, <2>1, <2>2, <2>3, <2>4, <1>5 DEF ControlHolds, OperationHolds, LockHolds, EntryHolds, Shared
  <2> QED BY <2>4, <2>5, <2>6, <2>7, IngressFrame
<1>6. CASE tun[r].kind # "none" /\ ~Finished(r) /\ ctl[r].phase \notin {"starting", "running"}
  <2> DEFINE c2 == [ctl[r] EXCEPT !.closed = TRUE, !.life = "shutting"]
  <2> DEFINE t2 == [tun[r] EXCEPT !.cancelled = TRUE]
  <2>1. /\ ctl' = [ctl EXCEPT ![r] = c2]
        /\ tun' = [tun EXCEPT ![r] = t2]
        /\ pbl' = pbl
        /\ stb' = stb
        /\ opn' = opn
        /\ ~ctl[r].closed /\ ctl[r].up
        /\ kv' = kv
        /\ ownerOf' = ownerOf
        /\ flock' = flock
        /\ ghost' = ghost
        /\ escaped' = escaped
    BY <1>0, <1>6 DEF Shutdown, StopActive, Finished, Lifecycles
  <2>2. /\ c2 \in Lifecycles
        /\ c2.up = ctl[r].up /\ c2.life = "shutting" /\ c2.closed = TRUE
        /\ c2.applied = ctl[r].applied /\ c2.latest = ctl[r].latest /\ c2.gen = ctl[r].gen
        /\ c2.phase = ctl[r].phase /\ c2.trust = ctl[r].trust /\ c2.dirty = ctl[r].dirty
        /\ c2.clean = ctl[r].clean
    BY <1>0, <2>1, <1>6 DEF Lifecycles
  <2>3. /\ t2 \in Tunnels
        /\ t2.kind = tun[r].kind /\ t2.gen = tun[r].gen /\ t2.at = tun[r].at
        /\ t2.cancelled = TRUE /\ t2.bad = tun[r].bad /\ t2.error = tun[r].error
    BY <1>0, <2>1, <1>6 DEF Tunnels
  <2> HIDE DEF c2, t2
  <2>4. /\ IngressTypes' /\ Others(r)
        /\ ctl'[r] = c2 /\ tun'[r] = t2 /\ pbl'[r] = pbl[r] /\ stb'[r] = stb[r] /\ opn'[r] = opn[r]
    BY <1>0, <2>1, <2>2, <2>3 DEF IngressTypes, Others
  <2>5. ControlHolds(ctl[r], tun[r], r)' BY <1>0, <2>1, <2>2, <2>3, <2>4, <1>6 DEF ControlHolds
  <2>6. OperationHolds(ctl[r], tun[r], pbl[r], opn[r], stb[r])'
    BY <1>0, <2>1, <2>2, <2>3, <2>4, <1>6 DEF ControlHolds, OperationHolds
  <2>7. LockHolds' /\ EntryHolds(r)' /\ Shared(r)
    BY <1>0, <2>1, <2>2, <2>3, <2>4, <1>6 DEF ControlHolds, OperationHolds, LockHolds, EntryHolds, Shared
  <2> QED BY <2>4, <2>5, <2>6, <2>7, IngressFrame
<1> QED BY <1>2, <1>3, <1>4, <1>5, <1>6

(* What a stable operation may leave in the key and in the lock when it returns with   *)
(* projection s: ok says that the key is cleared for a runtime that still owns it.     *)
ReturnsWith(r, s, ok) ==
    /\ Shared(r) /\ (ghost' # {} => escaped')
    /\ flock' # r /\ flock' \in {0, flock}
    /\ flock' # 0 => ownerOf' = ownerOf
    /\ (~escaped' /\ ownerOf' = r) =>
          (s.phase = "ready" => kv' = s.target) /\ (ok => kv' = 0)

(* The clearing of the stable entry returns: the generation is settled. *)
LEMMA IngressSettles ==
    ASSUME IngressInv, NEW r \in Runtimes, NEW s \in Projections, NEW ok \in BOOLEAN,
           NEW o \in Operations, o.who = "none",
           Settled(r, ok), tun[r].at = "clear", ReturnsWith(r, s, ok),
           pbl' = pbl, stb' = [stb EXCEPT ![r] = s], opn' = [opn EXCEPT ![r] = o]
    PROVE  IngressInv'
<1>0. RuntimeHolds(r) BY RuntimeFacts
<1> USE DEF RuntimeHolds
<1>1. SettledAs(r, ok) BY SettledFields
<1>2. /\ ctl'[r].up = ctl[r].up /\ ctl'[r].closed = ctl[r].closed /\ ctl'[r].gen = ctl[r].gen
      /\ ctl'[r].applied = ctl[r].applied /\ ctl'[r].latest = ctl[r].latest
      /\ ctl'[r].clean = ctl[r].clean /\ ctl'[r].trust = 0 /\ (~ctl'[r].dirty => ok)
      /\ tun'[r].at = "done" /\ tun'[r].kind = tun[r].kind /\ tun'[r].gen = tun[r].gen
      /\ ctl' \in [Runtimes -> Lifecycles] /\ tun' \in [Runtimes -> Tunnels]
      /\ \A q \in Runtimes \ {r} : ctl'[q] = ctl[q] /\ tun'[q] = tun[q]
  BY <1>1 DEF SettledAs
<1>4. /\ pbl'[r] = pbl[r] /\ stb'[r] = s /\ opn'[r] = o
      /\ IngressTypes' /\ Others(r)
  BY <1>0, <1>2 DEF IngressTypes, ReturnsWith, Others
<1>5. ControlHolds(ctl[r], tun[r], r)' BY <1>0, <1>2, <1>1, <1>4 DEF ControlHolds, SettledAs
<1>6. OperationHolds(ctl[r], tun[r], pbl[r], opn[r], stb[r])' BY <1>0, <1>2, <1>4 DEF OperationHolds, ControlHolds
<1>7. LockHolds' BY <1>0, <1>4 DEF LockHolds, ReturnsWith, Others, IngressTypes
<1>8. EntryHolds(r)' /\ Shared(r) BY <1>0, <1>2, <1>4 DEF EntryHolds, ReturnsWith, OperationHolds, ControlHolds
<1> QED BY <1>4, <1>5, <1>6, <1>7, <1>8, IngressFrame

(* A stable operation returns to the publication or to the clearing that waits for it. *)
LEMMA IngressReturned ==
    ASSUME IngressInv, NEW r \in Runtimes, NEW s \in Projections, NEW ok \in BOOLEAN,
           opn[r].who # "none", Returned(r, s, ok),
           ReturnsWith(r, s, ok /\ opn[r].who = "clear")
    PROVE  IngressInv'
<1>0. RuntimeHolds(r) BY RuntimeFacts
<1> USE DEF RuntimeHolds
<1>1. /\ stb' = [stb EXCEPT ![r] = s] /\ opn' = [opn EXCEPT ![r] = NoOperation]
      /\ NoOperation \in Operations /\ NoOperation.who = "none"
  BY <1>0 DEF Returned, NoOperation, Operations
<1>2. CASE opn[r].who = "publish"
  <2> DEFINE p == [pbl[r] EXCEPT !.done = TRUE]
  <2>1. pbl' = [pbl EXCEPT ![r] = p] /\ ctl' = ctl /\ tun' = tun BY <1>2 DEF Returned
  <2>2. p \in Publications /\ p.target = pbl[r].target BY <1>0 DEF Publications
  <2> HIDE DEF p
  <2>4. /\ pbl'[r] = p /\ stb'[r] = s /\ opn'[r].who = "none" /\ ctl'[r] = ctl[r] /\ tun'[r] = tun[r]
        /\ IngressTypes' /\ Others(r)
    BY <1>0, <1>1, <2>1, <2>2 DEF IngressTypes, Others, ReturnsWith
  <2>5. ControlHolds(ctl[r], tun[r], r)' BY <1>0, <2>4
  <2>6. OperationHolds(ctl[r], tun[r], pbl[r], opn[r], stb[r])'
    BY <1>0, <1>2, <2>2, <2>4 DEF OperationHolds, ControlHolds
  <2>7. LockHolds' BY <1>0, <2>4 DEF LockHolds, ReturnsWith, Others, IngressTypes
  <2>8. EntryHolds(r)' /\ Shared(r)
    BY <1>0, <1>2, <2>2, <2>4 DEF EntryHolds, ReturnsWith, OperationHolds, ControlHolds
  <2> QED BY <2>4, <2>5, <2>6, <2>7, <2>8, IngressFrame
<1>3. CASE opn[r].who # "publish"
  <2>1. opn[r].who = "clear" /\ tun[r].at = "clear" BY <1>0, <1>3 DEF Operations, OperationHolds
  <2>2. Settled(r, ok) /\ pbl' = pbl /\ (ok /\ opn[r].who = "clear") = ok BY <1>3, <2>1 DEF Returned
  <2>3. ReturnsWith(r, s, ok) BY <2>2
  <2> QED BY <1>1, <2>1, <2>2, <2>3, IngressSettles
<1> QED BY <1>2, <1>3

(* A failed projection is one. *)
LEMMA FailedProjections ==
    /\ FailedSafe \in Projections /\ FailedSafe.phase # "ready"
    /\ FailedDirty \in Projections /\ FailedDirty.phase # "ready"
BY DEF FailedSafe, FailedDirty, Projections, OriginIds

(* A cancelled publication returns and keeps the invariant. *)
LEMMA IngressOperationCancelled ==
    ASSUME IngressInv, NEW r \in Runtimes, OperationCancelled(r)
    PROVE  IngressInv'
<1>0. RuntimeHolds(r) BY RuntimeFacts
<1> USE DEF RuntimeHolds
<1>1. /\ opn[r].who # "none" /\ Returned(r, FailedSafe, FALSE) /\ FailedSafe \in Projections
      /\ FALSE \in BOOLEAN
  BY <1>0, FailedProjections DEF OperationCancelled
<1>2. ReturnsWith(r, FailedSafe, FALSE /\ opn[r].who = "clear")
  BY <1>0, <1>1, FailedProjections DEF OperationCancelled, ReturnsWith, Shared, LockHolds, OperationHolds
<1> QED BY <1>1, <1>2, IngressReturned

(* lock_if_current finds another owner: the key is no longer ours. *)
LEMMA IngressSuperseded ==
    ASSUME IngressInv, NEW r \in Runtimes, Superseded(r)
    PROVE  IngressInv'
<1>0. RuntimeHolds(r) BY RuntimeFacts
<1> USE DEF RuntimeHolds
<1>1. /\ opn[r].who # "none" /\ Returned(r, FailedSafe, TRUE) /\ FailedSafe \in Projections
      /\ TRUE \in BOOLEAN
  BY <1>0, FailedProjections DEF Superseded, IsCurrent
<1>2. ReturnsWith(r, FailedSafe, TRUE /\ opn[r].who = "clear")
  BY <1>0, <1>1, FailedProjections DEF Superseded, IsCurrent, ReturnsWith, Shared, LockHolds, OperationHolds
<1> QED BY <1>1, <1>2, IngressReturned

(* The lock is not free in time: the operation failed. *)
LEMMA IngressLockTimeout ==
    ASSUME IngressInv, NEW r \in Runtimes, LockTimeout(r)
    PROVE  IngressInv'
<1>0. RuntimeHolds(r) BY RuntimeFacts
<1> USE DEF RuntimeHolds
<1>1. /\ opn[r].who # "none" /\ Returned(r, (IF opn[r].target = 0 THEN FailedDirty ELSE FailedSafe), FALSE) /\ (IF opn[r].target = 0 THEN FailedDirty ELSE FailedSafe) \in Projections
      /\ FALSE \in BOOLEAN
  BY <1>0, FailedProjections DEF LockTimeout
<1>2. ReturnsWith(r, (IF opn[r].target = 0 THEN FailedDirty ELSE FailedSafe), FALSE /\ opn[r].who = "clear")
  BY <1>0, <1>1, FailedProjections DEF LockTimeout, ReturnsWith, Shared, LockHolds, OperationHolds
<1> QED BY <1>1, <1>2, IngressReturned

(* The publisher succeeded: the key holds the target. *)
LEMMA IngressCommandApplied ==
    ASSUME IngressInv, NEW r \in Runtimes, CommandApplied(r)
    PROVE  IngressInv'
<1>0. RuntimeHolds(r) BY RuntimeFacts
<1> USE DEF RuntimeHolds
<1>1. /\ opn[r].who # "none" /\ Returned(r, [phase |-> "ready", target |-> opn[r].target, dirty |-> FALSE], TRUE) /\ [phase |-> "ready", target |-> opn[r].target, dirty |-> FALSE] \in Projections
      /\ TRUE \in BOOLEAN
  BY <1>0, FailedProjections DEF CommandApplied, Projections, LockHolds
<1>2. ReturnsWith(r, [phase |-> "ready", target |-> opn[r].target, dirty |-> FALSE], TRUE /\ opn[r].who = "clear")
  BY <1>0, <1>1, FailedProjections DEF CommandApplied, Projections, LockHolds, ReturnsWith, Shared, LockHolds, OperationHolds
<1> QED BY <1>1, <1>2, IngressReturned

(* The publisher could not be killed: the key is no longer known. *)
LEMMA IngressCommandEscapes ==
    ASSUME IngressInv, NEW r \in Runtimes, CommandEscapes(r)
    PROVE  IngressInv'
<1>0. RuntimeHolds(r) BY RuntimeFacts
<1> USE DEF RuntimeHolds
<1>1. /\ opn[r].who # "none" /\ Returned(r, FailedDirty, FALSE) /\ FailedDirty \in Projections
      /\ FALSE \in BOOLEAN
  BY <1>0, FailedProjections DEF CommandEscapes, LockHolds
<1>2. ReturnsWith(r, FailedDirty, FALSE /\ opn[r].who = "clear")
  BY <1>0, <1>1, FailedProjections DEF CommandEscapes, LockHolds, ReturnsWith, Shared, LockHolds, OperationHolds
<1> QED BY <1>1, <1>2, IngressReturned

(* The publisher failed: a try is left, or the operation returns; either way nothing is shown. *)
LEMMA IngressCommandFails ==
    ASSUME IngressInv, NEW r \in Runtimes, CommandFails(r)
    PROVE  IngressInv'
<1>0. RuntimeHolds(r) BY RuntimeFacts
<1> USE DEF RuntimeHolds
<1>1. /\ opn[r].who # "none" /\ ownerOf = r
      /\ stb[r].phase # "ready" /\ tun[r].at # "done" /\ ~ctl[r].clean
  BY <1>0 DEF CommandFails, LockHolds, OperationHolds, ControlHolds, Operations
<1>2. CASE opn[r].try < Attempts /\ ~Cancelled(r)
  <2> DEFINE o2 == [opn[r] EXCEPT !.try = (opn[r].try + 1)]
  <2>1. /\ ctl' = ctl
        /\ tun' = tun
        /\ pbl' = pbl
        /\ stb' = stb
        /\ opn' = [opn EXCEPT ![r] = o2]
        /\ kv' \in {kv, opn[r].target}
        /\ ownerOf' = ownerOf
        /\ flock' = 0
        /\ ghost' = ghost
        /\ escaped' = escaped
    BY <1>2 DEF CommandFails
  <2>2. /\ o2 \in Operations
        /\ o2.who = opn[r].who /\ o2.target = opn[r].target /\ o2.try = (opn[r].try + 1)
    BY <1>0, <2>1, <1>1 DEF Operations
  <2> HIDE DEF o2
  <2>3. /\ IngressTypes' /\ Others(r)
        /\ ctl'[r] = ctl[r] /\ tun'[r] = tun[r] /\ pbl'[r] = pbl[r] /\ stb'[r] = stb[r] /\ opn'[r] = o2
    BY <1>0, <2>1, <2>2 DEF IngressTypes, Others
  <2>4. ControlHolds(ctl[r], tun[r], r)' BY <1>0, <2>1, <2>2, <2>3, <1>1 DEF ControlHolds
  <2>5. OperationHolds(ctl[r], tun[r], pbl[r], opn[r], stb[r])'
    BY <1>0, <2>1, <2>2, <2>3, <1>1 DEF ControlHolds, OperationHolds
  <2>6. LockHolds' /\ EntryHolds(r)' /\ Shared(r)
    BY <1>0, <2>1, <2>2, <2>3, <1>1 DEF ControlHolds, OperationHolds, LockHolds, EntryHolds, Shared, Others, IngressTypes
  <2> QED BY <2>3, <2>4, <2>5, <2>6, IngressFrame
<1>3. CASE ~(opn[r].try < Attempts /\ ~Cancelled(r))
  BY <1>3, <1>0, <1>1, FailedProjections, IngressReturned DEF CommandFails, ReturnsWith, Shared, LockHolds
<1> QED BY <1>2, <1>3

(* An entry that is confirmed clear settles the generation at once. *)
LEMMA IngressAlreadyClear ==
    ASSUME IngressInv, NEW r \in Runtimes, AlreadyClear(r)
    PROVE  IngressInv'
<1>0. RuntimeHolds(r) BY RuntimeFacts
<1> USE DEF RuntimeHolds
<1>1. /\ tun[r].at = "clear" /\ opn[r].who = "none" /\ Settled(r, TRUE) /\ pbl' = pbl
      /\ stb' = [stb EXCEPT ![r] = stb[r]] /\ opn' = [opn EXCEPT ![r] = opn[r]]
  BY <1>0 DEF AlreadyClear
<1>2. ReturnsWith(r, stb[r], TRUE)
  BY <1>0, <1>1 DEF AlreadyClear, ClearConfirmed, ReturnsWith, Shared, LockHolds, EntryHolds
<1> QED BY <1>0, <1>1, <1>2, IngressSettles

(* An entry that could not be cleaned refuses every operation. *)
LEMMA IngressRefused ==
    ASSUME IngressInv, NEW r \in Runtimes, Refused(r)
    PROVE  IngressInv'
<1>0. RuntimeHolds(r) BY RuntimeFacts
<1> USE DEF RuntimeHolds
<1>1. CASE pbl[r].target # 0 /\ ~pbl[r].done /\ pbl' = [pbl EXCEPT ![r].done = TRUE] /\ ctl' = ctl /\ tun' = tun
  <2> DEFINE p2 == [pbl[r] EXCEPT !.done = TRUE]
  <2>1. /\ ctl' = ctl
        /\ tun' = tun
        /\ pbl' = [pbl EXCEPT ![r] = p2]
        /\ stb' = stb
        /\ opn' = opn
        /\ opn[r].who = "none"
        /\ kv' = kv
        /\ ownerOf' = ownerOf
        /\ flock' = flock
        /\ ghost' = ghost
        /\ escaped' = escaped
    BY <1>1 DEF Refused
  <2>2. /\ p2 \in Publications
        /\ p2.target = pbl[r].target /\ p2.cancelled = pbl[r].cancelled /\ p2.done = TRUE
        /\ p2.next = pbl[r].next
    BY <1>0, <2>1 DEF Publications
  <2> HIDE DEF p2
  <2>3. /\ IngressTypes' /\ Others(r)
        /\ ctl'[r] = ctl[r] /\ tun'[r] = tun[r] /\ pbl'[r] = p2 /\ stb'[r] = stb[r] /\ opn'[r] = opn[r]
    BY <1>0, <2>1, <2>2 DEF IngressTypes, Others
  <2>4. ControlHolds(ctl[r], tun[r], r)' BY <1>0, <2>1, <2>2, <2>3 DEF ControlHolds
  <2>5. OperationHolds(ctl[r], tun[r], pbl[r], opn[r], stb[r])'
    BY <1>0, <2>1, <2>2, <2>3 DEF ControlHolds, OperationHolds
  <2>6. LockHolds' /\ EntryHolds(r)' /\ Shared(r)
    BY <1>0, <2>1, <2>2, <2>3 DEF ControlHolds, OperationHolds, LockHolds, EntryHolds, Shared
  <2> QED BY <2>3, <2>4, <2>5, <2>6, IngressFrame
<1>2. CASE tun[r].at = "clear" /\ Settled(r, FALSE) /\ pbl' = pbl
  <2>1. /\ opn[r].who = "none"
        /\ stb' = [stb EXCEPT ![r] = stb[r]] /\ opn' = [opn EXCEPT ![r] = opn[r]]
    BY <1>0 DEF Refused
  <2>2. ReturnsWith(r, stb[r], FALSE) BY <1>0, <2>1 DEF Refused, ReturnsWith, Shared, LockHolds, EntryHolds
  <2> QED BY <1>0, <1>2, <2>1, <2>2, IngressSettles
<1> QED BY <1>1, <1>2 DEF Refused

(* The invariant of the ingress holds in every reachable state. *)
THEOREM IngressInvariant == IngressSpec => []IngressInv
<1>1. IngressInit => IngressInv
  BY IngressConstants DEF Fresh, NoTunnel, NoPublication, Unpublished, NoOperation, Lifecycles, Tunnels,
     Publications, Projections, Operations, OriginIds, IngressInit, IngressTypes, LockHolds, ControlHolds,
     OperationHolds, EntryHolds, IngressInv
<1>2. IngressInv /\ [IngressNext]_ingressVars => IngressInv'
  <2> SUFFICES ASSUME IngressInv, [IngressNext]_ingressVars PROVE IngressInv'
    OBVIOUS
  <2>1. ASSUME NEW r \in Runtimes,
               Claim(r) \/ Shutdown(r) \/ RuntimeDies(r) \/ TunnelTask(r) \/ EntryTask(r) \/ TunnelFails(r)
        PROVE  IngressInv'
    BY <2>1, IngressClaim, IngressShutdown, IngressRuntimeDies, IngressSpawned, IngressSpawnFails,
       IngressPublicationEnds, IngressBreak, IngressPublicationJoined, IngressAlreadyClear,
       IngressJoinActive, IngressBeginPublish, IngressBeginClear, IngressRefused,
       IngressOperationCancelled, IngressLockCurrent, IngressSuperseded, IngressLockTimeout,
       IngressCommandApplied, IngressCommandFails, IngressCommandEscapes
       DEF TunnelTask, EntryTask
  <2>2. ASSUME NEW r \in Runtimes, NEW n \in DOMAIN Controls[r], StartTunnel(r, n) \/ StopTunnel(r, n)
        PROVE  IngressInv'
    BY <2>2, IngressStartTunnel, IngressStopTunnel
  <2>3. ASSUME NEW r \in Runtimes, NEW o \in Origins[r], OriginSeen(r, o) PROVE IngressInv' BY <2>3, IngressOriginSeen
  <2>4. ASSUME NEW t \in ghost, GhostLands(t) PROVE IngressInv'
    BY <2>4 DEF GhostLands, IngressInv, LockHolds, IngressTypes, EntryHolds
  <2>5. CASE UNCHANGED ingressVars BY <2>5 DEF ingressVars, IngressInv, IngressTypes, LockHolds, EntryHolds
  <2> QED BY <2>1, <2>2, <2>3, <2>4, <2>5 DEF IngressNext
<1> QED BY <1>1, <1>2, PTL DEF IngressSpec

(* A public origin is trusted only under the newest control, a start, and what the     *)
(* owner of the stable entry shows or has cleared is what the remote key holds.        *)
THEOREM IngressTruth == IngressSpec => []IngressIsTrue
<1>1. IngressInv => IngressIsTrue
  <2> SUFFICES ASSUME IngressInv PROVE IngressIsTrue
    OBVIOUS
  <2>1. StableEntryIsTrue BY DEF IngressInv, EntryHolds, StableEntryIsTrue
  <2>2. TrustFollowsControl
    <3> SUFFICES ASSUME NEW r \in Runtimes, ctl[r].trust # 0
                 PROVE  /\ ctl[r].applied # {} /\ Kind(r, Max(ctl[r].applied)) = "start"
                        /\ ~ctl[r].closed /\ ctl[r].up
                        /\ tun[r].at = "observe" /\ tun[r].gen = ctl[r].gen
      BY DEF TrustFollowsControl
    <3> DEFINE c == ctl[r]
    <3>1. ControlHolds(c, tun[r], r) /\ c.applied \subseteq Nat /\ c.latest \in Nat
      BY DEF IngressInv, IngressTypes, Lifecycles
    <3>2. c.applied # {} /\ c.latest \in c.applied /\ \A n \in c.applied : c.latest >= n BY <3>1 DEF ControlHolds
    <3>3. Max(c.applied) = c.latest
      <4> DEFINE top == CHOOSE x \in c.applied : \A y \in c.applied : x >= y
      <4>1. top \in c.applied /\ \A y \in c.applied : top >= y BY <3>2
      <4> HIDE DEF top
      <4>2. top = c.latest BY <3>1, <3>2, <4>1
      <4> QED BY <4>2 DEF Max, top
    <3> QED BY <3>1, <3>2, <3>3 DEF ControlHolds
  <2> QED BY <2>1, <2>2 DEF IngressIsTrue
<1> QED BY <1>1, IngressInvariant, PTL

------------------------
(* ProviderOps: what completed is seen in the catalog. *)

Worlds == [ver : Nat, latest : Nat, auth : BOOLEAN]
Probes == [ver : Nat, auth : BOOLEAN]
Catalogs == [req : Nat, done : Nat, gen : Nat, at : {"idle", "probe", "publish", "ended"},
             read : Probes, shown : Probes, ready : BOOLEAN, stuck : BOOLEAN, down : BOOLEAN]
Outcomes == {"checked", "changed", "unconfirmed", "failed", "started", "completed", "catalog", "cancelled"}
Runs == [st : {"none", "process", "install", "refresh", "ended"}, want : Nat, need : Nat,
         res : Outcomes \cup {"none"}, n : Nat, late : BOOLEAN]

OpsTypes == opWorld \in Worlds /\ opCat \in Catalogs /\ opUp \in Runs /\ opLog \in Runs

(* A generation is asked for, taken by a discovery and completed, in that order, and what  *)
(* is published was read before what is read now, and that before the world of now.        *)
CatalogHolds ==
    /\ opCat.done <= opCat.gen /\ opCat.gen <= opCat.req
    /\ opCat.at \in {"probe", "publish"} => opCat.gen = opCat.req /\ opCat.done < opCat.gen
    /\ opCat.at = "ended" => opCat.stuck
    /\ opCat.at = "idle" /\ ~opCat.down => opCat.gen = opCat.done
    /\ opCat.shown.ver <= opWorld.ver /\ (opCat.shown.auth => opWorld.auth)
    /\ opCat.at = "publish" =>
         /\ opCat.shown.ver <= opCat.read.ver /\ opCat.read.ver <= opWorld.ver
         /\ (opCat.shown.auth => opCat.read.auth) /\ (opCat.read.auth => opWorld.auth)

(* A run that asked in time is answered by a discovery that read its effect: "read" and    *)
(* "shown" say whether the discovery under way and the published catalog have it.          *)
Answers(run, read, shown) ==
    /\ run.st = "refresh" /\ run.need # 0 /\ ~run.late =>
         /\ run.need <= opCat.req
         /\ opCat.at = "publish" /\ run.need <= opCat.gen => read
         /\ run.need <= opCat.done /\ opCat.ready => shown
    /\ run.res = "completed" /\ ~run.late => shown
    /\ run.st # "ended" => run.res = "none"
    /\ run.st \in {"none", "process", "install"} => run.need = 0

OpsInv ==
    /\ OpsTypes /\ CatalogHolds
    /\ Answers(opUp, opUp.want <= opCat.read.ver, opUp.want <= opCat.shown.ver)
    /\ Answers(opLog, opCat.read.auth, opCat.shown.auth)
    /\ opUp.st = "install" => opWorld.ver <= opUp.want
    /\ opUp.st = "refresh" => opUp.want <= opWorld.ver
    /\ opLog.st = "refresh" => opWorld.auth

(* The next generation a request gets. *)
LEMMA RequestedNext ==
    ASSUME OpsTypes, CatalogHolds
    PROVE  /\ Requested(opCat) \in Nat /\ opCat.req <= Requested(opCat) /\ opCat.done < Requested(opCat)
           /\ opCat.at \in {"probe", "publish"} => Requested(opCat) = opCat.req
           /\ Requested(opCat) # 0
BY DEF OpsTypes, Catalogs, CatalogHolds, Requested

(* What the services write of a run. *)
LEMMA EndShape ==
    ASSUME NEW run \in Runs, NEW res \in Outcomes
    PROVE  /\ Ends4(run, res) \in Runs /\ Ends4(run, res).st = "ended" /\ Ends4(run, res).res = res
           /\ Ends4(run, res).want = run.want /\ Ends4(run, res).late = run.late
BY DEF Ends4, Runs, Outcomes

(* A run that goes on keeps everything but its stage. *)
LEMMA StageShape ==
    ASSUME NEW run \in Runs, NEW st \in {"install", "refresh"}
    PROVE  /\ [run EXCEPT !.st = st] \in Runs /\ [run EXCEPT !.st = st].st = st
           /\ [run EXCEPT !.st = st].res = run.res /\ [run EXCEPT !.st = st].want = run.want
           /\ [run EXCEPT !.st = st].late = run.late /\ [run EXCEPT !.st = st].need = run.need
BY DEF Runs

(* A run that is new asks for nothing yet. *)
LEMMA NewRuns ==
    ASSUME NEW run \in Runs, NEW want \in Nat
    PROVE  /\ NewRun(run, want) \in Runs /\ NewRun(run, want).st = "process"
           /\ NewRun(run, want).res = "none" /\ NewRun(run, want).need = 0 /\ NewRun(run, want).want = want
<1>1. PICK n \in Nat : n = run.n + 1 BY DEF Runs
<1>2. PICK r \in Runs : r = NoRun BY DEF NoRun, Runs
<1>3. r.res = "none" /\ r.need = 0 BY <1>2 DEF NoRun
<1>4. NewRun(run, want) = [r EXCEPT !.st = "process", !.want = want, !.n = n] BY <1>1, <1>2 DEF NewRun
<1> QED BY <1>3, <1>4 DEF Runs

(* An end that is no completion claims nothing. *)
LEMMA EndedAnswers ==
    ASSUME NEW run \in Runs, NEW res \in Outcomes \ {"completed"}, NEW read \in BOOLEAN,
           NEW shown \in BOOLEAN
    PROVE  Answers(Ends4(run, res), read, shown)
<1>2. PICK e : e = Ends4(run, res) OBVIOUS
<1>4. Answers(e, read, shown) BY EndShape, <1>2 DEF Answers
<1> QED BY <1>2, <1>4

(* A request for a refresh is in time unless the discovery under way has read already. *)
LEMMA AsksStep ==
    ASSUME OpsTypes, CatalogHolds, NEW run \in Runs, run.res = "none", run.st = "refresh",
           opCat' = [opCat EXCEPT !.req = Requested(opCat)]
    PROVE  /\ Asks(run) \in Runs /\ Asks(run).st = "refresh" /\ Asks(run).want = run.want
           /\ Asks(run).res = "none" /\ Asks(run).need <= opCat'.req
           /\ ~Asks(run).late => opCat'.at # "publish" /\ ~(Asks(run).need <= opCat'.done)
<1>1. opCat'.req = Requested(opCat) /\ opCat'.at = opCat.at /\ opCat'.done = opCat.done BY DEF OpsTypes, Catalogs
<1>2. /\ Asks(run) \in Runs /\ Asks(run).st = "refresh" /\ Asks(run).want = run.want /\ Asks(run).res = run.res
      /\ Asks(run).need = Requested(opCat) /\ Asks(run).late = (opCat.at = "publish")
  BY RequestedNext DEF Asks, Runs
<1>4. PICK q \in Runs : q = Asks(run) BY <1>2
<1>5. /\ q.st = "refresh" /\ q.want = run.want /\ q.res = "none" /\ q.need = Requested(opCat)
      /\ q.late = (opCat.at = "publish")
  BY <1>2, <1>4
<1>6. PICK g \in Nat : g = Requested(opCat) /\ opCat.done < g BY RequestedNext
<1>8. q.need <= opCat'.req /\ ~(q.need <= opCat'.done) BY <1>6, <1>1, <1>5 DEF OpsTypes, Catalogs
<1>9. ~q.late => opCat'.at # "publish" BY <1>1, <1>5, Zenon
<1> QED BY <1>4, <1>5, <1>8, <1>9

(* What an end of the refresh claims is what the catalog shows. *)
LEMMA RefreshedHolds ==
    ASSUME OpsTypes, NEW run \in Runs, NEW read \in BOOLEAN, NEW shown \in BOOLEAN,
           Answers(run, read, shown), RefreshOver(run)
    PROVE  Refreshed(run) \in Runs /\ Refreshed(run).st = "ended" /\ Refreshed(run).want = run.want
           /\ Answers(Refreshed(run), read, shown)
<1>1. CASE ~RefreshUnavailable /\ opCat.ready
  <2>1. Refreshed(run) = Ends4(run, "completed") /\ "completed" \in Outcomes BY <1>1 DEF Refreshed, Outcomes
  <2>4. PICK e \in Runs : e = Ends4(run, "completed") BY <2>1, EndShape
  <2>5. e.st = "ended" /\ e.res = "completed" /\ e.want = run.want /\ e.late = run.late BY <2>1, <2>4, EndShape
  <2>6. Answers(e, read, shown) BY <1>1, <2>5 DEF Answers, RefreshOver, RefreshDone, OpsTypes, Catalogs, Runs
  <2> QED BY <2>1, <2>4, <2>5, <2>6
<1>2. CASE ~(~RefreshUnavailable /\ opCat.ready)
  <2>1. Refreshed(run) = Ends4(run, "catalog") /\ "catalog" \in Outcomes \ {"completed"}
    BY <1>2 DEF Refreshed, Outcomes
  <2> QED BY <2>1, EndShape, EndedAnswers
<1> QED BY <1>1, <1>2

(* A request changes nothing in the catalog but the generation that is asked for. *)
LEMMA RequestOnly ==
    ASSUME OpsTypes, CatalogHolds, opWorld' = opWorld, opCat' = [opCat EXCEPT !.req = Requested(opCat)]
    PROVE  /\ opCat' \in Catalogs /\ opCat'.req \in Nat /\ opCat.req \in Nat /\ opCat.req <= opCat'.req
           /\ opCat'.done = opCat.done /\ opCat'.gen = opCat.gen /\ opCat'.at = opCat.at
           /\ opCat'.read = opCat.read /\ opCat'.shown = opCat.shown /\ opCat'.ready = opCat.ready
           /\ CatalogHolds'
<1>1. /\ opCat' \in Catalogs /\ opCat'.req = Requested(opCat) /\ opCat'.done = opCat.done
      /\ opCat'.gen = opCat.gen /\ opCat'.at = opCat.at /\ opCat'.read = opCat.read
      /\ opCat'.shown = opCat.shown /\ opCat'.ready = opCat.ready /\ opCat'.stuck = opCat.stuck
      /\ opCat'.down = opCat.down
  BY RequestedNext DEF OpsTypes, Catalogs
<1>2. opCat.req \in Nat /\ opCat.gen \in Nat /\ opCat.done \in Nat BY DEF OpsTypes, Catalogs
<1>3. CatalogHolds' BY <1>1, <1>2, RequestedNext DEF CatalogHolds
<1> QED BY <1>1, <1>2, <1>3, RequestedNext

(* A step of the catalog leaves the runs true. *)
LEMMA CatalogStep ==
    ASSUME OpsInv, opWorld' = opWorld, opUp' = opUp, opLog' = opLog,
           RequestDiscovery \/ DiscoverStart \/ DiscoverRead \/ DiscoverEnds
    PROVE  OpsInv'
<1>1. /\ OpsTypes /\ CatalogHolds /\ opCat \in Catalogs /\ opUp \in Runs /\ opLog \in Runs /\ opWorld \in Worlds
      /\ opCat.req \in Nat /\ opCat.done \in Nat /\ opCat.gen \in Nat /\ opWorld.ver \in Nat
      /\ opCat.read \in Probes /\ opCat.shown \in Probes /\ opCat.read.ver \in Nat /\ opCat.shown.ver \in Nat
      /\ opUp.want \in Nat /\ opUp.need \in Nat /\ opLog.need \in Nat
  BY DEF OpsInv, OpsTypes, Catalogs, Probes, Runs, Worlds
<1>2. CASE RequestDiscovery
  <2>1. opCat' = [opCat EXCEPT !.req = Requested(opCat)] BY <1>2 DEF RequestDiscovery
  <2> QED BY <1>1, <2>1, RequestOnly DEF OpsInv, OpsTypes, Answers
<1>3. CASE DiscoverStart
  <2>1. /\ opCat' \in Catalogs /\ opCat'.req = opCat.req /\ opCat'.done = opCat.done
        /\ opCat'.gen = opCat.req /\ opCat'.at = "probe" /\ opCat'.read = opCat.read
        /\ opCat'.shown = opCat.shown /\ opCat'.ready = opCat.ready /\ opCat'.stuck = opCat.stuck
        /\ opCat'.down = opCat.down /\ opCat.at = "idle" /\ ~opCat.down /\ opCat.req > opCat.gen
    BY <1>1, <1>3 DEF DiscoverStart, Catalogs
  <2>2. CatalogHolds' BY <1>1, <2>1 DEF CatalogHolds
  <2> QED BY <1>1, <2>1, <2>2 DEF OpsInv, OpsTypes, Answers
<1>4. CASE DiscoverRead
  <2>2. /\ opCat' \in Catalogs /\ opCat'.req = opCat.req /\ opCat'.done = opCat.done
        /\ opCat'.gen = opCat.gen /\ opCat'.at = "publish" /\ opCat'.read.ver = opWorld.ver
        /\ opCat'.read.auth = opWorld.auth /\ opCat.at = "probe"
        /\ opCat'.shown = opCat.shown /\ opCat'.ready = opCat.ready /\ opCat'.stuck = opCat.stuck
        /\ opCat'.down = opCat.down
    BY <1>1, <1>4 DEF DiscoverRead, Catalogs, Worlds, Probes
  <2>3. CatalogHolds' BY <1>1, <2>2 DEF CatalogHolds
  <2> QED BY <1>1, <2>2, <2>3 DEF OpsInv, OpsTypes, Answers
<1>5. CASE DiscoverEnds
  <2>0. /\ opCat.read.auth \in BOOLEAN /\ opCat.ready \in BOOLEAN /\ opCat.at = "publish"
    BY <1>1, <1>5 DEF DiscoverEnds, Catalogs, Probes
  <2>1. CASE ~opCat.down /\ opCat' = [opCat EXCEPT !.at = "idle", !.shown = opCat.read,
                                                   !.ready = opCat.read.auth, !.done = opCat.gen]
    <3>1. /\ opCat' \in Catalogs /\ opCat'.req = opCat.req /\ opCat'.done = opCat.gen
          /\ opCat'.gen = opCat.gen /\ opCat'.at = "idle" /\ opCat'.shown = opCat.read
          /\ opCat'.read = opCat.read /\ opCat'.stuck = opCat.stuck /\ opCat'.down = opCat.down
      BY <1>1, <2>0, <2>1 DEF Catalogs
    <3>2. CatalogHolds' BY <1>1, <2>0, <3>1 DEF CatalogHolds
    <3>3. /\ opCat.shown.ver <= opCat.read.ver /\ (opCat.shown.auth => opCat.read.auth) BY <1>1, <2>0 DEF CatalogHolds
    <3> QED BY <1>1, <2>0, <3>1, <3>2, <3>3 DEF OpsInv, OpsTypes, Answers
  <2>2. CASE opCat.down /\ opCat' = [opCat EXCEPT !.at = "idle"]
    <3>1. /\ opCat' \in Catalogs /\ opCat'.req = opCat.req /\ opCat'.done = opCat.done
          /\ opCat'.gen = opCat.gen /\ opCat'.at = "idle" /\ opCat'.shown = opCat.shown
          /\ opCat'.read = opCat.read /\ opCat'.stuck = opCat.stuck /\ opCat'.down = opCat.down
          /\ opCat'.ready = opCat.ready
      BY <1>1, <2>2 DEF Catalogs
    <3>2. CatalogHolds' BY <1>1, <2>0, <2>2, <3>1 DEF CatalogHolds
    <3> QED BY <1>1, <3>1, <3>2 DEF OpsInv, OpsTypes, Answers
  <2>3. ASSUME NEW at \in {"idle", "ended"}, NEW stuck \in BOOLEAN, at = "ended" => stuck,
               opCat' = [opCat EXCEPT !.at = at, !.stuck = stuck, !.ready = FALSE, !.done = opCat.gen]
        PROVE  OpsInv'
    <3>1. /\ opCat' \in Catalogs /\ opCat'.req = opCat.req /\ opCat'.done = opCat.gen
          /\ opCat'.gen = opCat.gen /\ opCat'.at = at /\ opCat'.shown = opCat.shown
          /\ opCat'.read = opCat.read /\ opCat'.stuck = stuck /\ opCat'.down = opCat.down
          /\ opCat'.ready = FALSE
      BY <1>1, <2>3 DEF Catalogs
    <3>2. CatalogHolds' BY <1>1, <2>0, <2>3, <3>1 DEF CatalogHolds
    <3> QED BY <1>1, <3>1, <3>2 DEF OpsInv, OpsTypes, Answers
  <2>4. CASE opCat' = [opCat EXCEPT !.at = "ended", !.stuck = TRUE, !.ready = FALSE, !.done = opCat.gen] BY <2>3, <2>4
  <2>5. CASE opCat' = [opCat EXCEPT !.at = "idle", !.ready = FALSE, !.done = opCat.gen]
    <3>1. opCat.stuck \in BOOLEAN /\ opCat' = [opCat EXCEPT !.at = "idle", !.stuck = opCat.stuck,
                                                            !.ready = FALSE, !.done = opCat.gen]
      BY <1>1, <2>5 DEF Catalogs
    <3> QED BY <2>3, <3>1
  <2>6. CASE opCat' = [opCat EXCEPT !.at = "idle",
                                    !.shown = IF opCat.down THEN @ ELSE opCat.read,
                                    !.ready = IF opCat.down THEN @ ELSE opCat.read.auth,
                                    !.done = IF opCat.down THEN @ ELSE opCat.gen]
    <3>1. CASE opCat.down BY <1>1, <2>2, <2>6, <3>1 DEF Catalogs
    <3>2. CASE ~opCat.down BY <1>1, <2>1, <2>6, <3>2 DEF Catalogs
    <3> QED BY <3>1, <3>2
  <2> QED BY <1>5, <2>4, <2>5, <2>6 DEF DiscoverEnds
<1> QED BY <1>2, <1>3, <1>4, <1>5

(* A step of the update service. *)
LEMMA UpdateStep ==
    ASSUME OpsInv, NewRelease \/ BeginUpdate \/ CheckOffer \/ InstallRuns \/ UpdateAsks \/ UpdateEnds
    PROVE  OpsInv'
<1>1. /\ OpsTypes /\ CatalogHolds /\ opCat \in Catalogs /\ opUp \in Runs /\ opLog \in Runs /\ opWorld \in Worlds
      /\ opWorld.ver \in Nat /\ opWorld.latest \in Nat /\ opWorld.auth \in BOOLEAN
      /\ opCat.read.ver \in Nat /\ opCat.shown.ver \in Nat /\ opUp.want \in Nat
      /\ Answers(opUp, opUp.want <= opCat.read.ver, opUp.want <= opCat.shown.ver)
      /\ (opUp.want <= opCat.read.ver) \in BOOLEAN /\ (opUp.want <= opCat.shown.ver) \in BOOLEAN
  BY DEF OpsInv, OpsTypes, Catalogs, Probes, Runs, Worlds
<1>2. CASE NewRelease BY <1>1, <1>2 DEF NewRelease, OpsInv, OpsTypes, Worlds, CatalogHolds, Answers
<1>3. ASSUME opUp' \in Runs, opWorld' = opWorld, opCat' = opCat, opLog' = opLog,
             Answers(opUp', opUp'.want <= opCat.read.ver, opUp'.want <= opCat.shown.ver),
             opUp'.st = "install" => opWorld.ver <= opUp'.want, opUp'.st = "refresh" => opUp'.want <= opWorld.ver
      PROVE  OpsInv'
  BY <1>1, <1>3 DEF OpsInv, OpsTypes, CatalogHolds, Answers
<1>4. CASE BeginUpdate
  <2>1. PICK want \in Nat : opUp' = NewRun(opUp, want) BY <1>1, <1>4 DEF BeginUpdate
  <2> QED BY <1>1, <1>3, <1>4, <2>1, NewRuns DEF BeginUpdate, Answers
<1>5. ASSUME NEW res \in Outcomes \ {"completed"}, opUp' = Ends4(opUp, res), opWorld' = opWorld, opCat' = opCat,
             opLog' = opLog
      PROVE  OpsInv'
  <2>1. opUp' \in Runs /\ opUp'.st = "ended" /\ opUp'.res # "completed" BY <1>1, <1>5, EndShape
  <2> QED BY <1>3, <1>5, <2>1 DEF Answers
<1>6. CASE CheckOffer
  <2>1. CASE /\ opUp.want = opWorld.latest /\ opWorld.ver < opUp.want /\ opUp.st = "process"
             /\ opUp' = [opUp EXCEPT !.st = "install"]
    <3>1. /\ opUp' \in Runs /\ opUp'.st = "install" /\ opUp'.res = opUp.res /\ opUp'.want = opUp.want
          /\ opUp'.need = opUp.need
      BY <1>1, <2>1, StageShape
    <3> QED BY <1>1, <1>3, <1>6, <2>1, <3>1 DEF CheckOffer, Answers
  <2>2. {"checked", "changed", "unconfirmed", "failed"} \subseteq Outcomes \ {"completed"} BY DEF Outcomes
  <2> QED BY <1>5, <1>6, <2>1, <2>2 DEF CheckOffer
<1>7. CASE InstallRuns
  <2>1. PICK v \in {opWorld.ver, opUp.want} :
          /\ opWorld' = [opWorld EXCEPT !.ver = v]
          /\ opUp' \in {IF v = opUp.want THEN [opUp EXCEPT !.st = "refresh"] ELSE Ends4(opUp, "failed"),
                        Ends4(opUp, "unconfirmed"), Ends4(opUp, "failed")}
    BY <1>7 DEF InstallRuns
  <2>2. /\ v \in Nat /\ opWorld.ver <= v /\ opUp.st = "install" /\ opCat' = opCat /\ opLog' = opLog
        /\ opUp.need = 0 /\ opUp.res = "none"
    BY <1>1, <1>7, <2>1 DEF InstallRuns, OpsInv, Answers
  <2>3. opWorld' \in Worlds /\ opWorld'.ver = v /\ opWorld'.auth = opWorld.auth BY <1>1, <2>1, <2>2 DEF Worlds
  <2>4. CatalogHolds' BY <1>1, <2>2, <2>3 DEF CatalogHolds
  <2>5. /\ opUp' \in Runs /\ opUp'.st # "install" /\ opUp'.want = opUp.want
        /\ opUp'.st = "refresh" => v = opUp.want
        /\ Answers(opUp', opUp.want <= opCat.read.ver, opUp.want <= opCat.shown.ver)
    <3>1. CASE v = opUp.want /\ opUp' = [opUp EXCEPT !.st = "refresh"]
      <4>1. /\ opUp' \in Runs /\ opUp'.st = "refresh" /\ opUp'.res = opUp.res /\ opUp'.want = opUp.want
            /\ opUp'.need = opUp.need
        BY <1>1, <3>1, StageShape
      <4> QED BY <2>2, <3>1, <4>1 DEF Answers
    <3>2. CASE opUp' \in {Ends4(opUp, "failed"), Ends4(opUp, "unconfirmed")}
      <4>2. opUp' \in Runs /\ opUp'.st = "ended" /\ opUp'.res # "completed" /\ opUp'.want = opUp.want
        BY <1>1, <3>2, EndShape DEF Outcomes
      <4> QED BY <4>2 DEF Answers
    <3> QED BY <2>1, <3>1, <3>2
  <2> QED BY <1>1, <2>2, <2>3, <2>4, <2>5 DEF OpsInv, OpsTypes, Answers
<1>8. CASE UpdateAsks
  <2>1. /\ opCat' = [opCat EXCEPT !.req = Requested(opCat)] /\ opUp' = Asks(opUp) /\ opUp.st = "refresh"
        /\ opWorld' = opWorld /\ opLog' = opLog /\ opUp.res = "none"
    BY <1>1, <1>8 DEF UpdateAsks, AsksRefresh, Answers
  <2>2. /\ opUp' \in Runs /\ opUp'.st = "refresh" /\ opUp'.want = opUp.want /\ opUp'.need <= opCat'.req
        /\ ~opUp'.late => opCat'.at # "publish" /\ ~(opUp'.need <= opCat'.done)
        /\ opUp'.res = "none"
    BY <1>1, <2>1, AsksStep
  <2>3. Answers(opUp, opUp.want <= opCat.read.ver, opUp.want <= opCat.shown.ver)' BY <2>2 DEF Answers
  <2>4. /\ opCat' \in Catalogs /\ opCat'.req \in Nat /\ opCat.req \in Nat /\ opCat.req <= opCat'.req
        /\ opCat'.done = opCat.done /\ opCat'.gen = opCat.gen /\ opCat'.at = opCat.at
        /\ opCat'.read = opCat.read /\ opCat'.shown = opCat.shown /\ opCat'.ready = opCat.ready
        /\ CatalogHolds'
    BY <1>1, <2>1, RequestOnly
  <2>5. Answers(opLog, opCat.read.auth, opCat.shown.auth)'
    <3>1. opLog.need \in Nat /\ Answers(opLog, opCat.read.auth, opCat.shown.auth) BY <1>1 DEF Runs, OpsInv
    <3> QED BY <2>1, <2>4, <3>1 DEF Answers
  <2> QED BY <1>1, <2>1, <2>2, <2>3, <2>4, <2>5 DEF OpsInv, OpsTypes
<1>9. CASE UpdateEnds
  <2>1. opUp' = Refreshed(opUp) /\ RefreshOver(opUp) /\ opWorld' = opWorld /\ opCat' = opCat /\ opLog' = opLog
    BY <1>9 DEF UpdateEnds
  <2> QED BY <1>1, <1>3, <2>1, RefreshedHolds
<1> QED BY <1>2, <1>4, <1>6, <1>7, <1>8, <1>9

(* A step of the login service, and the end of all three. *)
LEMMA LoginStep ==
    ASSUME OpsInv,
           BeginLogin \/ LoginRuns \/ LoginAsks \/ LoginEnds \/ CancelLogin \/ OpShutdown \/ CreateAgent
    PROVE  OpsInv'
<1>1. /\ OpsTypes /\ CatalogHolds /\ opCat \in Catalogs /\ opUp \in Runs /\ opLog \in Runs /\ opWorld \in Worlds
      /\ opCat.read.auth \in BOOLEAN /\ opCat.shown.auth \in BOOLEAN
      /\ Answers(opLog, opCat.read.auth, opCat.shown.auth)
      /\ Answers(opUp, opUp.want <= opCat.read.ver, opUp.want <= opCat.shown.ver)
      /\ (opUp.want <= opCat.read.ver) \in BOOLEAN /\ (opUp.want <= opCat.shown.ver) \in BOOLEAN
  BY DEF OpsInv, OpsTypes, Catalogs, Probes, Runs
<1>3. ASSUME opLog' \in Runs, opWorld' = opWorld, opCat' = opCat, opUp' = opUp,
             Answers(opLog', opCat.read.auth, opCat.shown.auth), opLog'.st = "refresh" => opWorld.auth
      PROVE  OpsInv'
  BY <1>1, <1>3 DEF OpsInv, OpsTypes, CatalogHolds, Answers
<1>4. CASE BeginLogin
  <2>1. 0 \in Nat /\ opLog' = NewRun(opLog, 0) BY <1>4 DEF BeginLogin
  <2> QED BY <1>1, <1>3, <1>4, <2>1, NewRuns DEF BeginLogin, Answers
<1>5. ASSUME NEW res \in Outcomes \ {"completed"}, opLog' = Ends4(opLog, res), opWorld' = opWorld,
             opCat' = opCat, opUp' = opUp
      PROVE  OpsInv'
  <2>1. opLog' \in Runs /\ opLog'.st = "ended" /\ opLog'.res # "completed" BY <1>1, <1>5, EndShape
  <2> QED BY <1>3, <1>5, <2>1 DEF Answers
<1>6. {"failed", "unconfirmed", "started", "cancelled"} \subseteq Outcomes \ {"completed"} BY DEF Outcomes
<1>7. CASE LoginRuns
  <2>1. CASE opWorld' = [opWorld EXCEPT !.auth = TRUE] /\ opLog' = [opLog EXCEPT !.st = "refresh"]
    <3>1. opWorld' \in Worlds /\ opWorld'.ver = opWorld.ver /\ opWorld'.auth BY <1>1, <2>1 DEF Worlds
    <3>2. /\ opLog' \in Runs /\ opLog'.st = "refresh" /\ opLog'.res = opLog.res /\ opLog'.need = opLog.need
          /\ opLog.need = 0 /\ opLog.res = "none" /\ opCat' = opCat /\ opUp' = opUp
      BY <1>1, <1>7, <2>1, StageShape DEF LoginRuns, Answers
    <3>3. CatalogHolds' BY <1>1, <3>1, <3>2 DEF CatalogHolds
    <3> QED BY <1>1, <3>1, <3>2, <3>3 DEF OpsInv, OpsTypes, Answers
  <2> QED BY <1>5, <1>6, <1>7, <2>1 DEF LoginRuns
<1>8. CASE LoginAsks
  <2>1. /\ opCat' = [opCat EXCEPT !.req = Requested(opCat)] /\ opLog' = Asks(opLog) /\ opLog.st = "refresh"
        /\ opWorld' = opWorld /\ opUp' = opUp /\ opLog.res = "none"
    BY <1>1, <1>8 DEF LoginAsks, AsksRefresh, Answers
  <2>2. /\ opLog' \in Runs /\ opLog'.st = "refresh" /\ opLog'.need <= opCat'.req
        /\ ~opLog'.late => opCat'.at # "publish" /\ ~(opLog'.need <= opCat'.done)
        /\ opLog'.res = "none"
    BY <1>1, <2>1, AsksStep
  <2>3. Answers(opLog, opCat.read.auth, opCat.shown.auth)' BY <2>2 DEF Answers
  <2>4. /\ opCat' \in Catalogs /\ opCat'.req \in Nat /\ opCat.req \in Nat /\ opCat.req <= opCat'.req
        /\ opCat'.done = opCat.done /\ opCat'.gen = opCat.gen /\ opCat'.at = opCat.at
        /\ opCat'.read = opCat.read /\ opCat'.shown = opCat.shown /\ opCat'.ready = opCat.ready
        /\ CatalogHolds'
    BY <1>1, <2>1, RequestOnly
  <2>5. Answers(opUp, opUp.want <= opCat.read.ver, opUp.want <= opCat.shown.ver)'
    <3>1. opUp.need \in Nat BY <1>1 DEF Runs
    <3> QED BY <1>1, <2>1, <2>4, <3>1 DEF Answers
  <2> QED BY <1>1, <2>1, <2>2, <2>3, <2>4, <2>5 DEF OpsInv, OpsTypes
<1>9. CASE LoginEnds
  <2>1. opLog' = Refreshed(opLog) /\ RefreshOver(opLog) /\ opWorld' = opWorld /\ opCat' = opCat /\ opUp' = opUp
    BY <1>9 DEF LoginEnds
  <2> QED BY <1>1, <1>3, <2>1, RefreshedHolds
<1>10. CASE CancelLogin BY <1>5, <1>6, <1>10 DEF CancelLogin
<1>11. CASE OpShutdown
  <2>1. /\ opCat' \in Catalogs /\ opCat'.req = opCat.req /\ opCat'.done = opCat.done /\ opCat'.gen = opCat.gen
        /\ opCat'.at = opCat.at /\ opCat'.read = opCat.read /\ opCat'.shown = opCat.shown
        /\ opCat'.ready = opCat.ready /\ opCat'.stuck = opCat.stuck /\ opCat'.down
    BY <1>1, <1>11 DEF OpShutdown, Catalogs
  <2>2. CatalogHolds' /\ opWorld' = opWorld BY <1>1, <1>11, <2>1 DEF OpShutdown, CatalogHolds
  <2>3. /\ opUp' \in Runs /\ opUp'.want = opUp.want
        /\ Answers(opUp', opUp.want <= opCat.read.ver, opUp.want <= opCat.shown.ver)
        /\ opUp' = opUp \/ opUp'.st = "ended"
    <3>1. CASE opUp' = opUp BY <1>1, <3>1
    <3>2. CASE opUp' \in {Ends4(opUp, "cancelled"), Ends4(opUp, "unconfirmed")}
      <4>1. opUp' \in Runs /\ opUp'.st = "ended" /\ opUp'.res # "completed" /\ opUp'.want = opUp.want
        BY <1>1, <3>2, EndShape DEF Outcomes
      <4> QED BY <4>1 DEF Answers
    <3> QED BY <1>11, <3>1, <3>2 DEF OpShutdown
  <2>4. /\ opLog' \in Runs /\ Answers(opLog', opCat.read.auth, opCat.shown.auth)
        /\ opLog' = opLog \/ opLog'.st = "ended"
    <3>1. CASE opLog' = opLog BY <1>1, <3>1
    <3>2. CASE opLog' \in {Ends4(opLog, "cancelled"), Ends4(opLog, "unconfirmed")}
      <4>1. opLog' \in Runs /\ opLog'.st = "ended" /\ opLog'.res # "completed" BY <1>1, <3>2, EndShape DEF Outcomes
      <4> QED BY <4>1 DEF Answers
    <3> QED BY <1>11, <3>1, <3>2 DEF OpShutdown
  <2> QED BY <1>1, <2>1, <2>2, <2>3, <2>4 DEF OpsInv, OpsTypes, Answers
<1>12. CASE CreateAgent BY <1>12 DEF CreateAgent, OpsInv, OpsTypes, CatalogHolds, Answers
<1> QED BY <1>4, <1>7, <1>8, <1>9, <1>10, <1>11, <1>12

(* The catalog and the two services keep the invariant. *)
THEOREM OpsInvariant == OpSpec => []OpsInv
<1>1. OpInit => OpsInv
  <2> SUFFICES ASSUME OpInit PROVE OpsInv
    OBVIOUS
  <2>1. opWorld \in Worlds /\ opUp \in Runs /\ opLog \in Runs /\ opWorld.ver = 1 /\ opUp = NoRun /\ opLog = NoRun
    BY DEF OpInit, NoRun, Worlds, Runs
  <2>3. /\ opCat \in Catalogs /\ opCat.at = "idle" /\ opCat.req = 0 /\ opCat.done = 0 /\ opCat.gen = 0
        /\ opCat.shown = NoRead
    BY DEF OpInit, Catalogs, NoRead, Probes
  <2> QED BY <2>1, <2>3 DEF OpsInv, OpsTypes, CatalogHolds, Answers, NoRun, NoRead
<1>2. OpsInv /\ [OpNext]_opVars => OpsInv'
  <2>1. CASE UNCHANGED opVars BY <2>1 DEF opVars, OpsInv, OpsTypes, CatalogHolds, Answers
  <2>2. CASE RequestDiscovery \/ DiscoverStart \/ DiscoverRead \/ DiscoverEnds
    <3>1. opWorld' = opWorld /\ opUp' = opUp /\ opLog' = opLog
      BY <2>2 DEF RequestDiscovery, DiscoverStart, DiscoverRead, DiscoverEnds
    <3> QED BY <2>2, <3>1, CatalogStep
  <2> QED BY <2>1, <2>2, UpdateStep, LoginStep, Zenon DEF OpNext
<1> QED BY <1>1, <1>2, PTL DEF OpSpec

(* An update or a login that asked for its refresh before a discovery under way had read   *)
(* reports completion only when the published catalog was read after its effect, whatever  *)
(* joins the same generation (request_discovery, wait_for_provider, refresh_provider).     *)
THEOREM RefreshIsTrue == OpSpec => []RefreshFollowsEffect
<1>1. OpsInv => RefreshFollowsEffect
  <2> SUFFICES ASSUME OpsInv PROVE RefreshFollowsEffect
    OBVIOUS
  <2>1. opUp.want \in Nat /\ opCat.shown.ver \in Nat BY DEF OpsInv, OpsTypes, Runs, Catalogs, Probes
  <2> QED BY <2>1 DEF OpsInv, Answers, RefreshFollowsEffect
<1> QED BY <1>1, OpsInvariant, PTL

------------------------
(* The side chat.  A history says what every lifetime of the room posted,   *)
(* for good: the retained messages, the updates under way, the browser's    *)
(* snapshot and its view each are an interval of it, and no message of a    *)
(* send is in it twice.                                                     *)

Writers   == ScRequests \cup {Somebody}
Histories == [Nat -> [Nat -> Writers]]
ChatMsgs  == [seq : Nat, of : Writers, at : Nat]
Updates   == [gen : Nat, floor : Nat, seq : Nat, of : Writers]
ChatRooms == [gen : Nat, latest : Nat, floor : Nat, kept : Seq(ChatMsgs)]
ChatCalls == [gen : Nat, after : Nat, told : {"nothing", "waiting", "committed", "rejected"}]

\* What a lifetime posted in an interval.
Span(H, g, f, l) == [n \in f + 1 .. l |-> H[g][n]]
Shown     == UNION {[D -> Writers] : D \in SUBSET Nat}
Views(H) == {v \in [gen : Nat, floor : Nat, latest : Nat, shown : Shown] :
                /\ v.floor <= v.latest /\ v.latest - v.floor <= ScKeep
                /\ v.shown = Span(H, v.gen, v.floor, v.latest)}
Browsers(H) == [at : {"off", "reading", "shown", "failed"}, http : {"none", "asked", "read", "refused"},
                read : Views(H), buffer : Seq(Updates), view : Views(H), gap : BOOLEAN]

\* A history that tells the same of everything but one message.
Grows(H, K, g, n) == \A j, i \in Nat : ~(j = g /\ i = n) => K[j][i] = H[j][i]

\* The retained messages are what was posted after the floor, up to the latest.
Whole(room, H) ==
    /\ room.floor <= room.latest /\ Len(room.kept) = room.latest - room.floor
    /\ \A i \in 1 .. Len(room.kept) :
          room.kept[i].seq = room.floor + i /\ room.kept[i].of = H[room.gen][room.floor + i]

\* Updates one after another, up to the last, each with a floor not far behind it.
Chain(q, g, H, last) ==
    \A i \in 1 .. Len(q) :
       /\ q[i].gen = g /\ q[i].seq = last - Len(q) + i /\ q[i].of = H[g][q[i].seq]
       /\ q[i].floor < q[i].seq /\ q[i].seq - q[i].floor <= ScKeep
       /\ \A j \in i .. Len(q) : q[i].floor <= q[j].floor

\* The first of the updates follows the view, or what is between them has been evicted.
Meets(q, v) ==
    q # <<>> /\ q[1].gen = v.gen =>
       q[1].seq <= v.latest + 1 \/ q[1].seq <= q[Len(q)].floor + 1

\* What is known of a lifetime does not lie ahead of the room.
Behind(room, lives, g, n) == g <= room.gen /\ (lives /\ g = room.gen => n <= room.latest)

RoomOk(room, H) ==
    room \in ChatRooms /\ room.gen > 0 /\ Whole(room, H) /\ Len(room.kept) <= ScKeep

\* A send that became a message is recognised, or known to be too old to be told from one.
Sent(room, may, call, posts, r) ==
    /\ \A i \in 1 .. Len(room.kept) :
          room.kept[i].of = r => posts = 1 /\ call.gen = room.gen /\ room.kept[i].seq > call.after
    /\ posts = 1 /\ call.gen = room.gen /\ may # "none" =>
          \/ \E i \in 1 .. Len(room.kept) : room.kept[i].of = r
          \/ room.floor > call.after
SendOk(r) ==
    /\ scCall[r] \in ChatCalls /\ scWire[r] \in Nat /\ scPosts[r] \in {0, 1}
    /\ scCall[r].gen <= scRoom.gen
    /\ scCall[r].told = "nothing" => scWire[r] = 0 /\ scPosts[r] = 0
    /\ scCall[r].told = "committed" => scPosts[r] = 1
    /\ Sent(scRoom, scMay, scCall[r], scPosts[r], r)

SubOk(sub, room, H) ==
    /\ sub \in [on : BOOLEAN, queue : Seq(Updates), lagged : BOOLEAN]
    /\ ~sub.on => sub = NoSub
    /\ sub.lagged => sub.queue # <<>>
    /\ Chain(sub.queue, room.gen, H, room.latest)
    /\ \A i \in 1 .. Len(sub.queue) : sub.queue[i].floor <= room.floor

BrowserOk(b, room, lives, H) ==
    /\ b \in Browsers(H) /\ ~b.gap
    /\ Behind(room, lives, b.read.gen, b.read.latest)
    /\ Behind(room, lives, b.view.gen, b.view.latest)
    /\ \E g, last \in Nat : Behind(room, lives, g, last) /\ Chain(b.buffer, g, H, last)
    /\ b.http = "read" => Meets(b.buffer, b.read)

\* While the subscription delivers, what is buffered and what is queued are one run of
\* updates up to the room's latest, and the snapshot or the view reaches to it.
Hears(sub) == sub.on /\ ~sub.lagged
LiveOk(sub, b, room, H) ==
    /\ Hears(sub) /\ b.at = "reading" =>
          /\ Chain(b.buffer \o sub.queue, room.gen, H, room.latest)
          /\ \A i \in 1 .. Len(b.buffer) : b.buffer[i].floor <= room.floor
    /\ Hears(sub) /\ b.at = "reading" /\ b.http = "read" =>
          /\ b.read.gen = room.gen
          /\ b.buffer = <<>> => room.latest - Len(sub.queue) <= b.read.latest
    /\ Hears(sub) /\ b.at = "shown" =>
          b.view.gen = room.gen /\ room.latest - Len(sub.queue) <= b.view.latest

Alive == scMay # "none" \/ scSub.on
ChatTypes ==
    /\ scNow \in Nat /\ scMay \in {"writes", "reads", "none"} /\ scWire \in [ScRequests -> Nat]
    /\ scCall \in [ScRequests -> ChatCalls] /\ scPosts \in [ScRequests -> {0, 1}]
ChatHolds(H) ==
    /\ RoomOk(scRoom, H) /\ SubOk(scSub, scRoom, H)
    /\ BrowserOk(scBrowser, scRoom, Alive, H) /\ LiveOk(scSub, scBrowser, scRoom, H)
ChatInv ==
    ChatTypes /\ (\A r \in ScRequests : SendOk(r)) /\ \E H \in Histories : ChatHolds(H)

------------------------
\* The greatest of a set of integers.
LEMMA MaxIs ==
    ASSUME NEW S \in SUBSET Int, NEW m \in S, \A y \in S : y <= m
    PROVE  Max(S) = m
<1>1. \A x \in S : (\A y \in S : x >= y) => x = m OBVIOUS
<1> QED BY <1>1 DEF Max

\* The greater of two.
LEMMA GreaterOf ==
    ASSUME NEW a \in Int, NEW b \in Int
    PROVE  Max({a, b}) = IF a > b THEN a ELSE b
BY MaxIs

\* A part of an interval has no more than all of it.
LEMMA SubsetCount ==
    ASSUME NEW n \in Nat, NEW S \in SUBSET (1 .. n)
    PROVE  IsFiniteSet(S) /\ Cardinality(S) \in 0 .. n
<1>1. IsFiniteSet(1 .. n) /\ Cardinality(1 .. n) = n BY FS_Interval
<1>2. IsFiniteSet(S) /\ Cardinality(S) <= n BY <1>1, FS_Subset
<1> QED BY <1>2, FS_CardinalityType

\* How many messages of a room are too old, and that one of this moment is not.
LEMMA OldAre ==
    ASSUME ScAssumption, scNow \in Nat, NEW kept \in Seq(ChatMsgs),
           NEW old, old = {i \in DOMAIN kept : kept[i].at + ScTtl <= scNow}
    PROVE  /\ Cardinality(old) \in 0 .. Len(kept)
           /\ kept # <<>> /\ kept[Len(kept)].at = scNow => Cardinality(old) <= Len(kept) - 1
<1>1. old \in SUBSET (1 .. Len(kept)) OBVIOUS
<1>2. Cardinality(old) \in 0 .. Len(kept)
  <2>1. Len(kept) \in Nat OBVIOUS
  <2> QED BY SubsetCount
<1> QED BY <1>2, SubsetCount DEF ScAssumption, ChatMsgs

\* Prune takes off the front what is too old or too many, never what came just now.
LEMMA PruneIs ==
    ASSUME ScAssumption, scNow \in Nat, NEW room \in ChatRooms
    PROVE  \E n \in 0 .. Len(room.kept) :
              /\ Prune(room) = IF n = 0 THEN room
                               ELSE [room EXCEPT !.kept = SubSeq(@, n + 1, Len(@)), !.floor = room.kept[n].seq]
              /\ n >= Len(room.kept) - ScKeep
              /\ room.kept # <<>> /\ room.kept[Len(room.kept)].at = scNow => n < Len(room.kept)
<1> DEFINE old  == Cardinality({i \in DOMAIN room.kept : room.kept[i].at + ScTtl <= scNow})
           over == Max({0, Len(room.kept) - ScKeep})
<1>1. room.kept \in Seq(ChatMsgs) /\ Len(room.kept) \in Nat BY DEF ChatRooms
<1>2. /\ old \in 0 .. Len(room.kept)
      /\ room.kept # <<>> /\ room.kept[Len(room.kept)].at = scNow => old <= Len(room.kept) - 1
  BY <1>1, OldAre
<1>3. over = IF Len(room.kept) > ScKeep THEN Len(room.kept) - ScKeep ELSE 0 BY GreaterOf
<1> HIDE DEF old, over
<1> DEFINE n == Max({old, over})
<1>5. Prune(room) = IF n = 0 THEN room
                    ELSE [room EXCEPT !.kept = SubSeq(@, n + 1, Len(@)), !.floor = room.kept[n].seq]
  BY DEF Prune, old, over
<1>7. /\ n \in 0 .. Len(room.kept) /\ n >= Len(room.kept) - ScKeep
      /\ room.kept # <<>> /\ room.kept[Len(room.kept)].at = scNow => n < Len(room.kept)
  BY <1>1, <1>2, <1>3, GreaterOf DEF ScAssumption
<1> HIDE DEF n
<1> QED BY <1>5, <1>7

\* Whatever is pruned, the rest is still everything after the floor.
LEMMA PruneKeeps ==
    ASSUME ScAssumption, scNow \in Nat, NEW room \in ChatRooms, NEW H \in Histories, Whole(room, H),
           NEW p, p = Prune(room)
    PROVE  /\ p \in ChatRooms /\ p.gen = room.gen /\ p.latest = room.latest /\ p.floor >= room.floor
           /\ Whole(p, H) /\ Len(p.kept) <= ScKeep
           /\ \A i \in 1 .. Len(p.kept) :
                 p.floor - room.floor + i \in 1 .. Len(room.kept) /\ p.kept[i] = room.kept[p.floor - room.floor + i]
           /\ room.kept # <<>> /\ room.kept[Len(room.kept)].at = scNow => p.floor < p.latest
<1>1. PICK n \in 0 .. Len(room.kept) :
              /\ p = IF n = 0 THEN room
                     ELSE [room EXCEPT !.kept = SubSeq(@, n + 1, Len(@)), !.floor = room.kept[n].seq]
              /\ n >= Len(room.kept) - ScKeep
              /\ room.kept # <<>> /\ room.kept[Len(room.kept)].at = scNow => n < Len(room.kept)
  BY PruneIs
<1>2. /\ room.kept \in Seq(ChatMsgs) /\ Len(room.kept) \in Nat /\ room.floor \in Nat /\ room.latest \in Nat
      /\ Len(room.kept) = room.latest - room.floor
  BY DEF ChatRooms, Whole
<1>3. CASE n = 0
  <2>1. p = room /\ Len(p.kept) <= ScKeep BY <1>1, <1>3
  <2>3. room.kept # <<>> /\ room.kept[Len(room.kept)].at = scNow => p.floor < p.latest BY <1>2, <2>1
  <2> QED BY <1>2, <2>1, <2>3
<1>4. CASE n > 0
  <2>1. room.kept[n].seq = room.floor + n BY <1>4 DEF Whole
  <2>2. PICK rest \in Seq(ChatMsgs) :
            /\ rest = SubSeq(room.kept, n + 1, Len(room.kept)) /\ Len(rest) = Len(room.kept) - n
            /\ \A i \in 1 .. Len(rest) : n + i \in 1 .. Len(room.kept) /\ rest[i] = room.kept[n + i]
    <3>2. SubSeq(room.kept, n + 1, Len(room.kept)) \in Seq(ChatMsgs) BY <1>2
    <3>3. \A i \in 1 .. Len(room.kept) - n : n + i \in 1 .. Len(room.kept) OBVIOUS
    <3>4. Len(SubSeq(room.kept, n + 1, Len(room.kept))) = Len(room.kept) - n OBVIOUS
    <3>5. ASSUME NEW i \in 1 .. Len(room.kept) - n
          PROVE  SubSeq(room.kept, n + 1, Len(room.kept))[i] = room.kept[n + i]
      OBVIOUS
    <3> QED BY <3>2, <3>3, <3>4, <3>5
  <2>3. p = [room EXCEPT !.kept = rest, !.floor = room.floor + n] BY <1>1, <1>4, <2>1, <2>2
  <2>4. p \in ChatRooms /\ p.gen = room.gen /\ p.latest = room.latest /\ p.floor = room.floor + n /\ p.kept = rest
    <3>1. room.floor + n \in Nat BY <1>2
    <3> QED BY <2>3, <3>1 DEF ChatRooms
  <2>5. Whole(p, H)
    <3>1. ASSUME NEW i \in 1 .. Len(rest)
          PROVE  rest[i].seq = room.floor + n + i /\ rest[i].of = H[room.gen][room.floor + n + i]
      <4>1. room.floor + (n + i) = room.floor + n + i BY <1>2
      <4>2. n + i \in 1 .. Len(room.kept) /\ rest[i] = room.kept[n + i] BY <2>2
      <4>3. /\ room.kept[n + i].seq = room.floor + (n + i)
            /\ room.kept[n + i].of = H[room.gen][room.floor + (n + i)]
        BY <4>2 DEF Whole
      <4> QED BY <4>1, <4>2, <4>3, Zenon
    <3>2. room.floor + n <= room.latest /\ Len(rest) = room.latest - (room.floor + n)
      <4>1. PICK f \in Nat, k \in Nat : f = room.floor /\ k = Len(room.kept) /\ room.latest = f + k BY <1>2
      <4>2. n \in Int /\ Len(rest) = k - n /\ n <= k BY <2>2, <4>1
      <4>3. f + n <= f + k /\ k - n = f + k - (f + n) BY <4>2
      <4> QED BY <4>1, <4>2, <4>3
    <3> QED BY <2>4, <3>1, <3>2 DEF Whole
  <2> QED
    <3>1. p.floor - room.floor = n BY <1>2, <2>4
    <3>2. Len(p.kept) <= ScKeep BY <1>1, <1>2, <2>2, <2>4 DEF ScAssumption
    <3>3. room.kept # <<>> /\ room.kept[Len(room.kept)].at = scNow => p.floor < p.latest
      <4> QED BY <1>1, <2>4, <1>2
    <3>4. p.floor >= room.floor BY <1>2, <2>4
    <3> QED BY <2>2, <2>4, <2>5, <3>1, <3>2, <3>3, <3>4
<1>5. n = 0 \/ n > 0 OBVIOUS
<1> QED BY <1>3, <1>4

------------------------
\* An interval of the history no longer than a room keeps is a view.
LEMMA ViewIs ==
    ASSUME NEW H \in Histories, NEW g \in Nat, NEW f \in Nat, NEW l \in Nat, f <= l, l - f <= ScKeep
    PROVE  [gen |-> g, floor |-> f, latest |-> l, shown |-> Span(H, g, f, l)] \in Views(H)
<1>1. Span(H, g, f, l) \in [f + 1 .. l -> Writers] BY DEF Span, Histories
<1>2. Span(H, g, f, l) \in Shown
  <2> DEFINE all == {[D -> Writers] : D \in SUBSET Nat}
  <2>1. f + 1 .. l \in SUBSET Nat OBVIOUS
  <2>3. [f + 1 .. l -> Writers] \in all BY <2>1
  <2> HIDE DEF all
  <2> QED BY <1>1 DEF Shown
<1> QED BY <1>2 DEF Views

\* A history that grows by a message nobody has seen leaves what is shown as it is.
LEMMA ViewGrows ==
    ASSUME NEW H \in Histories, NEW G \in Nat, NEW n \in Nat, NEW K \in Histories, Grows(H, K, G, n),
           NEW v \in Views(H), v.gen = G => v.latest < n
    PROVE  v \in Views(K)
BY DEF Views, Grows, Span

\* A snapshot of the room (ScSnapshot) is a view of its lifetime.
LEMMA SnapshotIs ==
    ASSUME NEW H \in Histories, NEW room \in ChatRooms, Whole(room, H), Len(room.kept) <= ScKeep,
           NEW v, v = ScSnapshot(room)
    PROVE  v \in Views(H) /\ v.gen = room.gen /\ v.floor = room.floor /\ v.latest = room.latest
<1>1. /\ room.kept \in Seq(ChatMsgs) /\ room.gen \in Nat /\ room.floor \in Nat /\ room.latest \in Nat
      /\ room.floor <= room.latest /\ Len(room.kept) = room.latest - room.floor
  BY DEF ChatRooms, Whole
<1>2. ASSUME NEW m \in Range(room.kept)
      PROVE  m.seq \in room.floor + 1 .. room.latest /\ m.of = H[room.gen][m.seq]
  <2>1. PICK i \in 1 .. Len(room.kept) : m = room.kept[i] BY DEF Range
  <2>2. m.seq = room.floor + i /\ m.of = H[room.gen][room.floor + i] BY <2>1 DEF Whole
  <2>3. room.floor + i \in room.floor + 1 .. room.latest BY <1>1
  <2> QED BY <2>2, <2>3
<1>3. ASSUME NEW n \in room.floor + 1 .. room.latest
      PROVE  \E m \in Range(room.kept) : m.seq = n
  <2>1. n - room.floor \in 1 .. Len(room.kept) /\ room.floor + (n - room.floor) = n BY <1>1
  <2>2. PICK i \in 1 .. Len(room.kept) : room.floor + i = n BY <2>1
  <2>3. room.kept[i].seq = n BY <2>2 DEF Whole
  <2> QED BY <1>1, <2>3 DEF Range
<1>4. {m.seq : m \in Range(room.kept)} = room.floor + 1 .. room.latest BY <1>2, <1>3
<1>5. ASSUME NEW n \in room.floor + 1 .. room.latest
      PROVE  (CHOOSE m \in Range(room.kept) : m.seq = n).of = H[room.gen][n]
  BY <1>2, <1>3
<1>6. v.shown = Span(H, room.gen, room.floor, room.latest)
  <2>1. v.shown = [n \in room.floor + 1 .. room.latest |-> (CHOOSE m \in Range(room.kept) : m.seq = n).of]
    BY <1>4 DEF ScSnapshot
  <2> QED BY <1>5, <2>1 DEF Span
<1> QED BY <1>1, <1>6, ViewIs DEF ScSnapshot

------------------------
(* Runs of updates.                                                         *)

\* The end of a run is a run.
LEMMA ChainEnds ==
    ASSUME NEW p \in Seq(Updates), NEW g \in Nat, NEW H, NEW last \in Int, Chain(p, g, H, last),
           NEW q \in Seq(Updates), Len(q) <= Len(p),
           \A i \in 1 .. Len(q) : q[i] = p[Len(p) - Len(q) + i]
    PROVE  Chain(q, g, H, last)
<1> DEFINE d == Len(p) - Len(q)
<1>1. d \in Nat /\ Len(p) = d + Len(q) /\ Len(q) \in Nat /\ Len(p) \in Nat OBVIOUS
<1> HIDE DEF d
<1>2. \A i \in 1 .. Len(q) : d + i \in 1 .. Len(p) /\ q[i] = p[d + i] /\ last - Len(p) + (d + i) = last - Len(q) + i
  BY DEF d
<1>3. \A i \in 1 .. Len(q) : \A j \in i .. Len(q) : d + j \in d + i .. Len(p) /\ q[j] = p[d + j] BY <1>2
<1>4. ASSUME NEW i \in 1 .. Len(q)
      PROVE  /\ q[i].gen = g /\ q[i].seq = last - Len(q) + i /\ q[i].of = H[g][q[i].seq]
             /\ q[i].floor < q[i].seq /\ q[i].seq - q[i].floor <= ScKeep
  <2>1. PICK k \in 1 .. Len(p) : q[i] = p[k] /\ last - Len(p) + k = last - Len(q) + i BY <1>2
  <2> QED BY <2>1 DEF Chain
<1>5. ASSUME NEW i \in 1 .. Len(q), NEW j \in i .. Len(q)
      PROVE  q[i].floor <= q[j].floor
  BY <1>2, <1>3 DEF Chain
<1> QED BY <1>4, <1>5 DEF Chain

\* Both parts of a run are runs.
LEMMA ChainStarts ==
    ASSUME NEW p \in Seq(Updates), NEW q \in Seq(Updates), NEW g \in Nat, NEW H, NEW last \in Int,
           Chain(p \o q, g, H, last)
    PROVE  Chain(p, g, H, last - Len(q)) /\ Chain(q, g, H, last)
<1> DEFINE r == p \o q
<1>1. /\ r \in Seq(Updates) /\ Len(r) = Len(p) + Len(q) /\ Len(p) \in Nat /\ Len(q) \in Nat
      /\ \A i \in 1 .. Len(p) : i \in 1 .. Len(r) /\ r[i] = p[i]
      /\ \A i \in 1 .. Len(q) : Len(p) + i \in 1 .. Len(r) /\ r[Len(p) + i] = q[i]
  OBVIOUS
<1>2. Chain(r, g, H, last) OBVIOUS
<1> HIDE DEF r
<1>3. \A i \in 1 .. Len(p) : \A j \in i .. Len(p) : j \in i .. Len(r) /\ r[j] = p[j] BY <1>1
<1>4. \A i \in 1 .. Len(p) : last - Len(r) + i = (last - Len(q)) - Len(p) + i BY <1>1
<1>5. Chain(p, g, H, last - Len(q)) BY <1>1, <1>2, <1>3, <1>4 DEF Chain
<1>6. \A i \in 1 .. Len(q) : q[i] = r[Len(r) - Len(q) + i] BY <1>1
<1>7. Len(q) <= Len(r) BY <1>1
<1>8. Chain(q, g, H, last) BY <1>1, <1>2, <1>6, <1>7, ChainEnds
<1> QED BY <1>5, <1>8

\* A run takes the next update.
LEMMA ChainAppends ==
    ASSUME NEW q \in Seq(Updates), NEW g \in Nat, NEW H, NEW last \in Int, Chain(q, g, H, last),
           NEW u \in Updates, u.gen = g, u.seq = last + 1, u.of = H[g][u.seq],
           u.floor < u.seq, u.seq - u.floor <= ScKeep, \A i \in 1 .. Len(q) : q[i].floor <= u.floor
    PROVE  Chain(Append(q, u), g, H, last + 1)
<1> DEFINE r == Append(q, u)
<1>1. /\ Len(r) = Len(q) + 1 /\ Len(q) \in Nat /\ r[Len(q) + 1] = u
      /\ \A i \in 1 .. Len(q) : r[i] = q[i]
  OBVIOUS
<1> HIDE DEF r
<1>2. \A i \in 1 .. Len(r) : i \in 1 .. Len(q) \/ i = Len(q) + 1 BY <1>1
<1>3. ASSUME NEW i \in 1 .. Len(r)
      PROVE  /\ r[i].gen = g /\ r[i].seq = last + 1 - Len(r) + i /\ r[i].of = H[g][r[i].seq]
             /\ r[i].floor < r[i].seq /\ r[i].seq - r[i].floor <= ScKeep
  <2>1. CASE i \in 1 .. Len(q)
    <3>1. last - Len(q) + i = last + 1 - Len(r) + i BY <1>1
    <3> QED BY <1>1, <2>1, <3>1 DEF Chain
  <2>2. CASE i = Len(q) + 1
    <3>1. last + 1 = last + 1 - Len(r) + i BY <1>1, <2>2
    <3> QED BY <1>1, <2>2, <3>1
  <2> QED BY <1>2, <2>1, <2>2
<1>4. ASSUME NEW i \in 1 .. Len(r), NEW j \in i .. Len(r)
      PROVE  r[i].floor <= r[j].floor
  <2>1. CASE j \in 1 .. Len(q)
    <3>1. i \in 1 .. Len(q) /\ j \in i .. Len(q) BY <1>1, <2>1
    <3> QED BY <1>1, <2>1, <3>1 DEF Chain
  <2>2. CASE j = Len(q) + 1 /\ i \in 1 .. Len(q) BY <1>1, <2>2
  <2>3. CASE j = Len(q) + 1 /\ i = Len(q) + 1 BY <1>1, <2>3 DEF Updates
  <2>4. j \in 1 .. Len(r) BY <1>1
  <2> QED BY <1>2, <2>1, <2>2, <2>3, <2>4
<1>5. Chain(r, g, H, last + 1) BY <1>3, <1>4 DEF Chain
<1> QED BY <1>5 DEF r

\* What is posted after a run leaves it one.
LEMMA ChainGrows ==
    ASSUME NEW H \in Histories, NEW G \in Nat, NEW n \in Nat, NEW K \in Histories, Grows(H, K, G, n),
           NEW q \in Seq(Updates), NEW g \in Nat, NEW last \in Int,
           Chain(q, g, H, last), g = G => last < n
    PROVE  Chain(q, g, K, last)
<1>1. ASSUME NEW i \in 1 .. Len(q)
      PROVE  K[g][q[i].seq] = H[g][q[i].seq]
  <2>1. q[i].seq \in Nat /\ q[i].seq <= last
    <3>1. q[i] \in Updates /\ q[i].seq = last - Len(q) + i BY DEF Chain
    <3>2. last - Len(q) + i <= last OBVIOUS
    <3> QED BY <3>1, <3>2 DEF Updates
  <2> QED BY <2>1 DEF Grows
<1> QED BY <1>1 DEF Chain

\* The k-th number of an interval, as the buffer counts it.
LEMMA KthIs ==
    ASSUME NEW d \in Nat, NEW n \in Nat, d <= n, NEW span, span = d + 1 .. n
    PROVE  /\ Cardinality(span) = n - d
           /\ \A k \in 1 .. n - d : Nth(span, k) = d + k
<1>1. Cardinality(span) = n - d
  <2>1. Cardinality(d + 1 .. n) = IF d + 1 > n THEN 0 ELSE n - (d + 1) + 1 BY FS_Interval
  <2> QED BY <2>1
<1>2. ASSUME NEW i \in span
      PROVE  Cardinality({j \in span : j < i}) = i - 1 - d
  <2>1. {j \in span : j < i} = d + 1 .. i - 1 /\ i - 1 \in Int /\ d + 1 \in Int OBVIOUS
  <2>3. (IF d + 1 > i - 1 THEN 0 ELSE i - 1 - (d + 1) + 1) = i - 1 - d OBVIOUS
  <2> QED BY <2>1, FS_Interval, <2>3
<1> QED BY <1>1, <1>2 DEF Nth

\* Where the floor of the last update cuts a run.
LEMMA CutIs ==
    ASSUME NEW floor \in Nat, NEW last \in Int, NEW n \in Nat, n > 0, floor < last, NEW K \in Nat, last - floor <= K,
           NEW d, d = IF floor - last + n > 0 THEN floor - last + n ELSE 0
    PROVE  d \in Nat /\ d < n /\ n - d <= K /\ \A i \in 1 .. n : last - n + i > floor <=> i > d
  OBVIOUS

\* The end of a run that begins right after the floor of its last update, or all of it.
EndOf(q, all, u) ==
    /\ q \in Seq(Updates) /\ Len(q) \in 1 .. ScKeep /\ Len(q) <= Len(all)
    /\ \A i \in 1 .. Len(q) : q[i] = all[Len(all) - Len(q) + i]
    /\ q[Len(q)] = u /\ (Len(q) = Len(all) \/ q[1].seq = u.floor + 1)

\* An update drops what its floor has passed: what is left of a run of updates still is one
\* up to the same end, and never more than a room keeps.
LEMMA BufferedIs ==
    ASSUME ScAssumption, NEW buffer \in Seq(Updates), NEW u \in Updates, NEW g \in Nat, NEW H, NEW last \in Int,
           NEW all \in Seq(Updates), all = Append(buffer, u), Chain(all, g, H, last), NEW q, q = Buffered(buffer, u)
    PROVE  EndOf(q, all, u)
<1>2. PICK n \in Nat : n = Len(all) OBVIOUS
<1>3. n > 0 /\ all[n] = u BY <1>2
<1>4. /\ u.floor \in Nat /\ u.seq = last /\ u.floor < last /\ last - u.floor <= ScKeep
      /\ \A i \in 1 .. n : all[i].seq = last - n + i
  <2>1. n \in 1 .. n /\ last - n + n = last BY <1>3
  <2> QED
    <3>1. u.seq = last /\ u.floor < last /\ last - u.floor <= ScKeep BY DEF Chain
    <3> QED BY <1>2, <3>1 DEF Chain, Updates
<1>5. PICK d : d = IF u.floor - last + n > 0 THEN u.floor - last + n ELSE 0 OBVIOUS
<1>6. d \in Nat /\ d < n /\ n - d <= ScKeep /\ \A i \in 1 .. n : last - n + i > u.floor <=> i > d
  <2>1. PICK f \in Nat : f = u.floor BY <1>4
  <2>2. f < last /\ last - f <= ScKeep /\ d = IF f - last + n > 0 THEN f - last + n ELSE 0 BY <1>4, <1>5, <2>1
  <2>4. d \in Nat /\ d < n /\ n - d <= ScKeep /\ \A i \in 1 .. n : last - n + i > f <=> i > d BY <1>3, <2>2, CutIs
  <2> QED BY <2>1, <2>4
<1>7. {i \in DOMAIN all : all[i].seq > u.floor} = d + 1 .. n
  <2>1. DOMAIN all = 1 .. n BY <1>2
  <2>3. \A i : i \in d + 1 .. n <=> i \in 1 .. n /\ i > d BY <1>6
  <2>4. \A i \in 1 .. n : all[i].seq > u.floor <=> i \in d + 1 .. n BY <1>4, <1>6, <2>3
  <2> QED BY <2>1, <2>4, <2>3
<1>8. PICK span : span = d + 1 .. n OBVIOUS
<1>9. /\ Cardinality(span) = n - d
      /\ \A k \in 1 .. n - d : Nth(span, k) = d + k
  <2>1. d \in Nat /\ d <= n BY <1>6
  <2> QED BY <1>8, <2>1, KthIs
<1>10. q = [k \in 1 .. n - d |-> all[d + k]] BY <1>7, <1>8, <1>9 DEF Buffered
<1>11. n - d \in Nat /\ \A k \in 1 .. n - d : d + k \in 1 .. n BY <1>6
<1>12. q \in Seq(Updates) /\ Len(q) = n - d BY <1>2, <1>10, <1>11
<1>13. n - d \in 1 .. n - d /\ d + (n - d) = n /\ n - (n - d) = d BY <1>6
<1>14. q[Len(q)] = u BY <1>3, <1>10, <1>12, <1>13
<1>15. d = 0 \/ q[1].seq = u.floor + 1
  <2>1. ASSUME d # 0
        PROVE  q[1].seq = u.floor + 1
    <3>1. 1 \in 1 .. n - d /\ d + 1 \in 1 .. n BY <1>6
    <3>3. last - n + (d + 1) = u.floor + 1
      <4>2. PICK f \in Nat : f = u.floor BY <1>4
      <4>3. last - n + ((f - last + n) + 1) = f + 1 OBVIOUS
      <4> QED BY <1>5, <2>1, <4>2, <4>3
    <3> QED BY <1>4, <3>1, <1>10, <3>3
  <2> QED BY <2>1
<1>16. /\ Len(q) \in 1 .. ScKeep /\ Len(q) <= n /\ (d = 0 => Len(q) = n)
       /\ \A i \in 1 .. Len(q) : n - Len(q) + i = d + i
  BY <1>6, <1>12
<1> QED BY <1>2, <1>12, <1>14, <1>15, <1>16, <1>10 DEF EndOf

------------------------
(* Merging a run of updates into a view.                                    *)

\* The greatest floor and the greatest number of a run are its last.
LEMMA LastIsGreatest ==
    ASSUME NEW q \in Seq(Updates), NEW g \in Nat, NEW H, NEW last \in Int, Chain(q, g, H, last),
           NEW a \in Nat, NEW b \in Nat
    PROVE  /\ Max({a} \cup {u.floor : u \in Range(q)}) =
                 IF q # <<>> /\ q[Len(q)].floor > a THEN q[Len(q)].floor ELSE a
           /\ Max({b} \cup {u.seq : u \in Range(q)}) = IF q # <<>> /\ last > b THEN last ELSE b
<1>1. CASE q = <<>> BY <1>1 DEF Range, Max
<1>2. CASE q # <<>>
  <2>2. q[Len(q)] \in Updates /\ q[Len(q)].seq = last /\ q[Len(q)] \in Range(q) BY <1>2 DEF Chain, Range
  <2>3. PICK top \in Nat : top = q[Len(q)].floor BY <2>2 DEF Updates
  <2>4. ASSUME NEW u \in Range(q)
        PROVE  u.floor \in Nat /\ u.seq \in Nat /\ u.floor <= top /\ u.seq <= last
    <3>1. PICK i \in 1 .. Len(q) : u = q[i] BY DEF Range
    <3>2. Len(q) \in i .. Len(q) /\ last - Len(q) + i <= last /\ u \in Updates BY <3>1
    <3> QED BY <2>3, <3>1, <3>2 DEF Chain, Updates
  <2>5. PICK F : F = {a} \cup {u.floor : u \in Range(q)} OBVIOUS
  <2>6. PICK S : S = {b} \cup {u.seq : u \in Range(q)} OBVIOUS
  <2>7. F \in SUBSET Int /\ S \in SUBSET Int /\ a \in F /\ top \in F /\ b \in S /\ last \in S
    BY <2>2, <2>3, <2>4, <2>5, <2>6
  <2>8. (\A y \in F : y = a \/ y <= top) /\ (\A y \in S : y = b \/ y <= last) BY <2>4, <2>5, <2>6
  <2>9. Max(F) = IF top > a THEN top ELSE a BY <2>8, <2>7, MaxIs
  <2>10. Max(S) = IF last > b THEN last ELSE b BY <2>8, <2>7, MaxIs
  <2> QED BY <1>2, <2>3, <2>5, <2>6, <2>9, <2>10
<1> QED BY <1>1, <1>2

\* A run that meets a view of its lifetime merges into it without a gap.
LEMMA MergedIs ==
    ASSUME ScAssumption, NEW H \in Histories, NEW v \in Views(H), NEW q \in Seq(Updates),
           NEW g \in Nat, NEW last \in Nat, Chain(q, g, H, last), Meets(q, v), OneLife(v, q),
           NEW m, m = Merged(v, q)
    PROVE  /\ Agrees(v, q) /\ Complete(m) /\ m \in Views(H) /\ m.gen = v.gen
           /\ m.latest = IF q # <<>> /\ last > v.latest THEN last ELSE v.latest
<1>1. PICK G \in Nat, f \in Nat, l \in Nat :
         G = v.gen /\ f = v.floor /\ l = v.latest /\ f <= l /\ l - f <= ScKeep /\ v.shown = Span(H, G, f, l)
  BY DEF Views
<1>2. PICK F : F = IF q # <<>> /\ q[Len(q)].floor > f THEN q[Len(q)].floor ELSE f OBVIOUS
<1>3. PICK L : L = IF q # <<>> /\ last > l THEN last ELSE l OBVIOUS
<1>4. PICK seqs : seqs = {u.seq : u \in Range(q)} OBVIOUS
<1>5. Max({v.floor} \cup {u.floor : u \in Range(q)}) = F /\ Max({v.latest} \cup seqs) = L
  <2>1. /\ Max({f} \cup {u.floor : u \in Range(q)}) = IF q # <<>> /\ q[Len(q)].floor > f THEN q[Len(q)].floor ELSE f
        /\ Max({l} \cup {u.seq : u \in Range(q)}) = IF q # <<>> /\ last > l THEN last ELSE l
    <3>1. last \in Int OBVIOUS
    <3> QED BY <3>1, LastIsGreatest
  <2> QED BY <1>1, <1>2, <1>3, <1>4, <2>1
<1>6. Len(q) \in Nat /\ (q # <<>> <=> Len(q) > 0) OBVIOUS
<1>7. ASSUME NEW u \in Range(q)
      PROVE  u.gen = G /\ u.seq \in last - Len(q) + 1 .. last /\ u.of = H[G][u.seq]
  <2>1. PICK i \in 1 .. Len(q) : u = q[i] BY DEF Range
  <2>3. u.gen = G BY <1>1 DEF OneLife
  <2> QED BY <2>1, <2>3 DEF Chain
<1>8. seqs = last - Len(q) + 1 .. last
  <2>1. ASSUME NEW n \in last - Len(q) + 1 .. last
        PROVE  n \in seqs
    <3>2. q[n - (last - Len(q))] \in Range(q) /\ q[n - (last - Len(q))].seq = n BY DEF Chain, Range
    <3> QED BY <1>4, <3>2
  <2> QED BY <1>4, <1>7, <2>1
<1>9. DOMAIN v.shown = f + 1 .. l /\ \A n \in f + 1 .. l : v.shown[n] = H[G][n] BY <1>1 DEF Span
<1>10. Agrees(v, q) BY <1>7, <1>9 DEF Agrees
  \* What is known of the lifetime reaches from the floor to the latest.
<1>11. /\ F \in Nat /\ L \in Nat /\ F <= L /\ L - F <= ScKeep
       /\ {k \in seqs \cup (f + 1 .. l) : k > F} = F + 1 .. L
  <2>1. CASE q = <<>> BY <1>2, <1>3, <1>4, <2>1, <1>1 DEF Range
  <2>2. CASE q # <<>>
    <3>1. PICK top : top = q[Len(q)].floor OBVIOUS
    <3>2. PICK a : a = last - Len(q) + 1 OBVIOUS
    <3>3. Len(q) \in 1 .. Len(q) /\ 1 \in 1 .. Len(q) /\ last - Len(q) + Len(q) = last BY <2>2
    <3>4. /\ top \in Nat /\ top < last /\ last - top <= ScKeep
          /\ q[1].seq = a
      <4>1. q[Len(q)] \in Updates /\ q[Len(q)].seq = last /\ q[1].seq = last - Len(q) + 1 BY <3>3 DEF Chain
      <4> QED BY <3>1, <3>2, <4>1, <3>3 DEF Updates, Chain
    <3>5. a <= l + 1 \/ a <= top + 1 BY <3>3, <1>1, <2>2, <3>1, <3>4 DEF Range, OneLife, Meets
    <3>6. a \in Int /\ a <= last BY <2>2, <3>2
    <3>7. F = IF top > f THEN top ELSE f BY <1>2, <2>2, <3>1
    <3>8. L = IF last > l THEN last ELSE l BY <1>3, <2>2
    <3>11. PICK K \in Nat : K = ScKeep OBVIOUS
    <3>15. f <= l /\ l - f <= K /\ top \in Nat /\ top < last /\ last - top <= K /\ a \in Int /\ a <= last
      BY <1>1, <3>4, <3>6, <3>11
    <3>9. /\ F \in Nat /\ L \in Nat /\ F <= L /\ L - F <= ScKeep
          /\ \A k \in Int : F < k /\ k <= L => (a <= k /\ k <= last) \/ (f + 1 <= k /\ k <= l)
      BY <3>11, <3>7, <3>8, <3>15, <3>5
    <3>12. seqs = a .. last BY <1>8, <3>2
    <3>13. ASSUME NEW k, k \in {j \in seqs \cup (f + 1 .. l) : j > F}
           PROVE  k \in F + 1 .. L
      BY <3>6, <3>12, <3>13, <3>9, <3>8
    <3>14. ASSUME NEW k \in F + 1 .. L
           PROVE  k \in seqs \cup (f + 1 .. l) /\ k > F
      <4>1. k \in Int /\ F < k /\ k <= L BY <3>9
      <4>2. (a <= k /\ k <= last) \/ (f + 1 <= k /\ k <= l) BY <3>9
      <4> QED BY <3>9, <3>12, <4>1, <3>6, <4>2
    <3> QED BY <3>9, <3>13, <3>14
  <2> QED BY <2>1, <2>2
<1>12. ASSUME NEW n \in seqs
       PROVE  (CHOOSE u \in Range(q) : u.seq = n).of = H[G][n]
  BY <1>4, <1>7
<1>13. m.shown = Span(H, G, F, L)
  <2>1. m.shown = [n \in F + 1 .. L |-> IF n \in seqs THEN (CHOOSE u \in Range(q) : u.seq = n).of ELSE v.shown[n]]
    BY <1>4, <1>5, <1>9, <1>11 DEF Merged
  <2>2. \A n \in F + 1 .. L : n \notin seqs => n \in f + 1 .. l BY <1>11
  <2> QED BY <1>9, <1>12, <2>1, <2>2 DEF Span
<1>14. m = [gen |-> G, floor |-> F, latest |-> L, shown |-> Span(H, G, F, L)] BY <1>1, <1>4, <1>5, <1>13 DEF Merged
<1>15. m \in Views(H) /\ m.gen = v.gen /\ m.floor = F /\ m.latest = L /\ DOMAIN m.shown = F + 1 .. L
  <2>1. [gen |-> G, floor |-> F, latest |-> L, shown |-> Span(H, G, F, L)] \in Views(H) BY <1>11, ViewIs
  <2> QED BY <1>1, <1>14, <2>1 DEF Span
<1>16. Complete(m)
  <2>1. Cardinality(F + 1 .. L) = IF F + 1 > L THEN 0 ELSE L - (F + 1) + 1 BY <1>11, FS_Interval
  <2> QED BY <1>15, <1>11, <2>1 DEF Complete
<1> QED BY <1>1, <1>3, <1>10, <1>15, <1>16

------------------------
(* The room forgets its oldest messages.                                    *)

\* Pruning the room disturbs neither the subscription nor the browser.
LEMMA PrunedHolds ==
    ASSUME ScAssumption, scNow \in Nat, NEW H \in Histories, NEW room, RoomOk(room, H), NEW p, p = Prune(room),
           NEW sub, NEW b, NEW lives \in BOOLEAN, SubOk(sub, room, H), BrowserOk(b, room, lives, H), LiveOk(sub, b, room, H)
    PROVE  RoomOk(p, H) /\ SubOk(sub, p, H) /\ BrowserOk(b, p, lives, H) /\ LiveOk(sub, b, p, H)
<1>1. room \in ChatRooms /\ Whole(room, H) BY DEF RoomOk
<1>2. /\ p \in ChatRooms /\ p.gen = room.gen /\ p.latest = room.latest /\ p.floor >= room.floor
      /\ Whole(p, H) /\ Len(p.kept) <= ScKeep
  BY <1>1, PruneKeeps
<1>3. p.floor \in Nat /\ room.floor \in Nat BY <1>1, <1>2 DEF ChatRooms
<1>4. RoomOk(p, H) BY <1>2 DEF RoomOk
<1>5. \A q \in Seq(Updates) : (\A i \in 1 .. Len(q) : q[i].floor <= room.floor) => \A i \in 1 .. Len(q) : q[i].floor <= p.floor
  <2>2. ASSUME NEW q \in Seq(Updates), NEW i \in 1 .. Len(q)
        PROVE  q[i].floor \in Nat
    <3>1. q[i] \in Updates OBVIOUS
    <3> QED BY <3>1 DEF Updates
  <2> QED BY <1>2, <1>3, <2>2
<1> QED BY <1>4, <1>2, <1>5 DEF BrowserOk, Behind, SubOk, Browsers, LiveOk

\* The place of a message after the oldest went.
LEMMA ShiftedPlace ==
    ASSUME NEW old \in Nat, NEW new \in Nat, NEW latest \in Nat, NEW after \in Nat,
           NEW i \in 1 .. latest - old, new >= old, old + i > after, ~(new > after)
    PROVE  i - (new - old) \in 1 .. latest - new /\ new - old + (i - (new - old)) = i
  OBVIOUS

\* A send stays recognisable, or becomes too old, when the room is pruned.
LEMMA SentPruned ==
    ASSUME ScAssumption, scNow \in Nat, NEW H \in Histories, NEW room, RoomOk(room, H), NEW p, p = Prune(room),
           NEW may, NEW call \in ChatCalls, NEW posts, NEW r, Sent(room, may, call, posts, r)
    PROVE  Sent(p, may, call, posts, r)
<1>1. room \in ChatRooms /\ Whole(room, H) BY DEF RoomOk
<1>2. /\ p \in ChatRooms /\ p.gen = room.gen /\ p.latest = room.latest /\ p.floor >= room.floor
      /\ Whole(p, H)
      /\ \A i \in 1 .. Len(p.kept) :
            p.floor - room.floor + i \in 1 .. Len(room.kept) /\ p.kept[i] = room.kept[p.floor - room.floor + i]
  BY <1>1, PruneKeeps
<1>4. ASSUME posts = 1, call.gen = p.gen, may # "none", ~(p.floor > call.after)
      PROVE  \E i \in 1 .. Len(p.kept) : p.kept[i].of = r
  <2>0. /\ p.floor \in Nat /\ room.floor \in Nat /\ call.after \in Nat /\ room.latest \in Nat
        /\ Len(p.kept) = room.latest - p.floor /\ Len(room.kept) = room.latest - room.floor
    BY <1>1, <1>2 DEF ChatRooms, ChatCalls, Whole
  <2>1. PICK i \in 1 .. Len(room.kept) : room.kept[i].of = r BY <1>2, <1>4, <2>0 DEF Sent
  <2>3. i \in 1 .. room.latest - room.floor /\ room.floor + i > call.after BY <2>0, <1>1, <2>1 DEF Whole, Sent
  <2>4. PICK k : k = i - (p.floor - room.floor) OBVIOUS
  <2>5. k \in 1 .. room.latest - p.floor /\ p.floor - room.floor + k = i
    <3>1. PICK old \in Nat, new \in Nat, latest \in Nat, after \in Nat :
             old = room.floor /\ new = p.floor /\ latest = room.latest /\ after = call.after
      BY <2>0
    <3>2. i \in 1 .. latest - old /\ new >= old /\ old + i > after /\ ~(new > after) BY <1>2, <1>4, <2>3, <3>1
    <3>3. i - (new - old) \in 1 .. latest - new /\ new - old + (i - (new - old)) = i BY <3>2, ShiftedPlace
    <3> QED BY <2>4, <3>1, <3>3
  <2> QED BY <1>2, <2>0, <2>1, <2>5
<1> QED BY <1>2, <1>4 DEF Sent

------------------------
(* A message is posted and published.                                       *)

Extended(H, room, w) == [H EXCEPT ![room.gen][room.latest + 1] = w]

\* The room after a post: what was kept of the earlier messages, and the new one at the end.
LEMMA PostedIs ==
    ASSUME ScAssumption, scNow \in Nat, NEW H \in Histories, NEW p, RoomOk(p, H), NEW w \in Writers,
           NEW K, K = Extended(H, p, w), NEW new, new = Posted(p, w)
    PROVE  /\ K \in Histories /\ K[p.gen][p.latest + 1] = w /\ Grows(H, K, p.gen, p.latest + 1)
           /\ RoomOk(new, K) /\ new.gen = p.gen /\ new.latest = p.latest + 1
           /\ new.floor >= p.floor /\ new.floor < new.latest
           /\ \A i \in 1 .. Len(new.kept) :
                 \/ new.kept[i].of = w /\ new.kept[i].seq = new.latest
                 \/ new.floor - p.floor + i \in 1 .. Len(p.kept) /\ new.kept[i] = p.kept[new.floor - p.floor + i]
           /\ new.kept[Len(new.kept)].of = w /\ Len(new.kept) > 0
<1>1. /\ p \in ChatRooms /\ p.gen \in Nat /\ p.gen > 0 /\ p.latest \in Nat /\ p.floor \in Nat /\ p.kept \in Seq(ChatMsgs)
      /\ p.floor <= p.latest /\ Len(p.kept) = p.latest - p.floor
  BY DEF RoomOk, ChatRooms, Whole
<1>2. PICK msg \in ChatMsgs : msg = [seq |-> p.latest + 1, of |-> w, at |-> scNow]
  <2>1. [seq |-> p.latest + 1, of |-> w, at |-> scNow] \in ChatMsgs BY <1>1 DEF ChatMsgs
  <2> QED BY <2>1
<1>3. PICK app : app = [p EXCEPT !.latest = @ + 1, !.kept = Append(@, msg)] OBVIOUS
<1>4. new = Prune(app) BY <1>2, <1>3 DEF Posted
<1>5. PICK kept \in Seq(ChatMsgs) :
         /\ kept = Append(p.kept, msg) /\ Len(kept) = Len(p.kept) + 1 /\ kept[Len(p.kept) + 1] = msg
         /\ \A i \in 1 .. Len(p.kept) : kept[i] = p.kept[i]
  <2>1. PICK old \in Seq(ChatMsgs) : old = p.kept BY <1>1
  <2>2. /\ Append(old, msg) \in Seq(ChatMsgs) /\ Len(Append(old, msg)) = Len(old) + 1
        /\ Append(old, msg)[Len(old) + 1] = msg /\ \A i \in 1 .. Len(old) : Append(old, msg)[i] = old[i]
    OBVIOUS
  <2> QED BY <2>1, <2>2
<1>6. /\ app \in ChatRooms /\ app.gen = p.gen /\ app.latest = p.latest + 1 /\ app.floor = p.floor /\ app.kept = kept
  <2>1. app = [p EXCEPT !.latest = p.latest + 1, !.kept = kept] /\ p.latest + 1 \in Nat BY <1>1, <1>3, <1>5
  <2> QED BY <1>1, <2>1 DEF ChatRooms
<1>7. K \in Histories /\ K[p.gen][p.latest + 1] = w /\ \A n \in Nat : n # p.latest + 1 => K[p.gen][n] = H[p.gen][n]
  BY <1>1 DEF Extended, Histories
<1>8. Whole(app, K)
  <2>1. ASSUME NEW i \in 1 .. Len(kept)
        PROVE  kept[i].seq = p.floor + i /\ kept[i].of = K[p.gen][p.floor + i]
    <3>1. CASE i \in 1 .. Len(p.kept)
      <4>2. p.floor + i \in Nat /\ p.floor + i # p.latest + 1 BY <1>1, <3>1
      <4> QED BY <1>5, <1>7, <3>1, <4>2 DEF RoomOk, Whole
    <3>2. CASE i = Len(p.kept) + 1 BY <1>1, <3>2, <1>2, <1>5, <1>7
    <3> QED BY <3>1, <3>2, <1>1, <1>5
  <2>4. app.floor <= app.latest /\ Len(app.kept) = app.latest - app.floor BY <1>1, <1>6, <1>5
  <2> QED BY <1>6, <2>1, <2>4 DEF Whole
<1>9. app.kept # <<>> /\ app.kept[Len(app.kept)].at = scNow BY <1>2, <1>5, <1>6
<1>10. /\ new \in ChatRooms /\ new.gen = app.gen /\ new.latest = app.latest /\ new.floor >= app.floor
       /\ Whole(new, K) /\ Len(new.kept) <= ScKeep /\ new.floor < new.latest
       /\ \A i \in 1 .. Len(new.kept) :
             new.floor - app.floor + i \in 1 .. Len(app.kept) /\ new.kept[i] = app.kept[new.floor - app.floor + i]
  BY <1>4, <1>6, <1>7, <1>8, <1>9, PruneKeeps
<1>11. RoomOk(new, K) /\ new.gen = p.gen /\ new.latest = p.latest + 1 /\ new.floor >= p.floor
  BY <1>1, <1>6, <1>10 DEF RoomOk
<1>12. ASSUME NEW i \in 1 .. Len(new.kept)
       PROVE  \/ new.kept[i].of = w /\ new.kept[i].seq = new.latest
              \/ new.floor - p.floor + i \in 1 .. Len(p.kept) /\ new.kept[i] = p.kept[new.floor - p.floor + i]
  <2>1. PICK k : k = new.floor - p.floor + i OBVIOUS
  <2>2. k \in 1 .. Len(kept) /\ new.kept[i] = kept[k] BY <1>6, <1>10, <2>1
  <2> QED BY <1>2, <1>5, <1>6, <1>10, <2>1, <2>2, <1>1
<1>13. new.kept[Len(new.kept)].of = w /\ Len(new.kept) > 0
  <2>1. /\ new.floor \in Nat /\ new.latest \in Nat /\ Len(new.kept) = new.latest - new.floor
    BY <1>10 DEF ChatRooms, Whole
  <2>2. Len(new.kept) > 0 /\ new.floor + Len(new.kept) = p.latest + 1 /\ Len(new.kept) \in 1 .. Len(new.kept)
    <3> QED BY <2>1, <1>10, <1>11
  <2> QED BY <1>7, <1>10, <1>11, <2>2 DEF Whole
<1>14. Grows(H, K, p.gen, p.latest + 1) BY <1>1 DEF Extended, Histories, Grows
<1> QED BY <1>7, <1>10, <1>11, <1>12, <1>13, <1>14

\* A post of somebody else leaves a send as far from being repeated as it was.
LEMMA SentBeside ==
    ASSUME ScAssumption, scNow \in Nat, NEW H \in Histories, NEW p, RoomOk(p, H), NEW w \in Writers,
           NEW new, new = Posted(p, w), NEW may, NEW call \in ChatCalls, NEW posts, NEW r, r # w,
           Sent(p, may, call, posts, r)
    PROVE  Sent(new, may, call, posts, r)
<1>1. PICK K : K = Extended(H, p, w) OBVIOUS
<1>2. /\ RoomOk(new, K) /\ new.gen = p.gen /\ new.latest = p.latest + 1 /\ new.floor >= p.floor
      /\ \A i \in 1 .. Len(new.kept) :
            \/ new.kept[i].of = w /\ new.kept[i].seq = new.latest
            \/ new.floor - p.floor + i \in 1 .. Len(p.kept) /\ new.kept[i] = p.kept[new.floor - p.floor + i]
  BY <1>1, PostedIs
<1>3. /\ p.floor \in Nat /\ new.floor \in Nat /\ call.after \in Nat /\ p.latest \in Nat
      /\ Len(p.kept) = p.latest - p.floor /\ Len(new.kept) = new.latest - new.floor
  BY <1>2 DEF RoomOk, ChatRooms, ChatCalls, Whole
<1>5. ASSUME posts = 1, call.gen = new.gen, may # "none", ~(new.floor > call.after)
      PROVE  \E i \in 1 .. Len(new.kept) : new.kept[i].of = r
  <2>2. PICK i \in 1 .. Len(p.kept) : p.kept[i].of = r BY <1>2, <1>3, <1>5 DEF Sent
  <2>4. i \in 1 .. p.latest - p.floor /\ p.floor + i > call.after BY <1>3, <2>2 DEF RoomOk, Whole, Sent
  <2>5. PICK k : k = i - (new.floor - p.floor) OBVIOUS
  <2>6. k \in 1 .. p.latest - new.floor /\ new.floor - p.floor + k = i
    <3>1. new.floor >= p.floor /\ ~(new.floor > call.after) BY <1>2, <1>5
    <3>2. PICK old \in Nat, now \in Nat, latest \in Nat, after \in Nat :
             old = p.floor /\ now = new.floor /\ latest = p.latest /\ after = call.after
      BY <1>3
    <3>3. i \in 1 .. latest - old /\ now >= old /\ old + i > after /\ ~(now > after) BY <2>4, <3>1, <3>2
    <3>4. i - (now - old) \in 1 .. latest - now /\ now - old + (i - (now - old)) = i BY <3>3, ShiftedPlace
    <3> QED BY <2>5, <3>2, <3>4
  <2>7. k \in 1 .. Len(new.kept) /\ new.floor + k < new.latest
    <3> QED BY <1>3, <2>6, <1>2
  <2>8. new.kept[k].seq = new.floor + k BY <1>2, <2>7 DEF RoomOk, Whole
  <2> QED
    <3>1. new.kept[k].seq # new.latest BY <1>2, <1>3, <2>6, <2>7, <2>8
    <3> QED BY <2>2, <2>6, <2>7, <1>2, <3>1
<1> QED BY <1>2, <1>5 DEF Sent

\* The send that was posted is recognised from now on.
LEMMA SentPosted ==
    ASSUME ScAssumption, scNow \in Nat, NEW H \in Histories, NEW p, RoomOk(p, H), NEW w \in Writers,
           NEW new, new = Posted(p, w), NEW may, NEW call \in ChatCalls, Sent(p, may, call, 0, w),
           call.gen = p.gen, call.after <= p.latest
    PROVE  Sent(new, may, call, 1, w)
<1>1. PICK K : K = Extended(H, p, w) OBVIOUS
<1>2. /\ new.gen = p.gen /\ new.latest = p.latest + 1
      /\ \A i \in 1 .. Len(new.kept) :
            \/ new.kept[i].of = w /\ new.kept[i].seq = new.latest
            \/ new.floor - p.floor + i \in 1 .. Len(p.kept) /\ new.kept[i] = p.kept[new.floor - p.floor + i]
      /\ new.kept[Len(new.kept)].of = w /\ Len(new.kept) > 0 /\ RoomOk(new, K)
  BY <1>1, PostedIs
<1>3. new.latest > call.after BY <1>2 DEF RoomOk, ChatRooms, ChatCalls
<1>6. Len(new.kept) \in 1 .. Len(new.kept) BY <1>2
<1> QED BY <1>2, <1>3, <1>6 DEF Sent

\* The empty queue holds nothing.
LEMMA EmptyHasNone ==
    ASSUME NEW q, q = <<>>
    PROVE  ~(Len(q) > 0)
<1>1. Len(q) = 0 OBVIOUS
<1> QED OBVIOUS

\* A full subscription that loses its oldest update still holds a run.
LEMMA TailChain ==
    ASSUME NEW q \in Seq(Updates), Len(q) > 1, NEW g \in Nat, NEW H, NEW last \in Int, Chain(q, g, H, last),
           NEW rest, rest = Tail(q), NEW floor, \A i \in 1 .. Len(q) : q[i].floor <= floor
    PROVE  /\ rest \in Seq(Updates) /\ rest # <<>> /\ Chain(rest, g, H, last)
           /\ \A i \in 1 .. Len(rest) : rest[i].floor <= floor
<1>1. /\ rest \in Seq(Updates) /\ Len(rest) = Len(q) - 1 /\ Len(q) \in Nat
      /\ \A i \in 1 .. Len(rest) : rest[i] = q[i + 1]
  OBVIOUS
<1>2. Len(rest) <= Len(q) /\ \A i \in 1 .. Len(rest) : i + 1 \in 1 .. Len(q) /\ Len(q) - Len(rest) + i = i + 1 BY <1>1
<1>4. Len(rest) > 0 OBVIOUS
<1>5. rest # <<>> BY <1>4, EmptyHasNone
<1> QED BY <1>1, <1>2, ChainEnds, <1>5

\* An update appended to the second part is appended to both.
LEMMA Concatenated ==
    ASSUME NEW p \in Seq(Updates), NEW q \in Seq(Updates), NEW u \in Updates
    PROVE  p \o q \in Seq(Updates) /\ p \o Append(q, u) = Append(p \o q, u)
  OBVIOUS

\* A bound on the floors of both parts.
LEMMA FloorsOfBoth ==
    ASSUME NEW p \in Seq(Updates), NEW q \in Seq(Updates), NEW r \in Seq(Updates), r = p \o q, NEW floor,
           \A i \in 1 .. Len(p) : p[i].floor <= floor, \A i \in 1 .. Len(q) : q[i].floor <= floor
    PROVE  \A i \in 1 .. Len(r) : r[i].floor <= floor
OBVIOUS

Sends(sub, queue, to) ==
    to = IF ~sub.on THEN sub
         ELSE IF Len(queue) > ScKeep THEN [sub EXCEPT !.queue = Tail(queue), !.lagged = TRUE]
              ELSE [sub EXCEPT !.queue = queue]

\* What a subscription holds after an update was sent to it.
LEMMA SubTakes ==
    ASSUME ScAssumption, NEW queue \in Seq(Updates), NEW new \in ChatRooms, NEW H, queue # <<>>,
           Chain(queue, new.gen, H, new.latest), \A i \in 1 .. Len(queue) : queue[i].floor <= new.floor,
           NEW sub \in [on : BOOLEAN, queue : Seq(Updates), lagged : BOOLEAN], sub.on,
           NEW to, Sends(sub, queue, to)
    PROVE  SubOk(to, new, H) /\ (Hears(to) => Hears(sub) /\ to.queue = queue)
<1>1. new.gen \in Nat /\ new.latest \in Int /\ new.floor \in Nat BY DEF ChatRooms
<1>2. CASE Len(queue) > ScKeep
  <2>1. PICK rest : rest = Tail(queue) OBVIOUS
  <2>2. Len(queue) > 1 BY <1>2
  <2>3. /\ rest \in Seq(Updates) /\ rest # <<>> /\ Chain(rest, new.gen, H, new.latest)
        /\ \A i \in 1 .. Len(rest) : rest[i].floor <= new.floor
    <3>1. PICK g \in Nat, l \in Int, floor \in Nat : g = new.gen /\ l = new.latest /\ floor = new.floor BY <1>1
    <3>2. Chain(queue, g, H, l) /\ \A i \in 1 .. Len(queue) : queue[i].floor <= floor BY <3>1
    <3>3. /\ rest \in Seq(Updates) /\ rest # <<>> /\ Chain(rest, g, H, l)
          /\ \A i \in 1 .. Len(rest) : rest[i].floor <= floor
      BY <2>1, <2>2, <3>2, TailChain
    <3> QED BY <3>1, <3>3
  <2> QED BY <2>3, <1>2, <2>1 DEF SubOk, Hears, Sends
<1> QED BY <1>2 DEF Sends, SubOk, Hears

UpdateOf(new, w) == [gen |-> new.gen, floor |-> new.floor, seq |-> new.latest, of |-> w]

Tells(sub, new, w, to) == Sends(sub, Append(sub.queue, UpdateOf(new, w)), to)

\* The update of a post is sent to the subscription; nothing that is known changes.
LEMMA PublishedHolds ==
    ASSUME ScAssumption, scNow \in Nat, NEW H \in Histories, NEW p, RoomOk(p, H), NEW w \in Writers,
           NEW K, K = Extended(H, p, w), NEW new, new = Posted(p, w),
           NEW lives \in BOOLEAN, lives, NEW sub, NEW b, SubOk(sub, p, H), BrowserOk(b, p, lives, H), LiveOk(sub, b, p, H),
           NEW to, Tells(sub, new, w, to)
    PROVE  SubOk(to, new, K) /\ BrowserOk(b, new, lives, K) /\ LiveOk(to, b, new, K)
<1>0. PICK u, queue : u = UpdateOf(new, w) /\ queue = Append(sub.queue, u) /\ Sends(sub, queue, to) BY DEF Tells
<1>1. /\ K \in Histories /\ K[p.gen][p.latest + 1] = w /\ RoomOk(new, K) /\ Grows(H, K, p.gen, p.latest + 1)
      /\ new.gen = p.gen /\ new.latest = p.latest + 1 /\ new.floor >= p.floor /\ new.floor < new.latest
  BY PostedIs
<1>2. PICK g \in Nat, l \in Nat : g = p.gen /\ l = p.latest BY DEF RoomOk, ChatRooms
<1>3. /\ new.gen = g /\ new.latest = l + 1 /\ new.floor \in Nat /\ p.floor \in Nat /\ g > 0
      /\ new.latest - new.floor <= ScKeep /\ l + 1 \in Nat /\ Grows(H, K, g, l + 1) /\ K[g][l + 1] = w
  BY <1>1, <1>2 DEF RoomOk, ChatRooms, Whole
<1>4. /\ u \in Updates /\ u.gen = g /\ u.seq = l + 1 /\ u.of = K[g][u.seq] /\ u.floor = new.floor
      /\ u.floor < u.seq /\ u.seq - u.floor <= ScKeep
  BY <1>0, <1>1, <1>3 DEF Updates, UpdateOf
  \* A run of updates up to the room's latest takes one more.
<1>5. ASSUME NEW q \in Seq(Updates), Chain(q, p.gen, H, p.latest), \A i \in 1 .. Len(q) : q[i].floor <= p.floor
      PROVE  /\ Append(q, u) \in Seq(Updates) /\ Chain(Append(q, u), g, K, l + 1)
             /\ \A i \in 1 .. Len(Append(q, u)) : Append(q, u)[i].floor <= new.floor
  <2>1. Chain(q, g, K, l) BY <1>2, <1>5, <1>1, <1>3, ChainGrows
  <2>2. \A i \in 1 .. Len(q) : q[i] \in Updates /\ q[i].floor <= u.floor
    <3>1. ASSUME NEW i \in 1 .. Len(q)
          PROVE  q[i] \in Updates /\ q[i].floor <= p.floor
      BY <1>5
    <3> QED
      <4>1. \A n \in Nat : n <= p.floor => n <= u.floor BY <1>1, <1>3, <1>4
      <4> QED BY <3>1, <4>1 DEF Updates
  <2>3. Chain(Append(q, u), g, K, l + 1) BY <1>4, <2>1, <2>2, ChainAppends
  <2>4. /\ Append(q, u) \in Seq(Updates) /\ Len(Append(q, u)) = Len(q) + 1 /\ Append(q, u)[Len(q) + 1] = u
        /\ \A i \in 1 .. Len(q) : Append(q, u)[i] = q[i]
    BY <1>4
  <2>5. \A i \in 1 .. Len(q) + 1 : i \in 1 .. Len(q) \/ i = Len(q) + 1 OBVIOUS
  <2> QED BY <1>3, <1>4, <2>2, <2>3, <2>4, <2>5
<1>6. BrowserOk(b, new, lives, K)
  <2>1. ASSUME NEW v \in Views(H), Behind(p, lives, v.gen, v.latest)
        PROVE  v \in Views(K) /\ Behind(new, lives, v.gen, v.latest)
    BY <1>2, <2>1, <1>1, <1>3, ViewGrows DEF Behind, Views
  <2>3. b \in Browsers(K) BY <2>1 DEF BrowserOk, Browsers
  <2>5. \E h, last \in Nat : Behind(new, lives, h, last) /\ Chain(b.buffer, h, K, last)
    <3>1. PICK h \in Nat, last \in Nat : Behind(p, lives, h, last) /\ Chain(b.buffer, h, H, last) BY DEF BrowserOk
    <3>2. (h = g => last < l + 1) /\ Behind(new, lives, h, last) BY <1>2, <1>3, <3>1 DEF Behind
    <3>4. Chain(b.buffer, h, K, last)
      <4>1. last \in Int /\ K \in Histories /\ l + 1 \in Nat /\ Grows(H, K, g, l + 1) /\ b.buffer \in Seq(Updates)
        BY <1>1, <1>3 DEF BrowserOk, Browsers
      <4> QED BY <3>1, <3>2, <4>1, ChainGrows, Zenon
    <3> QED BY <3>2, <3>4
  <2> QED BY <2>1, <2>3, <2>5 DEF BrowserOk, Browsers
<1>7. CASE ~sub.on
  <2>1. to = NoSub /\ sub = NoSub BY <1>0, <1>7 DEF SubOk, Sends
  <2>2. ~Hears(to) /\ ~to.on /\ ~to.lagged /\ to.queue = <<>> /\ to \in [on : BOOLEAN, queue : Seq(Updates), lagged : BOOLEAN]
    BY <2>1 DEF NoSub, Hears, SubOk
  <2>3. SubOk(to, new, K) BY <2>1, <2>2 DEF SubOk, Chain
  <2> QED BY <1>6, <2>2, <2>3 DEF LiveOk
<1>8. CASE sub.on
  <2>1. PICK old \in Seq(Updates) : old = sub.queue BY DEF SubOk
  <2>2. /\ sub \in [on : BOOLEAN, queue : Seq(Updates), lagged : BOOLEAN]
        /\ Chain(old, p.gen, H, p.latest) /\ \A i \in 1 .. Len(old) : old[i].floor <= p.floor
    BY <2>1 DEF SubOk
  <2>3. /\ queue \in Seq(Updates) /\ Chain(queue, new.gen, K, new.latest)
        /\ \A i \in 1 .. Len(queue) : queue[i].floor <= new.floor
    BY <1>0, <1>3, <1>5, <2>1, <2>2
  <2>4. queue # <<>> /\ Len(queue) = Len(old) + 1 /\ Len(old) \in Nat BY <1>0, <2>1
  <2>5. new \in ChatRooms BY <1>1 DEF RoomOk
  <2>7. SubOk(to, new, K) /\ (Hears(to) => Hears(sub) /\ to.queue = queue)
    <3>1. PICK s \in [on : BOOLEAN, queue : Seq(Updates), lagged : BOOLEAN], q \in Seq(Updates) : s = sub /\ q = queue
      BY <2>2, <2>3
    <3> QED BY <3>1, <2>5, <1>0, <1>8, <2>3, <2>4, SubTakes
  <2>8. ASSUME Hears(to), b.at = "reading"
        PROVE  /\ Chain(b.buffer \o queue, new.gen, K, new.latest)
               /\ \A i \in 1 .. Len(b.buffer) : b.buffer[i].floor <= new.floor
    <3>1. PICK buffer \in Seq(Updates) : buffer = b.buffer BY DEF BrowserOk, Browsers
    <3>2. Chain(buffer \o old, p.gen, H, p.latest) /\ \A i \in 1 .. Len(buffer) : buffer[i].floor <= p.floor
      BY <2>1, <2>7, <2>8, <3>1 DEF LiveOk
    <3>3. PICK q \in Seq(Updates) : q = buffer \o old BY <1>4, Concatenated
    <3>4. (\A i \in 1 .. Len(q) : q[i].floor <= p.floor) /\ buffer \o queue = Append(q, u)
      BY <2>2, <3>2, <3>3, <1>0, <2>1
    <3>6. \A i \in 1 .. Len(buffer) : buffer[i].floor <= new.floor
      <4>2. ASSUME NEW i \in 1 .. Len(buffer)
            PROVE  buffer[i].floor \in Nat
        <5>1. buffer[i] \in Updates OBVIOUS
        <5> QED BY <5>1 DEF Updates
      <4> QED BY <3>2, <1>1, <1>3, <4>2
    <3> QED BY <1>3, <3>1, <3>4, <1>5, <3>2, <3>3, <3>6
  <2>9. new.latest - Len(queue) = p.latest - Len(old)
    <3>1. new.latest = l + 1 /\ p.latest = l BY <1>2, <1>3
    <3>2. PICK n \in Nat : n = Len(old) OBVIOUS
    <3> QED BY <3>1, <2>4
  <2> QED BY <1>6, <2>7, <1>1, <2>1, <2>8, <2>9 DEF LiveOk
<1> QED BY <1>7, <1>8
------------------------
(* The browser's connection.                                                *)

\* The empty view is one.
LEMMA NoViewIs ==
    ASSUME ScAssumption, NEW H \in Histories
    PROVE  NoView \in Views(H)
<1>1. Span(H, 0, 0, 0) = <<>> BY DEF Span
<1> QED BY <1>1, ViewIs DEF NoView

\* No updates are a run.
LEMMA NothingChained ==
    ASSUME NEW g, NEW H, NEW last
    PROVE  Chain(<<>>, g, H, last) /\ <<>> \in Seq(Updates) /\ Len(<<>>) = 0
BY DEF Chain

\* A connection that shows nothing yet, or no longer.
LEMMA IdleHolds ==
    ASSUME ScAssumption, NEW H \in Histories, NEW room, RoomOk(room, H), NEW lives \in BOOLEAN,
           NEW at \in {"off", "reading", "failed"}, NEW http \in {"none", "asked", "read", "refused"},
           NEW b, b = [at |-> at, http |-> http, read |-> NoView, buffer |-> <<>>, view |-> NoView, gap |-> FALSE],
           NEW sub
    PROVE  BrowserOk(b, room, lives, H) /\ (at # "reading" => LiveOk(sub, b, room, H))
BY NoViewIs, NothingChained DEF NoView, Browsers, Behind, RoomOk, ChatRooms, Meets, BrowserOk, LiveOk

\* A browser that gave up holds nothing that could be wrong.
LEMMA LostHolds ==
    ASSUME ScAssumption, NEW H \in Histories, NEW room, RoomOk(room, H), NEW lives \in BOOLEAN, NEW sub,
           NEW b, b.gap = FALSE, b.http \in {"none", "asked", "read", "refused"}, NEW to, to = Lost(b)
    PROVE  BrowserOk(to, room, lives, H) /\ LiveOk(sub, to, room, H)
<1>1. PICK at \in {"off", "reading", "failed"}, http \in {"none", "asked", "read", "refused"} : at = "failed" /\ http = b.http
  OBVIOUS
<1>2. to = [at |-> at, http |-> http, read |-> NoView, buffer |-> <<>>, view |-> NoView, gap |-> FALSE]
  BY <1>1 DEF Lost, OffLine
<1> QED BY <1>1, <1>2, IdleHolds

\* A new entry keeps nothing.
LEMMA NewRoomHolds ==
    ASSUME ScAssumption, NEW H \in Histories, NEW g \in Nat, g > 0, NEW room, room = NewRoom(g)
    PROVE  RoomOk(room, H)
BY DEF NewRoom, ChatRooms, RoomOk, Whole

\* A new subscription has nothing to deliver.
LEMMA NoSubHolds ==
    ASSUME NEW H, NEW room, NEW on \in BOOLEAN, NEW sub, sub = [on |-> on, queue |-> <<>>, lagged |-> FALSE]
    PROVE  SubOk(sub, room, H)
<1>3. 1 .. 0 = {} OBVIOUS
<1> QED BY NothingChained, <1>3 DEF SubOk, NoSub

\* What a view becomes with the updates that meet it.
LEMMA TakeInHolds ==
    ASSUME ScAssumption, NEW H \in Histories, NEW room, RoomOk(room, H), NEW lives \in BOOLEAN,
           NEW b, BrowserOk(b, room, lives, H), NEW v \in Views(H), Behind(room, lives, v.gen, v.latest),
           NEW q \in Seq(Updates), NEW g \in Nat, NEW last \in Nat, Chain(q, g, H, last), Behind(room, lives, g, last),
           Meets(q, v), NEW to, to = TakeIn(b, v, q), NEW sub, NEW sent \in Int, sent = room.latest - Len(sub.queue),
           Hears(sub) => v.gen = room.gen /\ (sent <= v.latest \/ (q # <<>> /\ sent <= last))
    PROVE  BrowserOk(to, room, lives, H) /\ LiveOk(sub, to, room, H)
<1>1. PICK m : m = Merged(v, q) OBVIOUS
<1>2. CASE OneLife(v, q)
  <2>1. /\ Agrees(v, q) /\ Complete(m) /\ m \in Views(H) /\ m.gen = v.gen
        /\ m.latest = IF q # <<>> /\ last > v.latest THEN last ELSE v.latest
    BY <1>1, <1>2, MergedIs
  <2>3. q # <<>> => g = v.gen
    <3>1. ASSUME q # <<>>
          PROVE  g = v.gen
      <4> QED BY <1>2, <3>1 DEF OneLife, Chain, Range
    <3> QED BY <3>1
  <2>4. v.latest \in Nat /\ m.latest \in Nat /\ room.latest \in Nat BY <2>1 DEF Views, RoomOk, ChatRooms
  <2>6. Chain(<<>>, 0, H, 0) /\ <<>> \in Seq(Updates) BY NothingChained
  <2>8. /\ to \in Browsers(H) /\ to.at = "shown" /\ to.view = m /\ to.buffer = <<>> /\ to.gap = b.gap
        /\ to.read = b.read /\ to.http = b.http
    BY <2>1, <1>1, <1>2, <2>6 DEF Browsers, TakeIn, BrowserOk
  <2>9. Behind(room, lives, 0, 0) BY DEF Behind, RoomOk, ChatRooms
  <2>10. BrowserOk(to, room, lives, H)
    <3>1. Behind(room, lives, m.gen, m.latest) BY <2>1, <2>3, <2>4 DEF Behind
    <3> QED BY <3>1, <2>6, <2>8, <2>9 DEF BrowserOk, Meets
  <2>11. Hears(sub) => m.gen = room.gen /\ sent <= m.latest BY <2>1, <2>4
  <2> QED BY <2>8, <2>10, <2>11 DEF LiveOk
<1>3. CASE ~OneLife(v, q)
  <2>2. to = Lost([b EXCEPT !.gap = OneLife(v, q)]) /\ OneLife(v, q) = FALSE BY <1>3 DEF TakeIn
  <2>3. PICK c : c = [b EXCEPT !.gap = OneLife(v, q)] OBVIOUS
  <2>4. c.gap = FALSE /\ c.http = b.http /\ b.http \in {"none", "asked", "read", "refused"}
    BY <2>2, <2>3 DEF Browsers, BrowserOk
  <2>5. to = Lost(c) BY <2>2, <2>3
  <2> QED BY <2>4, <2>5, LostHolds
<1> QED BY <1>2, <1>3

\* The browser reads a snapshot while its subscription already collects updates.
LEMMA ReadHolds ==
    ASSUME ScAssumption, NEW H \in Histories, NEW p, RoomOk(p, H), NEW sub, SubOk(sub, p, H), NEW b,
           NEW lives \in BOOLEAN, lives, BrowserOk(b, p, lives, H), LiveOk(sub, b, p, H),
           NEW to, to = [b EXCEPT !.http = "read", !.read = ScSnapshot(p)]
    PROVE  BrowserOk(to, p, lives, H) /\ LiveOk(sub, to, p, H)
<1>1. PICK v : v = ScSnapshot(p) OBVIOUS
<1>2. p \in ChatRooms /\ Whole(p, H) /\ Len(p.kept) <= ScKeep /\ p.latest \in Nat /\ p.gen \in Nat
  BY DEF RoomOk, ChatRooms
<1>3. v \in Views(H) /\ v.gen = p.gen /\ v.latest = p.latest BY <1>1, <1>2, SnapshotIs
<1>4. b \in Browsers(H) BY DEF BrowserOk
<1>5. /\ to \in Browsers(H) /\ to.at = b.at /\ to.view = b.view /\ to.buffer = b.buffer /\ to.gap = b.gap
      /\ to.read = v /\ to.http = "read"
  BY <1>1, <1>3, <1>4 DEF Browsers
<1>7. Meets(b.buffer, v)
  <2>1. PICK g \in Nat, last \in Nat : Behind(p, lives, g, last) /\ Chain(b.buffer, g, H, last) BY DEF BrowserOk
  <2>2. ASSUME b.buffer # <<>>, b.buffer[1].gen = v.gen
        PROVE  b.buffer[1].seq <= v.latest + 1
    BY <1>4, <2>2, <2>1, <1>3, <1>2 DEF Browsers, Chain, Behind
  <2> QED BY <2>2 DEF Meets
<1>9. p.latest - Len(sub.queue) <= v.latest BY <1>2, <1>3
<1> QED BY <1>5, <1>2, <1>3, <1>7, <1>9 DEF BrowserOk, LiveOk, Behind

\* The snapshot arrives, and what was collected is merged into it.
LEMMA ArrivesHolds ==
    ASSUME ScAssumption, NEW H \in Histories, NEW room, RoomOk(room, H), NEW sub, SubOk(sub, room, H), NEW b,
           NEW lives \in BOOLEAN, BrowserOk(b, room, lives, H), LiveOk(sub, b, room, H),
           b.http \in {"read", "refused"}, NEW rest, rest = [b EXCEPT !.http = "none", !.read = NoView],
           NEW to, to = IF b.at # "reading" THEN rest ELSE IF b.http = "refused" THEN Lost(rest)
                        ELSE TakeIn(rest, b.read, b.buffer)
    PROVE  BrowserOk(to, room, lives, H) /\ LiveOk(sub, to, room, H)
<1>1. b \in Browsers(H) BY DEF BrowserOk
<1>2. NoView \in Views(H) /\ NoView.gen = 0 /\ Behind(room, lives, 0, NoView.latest)
  BY NoViewIs DEF NoView, Behind, RoomOk, ChatRooms
<1>3. /\ rest \in Browsers(H) /\ rest.at = b.at /\ rest.view = b.view /\ rest.buffer = b.buffer /\ rest.gap = b.gap
      /\ rest.read = NoView /\ rest.http = "none"
  BY <1>1, <1>2 DEF Browsers
<1>4. BrowserOk(rest, room, lives, H) BY <1>2, <1>3 DEF BrowserOk
<1>6. CASE b.at = "reading" /\ b.http = "refused"
  <2>1. to = Lost(rest) /\ b.gap = FALSE BY <1>1, <1>6 DEF BrowserOk, Browsers
  <2> QED BY <2>1, <1>3, LostHolds
<1>7. CASE b.at = "reading" /\ b.http = "read"
  <2>1. PICK g \in Nat, last \in Nat : Behind(room, lives, g, last) /\ Chain(b.buffer, g, H, last) BY DEF BrowserOk
  <2>2. PICK q \in Seq(Updates), v \in Views(H) : q = b.buffer /\ v = b.read BY <1>1 DEF Browsers
  <2>3. Behind(room, lives, v.gen, v.latest) /\ Meets(q, v) BY <1>7, <2>2 DEF BrowserOk
  <2>4. PICK queue \in Seq(Updates) : queue = sub.queue BY DEF SubOk
  <2>5. PICK sent \in Int : sent = room.latest - Len(queue) BY DEF RoomOk, ChatRooms
  <2>6. Hears(sub) => v.gen = room.gen /\ (sent <= v.latest \/ (q # <<>> /\ sent <= last))
    <3>1. ASSUME Hears(sub)
          PROVE  /\ v.gen = room.gen /\ Chain(q \o queue, room.gen, H, room.latest)
                 /\ (q = <<>> => sent <= v.latest)
      BY <1>7, <2>2, <2>4, <2>5, <3>1 DEF LiveOk
    <3>2. ASSUME Hears(sub), q # <<>>
          PROVE  sent <= last
      <4>2. Chain(q, room.gen, H, sent) BY <2>5, <3>1, <3>2, ChainStarts DEF RoomOk, ChatRooms
      <4>3. Len(q) \in 1 .. Len(q) /\ Len(q) \in Nat BY <3>2
      <4>5. PICK n \in Nat : n = Len(q) OBVIOUS
      <4> QED BY <2>1, <2>2, <4>2, <4>3 DEF Chain
    <3> QED BY <3>1, <3>2
  <2> QED BY <1>4, <2>1, <2>3, <2>6, <1>7, <2>2, <2>4, <2>5, TakeInHolds
<1> QED BY <1>3, <1>4, <1>6, <1>7 DEF LiveOk
\* Two parts joined, place by place.
LEMMA JoinedIs ==
    ASSUME NEW p \in Seq(Updates), NEW q \in Seq(Updates), NEW r, r = p \o q
    PROVE  /\ r \in Seq(Updates) /\ Len(r) = Len(p) + Len(q) /\ Len(p) \in Nat /\ Len(q) \in Nat
           /\ (\A i \in 1 .. Len(p) : r[i] = p[i]) /\ \A i \in 1 .. Len(q) : r[Len(p) + i] = q[i]
  OBVIOUS

\* One more, place by place.
LEMMA AppendIs ==
    ASSUME NEW p \in Seq(Updates), NEW u \in Updates, NEW r, r = Append(p, u)
    PROVE  /\ r \in Seq(Updates) /\ Len(r) = Len(p) + 1 /\ Len(p) \in Nat /\ r[Len(p) + 1] = u
           /\ \A i \in 1 .. Len(p) : r[i] = p[i]
  OBVIOUS

\* A run of one update.
LEMMA OneUpdate ==
    ASSUME NEW u \in Updates, NEW q, q = <<u>>
    PROVE  q \in Seq(Updates) /\ Len(q) = 1 /\ q[1] = u /\ q # <<>>
OBVIOUS

\* Sequences equal at every place.
LEMMA SameSequence ==
    ASSUME NEW p \in Seq(Updates), NEW q \in Seq(Updates), Len(p) = Len(q), \A i \in 1 .. Len(p) : p[i] = q[i]
    PROVE  p = q
  OBVIOUS

\* The end of a run, and what follows it, is the end of both.
LEMMA EndsJoined ==
    ASSUME NEW p \in Seq(Updates), NEW q \in Seq(Updates), NEW rest \in Seq(Updates), NEW g \in Nat, NEW H,
           NEW last \in Int, Chain(p \o rest, g, H, last), Len(q) <= Len(p),
           \A i \in 1 .. Len(q) : q[i] = p[Len(p) - Len(q) + i]
    PROVE  Chain(q \o rest, g, H, last)
<1>1. PICK a, b : a = p \o rest /\ b = q \o rest OBVIOUS
<1>2. /\ a \in Seq(Updates) /\ b \in Seq(Updates) /\ Len(a) = Len(p) + Len(rest) /\ Len(b) = Len(q) + Len(rest)
      /\ Len(p) \in Nat /\ Len(q) \in Nat /\ Len(rest) \in Nat
      /\ (\A i \in 1 .. Len(p) : a[i] = p[i]) /\ (\A i \in 1 .. Len(rest) : a[Len(p) + i] = rest[i])
      /\ (\A i \in 1 .. Len(q) : b[i] = q[i]) /\ \A i \in 1 .. Len(rest) : b[Len(q) + i] = rest[i]
  BY <1>1
<1>3. ASSUME NEW i \in 1 .. Len(b)
      PROVE  b[i] = a[Len(a) - Len(b) + i]
  <2>1. Len(a) - Len(b) + i = Len(p) - Len(q) + i BY <1>2
  <2>2. CASE i \in 1 .. Len(q)
    <3>1. Len(p) - Len(q) + i \in 1 .. Len(p) BY <2>2
    <3> QED BY <2>1, <2>2, <1>2, <3>1
  <2>3. CASE i \notin 1 .. Len(q)
    <3>1. PICK k \in 1 .. Len(rest) : i = Len(q) + k
      <4>1. i - Len(q) \in 1 .. Len(rest) /\ i = Len(q) + (i - Len(q)) BY <1>2, <2>3
      <4> QED BY <4>1
    <3> QED BY <3>1, <1>2
  <2> QED BY <2>2, <2>3
<1>4. Chain(a, g, H, last) /\ Len(b) <= Len(a) BY <1>1
<1>5. Chain(b, g, H, last) BY <1>2, <1>3, <1>4, ChainEnds
<1> QED BY <1>1, <1>5

\* The next update and those after it.
LEMMA HeadAndTail ==
    ASSUME NEW q \in Seq(Updates), q # <<>>, NEW u, u = Head(q), NEW rest, rest = Tail(q)
    PROVE  /\ u \in Updates /\ rest \in Seq(Updates) /\ Len(q) \in Nat /\ Len(q) >= 1 /\ Len(rest) = Len(q) - 1
           /\ u = q[1] /\ \A i \in 1 .. Len(rest) : i + 1 \in 1 .. Len(q) /\ rest[i] = q[i + 1]
  OBVIOUS

\* Moving the next update to the buffer keeps the run.
LEMMA HeadMoves ==
    ASSUME NEW p \in Seq(Updates), NEW u \in Updates, NEW q \in Seq(Updates), q # <<>>, u = Head(q),
           NEW rest, rest = Tail(q), NEW all, all = Append(p, u)
    PROVE  all \o rest = p \o q
<1>2. /\ all \in Seq(Updates) /\ rest \in Seq(Updates)
      /\ Len(all) = Len(p) + 1 /\ Len(p) \in Nat /\ Len(q) \in Nat /\ Len(rest) = Len(q) - 1 /\ Len(q) >= 1
      /\ all[Len(p) + 1] = u /\ u = q[1] /\ (\A i \in 1 .. Len(p) : all[i] = p[i])
      /\ \A i \in 1 .. Len(rest) : rest[i] = q[i + 1]
  BY AppendIs, HeadAndTail
<1>3. PICK x, y : x = all \o rest /\ y = p \o q OBVIOUS
<1>4. /\ x \in Seq(Updates) /\ y \in Seq(Updates)
      /\ Len(x) = Len(all) + Len(rest) /\ Len(y) = Len(p) + Len(q) /\ Len(x) = Len(y)
      /\ (\A i \in 1 .. Len(all) : x[i] = all[i]) /\ (\A i \in 1 .. Len(rest) : x[Len(all) + i] = rest[i])
      /\ (\A i \in 1 .. Len(p) : y[i] = p[i]) /\ \A i \in 1 .. Len(q) : y[Len(p) + i] = q[i]
  BY <1>2, <1>3, JoinedIs
<1>5. ASSUME NEW i \in 1 .. Len(x)
      PROVE  x[i] = y[i]
  <2>1. CASE i \in 1 .. Len(p)
    <3>1. i \in 1 .. Len(all) BY <1>2, <2>1
    <3> QED BY <1>2, <1>4, <2>1, <3>1, Zenon
  <2>2. CASE i = Len(p) + 1
    <3>1. 1 \in 1 .. Len(q) /\ i \in 1 .. Len(all) BY <1>2, <2>2
    <3> QED BY <1>2, <1>4, <2>2, <3>1
  <2>3. CASE i > Len(p) + 1
    <3>1. PICK k \in 1 .. Len(rest) : i = Len(p) + 1 + k
      <4>1. i - (Len(p) + 1) \in 1 .. Len(rest) /\ i = Len(p) + 1 + (i - (Len(p) + 1)) BY <1>4, <2>3
      <4> QED BY <4>1
    <3>2. i = Len(all) + k /\ i = Len(p) + (k + 1) /\ k + 1 \in 1 .. Len(q) BY <1>2, <3>1
    <3>3. x[Len(all) + k] = rest[k] /\ y[Len(p) + (k + 1)] = q[k + 1] /\ rest[k] = q[k + 1] BY <1>2, <1>4, <3>2
    <3> QED BY <3>2, <3>3
  <2> QED
    <3>1. i \in Nat /\ i >= 1 /\ Len(p) \in Nat BY <1>2, <1>4
    <3> QED BY <2>1, <2>2, <2>3, <3>1
<1>6. x = y BY <1>4, <1>5, SameSequence
<1> QED OBVIOUS

InRun(q, all, u, rest, g, H, latest) ==
    /\ EndOf(q, all, u) /\ Chain(q \o rest, g, H, latest)
    /\ \E last \in Nat : last <= latest /\ Chain(q, g, H, last) /\ Chain(all, g, H, last)

\* What a buffer becomes when an update joins it, before the rest of a run.
LEMMA WaitsInRun ==
    ASSUME ScAssumption, NEW H, NEW g \in Nat, NEW latest \in Nat, NEW buffer \in Seq(Updates), NEW u \in Updates,
           NEW rest \in Seq(Updates), NEW all, all = Append(buffer, u), Chain(all \o rest, g, H, latest),
           NEW q, q = Buffered(buffer, u)
    PROVE  InRun(q, all, u, rest, g, H, latest)
<1>1. all \in Seq(Updates) /\ latest \in Int /\ Len(rest) \in Nat /\ latest - Len(rest) \in Int OBVIOUS
<1>2. PICK last \in Int : last = latest - Len(rest) BY <1>1
<1>3. Chain(all, g, H, last) BY <1>1, <1>2, ChainStarts
<1>8. EndOf(q, all, u) BY <1>1, <1>3, BufferedIs
<1>4. /\ q \in Seq(Updates) /\ Len(q) \in 1 .. ScKeep /\ Len(q) <= Len(all) /\ q[Len(q)] = u
      /\ \A i \in 1 .. Len(q) : q[i] = all[Len(all) - Len(q) + i]
  BY <1>8 DEF EndOf
<1>5. Chain(q, g, H, last) BY <1>1, <1>3, <1>4, ChainEnds
<1>7. last \in Nat /\ last <= latest
  <2>1. Len(q) \in 1 .. Len(q) /\ Len(q) \in Nat BY <1>4
  <2>2. q[Len(q)].seq = last - Len(q) + Len(q) /\ u.seq \in Nat BY <1>5, <2>1 DEF Chain, Updates
  <2>3. last = u.seq BY <1>4, <2>2
  <2> QED BY <1>2, <2>2, <2>3
<1> QED BY <1>3, <1>5, <1>1, <1>4, EndsJoined, <1>7, <1>8 DEF InRun

\* The next update is not past the one after the view.
LEMMA OneLess ==
    ASSUME NEW latest \in Nat, NEW n \in Nat, NEW seen \in Nat, latest - n <= seen, NEW seq, seq = latest - n + 1
    PROVE  seq <= seen + 1
  OBVIOUS

Heard(sub, rest, to) == to = [sub EXCEPT !.queue = rest]
Waits(b, q, to) == to = [b EXCEPT !.buffer = q]

\* An update waits for the snapshot.
LEMMA WaitsHolds ==
    ASSUME ScAssumption, NEW H \in Histories, NEW room, RoomOk(room, H), NEW sub, SubOk(sub, room, H), NEW b,
           NEW lives \in BOOLEAN, BrowserOk(b, room, lives, H), LiveOk(sub, b, room, H),
           Hears(sub), b.at = "reading", NEW buffer, buffer = b.buffer, NEW queue, queue = sub.queue, queue # <<>>,
           NEW u, u = Head(queue), NEW rest, rest = Tail(queue), NEW q, q = Buffered(buffer, u),
           NEW heard, Heard(sub, rest, heard), SubOk(heard, room, H), NEW to, Waits(b, q, to)
    PROVE  Len(q) <= ScKeep /\ BrowserOk(to, room, lives, H) /\ LiveOk(heard, to, room, H)
<1>1. /\ b \in Browsers(H) /\ buffer \in Seq(Updates) /\ queue \in Seq(Updates)
      /\ sub \in [on : BOOLEAN, queue : Seq(Updates), lagged : BOOLEAN]
  BY DEF BrowserOk, Browsers, SubOk
<1>2. u \in Updates /\ rest \in Seq(Updates) /\ u = queue[1] /\ 1 \in 1 .. Len(queue) /\ Len(rest) = Len(queue) - 1
  BY <1>1
<1>3. PICK g \in Nat, latest \in Nat : g = room.gen /\ latest = room.latest BY DEF RoomOk, ChatRooms
<1>4. PICK all : all = Append(buffer, u) OBVIOUS
<1>5. /\ all \in Seq(Updates) /\ Len(all) = Len(buffer) + 1 /\ Len(buffer) \in Nat /\ all[Len(buffer) + 1] = u
      /\ \A i \in 1 .. Len(buffer) : all[i] = buffer[i]
  BY <1>1, <1>4
<1>6. Chain(all \o rest, g, H, latest)
  <2>1. all \o rest = buffer \o queue BY <1>1, <1>4
  <2> QED BY <1>3, <2>1 DEF LiveOk
<1>7. InRun(q, all, u, rest, g, H, latest) BY <1>1, <1>2, <1>4, <1>6, WaitsInRun
<1>9. /\ q \in Seq(Updates) /\ Len(q) \in 1 .. ScKeep /\ Len(q) <= Len(all)
      /\ \A i \in 1 .. Len(q) : q[i] = all[Len(all) - Len(q) + i]
      /\ q[Len(q)] = u /\ (Len(q) = Len(all) \/ q[1].seq = u.floor + 1)
      /\ Chain(q \o rest, g, H, latest)
  BY <1>7 DEF EndOf, InRun
<1>10. PICK last \in Nat : last <= latest /\ Chain(q, g, H, last) /\ Chain(all, g, H, last) BY <1>7 DEF InRun
<1>13. /\ to \in Browsers(H) /\ to.at = "reading" /\ to.view = b.view /\ to.buffer = q /\ to.gap = b.gap
       /\ to.read = b.read /\ to.http = b.http
  BY <1>1, <1>9 DEF Browsers, Waits
<1>14. ASSUME b.http = "read"
       PROVE  Meets(q, b.read)
  <2>1. /\ b.read.gen = g /\ Meets(buffer, b.read) /\ (buffer = <<>> => latest - Len(queue) <= b.read.latest)
        /\ b.read.latest \in Nat
    BY <1>3, <1>14 DEF LiveOk, BrowserOk, Browsers, Views
  <2>2. CASE Len(q) = Len(all) /\ buffer = <<>>
    <3>3. u.seq = latest - Len(queue) + 1 BY <1>3, <1>2 DEF SubOk, Chain
    <3>5. Len(queue) \in Nat OBVIOUS
    <3>4. u.seq <= b.read.latest + 1 BY <1>3, <2>1, <2>2, <3>3, <3>5, OneLess
    <3> QED BY <1>5, <1>9, <2>2, <3>4 DEF Meets
  <2>3. CASE Len(q) = Len(all) /\ buffer # <<>>
    <3>1. Len(buffer) \in 1 .. Len(buffer) /\ 1 \in 1 .. Len(buffer) /\ Len(buffer) >= 1 BY <2>3
    <3>2. q[1] = buffer[1]
      <4>1. 1 \in 1 .. Len(q) /\ Len(all) - Len(q) + 1 = 1 BY <1>9, <2>3
      <4>2. q[1] = all[1] /\ all[1] = buffer[1] BY <1>5, <1>9, <3>1, <4>1
      <4> QED BY <4>2
    <3>3. buffer[1].gen = g
      <4>1. 1 \in 1 .. Len(all) /\ all[1] = buffer[1] BY <1>5, <3>1
      <4> QED BY <1>10, <4>1 DEF Chain
    <3>4. buffer[1].seq <= b.read.latest + 1 \/ buffer[1].seq <= buffer[Len(buffer)].floor + 1
      BY <2>1, <2>3, <3>3 DEF Meets
    <3>5. /\ buffer[Len(buffer)].floor <= u.floor /\ buffer[1].seq \in Nat /\ buffer[Len(buffer)].floor \in Nat
          /\ u.floor \in Nat
      <4>1. /\ Len(buffer) \in 1 .. Len(all) /\ Len(buffer) + 1 \in Len(buffer) .. Len(all)
            /\ all[Len(buffer)] = buffer[Len(buffer)] /\ all[Len(buffer) + 1] = u
        BY <1>5, <3>1
      <4>2. buffer[1] \in Updates /\ buffer[Len(buffer)] \in Updates BY <1>1, <3>1
      <4> QED BY <1>2, <1>10, <4>1, <4>2 DEF Chain, Updates
    <3>6. buffer[1].seq <= b.read.latest + 1 \/ buffer[1].seq <= u.floor + 1
      <4>1. PICK low \in Nat, top \in Nat, n \in Nat : low = buffer[Len(buffer)].floor /\ top = u.floor /\ n = buffer[1].seq
        BY <3>5
      <4>2. low <= top /\ (n <= b.read.latest + 1 \/ n <= low + 1) BY <3>4, <3>5, <4>1
      <4>3. n <= low + 1 => n <= top + 1 BY <4>2
      <4> QED BY <4>1, <4>2, <4>3
    <3> QED BY <1>9, <3>2, <3>6 DEF Meets
  <2>4. CASE q[1].seq = u.floor + 1
    <3>1. u.floor \in Nat BY <1>2 DEF Updates
    <3> QED BY <1>9, <2>4, <3>1 DEF Meets
  <2> QED BY <1>9, <2>2, <2>3, <2>4
<1>16. LiveOk(heard, to, room, H)
  <2>2. \A i \in 1 .. Len(q) : q[i].floor <= room.floor
    <3>1. \A i \in 1 .. Len(all) : all[i].floor <= room.floor
      <4>2. \A i \in 1 .. Len(all) : i \in 1 .. Len(buffer) \/ i = Len(buffer) + 1 BY <1>5
      <4> QED BY <1>5, <1>2, <4>2 DEF SubOk, LiveOk
    <3>2. \A i \in 1 .. Len(q) : Len(all) - Len(q) + i \in 1 .. Len(all)
      <4>1. Len(q) \in Nat /\ Len(all) \in Nat /\ Len(q) <= Len(all) BY <1>9
      <4> QED BY <4>1
    <3>3. ASSUME NEW i \in 1 .. Len(q)
          PROVE  q[i].floor <= room.floor
      BY <1>9, <3>2, <3>1
    <3> QED BY <3>3
  <2>3. q # <<>> BY <1>9
  <2> QED BY <1>3, <1>9, <1>13, <2>2, <2>3 DEF LiveOk, Heard
<1> QED BY <1>9, <1>3, <1>10, <1>13, <1>14, <1>16 DEF Behind, BrowserOk

\* An update reaches the view.
LEMMA ShownHolds ==
    ASSUME ScAssumption, NEW H \in Histories, NEW room, RoomOk(room, H), NEW sub, SubOk(sub, room, H), NEW b,
           NEW lives \in BOOLEAN, BrowserOk(b, room, lives, H), LiveOk(sub, b, room, H),
           Hears(sub), b.at = "shown", NEW queue, queue = sub.queue, queue # <<>>,
           NEW u, u = Head(queue), NEW rest, rest = Tail(queue),
           NEW heard, Heard(sub, rest, heard), NEW to, to = TakeIn(b, b.view, <<u>>)
    PROVE  BrowserOk(to, room, lives, H) /\ LiveOk(heard, to, room, H)
<1>1. /\ b \in Browsers(H) /\ queue \in Seq(Updates)
      /\ sub \in [on : BOOLEAN, queue : Seq(Updates), lagged : BOOLEAN]
  BY DEF BrowserOk, SubOk
<1>2. /\ u \in Updates /\ rest \in Seq(Updates) /\ u = queue[1] /\ 1 \in 1 .. Len(queue) /\ Len(rest) = Len(queue) - 1
      /\ Len(queue) \in Nat
  BY <1>1
<1>3. PICK g \in Nat, latest \in Nat, v \in Views(H) : g = room.gen /\ latest = room.latest /\ v = b.view
  BY <1>1 DEF RoomOk, ChatRooms, Browsers
<1>4. /\ u.gen = g /\ u.seq = latest - Len(queue) + 1 /\ u.of = H[g][u.seq]
      /\ u.floor < u.seq /\ u.seq - u.floor <= ScKeep
  BY <1>2, <1>3 DEF SubOk, Chain
<1>5. PICK last \in Nat : last = u.seq BY <1>2 DEF Updates
<1>6. PICK q \in Seq(Updates) : q = <<u>> /\ Len(q) = 1 /\ q[1] = u /\ q # <<>> BY <1>2, OneUpdate
<1>7. Chain(q, g, H, last)
  <2>1. \A i \in 1 .. Len(q) : i = 1 /\ (\A j \in i .. Len(q) : j = 1) /\ last - Len(q) + i = last BY <1>6
  <2>2. u.floor <= u.floor BY <1>2 DEF Updates
  <2>3. \A i \in 1 .. Len(q) : q[i] = u BY <1>6
  <2> QED BY <1>4, <1>5, <2>1, <2>2, <2>3, Zenon DEF Chain
<1>8. v.gen = g /\ latest - Len(queue) <= v.latest /\ v.latest \in Nat BY <1>3 DEF LiveOk, Views
<1>9. Meets(q, v) BY <1>2, <1>4, <1>8, OneLess, <1>6 DEF Meets
<1>10. Behind(room, lives, g, last) /\ Behind(room, lives, v.gen, v.latest)
  <2>1. last <= latest BY <1>4, <1>5
  <2> QED BY <1>3, <2>1 DEF Behind, BrowserOk
<1>11. PICK sent \in Int : sent = latest - Len(rest)
  <2>1. latest - Len(rest) \in Int BY <1>2
  <2> QED BY <2>1
<1>12. sent = last /\ heard.queue = rest BY <1>4, <1>5, <1>11 DEF Heard
<1>13. Hears(heard) => v.gen = room.gen /\ (sent <= v.latest \/ (q # <<>> /\ sent <= last)) BY <1>3, <1>6, <1>8, <1>12
<1>14. to = TakeIn(b, v, q) /\ sent = room.latest - Len(heard.queue) BY <1>3, <1>6, <1>11, <1>12
<1>15. PICK now : now = heard OBVIOUS
<1> QED BY <1>15, <1>7, <1>9, <1>10, <1>14, <1>13, TakeInHolds
------------------------
(* The steps.                                                               *)

\* What is under way of the sends, and what is known of them, stays as it is.
LEMMA SendsBeside ==
    ASSUME ChatInv, UNCHANGED <<scCall, scWire, scPosts>>, scRoom'.gen >= scRoom.gen, scRoom'.gen \in Nat,
           \A r \in ScRequests : Sent(scRoom, scMay, scCall[r], scPosts[r], r) =>
              Sent(scRoom', scMay', scCall[r], scPosts[r], r)
    PROVE  \A r \in ScRequests : SendOk(r)'
BY DEF ChatInv, SendOk, ChatCalls, ChatHolds, RoomOk, ChatRooms

\* What the invariant says of the types.
LEMMA TypesOf ==
    ASSUME ChatInv
    PROVE  /\ scRoom \in ChatRooms /\ scRoom.gen \in Nat /\ scRoom.gen > 0 /\ scRoom.latest \in Nat /\ Alive \in BOOLEAN
           /\ ChatTypes
BY DEF ChatInv, ChatHolds, RoomOk, ChatRooms, SubOk, Alive

\* The same history describes the next state.
LEMMA SameHistory ==
    ASSUME ChatInv, ChatTypes', \A r \in ScRequests : SendOk(r)',
           \A H \in Histories : ChatHolds(H) => ChatHolds(H)'
    PROVE  ChatInv'
BY DEF ChatInv

\* ScInit: nothing was posted in any lifetime.
LEMMA ChatStarts ==
    ASSUME ScAssumption, ScInit
    PROVE  ChatInv
<1>1. PICK H : H = [g \in Nat |-> [n \in Nat |-> Somebody]] OBVIOUS
<1>2. H \in Histories BY <1>1 DEF Histories, Writers
<1>3. RoomOk(scRoom, H) BY <1>2, NewRoomHolds DEF ScInit
<1>6. ChatTypes BY DEF ChatTypes, ScInit, ChatCalls
<1>7. ASSUME NEW r \in ScRequests
      PROVE  SendOk(r)
  BY DEF ScInit, NewRoom, Sent, SendOk, ChatCalls
<1> QED BY <1>2, <1>3, NoSubHolds, IdleHolds, <1>6, <1>7 DEF ChatInv, ChatHolds, ScInit, OffLine, Alive, NoSub

\* A message is posted: the history grows by it.
LEMMA PostHolds ==
    ASSUME ScAssumption, ChatInv, MayRead, NEW w \in Writers, scRoom' = Posted(Prune(scRoom), w), Publish(scRoom', w),
           UNCHANGED <<scNow, scMay, scBrowser>>
    PROVE  \E K \in Histories : ChatHolds(K)'
<1>1. PICK H \in Histories : ChatHolds(H) BY DEF ChatInv
<1>2. PICK p : p = Prune(scRoom) OBVIOUS
<1>3. PICK lives \in BOOLEAN : lives = Alive /\ lives BY DEF MayRead, Alive
<1>4. scNow \in Nat BY DEF ChatInv, ChatTypes
<1>5. RoomOk(p, H) /\ SubOk(scSub, p, H) /\ BrowserOk(scBrowser, p, lives, H) /\ LiveOk(scSub, scBrowser, p, H)
  <2>1. RoomOk(scRoom, H) /\ SubOk(scSub, scRoom, H) /\ BrowserOk(scBrowser, scRoom, lives, H) /\ LiveOk(scSub, scBrowser, scRoom, H)
    BY <1>1, <1>3 DEF ChatHolds
  <2> QED BY <1>2, <1>4, <2>1, PrunedHolds
<1>6. PICK new, K, to : new = Posted(p, w) /\ K = Extended(H, p, w) /\ Tells(scSub, new, w, to) BY DEF Tells, Sends
<1>8. K \in Histories /\ RoomOk(new, K) BY <1>4, <1>5, <1>6, PostedIs
<1>9. SubOk(to, new, K) /\ BrowserOk(scBrowser, new, lives, K) /\ LiveOk(to, scBrowser, new, K)
  BY <1>3, <1>4, <1>5, <1>6, PublishedHolds, Zenon
<1>10. Alive' = lives BY <1>3 DEF Alive, MayRead
<1>11. ChatHolds(K)' BY <1>2, <1>6, <1>8, <1>9, <1>10 DEF ChatHolds, Publish, Tells, Sends, UpdateOf
<1> QED BY <1>8, <1>11
\* What holds after Prune of the room as it is.
LEMMA PrunedNow ==
    ASSUME ScAssumption, ChatInv, NEW p, p = Prune(scRoom)
    PROVE  /\ \A H \in Histories : ChatHolds(H) =>
                 /\ RoomOk(p, H) /\ SubOk(scSub, p, H) /\ BrowserOk(scBrowser, p, Alive, H)
                 /\ LiveOk(scSub, scBrowser, p, H)
           /\ \A r \in ScRequests : Sent(p, scMay, scCall[r], scPosts[r], r)
           /\ p.gen = scRoom.gen /\ p.gen \in Nat
BY TypesOf, PrunedHolds, SentPruned, PruneKeeps DEF ChatInv, ChatTypes, ChatHolds, SendOk, RoomOk

\* Everybody but the author of a post is no nearer to a repetition.
LEMMA PostBeside ==
    ASSUME ScAssumption, ChatInv, NEW w \in Writers, NEW new, new = Posted(Prune(scRoom), w), NEW r \in ScRequests, r # w
    PROVE  Sent(new, scMay, scCall[r], scPosts[r], r) /\ new.gen = scRoom.gen
BY PrunedNow, SentBeside, PostedIs DEF ChatInv, ChatTypes

\* OthersPost: the history takes a message of somebody else.
LEMMA OthersPostHolds ==
    ASSUME ScAssumption, ChatInv, OthersPost
    PROVE  ChatInv'
BY PostHolds, PostBeside DEF Writers, OthersPost, ChatTypes, ChatInv, SendOk

\* What an answer changes of the sends.
LEMMA Answered ==
    ASSUME ChatInv, NEW r \in ScRequests, NEW what \in {"open", "rejected", "committed"}, Answer(r, what)
    PROVE  /\ scCall' \in [ScRequests -> ChatCalls]
           /\ \A q \in ScRequests : scCall'[q].gen = scCall[q].gen /\ scCall'[q].after = scCall[q].after
           /\ \A q \in ScRequests : q # r => scCall'[q] = scCall[q]
           /\ scCall'[r].told = scCall[r].told \/ (scCall[r].told = "waiting" /\ what # "open" /\ scCall'[r].told = what)
<1>1. scCall \in [ScRequests -> ChatCalls] BY DEF ChatInv, ChatTypes
<1> QED BY <1>1 DEF Answer, ChatCalls

\* A send runs that becomes no message.
LEMMA NotPostedHolds ==
    ASSUME ScAssumption, ChatInv, NEW r \in ScRequests, scWire[r] > 0, scWire' = [scWire EXCEPT ![r] = @ - 1],
           UNCHANGED <<scNow, scMay, scBrowser, scSub, scPosts>>, scRoom' = scRoom \/ scRoom' = Prune(scRoom),
           NEW what \in {"open", "rejected", "committed"}, Answer(r, what), what = "committed" => scPosts[r] = 1
    PROVE  ChatInv'
<1>1. /\ scCall' \in [ScRequests -> ChatCalls]
      /\ \A q \in ScRequests : scCall'[q].gen = scCall[q].gen /\ scCall'[q].after = scCall[q].after
      /\ \A q \in ScRequests : q # r => scCall'[q] = scCall[q]
      /\ scCall'[r].told = scCall[r].told \/ (scCall[r].told = "waiting" /\ what # "open" /\ scCall'[r].told = what)
  BY Answered
<1>2. scWire \in [ScRequests -> Nat] /\ scPosts \in [ScRequests -> {0, 1}] BY DEF ChatInv, ChatTypes
<1>3. scWire' \in [ScRequests -> Nat] /\ \A q \in ScRequests : scWire[q] = 0 => scWire'[q] = 0 BY <1>2
<1>4. ChatTypes' BY <1>1, <1>3, TypesOf DEF ChatTypes
<1>5. PICK p : p = Prune(scRoom) OBVIOUS
<1>6. \A q \in ScRequests : Sent(scRoom', scMay, scCall[q], scPosts[q], q) /\ scRoom'.gen = scRoom.gen
  BY <1>5, PrunedNow DEF ChatInv, SendOk
<1>7. ASSUME NEW q \in ScRequests
      PROVE  SendOk(q)'
  <2>1. SendOk(q) /\ SendOk(r) BY DEF ChatInv
  <2>2. Sent(scRoom', scMay, scCall'[q], scPosts[q], q) BY <1>1, <1>6 DEF Sent
  <2>3. scCall'[q] \in ChatCalls /\ scWire'[q] \in Nat /\ scPosts[q] \in {0, 1} /\ scCall'[q].gen <= scRoom'.gen
    BY <1>1, <1>2, <1>3, <1>6, <2>1 DEF SendOk
  <2>4. scCall'[q].told = "nothing" => scWire'[q] = 0 /\ scPosts[q] = 0 BY <1>1, <1>3, <2>1 DEF SendOk
  <2>5. scCall'[q].told = "committed" => scPosts[q] = 1 BY <1>1, <2>1 DEF SendOk
  <2> QED BY <2>2, <2>3, <2>4, <2>5 DEF SendOk
<1> QED BY <1>4, <1>7, <1>5, PrunedNow, SameHistory DEF Alive, ChatHolds

\* Execute: a send is refused, expired, recognised or posted.
LEMMA ExecuteHolds ==
    ASSUME ScAssumption, ChatInv, NEW r \in ScRequests, Execute(r)
    PROVE  ChatInv'
<1>1. PICK p : p = Prune(scRoom) OBVIOUS
<1>2. /\ scWire[r] > 0 /\ scWire' = [scWire EXCEPT ![r] = @ - 1] /\ UNCHANGED <<scNow, scMay, scBrowser>>
  BY DEF Execute
<1>3. Sent(p, scMay, scCall[r], scPosts[r], r) /\ SendOk(r) /\ scPosts[r] \in {0, 1}
  BY <1>1, PrunedNow DEF ChatInv, SendOk
<1>6. CASE Outcome(p, r) = "deduplicated" /\ Answer(r, "committed") /\ scRoom' = p /\ UNCHANGED <<scSub, scPosts>>
  <2>1. Retained(p, r) BY <1>6 DEF Outcome
  <2>2. scPosts[r] = 1 BY <1>3, <2>1 DEF Retained, Range, Sent
  <2> QED BY <1>1, <1>2, <1>6, <2>2, NotPostedHolds
<1>7. CASE /\ MayWrite /\ Outcome(p, r) = "posted" /\ scRoom' = Posted(p, r) /\ Publish(scRoom', r)
           /\ scPosts' = [scPosts EXCEPT ![r] = @ + 1] /\ Answer(r, "committed")
  <2>1. r \in Writers /\ MayRead /\ scMay # "none" BY <1>7 DEF Writers, MayRead, MayWrite
  <2>2. PICK new : new = Posted(p, r) /\ scRoom' = new BY <1>7
  <2>4. /\ scCall' \in [ScRequests -> ChatCalls]
        /\ \A q \in ScRequests : scCall'[q].gen = scCall[q].gen /\ scCall'[q].after = scCall[q].after
        /\ \A q \in ScRequests : q # r => scCall'[q] = scCall[q]
        /\ scCall'[r].told = scCall[r].told \/ (scCall[r].told = "waiting" /\ scCall'[r].told = "committed")
    BY <1>7, Answered
  <2>5. scCall[r].gen = p.gen /\ ~(scCall[r].after > p.latest) /\ ~Retained(p, r) /\ InWindow(p, scCall[r])
    BY <1>7 DEF Outcome
  <2>6. PICK H \in Histories : ChatHolds(H) /\ RoomOk(p, H) BY <1>1, PrunedNow DEF ChatInv
  <2>7. /\ scCall[r] \in ChatCalls /\ scCall[r].after \in Nat /\ p.latest \in Nat /\ p.floor \in Nat /\ p.gen = scRoom.gen
        /\ scNow \in Nat /\ p.kept \in Seq(ChatMsgs)
    BY <1>1, <2>6, PrunedNow DEF ChatInv, ChatTypes, ChatCalls, RoomOk, ChatRooms
  <2>8. scPosts[r] = 0 BY <2>5, <2>7, <1>3, <2>1 DEF InWindow, Sent, Range, Retained
  <2>9. Sent(new, scMay, scCall[r], 1, r) BY <2>5, <2>7, <1>3, <2>1, <2>2, <2>6, <2>8, SentPosted
  <2>10. /\ scPosts' \in [ScRequests -> {0, 1}] /\ scPosts'[r] = 1
         /\ \A q \in ScRequests : q # r => scPosts'[q] = scPosts[q]
    BY <1>7, <2>8 DEF ChatInv, ChatTypes
  <2>11. /\ scWire \in [ScRequests -> Nat] /\ scWire' \in [ScRequests -> Nat]
         /\ \A q \in ScRequests : scWire[q] = 0 => scWire'[q] = 0
    BY <1>2 DEF ChatInv, ChatTypes
  <2>13. new.gen = p.gen BY <2>1, <2>2, <2>6, <2>7, PostedIs
  <2>14. ASSUME NEW q \in ScRequests
         PROVE  SendOk(q)'
    <3>1. SendOk(q) /\ scCall'[q] \in ChatCalls /\ scWire'[q] \in Nat /\ scPosts'[q] \in {0, 1} /\ scCall'[q].gen <= scRoom'.gen
      BY <2>2, <2>4, <2>7, <2>10, <2>11, <2>13 DEF ChatInv, SendOk
    <3>2. CASE q = r BY <2>4, <2>9, <1>2, <2>2, <2>10, <3>1, <3>2 DEF Sent, SendOk
    <3> QED BY <3>2, <1>1, <2>1, <2>2, PostBeside, <1>2, <2>4, <2>10, <2>11, <3>1 DEF SendOk
  <2> QED BY <1>1, <1>2, <1>7, <2>1, PostHolds, <2>4, <2>10, <2>11, TypesOf, <2>14 DEF ChatInv, ChatTypes
<1> QED BY <1>1, <1>2, NotPostedHolds, <1>6, <1>7 DEF Execute
\* The steps of the browser and of the socket leave the room and the sends alone.
LEMMA BrowserSteps ==
    ASSUME ScAssumption, ChatInv, UNCHANGED <<scRoom, scNow, scMay, scCall, scWire, scPosts>>,
           \A H \in Histories, lives \in BOOLEAN :
              /\ ChatHolds(H) /\ lives = Alive
              => SubOk(scSub', scRoom, H) /\ BrowserOk(scBrowser', scRoom, lives, H) /\ LiveOk(scSub', scBrowser', scRoom, H),
           Alive' => Alive, Alive' \in BOOLEAN
    PROVE  ChatInv'
BY TypesOf, SameHistory DEF ChatTypes, ChatInv, SendOk, BrowserOk, Behind, ChatHolds

\* ScConnect, SocketOver: a connection begins or ends.
LEMMA ConnectHolds ==
    ASSUME ScAssumption, ChatInv, ScConnect \/ SocketOver
    PROVE  ChatInv'
<1>1. PICK on \in BOOLEAN, at \in {"off", "reading", "failed"}, http \in {"none", "asked", "read", "refused"} :
         /\ scSub' = [on |-> on, queue |-> <<>>, lagged |-> FALSE]
         /\ scBrowser' = [at |-> at, http |-> http, read |-> NoView, buffer |-> <<>>, view |-> NoView, gap |-> FALSE]
         /\ at = "reading" => http = "asked"
         /\ on => MayRead
  BY DEF OffLine, NoSub, ScConnect, SocketOver
<1> QED BY <1>1, NoSubHolds, IdleHolds, NothingChained, BrowserSteps DEF Alive, MayRead, ChatHolds, LiveOk, ScConnect,
     SocketOver

\* ReadSnapshot: the server answers with the room as it is.
LEMMA ReadSnapshotHolds ==
    ASSUME ScAssumption, ChatInv, ReadSnapshot
    PROVE  ChatInv'
<1>1. CASE ~MayRead BY <1>1, BrowserSteps DEF ReadSnapshot, ChatHolds, BrowserOk, Browsers, LiveOk, Alive
<1>2. CASE MayRead
  BY <1>2, PrunedNow, TypesOf, ReadHolds, SameHistory DEF ReadSnapshot, ChatInv, SendOk, ChatTypes, Alive,
     MayRead, ChatHolds
<1> QED BY <1>1, <1>2

\* SnapshotArrives: the buffered updates are merged into it.
LEMMA SnapshotArrivesHolds ==
    ASSUME ScAssumption, ChatInv, SnapshotArrives
    PROVE  ChatInv'
BY ArrivesHolds, TypesOf, BrowserSteps DEF SnapshotArrives, ChatHolds, Alive

\* What a subscription holds after it delivered an update.
LEMMA HeardHolds ==
    ASSUME NEW H \in Histories, NEW room, RoomOk(room, H), NEW sub, SubOk(sub, room, H), sub.on, ~sub.lagged,
           sub.queue # <<>>, NEW rest, rest = Tail(sub.queue), NEW heard, Heard(sub, rest, heard)
    PROVE  SubOk(heard, room, H) /\ heard.on /\ heard.queue = rest /\ heard.lagged = FALSE
<1>1. PICK queue \in Seq(Updates) : queue = sub.queue BY DEF SubOk
<1>3. /\ rest \in Seq(Updates) /\ Len(queue) \in Nat /\ Len(rest) = Len(queue) - 1
      /\ \A i \in 1 .. Len(rest) : i + 1 \in 1 .. Len(queue) /\ rest[i] = queue[i + 1]
  BY <1>1
<1>4. PICK g \in Nat, last \in Int : g = room.gen /\ last = room.latest BY DEF RoomOk, ChatRooms
<1>6. Len(rest) <= Len(queue) /\ \A i \in 1 .. Len(rest) : rest[i] = queue[Len(queue) - Len(rest) + i]
  <2>1. PICK n \in Nat : n = Len(queue) /\ Len(rest) = n - 1 BY <1>3
  <2>2. n - 1 <= n /\ \A i \in 1 .. n - 1 : n - (n - 1) + i = i + 1 OBVIOUS
  <2>3. \A i \in 1 .. n - 1 : rest[i] = queue[n - (n - 1) + i] BY <1>3, <2>1, <2>2, Zenon
  <2> QED BY <2>1, <2>2, <2>3, Zenon
<1>7. Chain(rest, g, H, last) BY <1>3, <1>1, <1>4, <1>6, ChainEnds DEF SubOk
<1> QED BY <1>4, <1>7, <1>1, <1>3 DEF SubOk, Heard

\* Deliver: an update waits for the snapshot or is merged into the view.
LEMMA DeliverHolds ==
    ASSUME ScAssumption, ChatInv, Deliver
    PROVE  ChatInv'
<1>1. PICK queue, u, rest : queue = scSub.queue /\ u = Head(queue) /\ rest = Tail(queue) OBVIOUS
<1>2. /\ UNCHANGED <<scRoom, scNow, scMay, scCall, scWire, scPosts>> /\ scSub.on /\ ~scSub.lagged /\ queue # <<>> /\ MayRead
      /\ scBrowser' = Receive(scBrowser, u) /\ scSub' = [scSub EXCEPT !.queue = rest]
  BY <1>1 DEF Deliver
<1>3. Heard(scSub, rest, scSub') /\ Hears(scSub) BY <1>2 DEF Heard, Hears
<1>4. ASSUME NEW H \in Histories, NEW lives \in BOOLEAN, ChatHolds(H), lives = Alive
      PROVE  SubOk(scSub', scRoom, H) /\ BrowserOk(scBrowser', scRoom, lives, H) /\ LiveOk(scSub', scBrowser', scRoom, H)
  <2>1. /\ RoomOk(scRoom, H) /\ SubOk(scSub, scRoom, H) /\ BrowserOk(scBrowser, scRoom, lives, H)
        /\ LiveOk(scSub, scBrowser, scRoom, H)
    BY <1>4 DEF ChatHolds
  <2>2. PICK heard : heard = scSub' OBVIOUS
  <2>3. SubOk(heard, scRoom, H) /\ Heard(scSub, rest, heard) BY <1>1, <1>2, <1>3, <2>1, <2>2, HeardHolds
  <2>4. CASE scBrowser.at = "reading"
    <3>1. PICK buffer, q, to : buffer = scBrowser.buffer /\ q = Buffered(buffer, u) /\ Waits(scBrowser, q, to)
      BY DEF Waits
    <3>2. Len(q) <= ScKeep /\ BrowserOk(to, scRoom, lives, H) /\ LiveOk(heard, to, scRoom, H)
      BY <1>1, <1>2, <1>3, <2>1, <2>3, <2>4, <3>1, WaitsHolds
    <3>3. PICK m \in Nat : m = Len(q) /\ m <= ScKeep BY <2>1, <3>1, <3>2 DEF BrowserOk, Browsers, Waits
    <3>4. scBrowser' = to BY <3>3, <1>2, <2>4, <3>1 DEF ScAssumption, Receive, Waits
    <3> QED BY <2>2, <2>3, <3>2, <3>4
  <2>5. CASE scBrowser.at = "shown" BY <1>2, <2>5, <1>1, <1>3, <2>1, <2>3, ShownHolds, <2>2 DEF Receive
  <2> QED BY <2>4, <2>5, <1>2, <2>1, <2>2, <2>3 DEF Receive, LiveOk
<1> QED BY <1>2, <1>4, BrowserSteps DEF Alive, MayRead
\* SendChat: the send names what its author has seen.
LEMMA SendChatHolds ==
    ASSUME ScAssumption, ChatInv, NEW r \in ScRequests, SendChat(r)
    PROVE  ChatInv'
<1>1. PICK H \in Histories : ChatHolds(H) BY DEF ChatInv
<1>2. PICK g \in Nat, n \in Nat : g = scBrowser.view.gen /\ n = scBrowser.view.latest /\ g <= scRoom.gen
  BY <1>1 DEF ChatHolds, BrowserOk, Browsers, Views, Behind
<1>3. PICK call \in ChatCalls : call = [gen |-> g, after |-> n, told |-> "waiting"] BY DEF ChatCalls
<1>4. /\ scCall[r].told = "nothing" /\ scCall' = [scCall EXCEPT ![r] = call] /\ scWire' = [scWire EXCEPT ![r] = 1]
      /\ UNCHANGED <<scRoom, scNow, scMay, scSub, scBrowser, scPosts>>
  BY <1>2, <1>3 DEF SendChat
<1>5. ChatTypes' BY <1>4, TypesOf DEF ChatTypes
<1>6. ASSUME NEW q \in ScRequests
      PROVE  SendOk(q)'
  <2>1. SendOk(q) /\ SendOk(r) BY DEF ChatInv
  <2>2. CASE q = r
    <3>1. scPosts[r] = 0 /\ Sent(scRoom, scMay, scCall[r], 0, r) BY <1>4, <2>1 DEF SendOk
    <3>2. Sent(scRoom, scMay, call, 0, r) BY <3>1 DEF Sent
    <3>3. scCall'[r] = call /\ scWire'[r] = 1 BY <1>4, TypesOf DEF ChatTypes
    <3>4. call.told = "waiting" /\ call.gen = g BY <1>3
    <3> QED BY <1>2, <1>4, <2>2, <3>1, <3>2, <3>3, <3>4 DEF SendOk
  <2>3. CASE q # r
    <3>1. scCall'[q] = scCall[q] /\ scWire'[q] = scWire[q] BY <1>4, <2>3, TypesOf DEF ChatTypes
    <3> QED BY <1>4, <2>1, <3>1 DEF SendOk
  <2> QED BY <2>2, <2>3
<1>7. ASSUME NEW G \in Histories, ChatHolds(G)
      PROVE  ChatHolds(G)'
  BY <1>4, <1>7 DEF ChatHolds, Alive
<1> QED BY <1>5, <1>6, <1>7, SameHistory

\* RetryChat: one more copy under way.
LEMMA RetryChatHolds ==
    ASSUME ScAssumption, ChatInv, NEW r \in ScRequests, RetryChat(r)
    PROVE  ChatInv'
BY TypesOf, SameHistory DEF RetryChat, ChatTypes, ChatInv, SendOk, ChatHolds, Alive

\* ScTick, ScMute, SessionRevoked change neither messages nor views.
LEMMA SurroundingsHold ==
    ASSUME ScAssumption, ChatInv, ScTick \/ ScMute \/ SessionRevoked
    PROVE  ChatInv'
<1>1. /\ UNCHANGED <<scRoom, scCall, scWire, scSub, scBrowser, scPosts>>
      /\ scNow' \in Nat /\ scMay' \in {"writes", "reads", "none"} /\ (scMay = "none" => scMay' = "none")
  BY TypesOf DEF ScTick, ScMute, SessionRevoked, ChatTypes
<1>2. ChatTypes' BY <1>1, TypesOf DEF ChatTypes
<1>4. ASSUME NEW H \in Histories, ChatHolds(H)
      PROVE  ChatHolds(H)'
  BY <1>1, TypesOf, <1>4 DEF Alive, ChatHolds, BrowserOk, Behind
<1> QED BY <1>2, <1>1, <1>4, SameHistory DEF Sent, ChatInv, SendOk

\* A new entry of the room: nothing is kept, and nobody who may still write remembers it.
LEMMA RoomGoneHolds ==
    ASSUME ScAssumption, ChatInv, RoomDeleted \/ ScRestart
    PROVE  ChatInv'
<1>1. PICK life \in Nat :
         /\ scRoom' = NewRoom(life) /\ life >= scRoom.gen /\ (scMay' # "none" => life > scRoom.gen)
         /\ scSub' = NoSub /\ UNCHANGED <<scNow, scCall, scBrowser, scPosts>>
         /\ scMay' \in {"writes", "reads", "none"} /\ (scWire' = scWire \/ scWire' = [r \in ScRequests |-> 0])
  BY TypesOf DEF RoomDeleted, ScRestart, ChatTypes
<1>2. scRoom.gen \in Nat /\ scRoom.gen > 0 BY TypesOf
<1>3. scRoom'.gen = life /\ scRoom'.kept = <<>> /\ scRoom'.latest = 0 /\ life > 0 BY <1>1, <1>2 DEF NewRoom
<1>4. ChatTypes' BY <1>1, TypesOf DEF ChatTypes
<1>5. ASSUME NEW r \in ScRequests
      PROVE  SendOk(r)'
  <2>1. SendOk(r) BY DEF ChatInv
  <2> QED BY <1>1, <1>2, <1>3, <2>1, TypesOf DEF SendOk, Sent, ChatTypes, ChatCalls
<1>6. ASSUME NEW H \in Histories, ChatHolds(H)
      PROVE  ChatHolds(H)'
  <2>1. RoomOk(scRoom', H) BY <1>1, <1>3, NewRoomHolds
  <2>2. PICK on \in BOOLEAN : on = FALSE OBVIOUS
  <2>3. scSub' = [on |-> on, queue |-> <<>>, lagged |-> FALSE] /\ scSub'.on = FALSE BY <1>1, <2>2 DEF NoSub
  <2>4. SubOk(scSub', scRoom', H)
    <3>1. PICK room : room = scRoom' OBVIOUS
    <3> QED BY <2>3, <3>1, NoSubHolds
  <2>5. PICK now \in BOOLEAN : now = Alive' /\ (now => life > scRoom.gen)
    <3>1. Alive' \in BOOLEAN /\ (Alive' => scMay' # "none") BY <2>3 DEF Alive
    <3> QED BY <1>1, <3>1
  <2>6. \A g, n \in Nat : Behind(scRoom, Alive, g, n) => Behind(scRoom', now, g, n)
    BY <1>1, <1>2, <1>3, <2>5 DEF Behind
  <2>7. scBrowser \in Browsers(H) /\ BrowserOk(scBrowser, scRoom, Alive, H) BY <1>6 DEF ChatHolds, BrowserOk
  <2>8. /\ scBrowser.read.gen \in Nat /\ scBrowser.read.latest \in Nat
        /\ scBrowser.view.gen \in Nat /\ scBrowser.view.latest \in Nat
    BY <2>7 DEF Browsers, Views
  <2>9. BrowserOk(scBrowser, scRoom', now, H) BY <2>6, <2>7, <2>8 DEF BrowserOk
  <2>10. LiveOk(scSub', scBrowser, scRoom', H) BY <2>3 DEF LiveOk, Hears
  <2> QED BY <1>1, <2>1, <2>4, <2>5, <2>9, <2>10 DEF ChatHolds
<1> QED BY <1>4, <1>5, <1>6, SameHistory

------------------------
\* The invariant of the side chat is kept by every step.
LEMMA ChatStep ==
    ASSUME ScAssumption, ChatInv, [ScNext]_scVars
    PROVE  ChatInv'
BY SameHistory, OthersPostHolds, ConnectHolds, ReadSnapshotHolds, SnapshotArrivesHolds, DeliverHolds,
   SurroundingsHold, RoomGoneHolds, ExecuteHolds, SendChatHolds, RetryChatHolds DEF scVars, ChatHolds, Alive,
   ChatInv, ChatTypes, SendOk, ScNext

\* The invariant implies what the run checks.
LEMMA ChatIsTrue ==
    ASSUME ChatInv
    PROVE  SideChatTrue
<1>1. PICK H \in Histories : ChatHolds(H) BY DEF ChatInv
<1>3. ~scBrowser.gap BY <1>1 DEF ChatHolds, BrowserOk
<1>4. ASSUME Shows, scSub.on, scSub.queue = <<>>, scBrowser.view.gen = scRoom.gen
      PROVE  scBrowser.view.latest = scRoom.latest
  BY <1>1, <1>4, TypesOf DEF ChatHolds, SubOk, Hears, BrowserOk, Browsers, Views, LiveOk, Shows, Behind, Alive
<1> QED BY <1>3, <1>4 DEF SideChatTrue, ChatInv, SendOk

\* Without a durable receipt a send of the side chat becomes a message at most once, over
\* retries, eviction, expiry and restarts, and whoever is told "committed" was posted; the
\* snapshot and the updates of a browser always merge without a gap, and a view that was sent
\* everything holds the room's latest message (append, useRoomSideChat, mergeSideChatUpdates).
THEOREM SideChatIsTrue == ScSpec => []SideChatTrue
<1>1. ScInit => ChatInv BY ScAssumption, ChatStarts
<1>2. ChatInv /\ [ScNext]_scVars => ChatInv' BY ScAssumption, ChatStep
<1>3. ChatInv => SideChatTrue BY ChatIsTrue
<1> QED BY <1>1, <1>2, <1>3, PTL DEF ScSpec
=============================================================================
