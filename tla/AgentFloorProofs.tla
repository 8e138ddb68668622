-------------------------- MODULE AgentFloorProofs --------------------------
(***************************************************************************)
(* Invariants of the room floor with its lifecycle commands, for any       *)
(* number of sessions and any bounds.                                      *)
(*                                                                         *)
(* Every transaction rewrites at most a few fields of the stored rows and  *)
(* then, perhaps, runs the scheduler.  StepShape says this of Next; the    *)
(* invariants and the exclusion of the ordered floor are then facts about  *)
(* the rewritten rows and about the scheduler alone.                       *)
(***************************************************************************)
EXTENDS AgentFloor, TLAPS, NaturalsInduction, WellFoundedInduction, SequenceTheorems

------------------------
(* What the operators of the floor compute, for every queue, batch bound    *)
(* and set of sessions.                                                     *)

------------------------
(* Induction over the naturals, in a form that needs no predicate argument. *)

\* Every nonempty set of naturals has a least element.
LEMMA LeastNatural ==
    ASSUME NEW T, T \subseteq Nat, T # {}
    PROVE  \E x \in T : \A y \in T : x <= y
<1>1. IsWellFoundedOn(OpToRel(<, Nat), Nat) BY NatLessThanWellFounded
<1>2. \E x \in T : \A y \in T : ~(<<y, x>> \in OpToRel(<, Nat)) BY <1>1, WFMin
<1>3. PICK x \in T : \A y \in T : ~(<<y, x>> \in OpToRel(<, Nat)) BY <1>2
<1>4. \A y \in T : ~(y < x) BY <1>3 DEF OpToRel
<1>5. \A y \in T : x <= y BY <1>4
<1> QED BY <1>5

------------------------
(* Without: filtering a queue.                                              *)

\* One step of the filter.
KeptStep(q, events, prev, n) ==
    IF n = 0 THEN <<>>
    ELSE IF q[n].event \in events THEN prev[n - 1]
    ELSE Append(prev[n - 1], q[n])

\* The recursive function inside Without exists.
LEMMA KeptExists ==
    ASSUME NEW q, NEW events, NEW len \in Nat
    PROVE  \E g : g = [n \in 0..len |-> KeptStep(q, events, g, n)]
<1> DEFINE Good(m) == \E g : g = [n \in 0..m |-> KeptStep(q, events, g, n)]
           Bad == {m \in Nat : ~Good(m)}
<1>1. Good(0)
  <2> DEFINE g0 == [n \in 0..0 |-> <<>>]
  <2>1. \A n \in 0..0 : KeptStep(q, events, g0, n) = <<>> BY DEF KeptStep
  <2>2. g0 = [n \in 0..0 |-> KeptStep(q, events, g0, n)] BY <2>1, Zenon
  <2> HIDE DEF g0
  <2> QED BY <2>2, Zenon
<1>2. ASSUME NEW m \in Nat, m # 0, Good(m - 1)
      PROVE  Good(m)
  <2>1. PICK g : g = [n \in 0..(m - 1) |-> KeptStep(q, events, g, n)] BY <1>2
  <2> DEFINE h == [n \in 0..m |-> KeptStep(q, events, g, n)]
  <2>2. ASSUME NEW n \in 0..m
        PROVE  KeptStep(q, events, g, n) = KeptStep(q, events, h, n)
    <3>1. CASE n = 0 BY <3>1 DEF KeptStep
    <3>2. CASE n # 0
      <4>1. n - 1 \in 0..(m - 1) /\ n - 1 \in 0..m BY <3>2
      <4>2. h[n - 1] = KeptStep(q, events, g, n - 1) BY <4>1
      <4>3. g[n - 1] = KeptStep(q, events, g, n - 1) BY <4>1, <2>1
      <4> HIDE DEF h
      <4> QED BY <4>2, <4>3, <3>2 DEF KeptStep
    <3> QED BY <3>1, <3>2
  <2>3. h = [n \in 0..m |-> KeptStep(q, events, h, n)] BY <2>2
  <2> QED BY <2>3
<1> HIDE DEF Good
<1>3. Bad = {}
  <2>1. SUFFICES ASSUME Bad # {} PROVE FALSE
    OBVIOUS
  <2>2. PICK m \in Bad : \A k \in Bad : m <= k
    <3>1. Bad \subseteq Nat OBVIOUS
    <3> HIDE DEF Bad
    <3> QED BY <3>1, <2>1, LeastNatural
  <2>3. m \in Nat /\ m # 0 /\ ~Good(m) BY <1>1
  <2>4. m - 1 \in Nat /\ m - 1 \notin Bad BY <2>2, <2>3
  <2> QED BY <2>3, <2>4, <1>2
<1>4. Good(len) BY <1>3
<1> QED BY <1>4 DEF Good

\* r is q without the events: an order-preserving selection of its entries,
\* and every entry of another event is selected.
Selects(r, q, m, events) ==
    \E ix \in [1..Len(r) -> 1..m] :
        /\ \A i \in 1..Len(r) : r[i] = q[ix[i]] /\ q[ix[i]].event \notin events
        /\ \A i, j \in 1..Len(r) : i < j => ix[i] < ix[j]
        /\ \A k \in 1..m : q[k].event \notin events =>
             \E i \in 1..Len(r) : ix[i] = k

\* merged_turn_queue and message.delete filter a queue: the order is kept,
\* nothing is invented, and only the named events are dropped.
LEMMA WithoutSelects ==
    ASSUME NEW S, NEW q \in Seq(S), NEW events
    PROVE  /\ Without(q, events) \in Seq(S)
           /\ Len(Without(q, events)) <= Len(q)
           /\ Selects(Without(q, events), q, Len(q), events)
<1> DEFINE len == Len(q)
           kept == CHOOSE g : g = [n \in 0..len |->
                      IF n = 0 THEN <<>>
                      ELSE IF q[n].event \in events THEN g[n - 1]
                      ELSE Append(g[n - 1], q[n])]
           P(n) == /\ kept[n] \in Seq(S)
                   /\ Len(kept[n]) <= n
                   /\ Selects(kept[n], q, n, events)
           Bad == {n \in 0..len : ~P(n)}
<1>1. len \in Nat /\ \A n \in 1..len : q[n] \in S OBVIOUS
<1>2. kept = [n \in 0..len |->
                 IF n = 0 THEN <<>>
                 ELSE IF q[n].event \in events THEN kept[n - 1]
                 ELSE Append(kept[n - 1], q[n])]
  <2>1. \E g : g = [n \in 0..len |-> KeptStep(q, events, g, n)] BY <1>1, KeptExists
  <2>2. \E g : g = [n \in 0..len |->
                 IF n = 0 THEN <<>>
                 ELSE IF q[n].event \in events THEN g[n - 1]
                 ELSE Append(g[n - 1], q[n])]
    BY <2>1, Zenon DEF KeptStep
  <2> QED BY <2>2, Zenon
<1>3. Without(q, events) = kept[len] BY DEF Without
<1> HIDE DEF kept
<1>u. \A n \in 0..len :
        kept[n] = IF n = 0 THEN <<>>
                  ELSE IF q[n].event \in events THEN kept[n - 1]
                  ELSE Append(kept[n - 1], q[n])
  BY <1>2, Zenon
<1> HIDE DEF kept, len
<1>4. P(0)
  <2>1. kept[0] = <<>> BY <1>1, <1>u
  <2>2. Selects(<<>>, q, 0, events)
    <3>1. 1..Len(<<>>) = {} /\ 1..0 = {} OBVIOUS
    <3>2. <<>> \in [1..Len(<<>>) -> 1..0] BY <3>1
    <3> QED BY <3>1, <3>2 DEF Selects
  <2> QED BY <2>1, <2>2
<1>5. ASSUME NEW n \in 1..len, P(n - 1)
      PROVE  P(n)
  <2> DEFINE r == kept[n - 1]
  <2>1. PICK ix \in [1..Len(r) -> 1..(n - 1)] :
          /\ \A i \in 1..Len(r) : r[i] = q[ix[i]] /\ q[ix[i]].event \notin events
          /\ \A i, j \in 1..Len(r) : i < j => ix[i] < ix[j]
          /\ \A k \in 1..(n - 1) : q[k].event \notin events =>
               \E i \in 1..Len(r) : ix[i] = k
    BY <1>5 DEF Selects
  <2>2. r \in Seq(S) /\ Len(r) \in Nat /\ Len(r) <= n - 1 /\ n \in Nat BY <1>1, <1>5
  <2>3. CASE q[n].event \in events
    <3>1. kept[n] = r BY <1>1, <1>u, <2>3
    <3>2. ix \in [1..Len(r) -> 1..n] BY <2>2
    <3>3. \A k \in 1..n : q[k].event \notin events =>
            \E i \in 1..Len(r) : ix[i] = k
      BY <2>1, <2>2, <2>3
    <3>4. Selects(r, q, n, events) BY <3>2, <3>3, <2>1 DEF Selects
    <3> QED BY <3>1, <3>4, <2>2
  <2>4. CASE q[n].event \notin events
    <3> DEFINE t == Append(r, q[n])
               jx == [i \in 1..(Len(r) + 1) |-> IF i <= Len(r) THEN ix[i] ELSE n]
    <3>1. kept[n] = t
      <4>1. n \in 0..len /\ n # 0 BY <1>1
      <4> QED BY <4>1, <1>u, <2>4, Zenon
    <3>2. /\ t \in Seq(S)
          /\ Len(t) = Len(r) + 1
          /\ \A i \in 1..Len(r) : t[i] = r[i]
          /\ t[Len(r) + 1] = q[n]
      BY <1>1, <2>2
    <3> HIDE DEF t, r
    <3>3. jx \in [1..Len(t) -> 1..n] BY <3>2, <2>2
    <3>4. \A i \in 1..Len(t) : t[i] = q[jx[i]] /\ q[jx[i]].event \notin events BY <3>2, <2>1, <2>2, <2>4
    <3>5. ASSUME NEW i \in 1..Len(t), NEW j \in 1..Len(t), i < j
          PROVE  jx[i] < jx[j]
      <4> USE <3>2, <2>2
      <4>1. i \in 1..Len(r) /\ ix[i] \in 1..(n - 1) /\ jx[i] = ix[i]
        <5>1. i \in 1..Len(r) BY <3>5
        <5>2. ix[i] \in 1..(n - 1) BY <5>1
        <5> QED BY <5>1, <5>2
      <4>2. CASE j \in 1..Len(r) BY <3>2, <2>1, <2>2, <3>5, <4>1, <4>2
      <4>3. CASE j \notin 1..Len(r) BY <3>2, <2>2, <4>3, <4>1
      <4> QED BY <4>2, <4>3
    <3>6. \A k \in 1..n : q[k].event \notin events =>
            \E i \in 1..Len(t) : jx[i] = k
      BY <3>2, <2>1, <2>2
    <3>7. Selects(t, q, n, events) BY <3>3, <3>4, <3>5, <3>6 DEF Selects
    <3> QED BY <3>1, <3>2, <3>7, <2>2
  <2> QED BY <2>3, <2>4
<1> HIDE DEF P
<1>6. Bad = {}
  <2>1. SUFFICES ASSUME Bad # {} PROVE FALSE
    OBVIOUS
  <2>2. PICK n \in Bad : \A k \in Bad : n <= k
    <3>1. Bad \subseteq Nat BY <1>1
    <3> HIDE DEF Bad
    <3> QED BY <3>1, <2>1, LeastNatural
  <2>3. n \in 1..len /\ ~P(n) BY <1>1, <1>4
  <2>4. n - 1 \in 0..len /\ n - 1 \notin Bad BY <1>1, <2>2, <2>3
  <2> QED BY <2>3, <2>4, <1>5
<1>7. P(len) BY <1>1, <1>6
<1> QED BY <1>3, <1>7 DEF P, len

------------------------
(* Choosing the batch and the next speaker.                                 *)

\* The batch of a nonempty queue is a nonempty prefix of one delivery kind.
LEMMA RunLengthBounds ==
    ASSUME NEW q \in Seq(Input), q # <<>>
    PROVE  /\ RunLength(q) \in 1..Len(q)
           /\ RunLength(q) \in 1..MaxBatch
           /\ \A i \in 1..RunLength(q) : q[i].kind = q[1].kind
<1> DEFINE End(n) == \/ n = MaxBatch
                     \/ n = Len(q)
                     \/ q[n + 1].kind # q[1].kind
           T == {n \in 1..MaxBatch : n <= Len(q) /\ End(n)}
<1>1. MaxBatch \in Nat \ {0} /\ Len(q) \in Nat \ {0} BY BoundsAssumption
<1>2. T # {} BY <1>1
<1>3. PICK x \in T : \A y \in T : x <= y
  <2>1. T \subseteq Nat BY <1>1
  <2> HIDE DEF T
  <2> QED BY <2>1, <1>2, LeastNatural
<1>4. ASSUME NEW i \in 1..x
      PROVE  q[i].kind = q[1].kind
  <2>1. CASE i = 1 BY <2>1
  <2>2. CASE i # 1
    <3>1. i - 1 \in 1..MaxBatch /\ i - 1 <= Len(q) /\ i - 1 < x BY <1>1, <2>2
    <3>2. i - 1 \notin T
      <4>1. x \in Nat /\ i \in Nat BY <1>1
      <4> HIDE DEF T
      <4> QED BY <3>1, <4>1, <1>3
    <3>3. ~End(i - 1) BY <3>1, <3>2
    <3>4. (i - 1) + 1 = i BY <1>1
    <3> QED BY <3>3, <3>4
  <2> QED BY <2>1, <2>2
<1>5. \E n \in 1..MaxBatch :
        /\ n <= Len(q)
        /\ \A i \in 1..n : q[i].kind = q[1].kind
        /\ End(n)
  BY <1>4
<1>6. /\ RunLength(q) \in 1..MaxBatch
      /\ RunLength(q) <= Len(q)
      /\ \A i \in 1..RunLength(q) : q[i].kind = q[1].kind
  BY <1>5, Zenon DEF RunLength
<1> QED BY <1>1, <1>6

\* Among waiting sessions one has the oldest first input.
LEMMA EarliestExists ==
    ASSUME NEW rows, NEW cands \in SUBSET Sessions, cands # {},
           \A s \in cands : rows[s].pending[1].event \in Nat
    PROVE  \E s \in cands : \A t \in cands : Earlier(rows, s, t)
<1> DEFINE Ev(s) == rows[s].pending[1].event
           evs == {Ev(s) : s \in cands}
<1>1. PICK e \in evs : \A f \in evs : e <= f
  <2>1. evs \subseteq Nat /\ evs # {} OBVIOUS
  <2> HIDE DEF evs
  <2> QED BY <2>1, LeastNatural
<1> DEFINE firsts == {s \in cands : Ev(s) = e}
<1>2. PICK s \in firsts : \A t \in firsts : s <= t
  <2>1. firsts \subseteq Nat /\ firsts # {} BY SessionsAssumption
  <2> HIDE DEF firsts
  <2> QED BY <2>1, LeastNatural
<1>3. ASSUME NEW t \in cands
      PROVE  Earlier(rows, s, t)
  <2>1. Ev(s) = e /\ e <= Ev(t) /\ e \in Nat /\ Ev(t) \in Nat BY <1>1
  <2>2. CASE Ev(t) = e BY <2>1, <2>2, <1>2 DEF Earlier
  <2>3. CASE Ev(t) # e BY <2>1, <2>3 DEF Earlier
  <2> QED BY <2>2, <2>3
<1> QED BY <1>3

\* Only waiting sessions are chosen; in an ordered room at most one, and none
\* while a turn is active.
LEMMA ChosenAreCandidates ==
    ASSUME NEW rows \in [Sessions -> Row], NEW parts, NEW m
    PROVE  /\ Chosen(rows, parts, m) \subseteq Candidates(rows, parts)
           /\ m # "ambient" =>
                /\ Chosen(rows, parts, m) # {} => ~AnyActive(rows)
                /\ \A s, t \in Chosen(rows, parts, m) : s = t
<1> DEFINE cands == Candidates(rows, parts)
<1>1. cands \in SUBSET Sessions BY DEF Candidates
<1>2. ASSUME NEW s \in cands
      PROVE  rows[s].pending[1].event \in Nat
  <2>1. rows[s].pending \in Seq(Input) /\ rows[s].pending # <<>> BY DEF Candidates, Row
  <2>2. rows[s].pending[1] \in Input BY <2>1
  <2> QED BY <2>2 DEF Input
<1>3. CASE m = "ambient" BY <1>3 DEF Chosen
<1>4. CASE m # "ambient" /\ (AnyActive(rows) \/ cands = {}) BY <1>4 DEF Chosen
<1>5. CASE m # "ambient" /\ ~AnyActive(rows) /\ cands # {}
  <2> DEFINE c == CHOOSE s \in cands : \A t \in cands : Earlier(rows, s, t)
  <2>1. \E s \in cands : \A t \in cands : Earlier(rows, s, t)
    <3> HIDE DEF cands
    <3> QED BY <1>1, <1>2, <1>5, EarliestExists
  <2>2. c \in cands BY <2>1
  <2>3. Chosen(rows, parts, m) = {c} BY <1>5 DEF Chosen
  <2> HIDE DEF c
  <2> QED BY <2>2, <2>3, <1>5
<1> QED BY <1>3, <1>4, <1>5

\* prepare_assignment keeps the type of a row.
LEMMA PrepareAssignmentType ==
    ASSUME NEW row \in Row, NEW n \in 1..Len(row.pending)
    PROVE  PrepareAssignment(row, n) \in Row
<1>1. row.pending \in Seq(Input) /\ Len(row.pending) \in Nat BY DEF Row
<1>2. n \in Nat /\ n <= Len(row.pending) /\ \A i \in 1..n : row.pending[i] \in Input BY <1>1
<1>3. Prefix(row.pending, n) \in Seq(Input) BY <1>2, IsASeq DEF Prefix
<1>4. SubSeq(row.pending, n + 1, Len(row.pending)) \in Seq(Input) BY <1>1, <1>2, SubSeqProperties
<1>5. row.pending[n].event \in Nat BY <1>2 DEF Input
<1> QED BY <1>3, <1>4, <1>5 DEF PrepareAssignment, Row, Runtimes, Executions, Effects

\* What assign_available_pending may do to one row: nothing, spend the wake
\* request of an idle session, or hand it the floor.
AssignedFrom(row, part, r) ==
    \/ r = row
    \/ r = [row EXCEPT !.schedule_requested = FALSE]
    \/ /\ Ready(row, part)
       /\ row.pending # <<>>
       /\ \E n \in 1..Len(row.pending) : r = PrepareAssignment(row, n)

\* Every row left by the scheduler is well typed and comes from the row it
\* was given; in an ordered room a new turn is the only turn.
LEMMA ScheduledRows ==
    ASSUME NEW rows \in [Sessions -> Row], NEW parts, NEW msgs, NEW m \in Modes,
           NEW result \in Scheduled(rows, parts, msgs, m)
    PROVE  /\ result \in [Sessions -> Row]
           /\ \A s \in Sessions : AssignedFrom(rows[s], parts[s], result[s])
           /\ m = "ordered" =>
                \A s, t \in Sessions :
                   result[s].turn /\ ~rows[s].turn /\ s # t => ~result[t].turn
<1>0. ASSUME NEW s \in Sessions
      PROVE  AssignedFrom(rows[s], parts[s], rows[s])
  BY DEF AssignedFrom
<1>1. CASE quiescing BY <1>1, <1>0 DEF Scheduled
<1>2. CASE ~quiescing
  <2> DEFINE chosen == Chosen(rows, parts, m)
  <2>1. PICK fit \in [Sessions -> 1..MaxBatch] :
          /\ SchedulerAccepts(rows, parts, msgs)
          /\ \A s \in Sessions :
               s \in chosen => fit[s] <= RunLength(rows[s].pending)
          /\ result = Assigned(rows, parts, m, fit)
    BY <1>2 DEF Scheduled
  <2>2. chosen \subseteq Candidates(rows, parts) BY ChosenAreCandidates
  <2>3. ASSUME NEW s \in chosen
        PROVE  /\ s \in Sessions
               /\ Ready(rows[s], parts[s])
               /\ rows[s].pending # <<>>
               /\ fit[s] \in 1..Len(rows[s].pending)
               /\ PrepareAssignment(rows[s], fit[s]) \in Row
    BY <2>2, RunLengthBounds, <2>1, BoundsAssumption, PrepareAssignmentType DEF Candidates, Row
  <2> HIDE DEF chosen
  <2>4. result = [s \in Sessions |->
                    IF s \in chosen
                    THEN PrepareAssignment(rows[s], fit[s])
                    ELSE IF /\ Ready(rows[s], parts[s])
                            /\ rows[s].pending = <<>>
                            /\ ~FloorHeld(rows, m)
                         THEN [rows[s] EXCEPT !.schedule_requested = FALSE]
                         ELSE rows[s]]
    BY <2>1 DEF Assigned, chosen
  <2>5. ASSUME NEW s \in Sessions
        PROVE  /\ result[s] \in Row
               /\ AssignedFrom(rows[s], parts[s], result[s])
               /\ s \notin chosen => result[s].turn = rows[s].turn
    <3>1. CASE s \in chosen BY <3>1, <2>3, <2>4 DEF AssignedFrom
    <3>2. CASE s \notin chosen
      <4>1. \/ result[s] = rows[s]
            \/ result[s] = [rows[s] EXCEPT !.schedule_requested = FALSE]
        BY <3>2, <2>4
      <4>2. rows[s] \in Row OBVIOUS
      <4> QED BY <4>1, <4>2, <3>2 DEF AssignedFrom, Row
    <3> QED BY <3>1, <3>2
  <2>6. ASSUME m = "ordered",
               NEW s \in Sessions, NEW t \in Sessions,
               result[s].turn, ~rows[s].turn, s # t
        PROVE  ~result[t].turn
    BY <2>5, <2>6, ChosenAreCandidates, <2>1 DEF chosen, SchedulerAccepts, AnyActive, Authority, TurnClear
  <2>7. result \in [Sessions -> Row] BY <2>4, <2>5
  <2> QED BY <2>5, <2>6, <2>7
<1> QED BY <1>1, <1>2

------------------------
(* The inductive invariant.                                                 *)

RowExecution(row) ==
    /\ row.exec # "none" <=> row.turn
    /\ row.effect # "none" => OpenExecution(row)
    /\ row.exec = "interrupted" => HasIntent(row, "stop", "effect_applied")

RowMute(row, part) ==
    part.muted /\ OpenExecution(row) => row.effect = "participant_muted"

RowInv(row, part) == RowExecution(row) /\ RowMute(row, part)

FloorInv ==
    /\ TypeOK
    /\ \A s \in Sessions : RowInv(session[s], participant[s])

------------------------
(* Row updates keep the type of a row.                                      *)

\* clear_active_turn_fields with the merged queue keeps the type of a row.
LEMMA ReleasedRowType ==
    ASSUME NEW row \in Row, NEW msgs
    PROVE  ReleasedRow(row, msgs) \in Row
<1>1. row.inflight \in Seq(Input) /\ row.pending \in Seq(Input) BY DEF Row
<1>2. Queue(row) \in Seq(Input) BY <1>1, ConcatProperties DEF Queue
<1>3. MergedQueue(row, msgs) \in Seq(Input) BY <1>2, WithoutSelects DEF MergedQueue
<1>4. <<>> \in Seq(Input) OBVIOUS
<1> HIDE DEF MergedQueue
<1> QED BY <1>3, <1>4 DEF ReleasedRow, Row, Executions, Effects

\* So does every way in which a turn ends.
LEMMA TurnEndTypes ==
    ASSUME NEW row \in Row, NEW msgs, NEW stopped \in BOOLEAN
    PROVE  /\ CompletedRow(row) \in Row
           /\ FailedRow(row, msgs, stopped) \in Row
           /\ RetainedRow(row, msgs) \in Row
           /\ GoneRow(row, msgs) \in Row
           /\ StoppedTurnRow(row) \in Row
           /\ DetachedRow(row, msgs) \in Row
<1>1. ReleasedRow(row, msgs) \in Row BY ReleasedRowType
<1>2. CompletedRow(row) \in Row
  <2>1. <<>> \in Seq(Input) OBVIOUS
  <2> QED BY <2>1 DEF CompletedRow, Row, Executions, Statuses, Runtimes
<1>3. FailedRow(row, msgs, stopped) \in Row BY <1>1, ZenonT(60) DEF FailedRow, Row, Statuses, Runtimes
<1>4. RetainedRow(row, msgs) \in Row BY <1>1 DEF RetainedRow, Row, Statuses, Runtimes
<1>5. GoneRow(row, msgs) \in Row BY <1>1 DEF GoneRow, Row, Statuses, Runtimes
<1>6. StoppedTurnRow(row) \in Row BY DEF StoppedTurnRow, Row, Executions, Effects
<1>7. DetachedRow(row, msgs) \in Row
  BY <1>1, ZenonT(60) DEF DetachedRow, ClearIntent, Row, Statuses, Runtimes, Intents, Steps
<1> QED BY <1>2, <1>3, <1>4, <1>5, <1>6, <1>7

\* A turn that has ended leaves no execution and no effect behind.
LEMMA TurnEndFields ==
    ASSUME NEW row \in Row, NEW msgs, NEW stopped \in BOOLEAN
    PROVE  /\ \A r \in {ReleasedRow(row, msgs), FailedRow(row, msgs, stopped),
                        RetainedRow(row, msgs), GoneRow(row, msgs),
                        DetachedRow(row, msgs)} :
                ~r.turn /\ r.exec = "none" /\ r.effect = "none"
           /\ ~CompletedRow(row).turn
           /\ CompletedRow(row).exec = "none"
           /\ CompletedRow(row).effect = row.effect
<1>1. ReleasedRow(row, msgs) \in Row BY ReleasedRowType
<1>2. LET r == ReleasedRow(row, msgs)
      IN  ~r.turn /\ r.exec = "none" /\ r.effect = "none"
  BY DEF ReleasedRow, Row
<1> HIDE DEF ReleasedRow
<1>3. /\ ~CompletedRow(row).turn
      /\ CompletedRow(row).exec = "none"
      /\ CompletedRow(row).effect = row.effect
  BY DEF CompletedRow, Row
<1>4. LET r == FailedRow(row, msgs, stopped)
      IN  ~r.turn /\ r.exec = "none" /\ r.effect = "none"
  BY <1>1, <1>2 DEF FailedRow, Row
<1>5. LET r == RetainedRow(row, msgs)
      IN  ~r.turn /\ r.exec = "none" /\ r.effect = "none"
  BY <1>1, <1>2 DEF RetainedRow, Row
<1>6. LET r == GoneRow(row, msgs)
      IN  ~r.turn /\ r.exec = "none" /\ r.effect = "none"
  BY <1>1, <1>2 DEF GoneRow, Row
<1>7. LET r == DetachedRow(row, msgs)
      IN  ~r.turn /\ r.exec = "none" /\ r.effect = "none"
  BY <1>1, <1>2 DEF DetachedRow, ClearIntent, Row
<1> QED BY <1>2, <1>3, <1>4, <1>5, <1>6, <1>7

------------------------
(* Rewriting rows and running the scheduler keeps the invariant.            *)

\* No row of `rows` shows a turn that the step has just handed out.
Quiet(rows) ==
    \A s \in Sessions :
        rows[s].exec = "assigned" =>
            /\ session[s].exec = "assigned"
            /\ rows[s].effect = "none" => session[s].effect = "none"

GoodRows(rows, parts) ==
    /\ rows \in [Sessions -> Row]
    /\ \A s \in Sessions : RowInv(rows[s], parts[s])
    /\ Quiet(rows)

\* Rows after a step: rewritten rows, and perhaps a pass of the scheduler.
StepShape ==
    \E rows \in [Sessions -> Row] :
        /\ GoodRows(rows, participant')
        /\ \/ session' = rows
           \/ \E msgs : session' \in Scheduled(rows, participant', msgs, mode)

\* Replacing one row.
LEMMA ReplacedRow ==
    ASSUME FloorInv,
           NEW s \in Sessions, NEW r \in Row, NEW parts,
           RowInv(r, parts[s]),
           \A t \in Sessions \ {s} : parts[t] = participant[t],
           r.exec = "assigned" =>
               /\ session[s].exec = "assigned"
               /\ r.effect = "none" => session[s].effect = "none"
    PROVE  GoodRows([session EXCEPT ![s] = r], parts)
BY DEF FloorInv, TypeOK, Quiet, GoodRows

\* A row whose turn has ended satisfies the invariant.
LEMMA EndedRowInv ==
    ASSUME NEW r, NEW part, ~r.turn, r.exec = "none", r.effect = "none"
    PROVE  RowInv(r, part) /\ r.exec # "assigned"
BY DEF RowInv, RowExecution, RowMute, OpenExecution

\* The scheduler keeps the row invariant.
LEMMA AssignmentKeepsRowInv ==
    ASSUME NEW row \in Row, NEW part, NEW r,
           RowInv(row, part), AssignedFrom(row, part, r)
    PROVE  RowInv(r, part)
<1>1. CASE r = row BY <1>1
<1>2. CASE r = [row EXCEPT !.schedule_requested = FALSE]
  BY <1>2 DEF Row, RowInv, RowExecution, RowMute, OpenExecution, HasIntent
<1>3. ASSUME Ready(row, part), NEW n \in 1..Len(row.pending),
             r = PrepareAssignment(row, n)
      PROVE  RowInv(r, part)
  BY <1>3 DEF PrepareAssignment, Row, Ready, RowInv, RowExecution, RowMute, OpenExecution
<1> QED BY <1>1, <1>2, <1>3 DEF AssignedFrom

\* What StepShape gives: the row invariant holds after the step ...
LEMMA StepShapeKeepsInv ==
    ASSUME StepShape, mode \in Modes
    PROVE  /\ session' \in [Sessions -> Row]
           /\ \A s \in Sessions : RowInv(session'[s], participant'[s])
BY ScheduledRows, AssignmentKeepsRowInv DEF StepShape, GoodRows

\* ... and a turn handed out in an ordered room is the only turn.
LEMMA StepShapeExclusive ==
    ASSUME StepShape, mode = "ordered",
           NEW s \in Sessions, NEW t \in Sessions, NewTurn(s), s # t
    PROVE  ~session'[t].turn
<1>1. PICK rows \in [Sessions -> Row] :
        /\ GoodRows(rows, participant')
        /\ \/ session' = rows
           \/ \E msgs : session' \in Scheduled(rows, participant', msgs, mode)
  BY DEF StepShape
<1>2. mode \in Modes BY DEF Modes
<1>3. session'[s].turn BY <1>2, StepShapeKeepsInv DEF RowInv, RowExecution, NewTurn
<1>4. CASE session' = rows BY <1>1, <1>4 DEF GoodRows, Quiet, NewTurn
<1>5. ASSUME NEW msgs, session' \in Scheduled(rows, participant', msgs, mode)
      PROVE  ~session'[t].turn
  <2>1. AssignedFrom(rows[s], participant'[s], session'[s]) BY <1>2, <1>5, ScheduledRows
  <2>2. ~rows[s].turn BY <2>1, <1>1 DEF Ready, Assignable, AssignedFrom, Row, GoodRows, Quiet, NewTurn
  <2> QED BY <1>2, <1>3, <1>5, <2>2, ScheduledRows
<1> QED BY <1>1, <1>4, <1>5

\* Changing other fields of a row than those of its turn keeps it good.
SameTurn(r, row) ==
    /\ r.turn = row.turn /\ r.exec = row.exec /\ r.effect = row.effect
    /\ r.intent = row.intent /\ r.step = row.step

\* A row with the same turn, execution, effect and intent is as good.
LEMMA SameTurnRowInv ==
    ASSUME NEW row, NEW r, NEW part, RowInv(row, part), SameTurn(r, row)
    PROVE  RowInv(r, part)
BY DEF RowInv, RowExecution, RowMute, OpenExecution, HasIntent, SameTurn

\* The same for all rows of the room.
LEMMA SameTurnGoodRows ==
    ASSUME NEW rows, NEW parts, GoodRows(rows, parts),
           NEW result \in [Sessions -> Row],
           \A s \in Sessions : SameTurn(result[s], rows[s])
    PROVE  GoodRows(result, parts)
BY SameTurnRowInv DEF GoodRows, Quiet, SameTurn

\* Routing only appends to queues.
LEMMA RoutedRows ==
    ASSUME NEW rows, NEW parts, GoodRows(rows, parts),
           NEW before \in Seq(Message), NEW m \in Modes,
           NEW author, NEW direct,
           NEW result \in Routed(rows, parts, before, m, author, direct)
    PROVE  GoodRows(result, parts)
<1> DEFINE event == Len(before) + 1
<1>1. event \in Nat OBVIOUS
<1>2. PICK targets : result = QueueInput(rows, targets, event, m) BY DEF Routed
<1> HIDE DEF event
<1>3. rows \in [Sessions -> Row] BY DEF GoodRows
<1>4. ASSUME NEW s \in Sessions
      PROVE  result[s] \in Row /\ SameTurn(result[s], rows[s])
  <2>1. rows[s] \in Row /\ rows[s].pending \in Seq(Input) BY <1>3 DEF Row
  <2>2. [event |-> event, kind |-> m] \in Input BY <1>1 DEF Input
  <2>3. Append(rows[s].pending, [event |-> event, kind |-> m]) \in Seq(Input) BY <2>1, <2>2, AppendProperties
  <2>4. \/ result[s] = rows[s]
        \/ result[s] = [rows[s] EXCEPT !.pending =
                          Append(rows[s].pending, [event |-> event, kind |-> m])]
    BY <1>2 DEF QueueInput
  <2> DEFINE q == Append(rows[s].pending, [event |-> event, kind |-> m])
  <2>5. q \in Seq(Input) BY <2>3
  <2> HIDE DEF q
  <2>6. result[s] = rows[s] \/ result[s] = [rows[s] EXCEPT !.pending = q] BY <2>4 DEF q
  <2> QED BY <2>1, <2>5, <2>6 DEF Row, SameTurn
<1>5. result \in [Sessions -> Row] BY <1>2, <1>4 DEF QueueInput
<1> QED BY <1>4, <1>5, SameTurnGoodRows

\* route_message followed by the scheduler has the shape of a step.
LEMMA RoutedAndScheduledShape ==
    ASSUME NEW rows, GoodRows(rows, participant'),
           log \in Seq(Message), mode \in Modes,
           NEW author, NEW direct,
           session' \in RoutedAndScheduled(rows, participant', log, mode, author, direct)
    PROVE  StepShape
<1> DEFINE after == Append(log, [author |-> author, deleted |-> FALSE])
<1>1. PICK r \in Routed(rows, participant', log, mode, author, direct) :
        session' \in Scheduled(r, participant', after, mode)
  BY DEF RoutedAndScheduled
<1>2. GoodRows(r, participant') BY RoutedRows
<1>3. r \in [Sessions -> Row] BY <1>2 DEF GoodRows
<1> QED BY <1>1, <1>2, <1>3 DEF StepShape

\* The stored rows themselves are good.
LEMMA StoredRowsGood ==
    ASSUME FloorInv
    PROVE  GoodRows(session, participant)
BY DEF FloorInv, TypeOK, GoodRows, Quiet

------------------------
(* Every transaction has this shape.                                        *)

\* A step that replaces the row of one session.
LEMMA ReplacedRowShape ==
    ASSUME FloorInv,
           NEW s \in Sessions, NEW r \in Row,
           RowInv(r, participant'[s]),
           \A t \in Sessions \ {s} : participant'[t] = participant[t],
           r.exec = "assigned" =>
               /\ session[s].exec = "assigned"
               /\ r.effect = "none" => session[s].effect = "none",
           \/ session' = [session EXCEPT ![s] = r]
           \/ \E msgs : session' \in Scheduled([session EXCEPT ![s] = r],
                                              participant', msgs, mode)
    PROVE  StepShape
BY ReplacedRow DEF GoodRows, StepShape

\* The steps of a turn, from its start to its ordinary outcome.
LEMMA TurnStepShape ==
    ASSUME FloorInv, NEW s \in Sessions,
           \/ AuthorizeStart(s)
           \/ \E t, d \in Sessions \cup {None} : CompleteMessage(s, t, d)
           \/ CompleteVoteCast(s)
           \/ CompleteSilently(s)
           \/ \E stopped \in BOOLEAN : FailTurn(s, stopped)
           \/ TaskDiesBeforeStart(s)
           \/ TaskDiesAfterStart(s)
    PROVE  StepShape
<1> DEFINE row == session[s]
<1>0. /\ row \in Row
      /\ RowInv(row, participant[s])
      /\ session \in [Sessions -> Row]
      /\ log \in Seq(Message) /\ mode \in Modes
  BY DEF FloorInv, TypeOK
<1>1. CASE AuthorizeStart(s)
  <2> DEFINE r == [row EXCEPT !.exec = "started"]
  <2>1. r \in Row BY <1>0 DEF Row, Executions
  <2>2. /\ r.exec = "started" /\ r.turn = row.turn /\ r.effect = row.effect
        /\ row.turn /\ row.effect = "none" /\ ~participant[s].muted
    BY <1>0, <1>1 DEF AuthorizeStart, TurnActive, Row
  <2>3. RowInv(r, participant[s]) BY <2>2 DEF RowInv, RowExecution, RowMute, OpenExecution
  <2>4. participant' = participant /\ session' = [session EXCEPT ![s] = r] BY <1>0, <1>1 DEF AuthorizeStart
  <2> HIDE DEF r
  <2> QED BY <2>1, <2>2, <2>3, <2>4, ReplacedRowShape
<1>2. ASSUME OrdinaryOutcomeAllowed(row, participant[s]), participant' = participant
      PROVE  /\ CompletedRow(row) \in Row
             /\ RowInv(CompletedRow(row), participant'[s])
             /\ CompletedRow(row).exec # "assigned"
             /\ GoodRows([session EXCEPT ![s] = CompletedRow(row)], participant')
  <2>1. CompletedRow(row) \in Row BY <1>0, TurnEndTypes
  <2>2. /\ ~CompletedRow(row).turn /\ CompletedRow(row).exec = "none"
        /\ CompletedRow(row).effect = "none"
    BY <1>0, <1>2, TurnEndFields DEF OrdinaryOutcomeAllowed
  <2> HIDE DEF row
  <2>3. RowInv(CompletedRow(row), participant'[s]) /\ CompletedRow(row).exec # "assigned" BY <2>2, EndedRowInv
  <2> QED BY <1>2, <2>1, <2>3, ReplacedRow
<1>3. ASSUME NEW t, NEW d, CompleteMessage(s, t, d)
      PROVE  StepShape
  BY <1>0, <1>3, <1>2, RoutedAndScheduledShape DEF CompleteMessage
<1>4. CASE CompleteVoteCast(s)
  <2>1. /\ OrdinaryOutcomeAllowed(row, participant[s])
        /\ participant' = participant
        /\ session' \in Scheduled([session EXCEPT ![s] = CompletedRow(row)],
                                  participant', log', mode)
    BY <1>0, <1>4 DEF CompleteVoteCast
  <2> HIDE DEF row
  <2> QED BY <2>1, <1>0, <1>2, ReplacedRowShape
<1>5. CASE CompleteSilently(s)
  <2>1. /\ OrdinaryOutcomeAllowed(row, participant[s])
        /\ participant' = participant
        /\ session' \in Scheduled([session EXCEPT ![s] = CompletedRow(row)],
                                  participant', log, mode)
    BY <1>0, <1>5 DEF CompleteSilently
  <2> HIDE DEF row
  <2> QED BY <2>1, <1>0, <1>2, ReplacedRowShape
<1>6. ASSUME NEW stopped \in BOOLEAN, participant' = participant,
             session' \in Scheduled([session EXCEPT ![s] = FailedRow(row, log, stopped)],
                                   participant', log, mode)
      PROVE  StepShape
  <2> DEFINE r == FailedRow(row, log, stopped)
  <2>1. r \in Row /\ ~r.turn /\ r.exec = "none" /\ r.effect = "none" BY <1>0, TurnEndTypes, TurnEndFields
  <2> HIDE DEF r
  <2>2. RowInv(r, participant'[s]) /\ r.exec # "assigned" BY <2>1, EndedRowInv
  <2>3. session' \in Scheduled([session EXCEPT ![s] = r], participant', log, mode) BY <1>6 DEF r
  <2> QED BY <1>6, <2>1, <2>2, <2>3, ReplacedRowShape
<1>7. ASSUME NEW stopped \in BOOLEAN, FailTurn(s, stopped)
      PROVE  StepShape
  BY <1>0, <1>6, <1>7 DEF FailTurn
<1>8. CASE TaskDiesBeforeStart(s) BY <1>0, <1>6, <1>8 DEF TaskDiesBeforeStart
<1>9. CASE TaskDiesAfterStart(s)
  <2> DEFINE r == [row EXCEPT !.exec = "quarantined"]
  <2>1. r \in Row BY <1>0 DEF Row, Executions
  <2>2. /\ r.exec = "quarantined" /\ r.turn = row.turn /\ r.effect = row.effect
        /\ row.turn /\ row.exec \in {"assigned", "started"}
    BY <1>0, <1>9 DEF TaskDiesAfterStart, TurnActive, Row
  <2>3. RowInv(r, participant[s]) BY <1>0, <2>2 DEF RowInv, RowExecution, RowMute, OpenExecution
  <2>4. participant' = participant /\ session' = [session EXCEPT ![s] = r] BY <1>0, <1>9 DEF TaskDiesAfterStart
  <2> HIDE DEF r
  <2> QED BY <2>1, <2>2, <2>3, <2>4, ReplacedRowShape
<1> QED BY <1>1, <1>3, <1>4, <1>5, <1>7, <1>8, <1>9

\* Mute, unmute and the interrupts.
LEMMA ModerationStepShape ==
    ASSUME FloorInv, NEW s \in Sessions,
           \/ Mute(s)
           \/ Unmute(s)
           \/ AgentInterrupt(s)
           \/ FinalizeRetained(s)
           \/ RuntimeGone(s)
    PROVE  StepShape
<1> DEFINE row == session[s]
<1>0. /\ row \in Row
      /\ RowInv(row, participant[s])
      /\ session \in [Sessions -> Row]
      /\ participant \in [Sessions -> Part]
  BY DEF FloorInv, TypeOK
<1>b. TRUE \in BOOLEAN OBVIOUS
<1>1. CASE Mute(s)
  <2> DEFINE r == [row EXCEPT !.effect =
                     IF TurnActive(row) THEN "participant_muted" ELSE row.effect]
  <2>1. r \in Row BY <1>0 DEF Row, Effects
  <2>2. /\ r.exec = row.exec /\ r.turn = row.turn
        /\ r.intent = row.intent /\ r.step = row.step
        /\ TurnActive(row) => r.effect = "participant_muted" /\ OpenExecution(row)
        /\ ~TurnActive(row) => r.effect = row.effect
    BY <1>0, <1>1 DEF Mute, Row
  <2>3. ~TurnActive(row) => row.exec = "none" BY <1>0, <1>1 DEF Mute, Authority, TurnClear, RowInv, RowExecution
  <2>4. RowInv(r, participant'[s]) BY <1>0, <2>2, <2>3
       DEF RowInv, RowExecution, RowMute, OpenExecution, HasIntent
  <2>5. /\ \A t \in Sessions \ {s} : participant'[t] = participant[t]
        /\ session' = [session EXCEPT ![s] = r]
    BY <1>0, <1>1 DEF Mute
  <2>6. r.exec = "assigned" =>
          /\ row.exec = "assigned"
          /\ r.effect = "none" => row.effect = "none"
    BY <2>2
  <2> HIDE DEF r
  <2> QED BY <2>1, <2>4, <2>5, <2>6, ReplacedRowShape
<1>2. CASE Unmute(s)
  <2> DEFINE r == [row EXCEPT !.schedule_requested = TRUE]
  <2>1. r \in Row /\ SameTurn(r, row) BY <1>0 DEF Row, SameTurn
  <2>2. /\ participant' = [participant EXCEPT ![s].muted = FALSE]
        /\ session' \in Scheduled([session EXCEPT ![s] = r], participant', log, mode)
    BY <1>0, <1>2 DEF Unmute
  <2>3. ~participant'[s].muted BY <1>0, <2>2 DEF Part
  <2>4. RowInv(r, participant'[s]) BY <1>0, <2>1, <2>3
       DEF RowInv, RowExecution, RowMute, OpenExecution, HasIntent, SameTurn
  <2>5. \A t \in Sessions \ {s} : participant'[t] = participant[t] BY <1>0, <2>2
  <2>6. r.exec = "assigned" =>
          /\ row.exec = "assigned"
          /\ r.effect = "none" => row.effect = "none"
    BY <2>1 DEF SameTurn
  <2> HIDE DEF r
  <2> QED BY <2>1, <2>2, <2>4, <2>5, <2>6, ReplacedRowShape
<1>3. CASE AgentInterrupt(s)
  <2> DEFINE r == [row EXCEPT !.effect = "agent_interrupt"]
  <2>1. r \in Row BY <1>0 DEF Row, Effects
  <2>2. /\ r.exec = row.exec /\ r.turn = row.turn
        /\ r.intent = row.intent /\ r.step = row.step
        /\ r.effect = "agent_interrupt"
        /\ row.exec \in {"assigned", "started"}
        /\ ~participant[s].muted
    BY <1>0, <1>3 DEF AgentInterrupt, Row
  <2>3. RowInv(r, participant[s]) BY <1>0, <2>2 DEF RowInv, RowExecution, RowMute, OpenExecution, HasIntent
  <2>4. participant' = participant /\ session' = [session EXCEPT ![s] = r] BY <1>0, <1>3 DEF AgentInterrupt
  <2> HIDE DEF r
  <2> QED BY <2>1, <2>2, <2>3, <2>4, ReplacedRowShape
<1>4. CASE FinalizeRetained(s)
  <2> DEFINE r == RetainedRow(row, log)
  <2>1. r \in Row /\ ~r.turn /\ r.exec = "none" /\ r.effect = "none"
    BY <1>0, <1>b, TurnEndTypes, TurnEndFields, ZenonT(60)
  <2>2. /\ participant' = participant
        /\ \/ session' = [session EXCEPT ![s] = r]
           \/ session' \in Scheduled([session EXCEPT ![s] = r],
                                     participant', log, mode)
    BY <1>0, <1>4 DEF FinalizeRetained
  <2> HIDE DEF r
  <2>3. RowInv(r, participant'[s]) /\ r.exec # "assigned" BY <2>1, EndedRowInv
  <2> QED BY <2>1, <2>2, <2>3, ReplacedRowShape
<1>5. CASE RuntimeGone(s) /\ StopUnderWay(row)
  <2> DEFINE r == [StoppedTurnRow(row) EXCEPT !.step = "effect_applied"]
  <2>1. row.turn /\ row.intent = "stop" BY <1>5 DEF RuntimeGone, TurnActive, StopUnderWay
  <2>2. StoppedTurnRow(row) \in Row BY <1>0, TurnEndTypes
  <2>3. /\ r \in Row
        /\ r.turn /\ r.exec = "interrupted" /\ r.effect = "none"
        /\ r.intent = "stop" /\ r.step = "effect_applied"
    BY <1>0, <2>1, <2>2 DEF StoppedTurnRow, Row, Steps
  <2>4. RowInv(r, participant[s]) BY <2>3 DEF RowInv, RowExecution, RowMute, OpenExecution, HasIntent
  <2>5. participant' = participant /\ session' = [session EXCEPT ![s] = r] BY <1>0, <1>5 DEF RuntimeGone
  <2> HIDE DEF r
  <2> QED BY <2>3, <2>4, <2>5, ReplacedRowShape
<1>6. CASE RuntimeGone(s) /\ ~StopUnderWay(row)
  <2> DEFINE r == GoneRow(row, log)
  <2>1. r \in Row /\ ~r.turn /\ r.exec = "none" /\ r.effect = "none"
    BY <1>0, <1>b, TurnEndTypes, TurnEndFields, ZenonT(60)
  <2>2. /\ participant' = [participant EXCEPT ![s] = Detached(participant[s])]
        /\ \/ session' = [session EXCEPT ![s] = r]
           \/ session' \in Scheduled([session EXCEPT ![s] = r],
                                     participant', log, mode)
    BY <1>0, <1>6 DEF RuntimeGone
  <2>3. \A t \in Sessions \ {s} : participant'[t] = participant[t] BY <1>0, <2>2
  <2> HIDE DEF r
  <2>4. RowInv(r, participant'[s]) /\ r.exec # "assigned" BY <2>1, EndedRowInv
  <2> QED BY <2>1, <2>2, <2>3, <2>4, ReplacedRowShape
<1> QED BY <1>1, <1>2, <1>3, <1>4, <1>5, <1>6

\* agent.start.
LEMMA LaunchStepShape ==
    ASSUME FloorInv, NEW s \in Sessions,
           \/ PrepareLaunch(s)
           \/ AuthorizeLaunch(s)
           \/ \E reused, active \in BOOLEAN : CompleteLaunch(s, reused, active)
           \/ FailLaunchBeforeEffect(s)
           \/ FailLaunch(s)
           \/ LaunchUnconfirmed(s)
    PROVE  StepShape
<1> DEFINE row == session[s]
<1>0. /\ row \in Row
      /\ RowInv(row, participant[s])
      /\ session \in [Sessions -> Row]
      /\ participant \in [Sessions -> Part]
  BY DEF FloorInv, TypeOK
<1>1. ASSUME NEW r \in Row,
             session' = [session EXCEPT ![s] = r],
             r.turn = row.turn, r.exec = row.exec, r.effect = row.effect,
             row.intent # "stop" \/ row.step # "effect_applied",
             participant'[s].muted = participant[s].muted,
             \A t \in Sessions \ {s} : participant'[t] = participant[t]
      PROVE  StepShape
  BY <1>0, <1>1, ReplacedRowShape DEF RowInv, RowExecution, HasIntent, RowMute, OpenExecution
<1>2. \A st \in Steps : LaunchingRow(row, st) \in Row
  BY <1>0, ZenonT(60) DEF LaunchingRow, Row, Statuses, Runtimes, Intents
<1>3. CASE PrepareLaunch(s)
  <2> DEFINE r == LaunchingRow(row, "prepared")
  <2>1. /\ r \in Row
        /\ r.turn = row.turn /\ r.exec = row.exec /\ r.effect = row.effect
    BY <1>0, <1>2 DEF LaunchingRow, Row, Steps
  <2>2. /\ row.intent # "stop"
        /\ participant' = participant
        /\ session' = [session EXCEPT ![s] = r]
    BY <1>0, <1>3 DEF PrepareLaunch, NoIntent
  <2> HIDE DEF r
  <2> QED BY <2>1, <2>2, <1>1
<1>4. CASE AuthorizeLaunch(s)
  <2> DEFINE q == LaunchingRow(row, "effect_inflight")
             r == [q EXCEPT !.custody = TRUE]
  <2>1. /\ q \in Row
        /\ q.turn = row.turn /\ q.exec = row.exec /\ q.effect = row.effect
    BY <1>0, <1>2 DEF LaunchingRow, Row, Steps
  <2>2. /\ row.intent # "stop"
        /\ participant' = participant
        /\ session' = [session EXCEPT ![s] = r]
    BY <1>0, <1>4 DEF AuthorizeLaunch, HasIntent
  <2> HIDE DEF q
  <2>3. /\ r \in Row
        /\ r.turn = row.turn /\ r.exec = row.exec /\ r.effect = row.effect
    BY <2>1 DEF Row
  <2> HIDE DEF r
  <2> QED BY <2>2, <2>3, <1>1
<1>5. ASSUME NEW reused \in BOOLEAN, NEW active \in BOOLEAN,
             CompleteLaunch(s, reused, active)
      PROVE  StepShape
  <2> DEFINE q == ClearIntent(row)
             r == LaunchedRow(row, reused, active)
  <2>1. /\ q \in Row
        /\ q.turn = row.turn /\ q.exec = row.exec /\ q.effect = row.effect
    BY <1>0 DEF ClearIntent, Row, Intents, Steps
  <2>2. /\ row.intent # "stop"
        /\ participant' = [participant EXCEPT ![s].status = "joined"]
        /\ session' = [session EXCEPT ![s] = r]
    BY <1>0, <1>5 DEF CompleteLaunch, HasIntent
  <2> HIDE DEF q
  <2>3. /\ r \in Row
        /\ r.turn = row.turn /\ r.exec = row.exec /\ r.effect = row.effect
    BY <2>1 DEF LaunchedRow, q, Row, Statuses, Runtimes
  <2>4. /\ participant'[s].muted = participant[s].muted
        /\ \A t \in Sessions \ {s} : participant'[t] = participant[t]
    BY <1>0, <2>2 DEF Part
  <2> HIDE DEF r
  <2> QED BY <2>2, <2>3, <2>4, <1>1
<1>6. CASE FailLaunchBeforeEffect(s)
  <2> DEFINE q == ClearIntent(row)
             r == IF row.custody THEN q
                  ELSE [q EXCEPT !.status  = "unavailable",
                                 !.enabled = FALSE,
                                 !.runtime = "error",
                                 !.session_active = FALSE]
  <2>1. /\ q \in Row
        /\ q.turn = row.turn /\ q.exec = row.exec /\ q.effect = row.effect
    BY <1>0 DEF ClearIntent, Row, Intents, Steps
  <2>2. /\ row.intent # "stop"
        /\ participant' = participant
        /\ session' = [session EXCEPT ![s] = r]
    BY <1>0, <1>6 DEF FailLaunchBeforeEffect, HasIntent
  <2> HIDE DEF q
  <2>3. /\ r \in Row
        /\ r.turn = row.turn /\ r.exec = row.exec /\ r.effect = row.effect
    BY <2>1, ZenonT(60) DEF Row, Statuses, Runtimes
  <2> HIDE DEF r
  <2> QED BY <2>2, <2>3, <1>1
<1>7. CASE FailLaunch(s)
  <2> DEFINE q == ClearIntent(row)
             r == [q EXCEPT !.status  = "unavailable",
                            !.enabled = FALSE,
                            !.runtime = "error",
                            !.session_active = FALSE,
                            !.custody = FALSE]
  <2>1. /\ q \in Row
        /\ q.turn = row.turn /\ q.exec = row.exec /\ q.effect = row.effect
    BY <1>0 DEF ClearIntent, Row, Intents, Steps
  <2>2. /\ row.intent # "stop"
        /\ participant' = participant
        /\ session' = [session EXCEPT ![s] = r]
    BY <1>0, <1>7 DEF FailLaunch, HasIntent
  <2> HIDE DEF q
  <2>3. /\ r \in Row
        /\ r.turn = row.turn /\ r.exec = row.exec /\ r.effect = row.effect
    BY <2>1 DEF Row, Statuses, Runtimes
  <2> HIDE DEF r
  <2> QED BY <2>2, <2>3, <1>1
<1>8. CASE LaunchUnconfirmed(s)
  <2> DEFINE r == [row EXCEPT !.status  = "unavailable",
                              !.enabled = FALSE,
                              !.runtime = "disconnected",
                              !.session_active = FALSE,
                              !.step    = "unconfirmed"]
  <2>1. /\ r \in Row
        /\ r.turn = row.turn /\ r.exec = row.exec /\ r.effect = row.effect
    BY <1>0 DEF Row, Statuses, Runtimes, Steps
  <2>2. /\ row.intent # "stop"
        /\ participant' = participant
        /\ session' = [session EXCEPT ![s] = r]
    BY <1>0, <1>8 DEF LaunchUnconfirmed, HasIntent
  <2> HIDE DEF r
  <2> QED BY <2>1, <2>2, <1>1
<1> QED BY <1>3, <1>4, <1>5, <1>6, <1>7, <1>8

\* agent.stop.
LEMMA StopStepShape ==
    ASSUME FloorInv, NEW s \in Sessions,
           \/ PrepareStop(s)
           \/ AuthorizeStop(s)
           \/ FailStopBeforeEffect(s)
           \/ RecordStopEffect(s)
           \/ StopUnconfirmed(s)
           \/ FinalizeStop(s)
    PROVE  StepShape
<1> DEFINE row == session[s]
<1>0. /\ row \in Row
      /\ RowInv(row, participant[s])
      /\ session \in [Sessions -> Row]
      /\ participant \in [Sessions -> Part]
  BY DEF FloorInv, TypeOK
<1>b. TRUE \in BOOLEAN OBVIOUS
<1>1. ASSUME NEW r \in Row,
             session' = [session EXCEPT ![s] = r],
             r.turn = row.turn, r.exec = row.exec, r.effect = row.effect,
             row.intent # "stop" \/ row.step # "effect_applied",
             participant'[s].muted = participant[s].muted,
             \A t \in Sessions \ {s} : participant'[t] = participant[t]
      PROVE  StepShape
  BY <1>0, <1>1, ReplacedRowShape DEF RowInv, RowExecution, HasIntent, RowMute, OpenExecution
<1>2. CASE PrepareStop(s)
  <2> DEFINE r == [row EXCEPT
                     !.intent = "stop",
                     !.step = IF ExitConfirmed(row)
                              THEN "effect_applied" ELSE "prepared"]
  <2>1. /\ r \in Row
        /\ r.turn = row.turn /\ r.exec = row.exec /\ r.effect = row.effect
    BY <1>0 DEF Row, Intents, Steps
  <2>2. /\ row.intent # "stop"
        /\ participant' = participant
        /\ session' = [session EXCEPT ![s] = r]
    BY <1>0, <1>2 DEF PrepareStop, NoIntent
  <2> HIDE DEF r
  <2> QED BY <2>1, <2>2, <1>1
<1>3. CASE AuthorizeStop(s)
  <2> DEFINE r == [row EXCEPT !.runtime = "stopping",
                              !.enabled = FALSE,
                              !.step    = "effect_inflight"]
  <2>1. /\ r \in Row
        /\ r.turn = row.turn /\ r.exec = row.exec /\ r.effect = row.effect
    BY <1>0 DEF Row, Runtimes, Steps
  <2>2. /\ row.step # "effect_applied"
        /\ participant' = participant
        /\ session' = [session EXCEPT ![s] = r]
    BY <1>0, <1>3 DEF AuthorizeStop, HasIntent
  <2> HIDE DEF r
  <2> QED BY <2>1, <2>2, <1>1
<1>4. CASE FailStopBeforeEffect(s)
  <2> DEFINE r == ClearIntent(row)
  <2>1. /\ r \in Row
        /\ r.turn = row.turn /\ r.exec = row.exec /\ r.effect = row.effect
    BY <1>0 DEF ClearIntent, Row, Intents, Steps
  <2>2. /\ row.step # "effect_applied"
        /\ participant' = participant
        /\ session' = [session EXCEPT ![s] = r]
    BY <1>0, <1>4 DEF FailStopBeforeEffect, HasIntent
  <2> HIDE DEF r
  <2> QED BY <2>1, <2>2, <1>1
<1>5. CASE RecordStopEffect(s)
  <2> DEFINE q == StoppedTurnRow(row)
             r == [q EXCEPT !.step = "effect_applied"]
  <2>1. row.intent = "stop" /\ row.step = "effect_inflight" BY <1>5 DEF RecordStopEffect, HasIntent
  <2>2. row.exec # "interrupted" BY <1>0, <2>1 DEF RowInv, RowExecution, HasIntent
  <2>3. /\ q \in Row
        /\ q.turn = row.turn /\ q.intent = "stop"
        /\ IF row.turn THEN q.exec = "interrupted" /\ q.effect = "none"
           ELSE q.exec = row.exec /\ q.effect = row.effect
    BY <1>0, <1>b, <2>1, TurnEndTypes DEF StoppedTurnRow, Row
  <2>4. ~row.turn => row.exec = "none" /\ row.effect = "none" BY <1>0 DEF RowInv, RowExecution, OpenExecution
  <2> HIDE DEF q
  <2>5. /\ r \in Row
        /\ r.turn = q.turn /\ r.exec = q.exec /\ r.effect = q.effect
        /\ r.intent = "stop" /\ r.step = "effect_applied"
    BY <2>3 DEF Row, Steps
  <2> HIDE DEF r
  <2>6. RowInv(r, participant[s]) /\ r.exec # "assigned"
    BY <2>3, <2>4, <2>5 DEF RowInv, RowExecution, RowMute, OpenExecution, HasIntent
  <2>7. participant' = participant /\ session' = [session EXCEPT ![s] = r] BY <1>0, <1>5 DEF RecordStopEffect, q, r
  <2> QED BY <2>5, <2>6, <2>7, ReplacedRowShape
<1>6. CASE StopUnconfirmed(s)
  <2> DEFINE cut == IF TurnActive(row) THEN row
                    ELSE [ReleasedRow(row, log) EXCEPT
                            !.runtime = "disconnected",
                            !.session_active = FALSE]
             r == [cut EXCEPT !.status  = "unavailable",
                              !.enabled = FALSE,
                              !.step    = "unconfirmed"]
  <2>1. row.step = "effect_inflight" /\ Authority(row) BY <1>6 DEF StopUnconfirmed, HasIntent
  <2>2. ~TurnActive(row) => ~row.turn /\ row.exec = "none" /\ row.effect = "none"
    BY <1>0, <2>1 DEF Authority, TurnClear, RowInv, RowExecution, OpenExecution
  <2>3. /\ cut \in Row
        /\ cut.turn = row.turn /\ cut.exec = row.exec /\ cut.effect = row.effect
    <3>1. CASE TurnActive(row) BY <1>0, <3>1
    <3>2. CASE ~TurnActive(row)
      <4> DEFINE q == ReleasedRow(row, log)
      <4>1. q \in Row /\ ~q.turn /\ q.exec = "none" /\ q.effect = "none" BY <1>0, <1>b, ReleasedRowType, TurnEndFields
      <4> HIDE DEF q
      <4>2. cut = [q EXCEPT !.runtime = "disconnected", !.session_active = FALSE] BY <3>2 DEF q
      <4> HIDE DEF cut
      <4>3. /\ cut \in Row
            /\ cut.turn = q.turn /\ cut.exec = q.exec /\ cut.effect = q.effect
        BY <4>1, <4>2 DEF Row, Runtimes
      <4>4. q.turn = FALSE /\ row.turn = FALSE BY <4>1, <2>2, <3>2, <1>0 DEF Row
      <4> QED BY <4>1, <4>3, <4>4, <2>2, <3>2
    <3> QED BY <3>1, <3>2
  <2>4. /\ participant' = [participant EXCEPT ![s] = Detached(participant[s])]
        /\ session' = [session EXCEPT ![s] = r]
    BY <1>0, <1>6 DEF StopUnconfirmed
  <2> HIDE DEF cut
  <2>5. /\ r \in Row
        /\ r.turn = row.turn /\ r.exec = row.exec /\ r.effect = row.effect
    BY <2>3 DEF Row, Statuses, Steps
  <2>6. /\ participant'[s].muted = participant[s].muted
        /\ \A t \in Sessions \ {s} : participant'[t] = participant[t]
    BY <1>0, <2>4 DEF Part, Detached
  <2> HIDE DEF r
  <2> QED BY <2>1, <2>4, <2>5, <2>6, <1>1
<1>7. CASE FinalizeStop(s)
  <2> DEFINE r == DetachedRow(row, log)
  <2>1. r \in Row /\ ~r.turn /\ r.exec = "none" /\ r.effect = "none"
    BY <1>0, <1>b, TurnEndTypes, TurnEndFields, ZenonT(60)
  <2>2. /\ participant' = [participant EXCEPT ![s] = Detached(participant[s])]
        /\ session' \in Scheduled([session EXCEPT ![s] = r],
                                  participant', log, mode)
    BY <1>0, <1>7 DEF FinalizeStop
  <2>3. \A t \in Sessions \ {s} : participant'[t] = participant[t] BY <1>0, <2>2
  <2> HIDE DEF r
  <2>4. RowInv(r, participant'[s]) /\ r.exec # "assigned" BY <2>1, EndedRowInv
  <2> QED BY <2>1, <2>2, <2>3, <2>4, ReplacedRowShape
<1> QED BY <1>2, <1>3, <1>4, <1>5, <1>6, <1>7

\* Messages, deletion, settings, owed assignments and the restart barrier.
LEMMA RoomStepShape ==
    ASSUME FloorInv,
           \/ \E d \in Sessions \cup {None} : SendMessage(d)
           \/ \E e \in DOMAIN log : DeleteMessage(e)
           \/ \E m \in Modes : SetMode(m)
           \/ AssignPending
           \/ PrepareRestart
           \/ CompleteRestart
           \/ UNCHANGED vars
    PROVE  StepShape
<1>0. /\ GoodRows(session, participant)
      /\ session \in [Sessions -> Row]
      /\ log \in Seq(Message) /\ mode \in Modes
  BY StoredRowsGood DEF FloorInv, TypeOK
<1>1. ASSUME NEW d, SendMessage(d)
      PROVE  StepShape
  BY <1>1, <1>0, RoutedAndScheduledShape DEF SendMessage
<1>2. ASSUME NEW e, DeleteMessage(e)
      PROVE  StepShape
  <2>1. ASSUME NEW s \in Sessions
        PROVE  session'[s] \in Row /\ SameTurn(session'[s], session[s])
    <3> DEFINE q == Without(session[s].pending, {e})
    <3>1. session[s] \in Row /\ session[s].pending \in Seq(Input) BY <1>0 DEF Row
    <3>2. q \in Seq(Input) BY <3>1, WithoutSelects
    <3>3. session'[s] = [session[s] EXCEPT !.pending = q] BY <1>2 DEF DeleteMessage
    <3> HIDE DEF q
    <3> QED BY <3>1, <3>2, <3>3 DEF Row, SameTurn
  <2>2. session' \in [Sessions -> Row] BY <1>2, <2>1 DEF DeleteMessage
  <2>3. participant' = participant BY <1>2 DEF DeleteMessage
  <2>4. GoodRows(session', participant') BY <1>0, <2>1, <2>2, <2>3, SameTurnGoodRows
  <2> QED BY <2>2, <2>4 DEF StepShape
<1>3. ASSUME session' = session, participant' = participant
      PROVE  StepShape
  BY <1>0, <1>3 DEF StepShape
<1>4. ASSUME NEW m, SetMode(m)
      PROVE  StepShape
  BY <1>3, <1>4 DEF SetMode
<1>5. CASE AssignPending BY <1>5, <1>0 DEF AssignPending, StepShape
<1>6. CASE PrepareRestart BY <1>3, <1>6 DEF PrepareRestart
<1>7. CASE CompleteRestart BY <1>3, <1>7 DEF CompleteRestart
<1>8. CASE UNCHANGED vars BY <1>3, <1>8 DEF vars
<1> QED BY <1>1, <1>2, <1>4, <1>5, <1>6, <1>7, <1>8

\* Every transaction rewrites rows and perhaps runs the scheduler.
LEMMA EveryStepShape ==
    ASSUME FloorInv, [Next]_vars
    PROVE  StepShape
BY TurnStepShape, ModerationStepShape, RoomStepShape, ManagedAssumption, LaunchStepShape,
   StopStepShape DEF FloorNext, LifecycleNext, Next

------------------------
(* The other variables.                                                     *)

OtherTypes ==
    /\ log \in Seq(Message)
    /\ mode \in Modes
    /\ quiescing \in BOOLEAN
    /\ participant \in [Sessions -> Part]
    /\ wake \in BOOLEAN

\* Participant::detach_runtime keeps the type of a participant.
LEMMA DetachedType ==
    ASSUME NEW part \in Part
    PROVE  Detached(part) \in Part
BY DEF Detached, Part

\* Appending a message_final event keeps the type of the log.
LEMMA PostType ==
    ASSUME log \in Seq(Message), NEW author \in Sessions \cup {Human}, Post(author)
    PROVE  log' \in Seq(Message)
BY AppendProperties DEF Message, Post

\* No transaction breaks the types of log, settings, participants or wakes.
LEMMA OtherTypesKept ==
    ASSUME FloorInv, [Next]_vars
    PROVE  OtherTypes'
<1> USE DEF OtherTypes
<1>0. /\ log \in Seq(Message) /\ mode \in Modes /\ quiescing \in BOOLEAN
      /\ participant \in [Sessions -> Part] /\ wake \in BOOLEAN
  BY DEF FloorInv, TypeOK
<1>1. ASSUME NEW d, SendMessage(d)
      PROVE  OtherTypes'
  BY <1>0, <1>1, PostType DEF SendMessage
<1>2. ASSUME NEW e \in DOMAIN log, DeleteMessage(e)
      PROVE  OtherTypes'
  <2>1. log[e] \in Message BY <1>0
  <2>2. [log[e] EXCEPT !.deleted = TRUE] \in Message BY <2>1 DEF Message
  <2>3. log' = [log EXCEPT ![e] = [log[e] EXCEPT !.deleted = TRUE]] BY <1>2 DEF DeleteMessage
  <2>4. log' \in Seq(Message) BY <1>0, <2>2, <2>3, ExceptSeq
  <2> QED BY <1>0, <1>2, <2>4 DEF DeleteMessage
<1>3. ASSUME NEW m \in Modes, SetMode(m)
      PROVE  OtherTypes'
  BY <1>0, <1>3 DEF SetMode
<1>4. CASE AssignPending \/ PrepareRestart \/ CompleteRestart
  BY <1>0, <1>4 DEF AssignPending, PrepareRestart, CompleteRestart
<1>5. ASSUME NEW s \in Sessions
      PROVE  /\ \A t, d : CompleteMessage(s, t, d) => OtherTypes'
             /\ CompleteVoteCast(s) => OtherTypes'
  BY <1>0, PostType DEF CompleteMessage, CompleteVoteCast
<1>6. ASSUME NEW s \in Sessions,
             \/ AuthorizeStart(s)
             \/ CompleteSilently(s)
             \/ \E stopped \in BOOLEAN : FailTurn(s, stopped)
             \/ TaskDiesBeforeStart(s)
             \/ TaskDiesAfterStart(s)
             \/ AgentInterrupt(s)
             \/ FinalizeRetained(s)
      PROVE  OtherTypes'
  BY <1>0, <1>6 DEF AuthorizeStart, CompleteSilently, FailTurn,
     TaskDiesBeforeStart, TaskDiesAfterStart, AgentInterrupt, FinalizeRetained
<1>7. ASSUME NEW s \in Sessions, Mute(s) \/ Unmute(s)
      PROVE  OtherTypes'
  <2>1. ASSUME NEW b \in BOOLEAN
        PROVE  [participant EXCEPT ![s].muted = b] \in [Sessions -> Part]
    BY <1>0 DEF Part
  <2> QED BY <1>0, <1>7, <2>1 DEF Mute, Unmute
<1>8. ASSUME NEW s \in Sessions, RuntimeGone(s)
      PROVE  OtherTypes'
  BY <1>0, <1>8, DetachedType DEF RuntimeGone
<1>9. ASSUME NEW s \in Sessions,
             \/ PrepareLaunch(s) \/ AuthorizeLaunch(s)
             \/ FailLaunchBeforeEffect(s) \/ FailLaunch(s) \/ LaunchUnconfirmed(s)
             \/ PrepareStop(s) \/ AuthorizeStop(s)
             \/ FailStopBeforeEffect(s) \/ RecordStopEffect(s)
      PROVE  OtherTypes'
  BY <1>0, <1>9 DEF PrepareLaunch, AuthorizeLaunch, FailLaunchBeforeEffect,
     FailLaunch, LaunchUnconfirmed, PrepareStop, AuthorizeStop,
     FailStopBeforeEffect, RecordStopEffect
<1>10. ASSUME NEW s \in Sessions, NEW reused, NEW active,
              CompleteLaunch(s, reused, active)
       PROVE  OtherTypes'
  BY <1>0, <1>10 DEF Part, CompleteLaunch
<1>11. ASSUME NEW s \in Sessions, StopUnconfirmed(s) \/ FinalizeStop(s)
       PROVE  OtherTypes'
  BY <1>0, <1>11, DetachedType DEF StopUnconfirmed, FinalizeStop
<1>12. CASE UNCHANGED vars BY <1>0, <1>12 DEF vars
<1>13. CASE FloorNext BY <1>13, <1>1, <1>2, <1>3, <1>4, <1>5, <1>6, <1>7, <1>8 DEF FloorNext
<1>14. CASE LifecycleNext BY <1>14, <1>9, <1>10, <1>11, ManagedAssumption DEF LifecycleNext
<1> QED BY <1>12, <1>13, <1>14 DEF Next

------------------------
(* The theorems.                                                            *)

\* The inductive invariant holds in a freshly opened room.
LEMMA InitFloorInv == Init => FloorInv
<1> SUFFICES ASSUME Init PROVE FloorInv
  OBVIOUS
<1>1. <<>> \in Seq(Input) /\ <<>> \in Seq(Message) OBVIOUS
<1>2. ASSUME NEW s \in Sessions
      PROVE  InitRow(s) \in Row
  BY <1>1 DEF InitRow, Row, Statuses, Runtimes, Executions, Effects, Intents, Steps
<1>3. TypeOK BY <1>1, <1>2 DEF Init, FloorInit, TypeOK, Part, Modes
<1>4. ASSUME NEW s \in Sessions
      PROVE  RowInv(session[s], participant[s])
  BY EndedRowInv DEF Init, FloorInit, InitRow
<1> QED BY <1>3, <1>4 DEF FloorInv

\* Every transaction keeps the inductive invariant.
LEMMA NextFloorInv == FloorInv /\ [Next]_vars => FloorInv'
BY EveryStepShape, StepShapeKeepsInv, OtherTypesKept DEF FloorInv, TypeOK, OtherTypes

\* The inductive invariant holds in every reachable state of the room floor.
THEOREM FloorInvariant == Spec => []FloorInv
<1> QED BY InitFloorInv, NextFloorInv, PTL DEF Spec

\* The stored rows, settings and messages always have their declared types,
\* whatever the sessions, queue and batch bounds are.
THEOREM TypeCorrect == Spec => []TypeOK
<1>1. FloorInv => TypeOK BY DEF FloorInv
<1> QED BY <1>1, FloorInvariant, PTL

\* Execution rows and session rows never drift apart: no transaction of a turn,
\* an interrupt, a start or a stop leaves an execution without its turn, a turn
\* without its execution, or an effect on a finished execution.
THEOREM ExecutionTracking == Spec => []ExecutionTracksTurn
<1>1. FloorInv => ExecutionTracksTurn BY DEF FloorInv, RowInv, RowExecution, ExecutionTracksTurn
<1> QED BY <1>1, FloorInvariant, PTL

\* However mute, unmute, agent interrupt and assignment interleave, an
\* unfinished turn of a muted participant carries the mute's interrupt effect.
THEOREM MutedTurns == Spec => []MutedTurnsInterrupted
<1>1. FloorInv => MutedTurnsInterrupted BY DEF FloorInv, RowInv, RowMute, MutedTurnsInterrupted
<1> QED BY <1>1, FloorInvariant, PTL

\* An ordered room never hands out a turn beside another one, whichever
\* transaction runs the scheduler.
THEOREM OrderedExclusion == Spec => OrderedFloorExclusive
<1>1. FloorInv /\ [Next]_vars =>
        [\A s, t \in Sessions :
           mode = "ordered" /\ NewTurn(s) /\ s # t => ~session'[t].turn]_vars
  BY EveryStepShape, StepShapeExclusive
<1> QED BY <1>1, FloorInvariant, PTL DEF Spec, OrderedFloorExclusive

------------------------
(***************************************************************************)
(* The queues and turn fields of the session rows: every row passes        *)
(* active_turn_authority unless its start is unconfirmed, every queue      *)
(* passes valid_pending_inputs, and no routed input is lost or replayed.   *)
(*                                                                         *)
(* The relation Moved says of the rewritten rows what both the invariant   *)
(* and the conservation of input need, and the scheduler keeps it.         *)
(*                                                                         *)
(* Last, the floor never falls idle: a transaction that runs the           *)
(* scheduler leaves no session waiting for a free floor, and one that does *)
(* not run it frees no floor and makes no session ready, or owes a wake,   *)
(* or is one of the exceptions FloorNeverIdles names.                      *)
(***************************************************************************)

------------------------
(* The inductive invariant.                                                 *)

\* The turn fields agree, or the start of the session is unconfirmed.
RowTurn(row) == StartUnconfirmed(row) \/ TurnActive(row) \/ TurnClear(row)

\* Why they do: only a stop under way shows a runtime as stopping, and neither
\* a runtime nor a turn is without custody.
RowRuntime(row) ==
    /\ row.runtime = "stopping" => StopUnderWay(row)
    /\ row.session_active => row.custody
    /\ row.turn => row.custody

\* Messages of others than s, after `low`, in sequence order.
Servable(q, s, low, msgs) ==
    /\ \A i \in DOMAIN q :
         /\ q[i].event \in DOMAIN msgs
         /\ msgs[q[i].event].author # s
         /\ q[i].event > low
    /\ \A i, j \in DOMAIN q : i < j => q[i].event < q[j].event

NoneDeleted(q, msgs) == \A i \in DOMAIN q : ~msgs[q[i].event].deleted

RowQueue(s, row, msgs) ==
    /\ Len(Queue(row)) <= MaxQueue
    /\ Servable(Queue(row), s, row.sync_seq, msgs)
    /\ NoneDeleted(row.pending, msgs)

QueueInv ==
    \A s \in Sessions :
        /\ RowTurn(session[s])
        /\ RowRuntime(session[s])
        /\ RowQueue(s, session[s], log)

\* The input of `row` is conserved in r: what InputConserved says of one row.
Conserved(row, r, msgs) ==
    /\ \A e \in Queued(row) :
         \/ e \in Queued(r)
         \/ msgs[e].deleted
         \/ e <= r.sync_seq
    /\ r.sync_seq # row.sync_seq =>
         /\ r.sync_seq = row.up_to
         /\ r.sync_seq > row.sync_seq

\* A good successor r of the row of s, when the room holds msgs.
Moved(s, row, r, msgs) ==
    /\ r \in Row
    /\ RowTurn(r)
    /\ RowRuntime(r)
    /\ RowQueue(s, r, msgs)
    /\ Conserved(row, r, msgs)

------------------------
(* Facts about queues.                                                      *)

\* The queue of a row is its in-flight input followed by its pending input.
LEMMA QueueEntries ==
    ASSUME NEW row \in Row
    PROVE  /\ row.inflight \in Seq(Input) /\ row.pending \in Seq(Input)
           /\ Queue(row) \in Seq(Input)
           /\ Len(row.inflight) \in Nat /\ Len(row.pending) \in Nat
           /\ Len(Queue(row)) = Len(row.inflight) + Len(row.pending)
           /\ DOMAIN Queue(row) = 1..Len(Queue(row))
           /\ DOMAIN row.inflight = 1..Len(row.inflight)
           /\ DOMAIN row.pending = 1..Len(row.pending)
           /\ \A i \in 1..Len(row.inflight) : Queue(row)[i] = row.inflight[i]
           /\ \A i \in 1..Len(row.pending) :
                Queue(row)[Len(row.inflight) + i] = row.pending[i]
           /\ \A i \in DOMAIN Queue(row) : Queue(row)[i].event \in Nat
<1>1. row.inflight \in Seq(Input) /\ row.pending \in Seq(Input) BY DEF Row
<1> DEFINE p == row.inflight
           q == row.pending
<1> HIDE DEF p, q
<1>2. p \in Seq(Input) /\ q \in Seq(Input) BY <1>1 DEF p, q
<1>3. Queue(row) = p \o q BY DEF Queue, p, q
<1>4. /\ p \o q \in Seq(Input)
      /\ Len(p \o q) = Len(p) + Len(q)
      /\ \A i \in 1..Len(p) : (p \o q)[i] = p[i]
      /\ \A i \in 1..Len(q) : (p \o q)[Len(p) + i] = q[i]
  BY <1>2, ConcatProperties
<1> DEFINE c == p \o q
<1> HIDE DEF c
<1>5. c \in Seq(Input) /\ c = p \o q BY <1>4 DEF c
<1>6. \A i \in DOMAIN c : c[i].event \in Nat
  <2>1. \A i \in DOMAIN c : c[i] \in Input BY <1>5
  <2> QED BY <2>1 DEF Input
<1>7. /\ Len(p) \in Nat /\ Len(q) \in Nat
      /\ DOMAIN c = 1..Len(c) /\ DOMAIN p = 1..Len(p) /\ DOMAIN q = 1..Len(q)
  BY <1>2, <1>5
<1> QED BY <1>2, <1>3, <1>4, <1>5, <1>6, <1>7 DEF p, q

\* What the invariant of a row says to its readers: valid_pending_inputs and
\* merge_room_inputs accept it.
LEMMA RowQueueServes ==
    ASSUME NEW row \in Row, NEW s, NEW msgs \in Seq(Message),
           RowQueue(s, row, msgs)
    PROVE  ValidPending(s, row, msgs) /\ Canonical(row)
<1> DEFINE q == Queue(row)
           p == row.pending
           k == Len(row.inflight)
<1>1. /\ k \in Nat /\ Len(p) \in Nat
      /\ DOMAIN q = 1..Len(q) /\ Len(q) = k + Len(p)
      /\ DOMAIN p = 1..Len(p)
      /\ \A i \in 1..Len(p) : q[k + i] = p[i]
      /\ \A i \in DOMAIN q : q[i].event \in Nat
  BY QueueEntries
<1>2. /\ Len(q) <= MaxQueue
      /\ Servable(q, s, row.sync_seq, msgs)
      /\ NoneDeleted(p, msgs)
  BY DEF RowQueue
<1> HIDE DEF q, p, k
<1>3. \A i \in 1..Len(p) : k + i \in DOMAIN q BY <1>1
<1>4. ASSUME NEW i \in DOMAIN p
      PROVE  /\ p[i].event \in DOMAIN msgs
             /\ msgs[p[i].event].author # s
             /\ ~msgs[p[i].event].deleted
             /\ p[i].event > row.sync_seq
  BY <1>1, <1>2, <1>3 DEF Servable, NoneDeleted
<1>5. ASSUME NEW i \in DOMAIN p, NEW j \in DOMAIN p, i < j
      PROVE  p[i].event < p[j].event
  <2>1. k + i \in DOMAIN q /\ k + j \in DOMAIN q /\ k + i < k + j BY <1>1, <1>3, <1>5
  <2>2. q[k + i].event < q[k + j].event BY <2>1, <1>2 DEF Servable
  <2> QED BY <2>2, <1>1
<1>6. ASSUME NEW i \in DOMAIN q, NEW j \in DOMAIN q, q[i].event = q[j].event
      PROVE  i = j
  <2>1. i \in Nat /\ j \in Nat /\ q[i].event \in Nat BY <1>1
  <2>2. ~(i < j) /\ ~(j < i) BY <2>1, <1>2, <1>6 DEF Servable
  <2> QED BY <2>1, <2>2
<1>7. ValidPending(s, row, msgs) BY <1>4, <1>5 DEF ValidPending, p
<1>8. Canonical(row) BY <1>2, <1>6 DEF Canonical, q
<1> QED BY <1>7, <1>8

\* w has the entries of q that are not for `events`, and no others.
Filtered(w, q, events) ==
    /\ \A i \in DOMAIN w : /\ w[i].event \notin events
                           /\ \E k \in DOMAIN q : w[i] = q[k]
    /\ \A k \in DOMAIN q : q[k].event \notin events =>
         \E i \in DOMAIN w : w[i] = q[k]

\* Filtering keeps a queue servable.
LEMMA WithoutServable ==
    ASSUME NEW q \in Seq(Input), NEW events, NEW s, NEW low, NEW msgs,
           Servable(q, s, low, msgs), NEW w, w = Without(q, events)
    PROVE  /\ w \in Seq(Input)
           /\ Len(w) <= Len(q)
           /\ Servable(w, s, low, msgs)
           /\ Filtered(w, q, events)
<1>1. /\ w \in Seq(Input)
      /\ Len(w) <= Len(q)
      /\ Selects(w, q, Len(q), events)
  BY WithoutSelects
<1>2. DOMAIN q = 1..Len(q) /\ DOMAIN w = 1..Len(w) BY <1>1
<1>3. PICK ix \in [1..Len(w) -> 1..Len(q)] :
        /\ \A i \in 1..Len(w) : w[i] = q[ix[i]] /\ q[ix[i]].event \notin events
        /\ \A i, j \in 1..Len(w) : i < j => ix[i] < ix[j]
        /\ \A k \in 1..Len(q) : q[k].event \notin events =>
             \E i \in 1..Len(w) : ix[i] = k
  BY <1>1 DEF Selects
<1>4. \A i \in DOMAIN w : /\ ix[i] \in DOMAIN q
                          /\ w[i] = q[ix[i]]
                          /\ q[ix[i]].event \notin events
  BY <1>2, <1>3
<1>5. Servable(w, s, low, msgs) BY <1>2, <1>3, <1>4 DEF Servable
<1>6. ASSUME NEW k \in DOMAIN q, q[k].event \notin events
      PROVE  \E i \in DOMAIN w : w[i] = q[k]
  <2>1. PICK i \in 1..Len(w) : ix[i] = k BY <1>2, <1>3, <1>6
  <2> QED BY <2>1, <1>2, <1>4
<1>7. \A i \in DOMAIN w : /\ w[i].event \notin events
                          /\ \E k \in DOMAIN q : w[i] = q[k]
  BY <1>4
<1> QED BY <1>1, <1>5, <1>6, <1>7 DEF Filtered

\* The room's messages only grow: nothing changes its author, nothing deleted
\* comes back.
Grown(msgs, more) ==
    \A e \in DOMAIN msgs :
        /\ e \in DOMAIN more
        /\ more[e].author = msgs[e].author
        /\ msgs[e].deleted => more[e].deleted

\* A new message_final event grows the room.
LEMMA PostGrows ==
    ASSUME log \in Seq(Message), NEW author, Post(author)
    PROVE  /\ Grown(log, log')
           /\ \A e \in DOMAIN log : log'[e] = log[e]
           /\ Len(log') = Len(log) + 1
           /\ DOMAIN log' = 1..(Len(log) + 1)
           /\ log'[Len(log) + 1] = [author |-> author, deleted |-> FALSE]
           /\ log' = Append(log, [author |-> author, deleted |-> FALSE])
<1> DEFINE m == [author |-> author, deleted |-> FALSE]
<1>1. log' = Append(log, m) BY DEF Post
<1> HIDE DEF m
<1>2. /\ Len(log) \in Nat
      /\ DOMAIN log = 1..Len(log)
      /\ DOMAIN log' = 1..(Len(log) + 1)
      /\ Len(log') = Len(log) + 1
      /\ log'[Len(log) + 1] = m
      /\ \A e \in 1..Len(log) : log'[e] = log[e]
  BY <1>1
<1>3. Grown(log, log') BY <1>2 DEF Grown
<1> QED BY <1>1, <1>2, <1>3 DEF m

------------------------
(* Rewriting one row.                                                       *)

SameQueue(r, row) ==
    /\ r.inflight = row.inflight /\ r.pending = row.pending
    /\ r.up_to = row.up_to /\ r.sync_seq = row.sync_seq

\* A transaction that leaves the queue of a row alone moves it well as soon as
\* the turn fields agree.
LEMMA SameQueueMoved ==
    ASSUME NEW s, NEW row \in Row, NEW r \in Row, NEW msgs,
           RowQueue(s, row, msgs), SameQueue(r, row), RowTurn(r), RowRuntime(r)
    PROVE  Moved(s, row, r, msgs)
BY DEF Queue, SameQueue, RowQueue, Conserved, Queued, Moved

\* merged_turn_queue: a row that gives its in-flight input back.
LEMMA ReleasedMoved ==
    ASSUME NEW s, NEW row \in Row, NEW r \in Row, NEW msgs \in Seq(Message),
           RowQueue(s, row, msgs),
           r.pending = MergedQueue(row, msgs), r.inflight = <<>>,
           r.sync_seq = row.sync_seq,
           RowTurn(r), RowRuntime(r)
    PROVE  Moved(s, row, r, msgs)
<1> DEFINE q == Queue(row)
           w == Without(q, DeletedEvents(msgs))
<1>1. q \in Seq(Input) /\ DOMAIN q = 1..Len(q) BY QueueEntries
<1>2. Len(q) <= MaxQueue /\ Servable(q, s, row.sync_seq, msgs) BY DEF RowQueue
<1>a. w = Without(q, DeletedEvents(msgs)) OBVIOUS
<1> HIDE DEF q, w
<1>3. /\ w \in Seq(Input)
      /\ Len(w) <= Len(q)
      /\ Servable(w, s, row.sync_seq, msgs)
      /\ Filtered(w, q, DeletedEvents(msgs))
  BY <1>a, <1>1, <1>2, WithoutServable
<1>4. r.pending = w BY DEF MergedQueue, q, w
<1>5. Queue(r) = w BY <1>3, ConcatEmptySeq, <1>4 DEF Queue
<1>6. NoneDeleted(w, msgs) BY <1>3 DEF NoneDeleted, DeletedEvents, Servable, Filtered
<1>7. Len(w) <= MaxQueue BY <1>1, <1>3, BoundsAssumption, <1>2
<1>8. RowQueue(s, r, msgs) BY <1>3, <1>4, <1>5, <1>6, <1>7 DEF RowQueue
<1>9. ASSUME NEW e \in Queued(row)
      PROVE  e \in Queued(r) \/ msgs[e].deleted
  BY <1>3, <1>5 DEF Queued, q, DeletedEvents, Filtered
<1>10. Conserved(row, r, msgs) BY <1>9 DEF Conserved
<1> QED BY <1>8, <1>10 DEF Moved

\* complete_session_state: the in-flight input is consumed and the cursor
\* moves to its end, which is past the old cursor and before what is pending.
LEMMA CompletedMoved ==
    ASSUME NEW s, NEW row \in Row, NEW msgs \in Seq(Message),
           RowQueue(s, row, msgs), RowRuntime(row), TurnActive(row)
    PROVE  Moved(s, row, CompletedRow(row), msgs)
<1> DEFINE r == CompletedRow(row)
           q == Queue(row)
           p == row.pending
           k == Len(row.inflight)
<1>1. /\ k \in Nat /\ Len(p) \in Nat /\ p \in Seq(Input)
      /\ DOMAIN q = 1..Len(q) /\ Len(q) = k + Len(p)
      /\ DOMAIN p = 1..Len(p)
      /\ \A i \in 1..k : q[i] = row.inflight[i]
      /\ \A i \in 1..Len(p) : q[k + i] = p[i]
      /\ \A i \in DOMAIN q : q[i].event \in Nat
  BY QueueEntries
<1>2. k # 0 /\ row.up_to = row.inflight[k].event BY QueueEntries, EmptySeq DEF TurnActive
<1>3. /\ r \in Row
      /\ r.runtime = "idle" /\ r.turn = FALSE
      /\ r.inflight = <<>> /\ r.pending = p
      /\ r.sync_seq = row.up_to /\ r.up_to = 0
      /\ r.session_active = row.session_active /\ r.custody = row.custody
  BY TurnEndTypes DEF CompletedRow, Row
<1>4. Servable(q, s, row.sync_seq, msgs) /\ NoneDeleted(p, msgs) /\ Len(q) <= MaxQueue BY DEF RowQueue
<1>5. row.sync_seq \in Nat BY DEF Row
<1> HIDE DEF r, q, p, k
<1>6. k \in DOMAIN q /\ q[k].event = row.up_to /\ row.up_to \in Nat
  <2>1. k \in 1..k /\ k \in DOMAIN q BY <1>1, <1>2
  <2>2. q[k] = row.inflight[k] BY <1>1, <2>1, Zenon
  <2>3. q[k].event = row.up_to BY <1>2, <2>2, Zenon
  <2>4. q[k].event \in Nat BY <1>1, <2>1, Zenon
  <2> QED BY <2>1, <2>3, <2>4, Zenon
<1>7. row.up_to > row.sync_seq BY <1>4, <1>6 DEF Servable
<1>8. Queue(r) = p BY <1>1, <1>3, ConcatEmptySeq DEF Queue
<1>9. Servable(p, s, row.up_to, msgs)
  <2>1. ASSUME NEW i \in DOMAIN p
        PROVE  /\ p[i].event \in DOMAIN msgs
               /\ msgs[p[i].event].author # s
               /\ p[i].event > row.up_to
    <3>1. k + i \in DOMAIN q /\ k < k + i /\ q[k + i] = p[i] BY <1>1
    <3>2. q[k].event < q[k + i].event BY <3>1, <1>4, <1>6 DEF Servable
    <3>3. q[k + i].event \in Nat BY <3>1, <1>1
    <3> QED BY <3>1, <3>2, <3>3, <1>4, <1>6 DEF Servable
  <2>2. ASSUME NEW i \in DOMAIN p, NEW j \in DOMAIN p, i < j
        PROVE  p[i].event < p[j].event
    <3>1. /\ k + i \in DOMAIN q /\ k + j \in DOMAIN q /\ k + i < k + j
          /\ q[k + i] = p[i] /\ q[k + j] = p[j]
      BY <1>1, <2>2
    <3> QED BY <3>1, <1>4 DEF Servable
  <2> QED BY <2>1, <2>2 DEF Servable
<1>10. RowQueue(s, r, msgs) BY <1>1, <1>4, BoundsAssumption, <1>3, <1>8, <1>9 DEF RowQueue
<1>11. ASSUME NEW e \in Queued(row)
       PROVE  e \in Queued(r) \/ e <= r.sync_seq
  <2>1. PICK i \in DOMAIN q : e = q[i].event BY DEF Queued, q
  <2>2. CASE i \in 1..k
    <3>1. i = k \/ i < k BY <2>2, <1>1
    <3>2. e \in Nat /\ (e = row.up_to \/ e < row.up_to) BY <3>1, <2>1, <1>1, <1>4, <1>6 DEF Servable
    <3> QED BY <3>2, <1>3, <1>6
  <2>3. CASE i \notin 1..k
    <3>1. i - k \in 1..Len(p) /\ k + (i - k) = i BY <2>1, <2>3, <1>1
    <3>2. p[i - k] = q[i] BY <3>1, <1>1
    <3> QED BY <3>1, <3>2, <2>1, <1>1, <1>8 DEF Queued
  <2> QED BY <2>2, <2>3
<1>12. Conserved(row, r, msgs) BY <1>3, <1>7, <1>11 DEF Conserved
<1>13. RowTurn(r) BY <1>3 DEF RowTurn, TurnClear
<1>14. RowRuntime(r) BY <1>3 DEF RowRuntime
<1> QED BY <1>3, <1>10, <1>12, <1>13, <1>14 DEF Moved, r

------------------------
(* Routing, deletion and the scheduler.                                     *)

\* r is row with another pending queue.
WithPending(r, row, q) ==
    /\ r.pending = q
    /\ r.inflight = row.inflight /\ r.up_to = row.up_to
    /\ r.sync_seq = row.sync_seq /\ r.turn = row.turn
    /\ r.runtime = row.runtime /\ r.session_active = row.session_active
    /\ r.custody = row.custody /\ r.intent = row.intent /\ r.step = row.step

\* A message that is posted is nothing to a queue that does not get it.
LEMMA GrownMoved ==
    ASSUME NEW s, NEW row \in Row, NEW msgs \in Seq(Message), NEW more,
           RowTurn(row), RowRuntime(row), RowQueue(s, row, msgs),
           Grown(msgs, more), \A e \in DOMAIN msgs : more[e] = msgs[e]
    PROVE  Moved(s, row, row, more)
<1>1. Servable(Queue(row), s, row.sync_seq, more) BY DEF RowQueue, Servable, Grown
<1>2. NoneDeleted(row.pending, more) BY RowQueueServes DEF RowQueue, NoneDeleted, ValidPending
<1>3. Conserved(row, row, more) BY DEF Conserved
<1> QED BY <1>1, <1>2, <1>3 DEF Moved, RowQueue

\* queue_input: a new event goes to the end of the queue.
LEMMA AppendedMoved ==
    ASSUME NEW s, NEW row \in Row, NEW r \in Row,
           NEW msgs \in Seq(Message), NEW more,
           RowTurn(row), RowRuntime(row), RowQueue(s, row, msgs),
           Grown(msgs, more), \A e \in DOMAIN msgs : more[e] = msgs[e],
           NEW event, event = Len(msgs) + 1, NEW kind \in Modes,
           event \in DOMAIN more,
           more[event].author # s, ~more[event].deleted,
           row.sync_seq <= Len(msgs), Len(Queue(row)) < MaxQueue,
           WithPending(r, row,
                       Append(row.pending, [event |-> event, kind |-> kind]))
    PROVE  Moved(s, row, r, more)
<1> DEFINE x == [event |-> event, kind |-> kind]
           q == Queue(row)
           t == Queue(r)
           p == row.pending
           k == Len(row.inflight)
<1>1. Len(msgs) \in Nat /\ event \in Nat /\ DOMAIN msgs = 1..Len(msgs) OBVIOUS
<1>2. x \in Input /\ x.event = event BY <1>1 DEF Input
<1> HIDE DEF x
<1>3. /\ k \in Nat /\ Len(p) \in Nat /\ p \in Seq(Input)
      /\ q \in Seq(Input)
      /\ DOMAIN q = 1..Len(q) /\ Len(q) = k + Len(p)
      /\ DOMAIN p = 1..Len(p)
      /\ \A i \in 1..k : q[i] = row.inflight[i]
      /\ \A i \in 1..Len(p) : q[k + i] = p[i]
      /\ \A i \in DOMAIN q : q[i].event \in Nat
  BY QueueEntries
<1>4. /\ r.pending = Append(p, x)
      /\ r.inflight = row.inflight /\ r.up_to = row.up_to
      /\ r.sync_seq = row.sync_seq /\ r.turn = row.turn
      /\ r.runtime = row.runtime /\ r.session_active = row.session_active
      /\ r.custody = row.custody /\ r.intent = row.intent /\ r.step = row.step
  BY DEF WithPending, x
<1>5. /\ t \in Seq(Input)
      /\ DOMAIN t = 1..Len(t)
      /\ Len(t) = k + Len(r.pending)
      /\ DOMAIN r.pending = 1..Len(r.pending)
      /\ \A i \in 1..k : t[i] = row.inflight[i]
      /\ \A i \in 1..Len(r.pending) : t[k + i] = r.pending[i]
  <2>1. r.inflight = row.inflight BY <1>4
  <2> QED BY <2>1, QueueEntries
<1> HIDE DEF q, t, p, k
<1>6. /\ Len(r.pending) = Len(p) + 1
      /\ \A i \in 1..Len(p) : r.pending[i] = p[i]
      /\ r.pending[Len(p) + 1] = x
  BY <1>2, <1>3, <1>4
<1>7. /\ Len(t) = Len(q) + 1
      /\ \A i \in 1..Len(q) : t[i] = q[i]
      /\ t[Len(q) + 1] = x
  <2>1. Len(t) = Len(q) + 1 BY <1>3, <1>5, <1>6
  <2>2. ASSUME NEW i \in 1..Len(q)
        PROVE  t[i] = q[i]
    <3>1. CASE i <= k BY <3>1, <1>3, <1>5
    <3>2. CASE ~(i <= k)
      <4>1. i - k \in 1..Len(p) /\ k + (i - k) = i /\ i - k \in 1..Len(r.pending) BY <3>2, <1>3, <1>6
      <4>2. t[k + (i - k)] = r.pending[i - k] /\ q[k + (i - k)] = p[i - k] BY <4>1, <1>3, <1>5
      <4> QED BY <4>1, <4>2, <1>6
    <3> QED BY <3>1, <3>2
  <2>3. t[Len(q) + 1] = x BY <1>3, <1>6, <1>5
  <2> QED BY <2>1, <2>2, <2>3
<1>8. /\ Servable(q, s, row.sync_seq, msgs)
      /\ \A i \in DOMAIN p : ~msgs[p[i].event].deleted
      /\ Len(q) < MaxQueue
      /\ row.sync_seq \in Nat
  BY DEF RowQueue, NoneDeleted, q, p, Row
<1>9. ASSUME NEW i \in DOMAIN q
      PROVE  q[i].event \in 1..Len(msgs) /\ q[i].event < event
  BY <1>8, <1>1 DEF Servable
<1>10. ASSUME NEW i \in DOMAIN t
       PROVE  i \in DOMAIN q \/ i = Len(q) + 1
  BY <1>3, <1>5, <1>7
<1>11. Servable(t, s, row.sync_seq, more)
  <2>1. ASSUME NEW i \in DOMAIN t
        PROVE  /\ t[i].event \in DOMAIN more
               /\ more[t[i].event].author # s
               /\ t[i].event > row.sync_seq
    BY <1>3, <1>7, <1>8, <1>1, <1>2, <1>10 DEF Servable, Grown
  <2>2. ASSUME NEW i \in DOMAIN t, NEW j \in DOMAIN t, i < j
        PROVE  t[i].event < t[j].event
    <3>1. i \in DOMAIN q /\ t[i] = q[i] BY <2>2, <1>3, <1>5, <1>7
    <3>2. CASE j \in DOMAIN q BY <3>2, <1>3, <1>7, <3>1, <2>2, <1>8 DEF Servable
    <3>3. CASE j = Len(q) + 1 BY <3>1, <3>3, <1>2, <1>7, <1>9
    <3> QED BY <3>2, <3>3, <1>10
  <2> QED BY <2>1, <2>2 DEF Servable
<1>12. NoneDeleted(r.pending, more)
  <2> SUFFICES ASSUME NEW i \in DOMAIN r.pending
               PROVE  ~more[r.pending[i].event].deleted
    BY DEF NoneDeleted
  <2>1. CASE i \in 1..Len(p)
    <3>1. k + i \in DOMAIN q /\ q[k + i] = p[i] BY <2>1, <1>3
    <3>2. p[i].event \in DOMAIN msgs BY <3>1, <1>8 DEF Servable
    <3>3. i \in DOMAIN p /\ r.pending[i] = p[i] BY <2>1, <1>3, <1>6
    <3>4. ~msgs[p[i].event].deleted BY <3>3, <1>8
    <3> QED BY <3>2, <3>3, <3>4
  <2>2. CASE i \notin 1..Len(p)
    <3>1. i = Len(p) + 1 BY <2>2, <1>3, <1>5, <1>6
    <3> QED BY <3>1, <1>2, <1>6
  <2> QED BY <2>1, <2>2
<1>13. RowQueue(s, r, more) BY <1>3, <1>7, <1>8, BoundsAssumption, <1>4, <1>11, <1>12 DEF t, RowQueue
<1>14. Conserved(row, r, more) BY <1>3, <1>5, <1>7, <1>4 DEF Queued, q, t, Conserved
<1>15. RowTurn(r) /\ RowRuntime(r) BY <1>4 DEF RowTurn, StartUnconfirmed, HasIntent, TurnActive, TurnClear,
     RowRuntime, StopUnderWay
<1> QED BY <1>13, <1>14, <1>15 DEF Moved

\* message.delete: the event leaves the pending input, not what is in flight.
LEMMA DeletedMoved ==
    ASSUME NEW s, NEW row \in Row, NEW r \in Row,
           NEW msgs \in Seq(Message), NEW more, NEW e,
           RowTurn(row), RowRuntime(row), RowQueue(s, row, msgs),
           Grown(msgs, more), more[e].deleted,
           \A d \in DOMAIN msgs \ {e} : more[d].deleted = msgs[d].deleted,
           WithPending(r, row, Without(row.pending, {e}))
    PROVE  Moved(s, row, r, more)
<1> DEFINE q == Queue(row)
           p == row.pending
           w == Without(p, {e})
           t == Queue(r)
           k == Len(row.inflight)
<1>1. /\ k \in Nat /\ Len(p) \in Nat /\ p \in Seq(Input)
      /\ DOMAIN q = 1..Len(q) /\ Len(q) = k + Len(p)
      /\ DOMAIN p = 1..Len(p)
      /\ \A i \in 1..k : q[i] = row.inflight[i]
      /\ \A i \in 1..Len(p) : q[k + i] = p[i]
  BY QueueEntries
<1>2. /\ w \in Seq(Input) /\ Len(w) <= Len(p)
      /\ Selects(w, p, Len(p), {e})
  BY <1>1, WithoutSelects
<1> HIDE DEF w
<1>3. /\ r.pending = w
      /\ r.inflight = row.inflight /\ r.up_to = row.up_to
      /\ r.sync_seq = row.sync_seq /\ r.turn = row.turn
      /\ r.runtime = row.runtime /\ r.session_active = row.session_active
      /\ r.custody = row.custody /\ r.intent = row.intent /\ r.step = row.step
  BY DEF WithPending, w
<1>4. /\ DOMAIN t = 1..Len(t)
      /\ Len(t) = k + Len(w)
      /\ DOMAIN w = 1..Len(w) /\ Len(w) \in Nat
      /\ \A i \in 1..k : t[i] = row.inflight[i]
      /\ \A i \in 1..Len(w) : t[k + i] = w[i]
  <2>1. r.inflight = row.inflight /\ r.pending = w BY <1>3
  <2>2. /\ DOMAIN t = 1..Len(t)
        /\ Len(t) = Len(r.inflight) + Len(r.pending)
        /\ DOMAIN r.pending = 1..Len(r.pending) /\ Len(r.pending) \in Nat
        /\ \A i \in 1..Len(r.inflight) : t[i] = r.inflight[i]
        /\ \A i \in 1..Len(r.pending) :
             t[Len(r.inflight) + i] = r.pending[i]
    BY QueueEntries
  <2> HIDE DEF t
  <2> QED BY <2>1, <2>2
<1>5. /\ Servable(q, s, row.sync_seq, msgs) /\ Len(q) <= MaxQueue
      /\ \A i \in DOMAIN p : ~msgs[p[i].event].deleted
  BY DEF RowQueue, NoneDeleted
<1> HIDE DEF q, t, p, k
<1>6. PICK ix \in [1..Len(w) -> 1..Len(p)] :
        /\ \A i \in 1..Len(w) : w[i] = p[ix[i]] /\ p[ix[i]].event \notin {e}
        /\ \A i, j \in 1..Len(w) : i < j => ix[i] < ix[j]
        /\ \A n \in 1..Len(p) : p[n].event \notin {e} =>
             \E i \in 1..Len(w) : ix[i] = n
  BY <1>2 DEF Selects
\* Where an entry of the new queue stood in the old one.
<1> DEFINE jx == [i \in 1..Len(t) |-> IF i <= k THEN i ELSE k + ix[i - k]]
<1>7. ASSUME NEW i \in 1..Len(t)
      PROVE  jx[i] \in 1..Len(q) /\ t[i] = q[jx[i]]
  <2>1. CASE i <= k BY <2>1, <1>1, <1>4
  <2>2. CASE ~(i <= k)
    <3>1. i - k \in 1..Len(w) /\ k + (i - k) = i BY <2>2, <1>1, <1>4
    <3>2. ix[i - k] \in 1..Len(p) BY <3>1
    <3>3. jx[i] = k + ix[i - k] BY <2>2
    <3>4. k + ix[i - k] \in 1..Len(q) /\ q[k + ix[i - k]] = p[ix[i - k]] BY <3>2, <1>1
    <3>5. t[i] = w[i - k] BY <3>1, <1>4
    <3> QED BY <3>1, <3>3, <3>4, <3>5, <1>6
  <2> QED BY <2>1, <2>2
<1>8. ASSUME NEW i \in 1..Len(t), NEW j \in 1..Len(t), i < j
      PROVE  jx[i] < jx[j]
  <2>1. CASE j <= k BY <2>1, <1>8, <1>1, <1>4
  <2>2. CASE ~(j <= k) /\ i <= k
    <3>1. j - k \in 1..Len(w) BY <2>2, <1>1, <1>4
    <3>2. ix[j - k] \in 1..Len(p) BY <3>1
    <3> QED BY <2>2, <3>2, <1>1
  <2>3. CASE ~(j <= k) /\ ~(i <= k)
    <3>1. j - k \in 1..Len(w) /\ i - k \in 1..Len(w) /\ i - k < j - k BY <2>3, <1>8, <1>1, <1>4
    <3>2. ix[j - k] \in 1..Len(p) /\ ix[i - k] \in 1..Len(p) /\ ix[i - k] < ix[j - k] BY <3>1, <1>6
    <3>3. jx[i] = k + ix[i - k] /\ jx[j] = k + ix[j - k] BY <2>3
    <3> QED BY <3>2, <3>3, <1>1
  <2> QED BY <2>1, <2>2, <2>3
<1> HIDE DEF jx
<1>9. Servable(t, s, row.sync_seq, more)
  <2>1. ASSUME NEW i \in DOMAIN t
        PROVE  /\ t[i].event \in DOMAIN more
               /\ more[t[i].event].author # s
               /\ t[i].event > row.sync_seq
    <3>1. jx[i] \in DOMAIN q /\ t[i] = q[jx[i]] BY <1>1, <1>4, <1>7
    <3> QED BY <3>1, <1>5 DEF Servable, Grown
  <2>2. ASSUME NEW i \in DOMAIN t, NEW j \in DOMAIN t, i < j
        PROVE  t[i].event < t[j].event
    <3>1. /\ jx[i] \in DOMAIN q /\ t[i] = q[jx[i]]
          /\ jx[j] \in DOMAIN q /\ t[j] = q[jx[j]]
      BY <1>1, <1>4, <1>7
    <3>2. jx[i] < jx[j] BY <2>2, <1>4, <1>8
    <3> QED BY <3>1, <3>2, <1>5 DEF Servable
  <2> QED BY <2>1, <2>2 DEF Servable
<1>10. NoneDeleted(w, more)
  <2> SUFFICES ASSUME NEW i \in DOMAIN w
               PROVE  ~more[w[i].event].deleted
    BY DEF NoneDeleted
  <2>1. ix[i] \in 1..Len(p) /\ w[i] = p[ix[i]] /\ w[i].event # e BY <1>4, <1>6
  <2>2. ~msgs[w[i].event].deleted BY <2>1, <1>1, <1>5
  <2>3. w[i].event \in DOMAIN msgs
    <3>1. k + ix[i] \in DOMAIN q /\ q[k + ix[i]] = p[ix[i]] BY <2>1, <1>1
    <3> QED BY <3>1, <2>1, <1>5 DEF Servable
  <2> QED BY <2>1, <2>2, <2>3
<1>11. RowQueue(s, r, more)
  <2>1. Len(t) <= MaxQueue BY <1>1, <1>2, <1>4, <1>5, BoundsAssumption
  <2>2. t = Queue(r) BY DEF t
  <2> QED BY <2>1, <2>2, <1>3, <1>9, <1>10 DEF RowQueue
<1>12. ASSUME NEW d \in Queued(row)
       PROVE  d \in Queued(r) \/ more[d].deleted
  <2>1. PICK n \in DOMAIN q : d = q[n].event BY DEF Queued, q
  <2>2. CASE d = e BY <2>2
  <2>3. CASE d # e
    <3>1. PICK i \in DOMAIN t : t[i] = q[n]
      <4>1. CASE n <= k BY <4>1, <2>1, <1>1, <1>4
      <4>2. CASE ~(n <= k)
        <5>1. n - k \in 1..Len(p) /\ k + (n - k) = n BY <4>2, <2>1, <1>1
        <5>2. q[n] = p[n - k] BY <5>1, <1>1
        <5>3. PICK i \in 1..Len(w) : ix[i] = n - k BY <5>1, <5>2, <2>1, <2>3, <1>6
        <5>4. k + i \in DOMAIN t /\ t[k + i] = w[i] /\ w[i] = p[n - k] BY <5>3, <1>1, <1>4, <1>6
        <5> QED BY <5>2, <5>4
      <4> QED BY <4>1, <4>2
    <3> QED BY <3>1, <2>1 DEF Queued, t
  <2> QED BY <2>2, <2>3
<1>13. Conserved(row, r, more) BY <1>3, <1>12 DEF Conserved
<1>14. RowTurn(r) /\ RowRuntime(r) BY <1>3 DEF RowTurn, StartUnconfirmed, HasIntent, TurnActive, TurnClear,
     RowRuntime, StopUnderWay
<1> QED BY <1>11, <1>13, <1>14 DEF Moved

\* Conservation composes, when the second step leaves the cursor alone.
LEMMA MovedTwice ==
    ASSUME NEW s, NEW row \in Row, NEW r, NEW t, NEW msgs, NEW more,
           RowQueue(s, row, msgs), Grown(msgs, more),
           Moved(s, row, r, msgs), Moved(s, r, t, more),
           t.sync_seq = r.sync_seq
    PROVE  Moved(s, row, t, more)
BY DEF Queued, RowQueue, Servable, Moved, Conserved, Grown

\* The messages that were there are still the same.
LEMMA GrownSame ==
    ASSUME NEW msgs
    PROVE  Grown(msgs, msgs)
BY DEF Grown

\* prepare_assignment splits the pending input: the batch, then the rest.
LEMMA SplitQueue ==
    ASSUME NEW p \in Seq(Input), NEW n \in 1..Len(p)
    PROVE  LET a == Prefix(p, n)
               b == SubSeq(p, n + 1, Len(p))
           IN  /\ a \in Seq(Input) /\ b \in Seq(Input)
               /\ Len(a) = n /\ Len(b) = Len(p) - n
               /\ \A i \in 1..n : a[i] = p[i]
               /\ \A i \in 1..Len(b) : b[i] = p[n + i]
               /\ a \o b = p
<1> DEFINE a == Prefix(p, n)
           b == SubSeq(p, n + 1, Len(p))
<1>1. Len(p) \in Nat /\ n \in Nat /\ 1 <= n /\ n <= Len(p) OBVIOUS
<1>2. \A i \in 1..Len(p) : p[i] \in Input OBVIOUS
<1>3. a \in Seq(Input) /\ Len(a) = n /\ \A i \in 1..n : a[i] = p[i] BY <1>1, <1>2, IsASeq DEF Prefix
<1>4. /\ b \in Seq(Input) /\ Len(b) = Len(p) - n
      /\ \A i \in 1..Len(b) : b[i] = p[n + i]
  BY <1>1, SubSeqProperties
<1> HIDE DEF a, b
<1>5. /\ a \o b \in Seq(Input)
      /\ Len(a \o b) = Len(p)
      /\ \A i \in 1..Len(p) : (a \o b)[i] = p[i]
  <2>0. a \o b \in Seq(Input) /\ Len(a \o b) = Len(a) + Len(b) BY <1>3, <1>4, ConcatProperties
  <2>1. a \o b \in Seq(Input) /\ Len(a \o b) = Len(p) BY <2>0, <1>1, <1>3, <1>4
  <2>2. ASSUME NEW i \in 1..Len(p)
        PROVE  (a \o b)[i] = p[i]
    <3>1. CASE i <= n BY <3>1, <1>1, <1>3, <1>4, ConcatProperties
    <3>2. CASE ~(i <= n)
      <4>1. i - n \in 1..Len(b) /\ n + (i - n) = i BY <3>2, <1>1, <1>4
      <4>2. (a \o b)[i] = b[i - n] BY <3>2, <4>1, <1>1, <1>3, <1>4, ConcatProperties
      <4>3. b[i - n] = p[n + (i - n)] BY <4>1, <1>4
      <4> QED BY <4>1, <4>2, <4>3
    <3> QED BY <3>1, <3>2
  <2> QED BY <2>1, <2>2
<1> DEFINE c == a \o b
<1> HIDE DEF c
<1>6. c = p BY <1>5, SeqEqual DEF c
<1> QED BY <1>3, <1>4, <1>6 DEF a, b, c

\* The scheduler keeps a good row good: a batch that goes in flight stays at
\* the head of the same queue.
LEMMA AssignedMoved ==
    ASSUME NEW s, NEW row \in Row, NEW part, NEW r \in Row,
           NEW msgs \in Seq(Message),
           RowTurn(row), RowRuntime(row), RowQueue(s, row, msgs),
           AssignedFrom(row, part, r)
    PROVE  Moved(s, row, r, msgs) /\ r.sync_seq = row.sync_seq
<1>1. CASE r = row BY <1>1, SameQueueMoved DEF SameQueue
<1>2. CASE r = [row EXCEPT !.schedule_requested = FALSE]
  BY <1>2, SameQueueMoved DEF Row, SameQueue, RowTurn, StartUnconfirmed, HasIntent, TurnActive, TurnClear,
     RowRuntime, StopUnderWay
<1>3. ASSUME Ready(row, part), row.pending # <<>>,
             NEW n \in 1..Len(row.pending), r = PrepareAssignment(row, n)
      PROVE  Moved(s, row, r, msgs) /\ r.sync_seq = row.sync_seq
  <2> DEFINE p == row.pending
             a == Prefix(p, n)
             b == SubSeq(p, n + 1, Len(p))
  <2>1. p \in Seq(Input) BY DEF Row
  <2>2. /\ r.runtime = "busy" /\ r.turn = TRUE
        /\ r.inflight = a /\ r.pending = b
        /\ r.up_to = p[n].event /\ r.sync_seq = row.sync_seq
        /\ r.session_active = row.session_active /\ r.custody = row.custody
    BY <1>3 DEF PrepareAssignment, Row
  <2>3. row.session_active /\ row.inflight = <<>> BY <1>3 DEF Ready, Assignable
  <2> HIDE DEF p
  <2>4. n \in 1..Len(p) BY <1>3 DEF p
  <2>5. /\ a \in Seq(Input) /\ b \in Seq(Input)
        /\ Len(a) = n /\ Len(b) = Len(p) - n
        /\ \A i \in 1..n : a[i] = p[i]
        /\ \A i \in 1..Len(b) : b[i] = p[n + i]
        /\ a \o b = p
    BY <2>1, <2>4, SplitQueue
  <2> HIDE DEF a, b
  <2>6. Queue(r) = p /\ Queue(row) = p BY <2>1, ConcatEmptySeq, <2>2, <2>3, <2>5 DEF Queue, p
  <2>7. Len(p) \in Nat /\ n \in Nat /\ 1 <= n /\ n <= Len(p)
        /\ DOMAIN p = 1..Len(p) /\ DOMAIN b = 1..Len(b)
    BY <2>1, <2>4, <2>5
  <2>8. NoneDeleted(b, msgs)
    <3>1. NoneDeleted(p, msgs) BY DEF RowQueue, p
    <3>2. \A i \in DOMAIN b : n + i \in DOMAIN p /\ b[i] = p[n + i] BY <2>5, <2>7
    <3> QED BY <3>1, <3>2 DEF NoneDeleted
  <2>9. RowQueue(s, r, msgs) BY <2>2, <2>6, <2>8 DEF RowQueue
  <2>10. TurnActive(r) BY <2>5, <2>7, <2>2 DEF TurnActive
  <2>11. RowRuntime(r) BY <2>2, <2>3 DEF RowRuntime
  <2>12. Conserved(row, r, msgs) BY <2>2, <2>6 DEF Conserved, Queued
  <2> QED BY <2>2, <2>9, <2>10, <2>11, <2>12 DEF Moved, RowTurn
<1> QED BY <1>1, <1>2, <1>3 DEF AssignedFrom

------------------------
(* The shape of a transaction.                                              *)

QueueStep ==
    \E rows \in [Sessions -> Row] :
        /\ \A s \in Sessions : Moved(s, session[s], rows[s], log')
        /\ \/ session' = rows
           \/ session' \in Scheduled(rows, participant', log', mode)

\* What it gives: every row is moved well, scheduled or not.
LEMMA QueueStepMoves ==
    ASSUME FloorInv, FloorInv', QueueInv, QueueStep, Grown(log, log'),
           NEW s \in Sessions
    PROVE  Moved(s, session[s], session'[s], log')
<1>1. PICK rows \in [Sessions -> Row] :
        /\ \A t \in Sessions : Moved(t, session[t], rows[t], log')
        /\ \/ session' = rows
           \/ session' \in Scheduled(rows, participant', log', mode)
  BY DEF QueueStep
<1>2. /\ session[s] \in Row /\ mode \in Modes /\ log \in Seq(Message)
      /\ log' \in Seq(Message)
  BY DEF FloorInv, TypeOK
<1>3. CASE session' = rows BY <1>1, <1>3
<1>4. CASE session' \in Scheduled(rows, participant', log', mode)
  <2>1. /\ session' \in [Sessions -> Row]
        /\ AssignedFrom(rows[s], participant'[s], session'[s])
    BY <1>2, <1>4, ScheduledRows
  <2>2. Moved(s, session[s], rows[s], log') /\ rows[s] \in Row /\ session'[s] \in Row BY <1>1, <2>1
  <2>3. /\ Moved(s, rows[s], session'[s], log')
        /\ session'[s].sync_seq = rows[s].sync_seq
    BY <1>2, <2>1, <2>2, AssignedMoved DEF Moved
  <2>4. \A e \in Queued(session[s]) : e \in DOMAIN log'
    <3>1. RowQueue(s, session[s], log) BY DEF QueueInv
    <3> QED BY <3>1 DEF RowQueue, Servable, Queued, Grown
  <2>5. Conserved(session[s], session'[s], log') BY <2>2, <2>3 DEF Moved, Conserved
  <2> QED BY <2>3, <2>5 DEF Moved
<1> QED BY <1>1, <1>3, <1>4

\* A row that is not touched moves well.
LEMMA StoredMoved ==
    ASSUME FloorInv, QueueInv, NEW s \in Sessions
    PROVE  Moved(s, session[s], session[s], log)
BY SameQueueMoved DEF FloorInv, TypeOK, SameQueue, QueueInv

\* A transaction that rewrites the row of one session.
LEMMA OneRowStep ==
    ASSUME FloorInv, QueueInv, NEW s \in Sessions, NEW r,
           Moved(s, session[s], r, log), log' = log,
           \/ session' = [session EXCEPT ![s] = r]
           \/ session' \in Scheduled([session EXCEPT ![s] = r],
                                     participant', log, mode)
    PROVE  QueueStep
<1> DEFINE rows == [session EXCEPT ![s] = r]
<1>1. session \in [Sessions -> Row] /\ r \in Row BY DEF FloorInv, TypeOK, Moved
<1>2. rows \in [Sessions -> Row] BY <1>1
<1>3. \A t \in Sessions : rows[t] = IF t = s THEN r ELSE session[t] BY <1>1
<1>4. session' = rows \/ session' \in Scheduled(rows, participant', log', mode) OBVIOUS
<1> HIDE DEF rows
<1>5. \A t \in Sessions : Moved(t, session[t], rows[t], log') BY <1>3, StoredMoved
<1> QED BY <1>2, <1>4, <1>5 DEF QueueStep

\* Only the execution, the effect or the step of a stop is rewritten.
LEMMA SameFieldsMoved ==
    ASSUME NEW s, NEW row \in Row, NEW r \in Row, NEW msgs,
           RowTurn(row), RowRuntime(row), RowQueue(s, row, msgs),
           SameQueue(r, row), r.turn = row.turn, r.runtime = row.runtime,
           r.session_active = row.session_active, r.custody = row.custody,
           r.intent = row.intent,
           \/ r.step = row.step
           \/ row.intent = "stop" /\ r.step \in {"effect_applied", "unconfirmed"}
    PROVE  Moved(s, row, r, msgs)
BY SameQueueMoved DEF RowTurn, StartUnconfirmed, HasIntent, TurnActive, TurnClear, SameQueue, RowRuntime,
   StopUnderWay

------------------------
(* Turns, interrupts, starts and stops.                                     *)

\* The fields of a row that gave its input back.
LEMMA ReleasedFields ==
    ASSUME NEW row \in Row, NEW msgs
    PROVE  LET r == ReleasedRow(row, msgs) IN
           /\ r \in Row
           /\ r.pending = MergedQueue(row, msgs) /\ r.inflight = <<>>
           /\ r.up_to = 0 /\ r.sync_seq = row.sync_seq
           /\ r.turn = FALSE /\ r.runtime = row.runtime
           /\ r.session_active = row.session_active /\ r.custody = row.custody
           /\ r.intent = row.intent /\ r.step = row.step
<1> DEFINE q == MergedQueue(row, msgs)
           r == ReleasedRow(row, msgs)
<1>1. r \in Row BY ReleasedRowType
<1>2. r = [row EXCEPT !.pending = q, !.turn = FALSE, !.exec = "none",
                      !.effect = "none", !.inflight = <<>>, !.up_to = 0]
  BY DEF ReleasedRow
<1> HIDE DEF q, r
<1>3. /\ r.pending = q /\ r.inflight = <<>>
      /\ r.up_to = 0 /\ r.sync_seq = row.sync_seq
      /\ r.turn = FALSE /\ r.runtime = row.runtime
      /\ r.session_active = row.session_active /\ r.custody = row.custody
      /\ r.intent = row.intent /\ r.step = row.step
  BY <1>2 DEF Row
<1> QED BY <1>1, <1>3 DEF q, r

\* Every way in which a turn ends without an answer gives its input back.
LEMMA EndedMoved ==
    ASSUME NEW s, NEW row \in Row, NEW msgs \in Seq(Message),
           NEW stopped \in BOOLEAN,
           RowRuntime(row), RowQueue(s, row, msgs)
    PROVE  /\ Moved(s, row, FailedRow(row, msgs, stopped), msgs)
           /\ Moved(s, row, RetainedRow(row, msgs), msgs)
           /\ Moved(s, row, GoneRow(row, msgs), msgs)
           /\ Moved(s, row, DetachedRow(row, msgs), msgs)
<1> DEFINE q == ReleasedRow(row, msgs)
<1>1. /\ q \in Row
      /\ q.pending = MergedQueue(row, msgs) /\ q.inflight = <<>>
      /\ q.up_to = 0 /\ q.sync_seq = row.sync_seq
      /\ q.turn = FALSE
      /\ q.session_active = row.session_active /\ q.custody = row.custody
  BY ReleasedFields
<1>2. /\ FailedRow(row, msgs, stopped) =
           [q EXCEPT !.status = "error", !.runtime = "error",
                     !.custody = @ /\ ~stopped,
                     !.session_active = @ /\ ~stopped]
      /\ RetainedRow(row, msgs) =
           [q EXCEPT !.status = "attached", !.runtime = "idle"]
      /\ GoneRow(row, msgs) =
           [q EXCEPT !.status = "detached", !.runtime = "stopped",
                     !.enabled = FALSE, !.session_active = FALSE,
                     !.custody = FALSE, !.schedule_requested = FALSE]
      /\ DetachedRow(row, msgs) =
           [ClearIntent(q) EXCEPT
                     !.status = "detached", !.enabled = FALSE,
                     !.runtime = "stopped", !.session_active = FALSE,
                     !.custody = FALSE]
  BY DEF FailedRow, RetainedRow, GoneRow, DetachedRow
<1>3. /\ FailedRow(row, msgs, stopped) \in Row
      /\ RetainedRow(row, msgs) \in Row
      /\ GoneRow(row, msgs) \in Row
      /\ DetachedRow(row, msgs) \in Row
  BY TurnEndTypes
<1> HIDE DEF q
<1>4. ASSUME NEW r \in Row,
             r.pending = q.pending, r.inflight = q.inflight,
             r.up_to = q.up_to, r.sync_seq = q.sync_seq, r.turn = FALSE,
             r.runtime \notin {"busy", "stopping"},
             r.session_active => r.custody
      PROVE  Moved(s, row, r, msgs)
  BY <1>1, <1>4, ReleasedMoved DEF RowTurn, TurnClear, RowRuntime
<1>5. Moved(s, row, FailedRow(row, msgs, stopped), msgs)
  <2> DEFINE r == FailedRow(row, msgs, stopped)
  <2>1. r \in Row /\ r = [q EXCEPT !.status = "error", !.runtime = "error",
                     !.custody = @ /\ ~stopped,
                     !.session_active = @ /\ ~stopped]
    BY <1>2, <1>3
  <2> HIDE DEF r
  <2>2. /\ r.pending = q.pending /\ r.inflight = q.inflight
        /\ r.up_to = q.up_to /\ r.sync_seq = q.sync_seq /\ r.turn = q.turn
        /\ r.runtime = "error"
        /\ r.session_active = (q.session_active /\ ~stopped)
        /\ r.custody = (q.custody /\ ~stopped)
    BY <1>1, <2>1 DEF Row
  <2>3. q.session_active => q.custody BY <1>1 DEF RowRuntime
  <2>4. r.session_active => r.custody BY <2>2, <2>3
  <2> QED BY <1>1, <1>4, <2>1, <2>2, <2>4 DEF r
<1>6. Moved(s, row, RetainedRow(row, msgs), msgs)
  <2> DEFINE r == RetainedRow(row, msgs)
  <2>1. r \in Row /\ r = [q EXCEPT !.status = "attached", !.runtime = "idle"] BY <1>2, <1>3
  <2> HIDE DEF r
  <2>2. /\ r.pending = q.pending /\ r.inflight = q.inflight
        /\ r.up_to = q.up_to /\ r.sync_seq = q.sync_seq /\ r.turn = q.turn
        /\ r.runtime = "idle"
        /\ r.session_active = q.session_active /\ r.custody = q.custody
    BY <1>1, <2>1 DEF Row
  <2>3. q.session_active => q.custody BY <1>1 DEF RowRuntime
  <2> QED BY <1>1, <1>4, <2>1, <2>2, <2>3 DEF r
<1>7. Moved(s, row, GoneRow(row, msgs), msgs)
  <2> DEFINE r == GoneRow(row, msgs)
  <2>1. r \in Row /\ r = [q EXCEPT !.status = "detached", !.runtime = "stopped",
                     !.enabled = FALSE, !.session_active = FALSE,
                     !.custody = FALSE, !.schedule_requested = FALSE]
    BY <1>2, <1>3
  <2> HIDE DEF r
  <2>2. /\ r.pending = q.pending /\ r.inflight = q.inflight
        /\ r.up_to = q.up_to /\ r.sync_seq = q.sync_seq /\ r.turn = q.turn
        /\ r.runtime = "stopped" /\ r.session_active = FALSE
    BY <1>1, <2>1 DEF Row
  <2> QED BY <1>1, <1>4, <2>1, <2>2 DEF r
<1>8. Moved(s, row, DetachedRow(row, msgs), msgs)
  <2> DEFINE r == DetachedRow(row, msgs)
  <2>1. r \in Row /\ r = [ClearIntent(q) EXCEPT
                     !.status = "detached", !.enabled = FALSE,
                     !.runtime = "stopped", !.session_active = FALSE,
                     !.custody = FALSE]
    BY <1>2, <1>3
  <2> HIDE DEF r
  <2>2. /\ r.pending = q.pending /\ r.inflight = q.inflight
        /\ r.up_to = q.up_to /\ r.sync_seq = q.sync_seq /\ r.turn = q.turn
        /\ r.runtime = "stopped" /\ r.session_active = FALSE
    BY <1>1, <2>1 DEF Row, ClearIntent
  <2> QED BY <1>1, <1>4, <2>1, <2>2 DEF r
<1> QED BY <1>5, <1>6, <1>7, <1>8

\* A session whose turn may end in the ordinary way has an active turn.
LEMMA OrdinaryIsActive ==
    ASSUME NEW row, NEW part, RowTurn(row), OrdinaryOutcomeAllowed(row, part)
    PROVE  TurnActive(row)
BY DEF RowTurn, OrdinaryOutcomeAllowed, StartUnconfirmed, HasIntent, TurnClear

\* The steps of a turn that post nothing.
LEMMA TurnQueueStep ==
    ASSUME FloorInv, QueueInv, NEW s \in Sessions,
           \/ AuthorizeStart(s)
           \/ CompleteSilently(s)
           \/ \E stopped \in BOOLEAN : FailTurn(s, stopped)
           \/ TaskDiesBeforeStart(s)
           \/ TaskDiesAfterStart(s)
    PROVE  QueueStep
<1> DEFINE row == session[s]
<1>0. /\ row \in Row
      /\ session \in [Sessions -> Row]
      /\ log \in Seq(Message) /\ mode \in Modes
      /\ RowTurn(row) /\ RowRuntime(row) /\ RowQueue(s, row, log)
  BY DEF FloorInv, TypeOK, QueueInv
<1>1. ASSUME NEW x \in Executions, log' = log,
             session' = [session EXCEPT ![s].exec = x]
      PROVE  QueueStep
  <2> DEFINE r == [row EXCEPT !.exec = x]
  <2>1. /\ r \in Row /\ SameQueue(r, row)
        /\ r.turn = row.turn /\ r.runtime = row.runtime
        /\ r.session_active = row.session_active /\ r.custody = row.custody
        /\ r.intent = row.intent /\ r.step = row.step
    BY <1>0 DEF Row, SameQueue
  <2>2. session' = [session EXCEPT ![s] = r] BY <1>0, <1>1
  <2> HIDE DEF r, row
  <2>3. Moved(s, row, r, log) BY <1>0, <2>1, SameFieldsMoved
  <2> QED BY <1>1, <2>2, <2>3, OneRowStep DEF row
<1>2. CASE AuthorizeStart(s) BY <1>1, <1>2 DEF Executions, AuthorizeStart
<1>3. CASE TaskDiesAfterStart(s) BY <1>1, <1>3 DEF Executions, TaskDiesAfterStart
<1>4. CASE CompleteSilently(s)
  <2>1. /\ OrdinaryOutcomeAllowed(row, participant[s])
        /\ participant' = participant /\ log' = log
        /\ session' \in Scheduled([session EXCEPT ![s] = CompletedRow(row)],
                                  participant', log, mode)
    BY <1>0, <1>4 DEF CompleteSilently
  <2> HIDE DEF row
  <2>2. Moved(s, row, CompletedRow(row), log) BY <1>0, <2>1, OrdinaryIsActive, CompletedMoved
  <2> QED BY <2>1, <2>2, OneRowStep DEF row
<1>5. ASSUME NEW stopped \in BOOLEAN, log' = log,
             session' \in Scheduled(
                 [session EXCEPT ![s] = FailedRow(row, log, stopped)],
                 participant', log, mode)
      PROVE  QueueStep
  <2>1. Moved(s, row, FailedRow(row, log, stopped), log) BY <1>0, EndedMoved
  <2> HIDE DEF row
  <2> QED BY <1>5, <2>1, OneRowStep DEF row
<1>6. ASSUME NEW stopped \in BOOLEAN, FailTurn(s, stopped)
      PROVE  QueueStep
  BY <1>0, <1>5, <1>6 DEF FailTurn
<1>7. CASE TaskDiesBeforeStart(s) BY <1>0, <1>5, <1>7 DEF TaskDiesBeforeStart
<1> QED BY <1>2, <1>3, <1>4, <1>6, <1>7

\* Mute, unmute and the interrupts.
LEMMA ModerationQueueStep ==
    ASSUME FloorInv, QueueInv, NEW s \in Sessions,
           \/ Mute(s)
           \/ Unmute(s)
           \/ AgentInterrupt(s)
           \/ FinalizeRetained(s)
           \/ RuntimeGone(s)
    PROVE  QueueStep
<1> DEFINE row == session[s]
<1>0. /\ row \in Row
      /\ session \in [Sessions -> Row]
      /\ log \in Seq(Message) /\ mode \in Modes
      /\ RowTurn(row) /\ RowRuntime(row) /\ RowQueue(s, row, log)
  BY DEF FloorInv, TypeOK, QueueInv
<1>b. TRUE \in BOOLEAN OBVIOUS
<1>1. ASSUME NEW r \in Row, SameQueue(r, row),
             r.turn = row.turn, r.runtime = row.runtime,
             r.session_active = row.session_active, r.custody = row.custody,
             r.intent = row.intent,
             \/ r.step = row.step
             \/ row.intent = "stop" /\ r.step \in {"effect_applied", "unconfirmed"},
             log' = log,
             \/ session' = [session EXCEPT ![s] = r]
             \/ session' \in Scheduled([session EXCEPT ![s] = r],
                                       participant', log, mode)
      PROVE  QueueStep
  <2> HIDE DEF row
  <2>1. Moved(s, row, r, log) BY <1>0, <1>1, SameFieldsMoved
  <2> QED BY <1>1, <2>1, OneRowStep DEF row
<1>2. ASSUME NEW x \in Effects, log' = log,
             session' = [session EXCEPT ![s].effect = x]
      PROVE  QueueStep
  <2> DEFINE r == [row EXCEPT !.effect = x]
  <2>1. /\ r \in Row /\ SameQueue(r, row)
        /\ r.turn = row.turn /\ r.runtime = row.runtime
        /\ r.session_active = row.session_active /\ r.custody = row.custody
        /\ r.intent = row.intent /\ r.step = row.step
    BY <1>0 DEF Row, SameQueue
  <2>2. session' = [session EXCEPT ![s] = r] BY <1>0, <1>2
  <2> HIDE DEF r
  <2> QED BY <1>1, <1>2, <2>1, <2>2
<1>3. CASE Mute(s)
  <2> DEFINE x == IF TurnActive(row) THEN "participant_muted" ELSE row.effect
  <2>1. x \in Effects BY <1>0 DEF Row, Effects
  <2>2. log' = log /\ session' = [session EXCEPT ![s].effect = x] BY <1>0, <1>3 DEF Mute
  <2> HIDE DEF x
  <2> QED BY <1>2, <2>1, <2>2
<1>4. CASE AgentInterrupt(s) BY <1>2, <1>4 DEF Effects, AgentInterrupt
<1>5. CASE Unmute(s)
  <2> DEFINE r == [row EXCEPT !.schedule_requested = TRUE]
  <2>1. /\ r \in Row /\ SameQueue(r, row)
        /\ r.turn = row.turn /\ r.runtime = row.runtime
        /\ r.session_active = row.session_active /\ r.custody = row.custody
        /\ r.intent = row.intent /\ r.step = row.step
    BY <1>0 DEF Row, SameQueue
  <2>2. /\ log' = log
        /\ session' \in Scheduled([session EXCEPT ![s] = r], participant', log, mode)
    BY <1>0, <1>5 DEF Unmute
  <2> HIDE DEF r
  <2> QED BY <1>1, <2>1, <2>2
<1>6. CASE FinalizeRetained(s)
  <2>1. /\ log' = log /\ participant' = participant
        /\ \/ session' = [session EXCEPT ![s] = RetainedRow(row, log)]
           \/ session' \in Scheduled([session EXCEPT ![s] = RetainedRow(row, log)],
                                     participant', log, mode)
    BY <1>0, <1>6 DEF FinalizeRetained
  <2>2. Moved(s, row, RetainedRow(row, log), log) BY <1>0, <1>b, EndedMoved
  <2> HIDE DEF row
  <2> QED BY <2>1, <2>2, OneRowStep DEF row
<1>7. CASE RuntimeGone(s) /\ ~StopUnderWay(row)
  <2>1. /\ log' = log
        /\ \/ session' = [session EXCEPT ![s] = GoneRow(row, log)]
           \/ session' \in Scheduled([session EXCEPT ![s] = GoneRow(row, log)],
                                     participant', log, mode)
    BY <1>0, <1>7 DEF RuntimeGone
  <2>2. Moved(s, row, GoneRow(row, log), log) BY <1>0, <1>b, EndedMoved
  <2> HIDE DEF row
  <2> QED BY <2>1, <2>2, OneRowStep DEF row
<1>8. CASE RuntimeGone(s) /\ StopUnderWay(row)
  <2> DEFINE q == StoppedTurnRow(row)
             r == [q EXCEPT !.step = "effect_applied"]
  <2>1. /\ q \in Row /\ SameQueue(q, row)
        /\ q.turn = row.turn /\ q.runtime = row.runtime
        /\ q.session_active = row.session_active /\ q.custody = row.custody
        /\ q.intent = row.intent
    BY <1>0 DEF StoppedTurnRow, Row, SameQueue, Executions, Effects
  <2>2. log' = log /\ session' = [session EXCEPT ![s] = r] BY <1>0, <1>8 DEF RuntimeGone
  <2> HIDE DEF q
  <2>3. /\ r \in Row /\ SameQueue(r, q)
        /\ r.turn = q.turn /\ r.runtime = q.runtime
        /\ r.session_active = q.session_active /\ r.custody = q.custody
        /\ r.intent = q.intent /\ r.step = "effect_applied"
    BY <2>1 DEF Row, SameQueue, Steps
  <2> HIDE DEF r
  <2>4. row.intent = "stop" /\ SameQueue(r, row) BY <1>8, <2>1, <2>3 DEF StopUnderWay, SameQueue
  <2> QED BY <1>1, <2>1, <2>2, <2>3, <2>4
<1> QED BY <1>3, <1>4, <1>5, <1>6, <1>7, <1>8

\* agent.start.
LEMMA LaunchQueueStep ==
    ASSUME FloorInv, QueueInv, NEW s \in Sessions,
           \/ PrepareLaunch(s)
           \/ AuthorizeLaunch(s)
           \/ \E reused, active \in BOOLEAN : CompleteLaunch(s, reused, active)
           \/ FailLaunchBeforeEffect(s)
           \/ FailLaunch(s)
           \/ LaunchUnconfirmed(s)
    PROVE  QueueStep
<1> DEFINE row == session[s]
<1>0. /\ row \in Row
      /\ session \in [Sessions -> Row]
      /\ log \in Seq(Message) /\ mode \in Modes
      /\ RowTurn(row) /\ RowRuntime(row) /\ RowQueue(s, row, log)
  BY DEF FloorInv, TypeOK, QueueInv
<1>1. ASSUME NEW r \in Row, SameQueue(r, row), RowTurn(r), RowRuntime(r),
             log' = log, session' = [session EXCEPT ![s] = r]
      PROVE  QueueStep
  <2> HIDE DEF row
  <2>1. Moved(s, row, r, log) BY <1>0, <1>1, SameQueueMoved
  <2> QED BY <1>1, <2>1, OneRowStep DEF row
\* The launching marks keep a busy runtime busy; none is stopping without a stop.
<1>2. ASSUME NEW step \in {"prepared", "effect_inflight"}, row.intent # "stop",
             ~StartUnconfirmed(row)
      PROVE  LET r == LaunchingRow(row, step) IN
             /\ r \in Row /\ SameQueue(r, row) /\ RowTurn(r)
             /\ r.turn = row.turn /\ r.runtime # "stopping"
             /\ r.session_active = row.session_active /\ r.custody = row.custody
  <2> DEFINE r == LaunchingRow(row, step)
  <2>1. /\ r \in Row /\ SameQueue(r, row) /\ r.turn = row.turn
        /\ r.session_active = row.session_active /\ r.custody = row.custody
        /\ r.runtime = IF row.runtime \in {"starting", "idle", "busy"}
                       THEN row.runtime ELSE "starting"
    BY <1>0, ZenonT(60) DEF LaunchingRow, Row, SameQueue, Statuses, Runtimes, Intents, Steps
  <2>2. row.runtime # "stopping" BY <1>0, <1>2 DEF RowRuntime, StopUnderWay
  <2> HIDE DEF r
  <2>3. RowTurn(r) BY <1>0, <1>2, <2>1, <2>2 DEF RowTurn, TurnActive, TurnClear, SameQueue
  <2> QED BY <2>1, <2>2, <2>3 DEF r
<1>3. CASE PrepareLaunch(s)
  <2> DEFINE r == LaunchingRow(row, "prepared")
  <2>1. row.intent # "stop" /\ ~StartUnconfirmed(row) BY <1>3 DEF PrepareLaunch, NoIntent, StartUnconfirmed, HasIntent
  <2>2. /\ r \in Row /\ SameQueue(r, row) /\ RowTurn(r)
        /\ r.turn = row.turn /\ r.runtime # "stopping"
        /\ r.session_active = row.session_active /\ r.custody = row.custody
    BY <1>2, <2>1
  <2>3. log' = log /\ session' = [session EXCEPT ![s] = r] BY <1>0, <1>3 DEF PrepareLaunch
  <2> HIDE DEF r
  <2>4. RowRuntime(r) BY <1>0, <2>2 DEF RowRuntime
  <2> QED BY <1>1, <2>2, <2>3, <2>4
<1>4. CASE AuthorizeLaunch(s)
  <2> DEFINE q == LaunchingRow(row, "effect_inflight")
             r == [q EXCEPT !.custody = TRUE]
  <2>1. row.intent # "stop" /\ ~StartUnconfirmed(row) BY <1>4 DEF AuthorizeLaunch, StartUnconfirmed, HasIntent
  <2>2. /\ q \in Row /\ SameQueue(q, row) /\ RowTurn(q)
        /\ q.turn = row.turn /\ q.runtime # "stopping"
    BY <1>2, <2>1
  <2>3. log' = log /\ session' = [session EXCEPT ![s] = r] BY <1>0, <1>4 DEF AuthorizeLaunch
  <2> HIDE DEF q
  <2>4. /\ r \in Row /\ SameQueue(r, q)
        /\ r.turn = q.turn /\ r.runtime = q.runtime /\ r.custody
        /\ r.intent = q.intent /\ r.step = q.step
    BY <2>2 DEF Row, SameQueue
  <2> HIDE DEF r
  <2>5. RowRuntime(r) BY <2>2, <2>4 DEF RowRuntime
  <2>6. RowTurn(r) /\ SameQueue(r, row) BY <2>2, <2>4 DEF RowTurn, StartUnconfirmed, HasIntent, TurnActive, TurnClear,
       SameQueue
  <2> QED BY <1>1, <2>3, <2>4, <2>5, <2>6
<1>5. ASSUME NEW reused \in BOOLEAN, NEW active \in BOOLEAN,
             CompleteLaunch(s, reused, active)
      PROVE  QueueStep
  <2> DEFINE r == LaunchedRow(row, reused, active)
  <2>1. /\ row.custody /\ row.intent = "start" /\ ~StartUnconfirmed(row)
        /\ row.turn => reused /\ active
    BY <1>5 DEF CompleteLaunch, HasIntent, StartUnconfirmed
  <2>2. /\ r \in Row /\ SameQueue(r, row) /\ r.turn = row.turn
        /\ r.custody = row.custody
        /\ r.runtime = IF reused /\ row.runtime \in {"idle", "busy"}
                       THEN row.runtime ELSE "idle"
    BY <1>0, ZenonT(60) DEF LaunchedRow, ClearIntent, Row, SameQueue, Statuses, Runtimes,
       Intents, Steps
  <2>3. log' = log /\ session' = [session EXCEPT ![s] = r] BY <1>0, <1>5 DEF CompleteLaunch
  <2> HIDE DEF r
  <2>4. row.runtime # "stopping" BY <1>0, <2>1 DEF RowRuntime, StopUnderWay
  <2>5. RowTurn(r) BY <1>0, <2>1, <2>2, <2>4 DEF RowTurn, TurnActive, TurnClear, SameQueue
  <2>6. RowRuntime(r) BY <2>1, <2>2, <2>4 DEF RowRuntime
  <2> QED BY <1>1, <2>2, <2>3, <2>5, <2>6
<1>6. CASE FailLaunchBeforeEffect(s) /\ row.custody
  <2> DEFINE r == ClearIntent(row)
  <2>1. /\ r \in Row /\ SameQueue(r, row) /\ r.turn = row.turn
        /\ r.runtime = row.runtime
        /\ r.session_active = row.session_active /\ r.custody = row.custody
    BY <1>0 DEF ClearIntent, Row, SameQueue, Intents, Steps
  <2>2. log' = log /\ session' = [session EXCEPT ![s] = r] BY <1>0, <1>6 DEF FailLaunchBeforeEffect
  <2>3. row.intent = "start" /\ ~StartUnconfirmed(row) BY <1>6 DEF FailLaunchBeforeEffect, HasIntent, StartUnconfirmed
  <2> HIDE DEF r
  <2>4. RowTurn(r) BY <1>0, <2>1, <2>3 DEF RowTurn, TurnActive, TurnClear, SameQueue
  <2>5. RowRuntime(r) BY <1>0, <2>1, <2>3 DEF RowRuntime, StopUnderWay
  <2> QED BY <1>1, <2>1, <2>2, <2>4, <2>5
\* A row without a turn that is marked failed.
<1>7. ASSUME NEW r \in Row, SameQueue(r, row), r.turn = row.turn, ~row.turn,
             ~StartUnconfirmed(row),
             r.runtime = "error", r.session_active = FALSE,
             log' = log, session' = [session EXCEPT ![s] = r]
      PROVE  QueueStep
  <2>1. RowTurn(r) BY <1>0, <1>7 DEF RowTurn, TurnActive, TurnClear, SameQueue
  <2>2. RowRuntime(r) BY <1>7 DEF RowRuntime
  <2> QED BY <1>1, <1>7, <2>1, <2>2
<1>8. CASE FailLaunchBeforeEffect(s) /\ ~row.custody
  <2> DEFINE r == [ClearIntent(row) EXCEPT !.status = "unavailable",
                     !.enabled = FALSE, !.runtime = "error",
                     !.session_active = FALSE]
  <2>1. /\ r \in Row /\ SameQueue(r, row) /\ r.turn = row.turn
        /\ r.runtime = "error" /\ r.session_active = FALSE
    BY <1>0 DEF ClearIntent, Row, SameQueue, Intents, Steps, Statuses, Runtimes
  <2>2. log' = log /\ session' = [session EXCEPT ![s] = r] BY <1>0, <1>8 DEF FailLaunchBeforeEffect
  <2>3. ~row.turn /\ ~StartUnconfirmed(row) BY <1>0, <1>8 DEF RowRuntime, FailLaunchBeforeEffect, HasIntent,
       StartUnconfirmed
  <2> HIDE DEF r
  <2> QED BY <1>7, <2>1, <2>2, <2>3
<1>9. CASE FailLaunch(s)
  <2> DEFINE r == [ClearIntent(row) EXCEPT !.status = "unavailable",
                     !.enabled = FALSE, !.runtime = "error",
                     !.session_active = FALSE, !.custody = FALSE]
  <2>1. /\ r \in Row /\ SameQueue(r, row) /\ r.turn = row.turn
        /\ r.runtime = "error" /\ r.session_active = FALSE
    BY <1>0, ZenonT(60) DEF ClearIntent, Row, SameQueue, Intents, Steps, Statuses, Runtimes
  <2>2. log' = log /\ session' = [session EXCEPT ![s] = r] BY <1>0, <1>9 DEF FailLaunch
  <2>3. ~row.turn /\ ~StartUnconfirmed(row) BY <1>9 DEF FailLaunch, HasIntent, StartUnconfirmed
  <2> HIDE DEF r
  <2> QED BY <1>7, <2>1, <2>2, <2>3
<1>10. CASE LaunchUnconfirmed(s)
  <2> DEFINE r == [row EXCEPT !.status = "unavailable", !.enabled = FALSE,
                              !.runtime = "disconnected",
                              !.session_active = FALSE,
                              !.step = "unconfirmed"]
  <2>1. /\ r \in Row /\ SameQueue(r, row) /\ r.turn = row.turn
        /\ r.runtime = "disconnected" /\ r.session_active = FALSE
        /\ r.custody = row.custody /\ r.intent = row.intent
        /\ r.step = "unconfirmed"
    BY <1>0 DEF Row, SameQueue, Steps, Statuses, Runtimes
  <2>2. log' = log /\ session' = [session EXCEPT ![s] = r] BY <1>0, <1>10 DEF LaunchUnconfirmed
  <2>3. row.intent = "start" /\ row.custody BY <1>10 DEF LaunchUnconfirmed, HasIntent
  <2> HIDE DEF r
  <2>4. RowTurn(r) /\ RowRuntime(r) BY <2>1, <2>3 DEF RowTurn, StartUnconfirmed, HasIntent, RowRuntime
  <2> QED BY <1>1, <2>1, <2>2, <2>4
<1> QED BY <1>3, <1>4, <1>5, <1>6, <1>8, <1>9, <1>10

\* agent.stop.
LEMMA StopQueueStep ==
    ASSUME FloorInv, QueueInv, NEW s \in Sessions,
           \/ PrepareStop(s)
           \/ AuthorizeStop(s)
           \/ FailStopBeforeEffect(s)
           \/ RecordStopEffect(s)
           \/ StopUnconfirmed(s)
           \/ FinalizeStop(s)
    PROVE  QueueStep
<1> DEFINE row == session[s]
<1>0. /\ row \in Row
      /\ session \in [Sessions -> Row]
      /\ log \in Seq(Message) /\ mode \in Modes
      /\ RowTurn(row) /\ RowRuntime(row) /\ RowQueue(s, row, log)
  BY DEF FloorInv, TypeOK, QueueInv
<1>b. TRUE \in BOOLEAN OBVIOUS
<1>1. ASSUME NEW r \in Row, SameQueue(r, row), RowTurn(r), RowRuntime(r),
             log' = log, session' = [session EXCEPT ![s] = r]
      PROVE  QueueStep
  <2> HIDE DEF row
  <2>1. Moved(s, row, r, log) BY <1>0, <1>1, SameQueueMoved
  <2> QED BY <1>1, <2>1, OneRowStep DEF row
<1>2. CASE PrepareStop(s)
  <2> DEFINE x == IF ExitConfirmed(row) THEN "effect_applied" ELSE "prepared"
             r == [row EXCEPT !.intent = "stop", !.step = x]
  <2>1. x \in Steps BY DEF Steps
  <2>2. log' = log /\ session' = [session EXCEPT ![s] = r] BY <1>0, <1>2 DEF PrepareStop
  <2> HIDE DEF x
  <2>3. /\ r \in Row /\ SameQueue(r, row) /\ r.turn = row.turn
        /\ r.runtime = row.runtime
        /\ r.session_active = row.session_active /\ r.custody = row.custody
    BY <1>0, <2>1 DEF Row, SameQueue, Intents
  <2>4. row.intent = "none" /\ (TurnActive(row) \/ TurnClear(row)) BY <1>2 DEF PrepareStop, NoIntent, Authority
  <2> HIDE DEF r
  <2>5. RowTurn(r) BY <2>3, <2>4 DEF RowTurn, TurnActive, TurnClear, SameQueue
  <2>6. RowRuntime(r) BY <1>0, <2>3, <2>4 DEF RowRuntime, StopUnderWay
  <2> QED BY <1>1, <2>2, <2>3, <2>5, <2>6
<1>3. CASE AuthorizeStop(s)
  <2> DEFINE r == [row EXCEPT !.runtime = "stopping", !.enabled = FALSE,
                              !.step = "effect_inflight"]
  <2>1. /\ r \in Row /\ SameQueue(r, row) /\ r.turn = row.turn
        /\ r.runtime = "stopping" /\ r.intent = row.intent
        /\ r.step = "effect_inflight"
        /\ r.session_active = row.session_active /\ r.custody = row.custody
    BY <1>0 DEF Row, SameQueue, Runtimes, Steps
  <2>2. log' = log /\ session' = [session EXCEPT ![s] = r] BY <1>0, <1>3 DEF AuthorizeStop
  <2>3. row.intent = "stop" /\ row.custody /\ ~StartUnconfirmed(row)
    BY <1>3 DEF AuthorizeStop, HasIntent, StartUnconfirmed
  <2> HIDE DEF r
  <2>4. RowTurn(r) BY <1>0, <2>1, <2>3 DEF RowTurn, TurnActive, TurnClear, SameQueue
  <2>5. RowRuntime(r) BY <2>1, <2>3 DEF RowRuntime, StopUnderWay
  <2> QED BY <1>1, <2>1, <2>2, <2>4, <2>5
<1>4. CASE FailStopBeforeEffect(s)
  <2> DEFINE r == ClearIntent(row)
  <2>1. /\ r \in Row /\ SameQueue(r, row) /\ r.turn = row.turn
        /\ r.runtime = row.runtime
        /\ r.session_active = row.session_active /\ r.custody = row.custody
    BY <1>0 DEF ClearIntent, Row, SameQueue, Intents, Steps
  <2>2. log' = log /\ session' = [session EXCEPT ![s] = r] BY <1>0, <1>4 DEF FailStopBeforeEffect
  <2>3. row.intent = "stop" /\ row.step = "prepared" /\ ~StartUnconfirmed(row)
    BY <1>4 DEF FailStopBeforeEffect, HasIntent, StartUnconfirmed
  <2> HIDE DEF r
  <2>4. RowTurn(r) BY <1>0, <2>1, <2>3 DEF RowTurn, TurnActive, TurnClear, SameQueue
  <2>5. RowRuntime(r) BY <1>0, <2>1, <2>3 DEF RowRuntime, StopUnderWay
  <2> QED BY <1>1, <2>1, <2>2, <2>4, <2>5
<1>5. CASE RecordStopEffect(s)
  <2> DEFINE q == StoppedTurnRow(row)
             r == [q EXCEPT !.step = "effect_applied"]
  <2>1. /\ q \in Row /\ SameQueue(q, row)
        /\ q.turn = row.turn /\ q.runtime = row.runtime
        /\ q.session_active = row.session_active /\ q.custody = row.custody
        /\ q.intent = row.intent
    BY <1>0 DEF StoppedTurnRow, Row, SameQueue, Executions, Effects
  <2>2. log' = log /\ session' = [session EXCEPT ![s] = r] BY <1>0, <1>5 DEF RecordStopEffect
  <2> HIDE DEF q
  <2>3. /\ r \in Row /\ SameQueue(r, q)
        /\ r.turn = q.turn /\ r.runtime = q.runtime
        /\ r.session_active = q.session_active /\ r.custody = q.custody
        /\ r.intent = q.intent /\ r.step = "effect_applied"
    BY <2>1 DEF Row, SameQueue, Steps
  <2> HIDE DEF r
  <2>4. row.intent = "stop" /\ SameQueue(r, row) BY <1>5, <2>1, <2>3 DEF RecordStopEffect, HasIntent, SameQueue
  <2>5. Moved(s, row, r, log) BY <1>0, <2>1, <2>3, <2>4, SameFieldsMoved
  <2> HIDE DEF row
  <2> QED BY <2>2, <2>5, OneRowStep DEF row
<1>6. CASE StopUnconfirmed(s) /\ TurnActive(row)
  <2> DEFINE r == [row EXCEPT !.status = "unavailable", !.enabled = FALSE,
                              !.step = "unconfirmed"]
  <2>1. /\ r \in Row /\ SameQueue(r, row)
        /\ r.turn = row.turn /\ r.runtime = row.runtime
        /\ r.session_active = row.session_active /\ r.custody = row.custody
        /\ r.intent = row.intent /\ r.step = "unconfirmed"
    BY <1>0 DEF Row, SameQueue, Statuses, Steps
  <2>2. log' = log /\ session' = [session EXCEPT ![s] = r] BY <1>0, <1>6 DEF StopUnconfirmed
  <2>3. row.intent = "stop" BY <1>6 DEF StopUnconfirmed, HasIntent
  <2> HIDE DEF r
  <2>4. Moved(s, row, r, log) BY <1>0, <2>1, <2>3, SameFieldsMoved
  <2> HIDE DEF row
  <2> QED BY <2>2, <2>4, OneRowStep DEF row
<1>7. CASE StopUnconfirmed(s) /\ ~TurnActive(row)
  <2> DEFINE q == ReleasedRow(row, log)
             r == [[q EXCEPT !.runtime = "disconnected",
                             !.session_active = FALSE] EXCEPT
                     !.status = "unavailable", !.enabled = FALSE,
                     !.step = "unconfirmed"]
  <2>1. /\ q \in Row
        /\ q.pending = MergedQueue(row, log) /\ q.inflight = <<>>
        /\ q.up_to = 0 /\ q.sync_seq = row.sync_seq /\ q.turn = FALSE
    BY <1>0, ReleasedFields
  <2>2. log' = log /\ session' = [session EXCEPT ![s] = r] BY <1>0, <1>7 DEF StopUnconfirmed
  <2> HIDE DEF q
  <2>3. /\ r \in Row
        /\ r.pending = q.pending /\ r.inflight = q.inflight
        /\ r.up_to = q.up_to /\ r.sync_seq = q.sync_seq /\ r.turn = q.turn
        /\ r.runtime = "disconnected" /\ r.session_active = FALSE
    BY <2>1 DEF Row, Statuses, Steps, Runtimes
  <2> HIDE DEF r
  <2>4. RowTurn(r) /\ RowRuntime(r) BY <2>1, <2>3 DEF RowTurn, TurnClear, RowRuntime
  <2>5. /\ r.pending = MergedQueue(row, log) /\ r.inflight = <<>>
        /\ r.sync_seq = row.sync_seq
    BY <2>1, <2>3
  <2> HIDE DEF row
  <2>6. Moved(s, row, r, log) BY <1>0, <2>3, <2>4, <2>5, ReleasedMoved
  <2> QED BY <2>2, <2>6, OneRowStep DEF row
<1>8. CASE FinalizeStop(s)
  <2>1. /\ log' = log
        /\ session' \in Scheduled([session EXCEPT ![s] = DetachedRow(row, log)],
                                  participant', log, mode)
    BY <1>0, <1>8 DEF FinalizeStop
  <2>2. Moved(s, row, DetachedRow(row, log), log) BY <1>0, <1>b, EndedMoved
  <2> HIDE DEF row
  <2> QED BY <2>1, <2>2, OneRowStep DEF row
<1> QED BY <1>2, <1>3, <1>4, <1>5, <1>6, <1>7, <1>8

------------------------
(* Messages.                                                                *)

\* A message is only routed to agents other than its author.
LEMMA TargetsAreOthers ==
    ASSUME NEW rows, NEW parts, NEW before, NEW m,
           NEW author \in Sessions \cup {Human},
           NEW direct \in Sessions \cup {None},
           direct # None => direct # author,
           NEW targets \in Targets(rows, parts, before, m, author, direct)
    PROVE  targets \subseteq Sessions \ {author}
<1>1. CASE m # "ordered" BY <1>1 DEF Targets, AmbientTargets
<1>2. CASE m = "ordered" /\ direct # None BY <1>2 DEF Targets, OrderedTargets
<1>3. CASE m = "ordered" /\ direct = None
  <2> DEFINE pool == Pool(rows, parts, before, author)
  <2>1. pool \subseteq Sessions \ {author} BY DEF Pool
  <2> HIDE DEF pool
  <2>2. targets = {} \/ targets \in {{s} : s \in Winners(pool, before)} BY <1>3 DEF Targets, OrderedTargets, pool
  <2>3. Winners(pool, before) \subseteq pool BY DEF Winners
  <2> QED BY <2>1, <2>2, <2>3
<1> QED BY <1>1, <1>2, <1>3

\* route_message appends the new event to queues that can serve it.
LEMMA RoutedMoved ==
    ASSUME FloorInv, QueueInv, mode \in Modes,
           NEW author \in Sessions \cup {Human},
           NEW direct \in Sessions \cup {None},
           direct # None => direct # author,
           Post(author), NEW parts,
           NEW rows \in [Sessions -> Row],
           \A s \in Sessions : Moved(s, session[s], rows[s], log),
           NEW result \in Routed(rows, parts, log, mode, author, direct)
    PROVE  /\ result \in [Sessions -> Row]
           /\ \A s \in Sessions : Moved(s, session[s], result[s], log')
<1> DEFINE event == Len(log) + 1
<1>1. log \in Seq(Message) /\ session \in [Sessions -> Row] BY DEF FloorInv, TypeOK
<1>2. PICK targets \in Targets(rows, parts, log, mode, author, direct) :
        /\ QueueHasRoom(rows, targets, event)
        /\ result = QueueInput(rows, targets, event, mode)
        /\ RouterAccepts(rows, log)
  BY DEF Routed
<1>3. targets \subseteq Sessions \ {author} BY TargetsAreOthers
<1>4. /\ Grown(log, log')
      /\ \A e \in DOMAIN log : log'[e] = log[e]
      /\ DOMAIN log' = 1..(Len(log) + 1)
      /\ log'[Len(log) + 1] = [author |-> author, deleted |-> FALSE]
  BY <1>1, PostGrows
<1>5. /\ event \in Nat /\ event \in DOMAIN log'
      /\ log'[event].author = author /\ ~log'[event].deleted
  BY <1>1, <1>4
<1>6. event = Len(log) + 1 OBVIOUS
<1> HIDE DEF event
<1>7. ASSUME NEW s \in Sessions
      PROVE  /\ result[s] \in Row
             /\ Moved(s, session[s], result[s], log')
  <2>1. /\ session[s] \in Row /\ rows[s] \in Row
        /\ RowQueue(s, session[s], log)
        /\ Moved(s, session[s], rows[s], log)
    BY <1>1 DEF QueueInv
  <2>2. RowTurn(rows[s]) /\ RowRuntime(rows[s]) /\ RowQueue(s, rows[s], log) BY <2>1 DEF Moved
  <2>3. CASE s \in targets /\ ~Holds(rows[s], event)
    <3> DEFINE q == Append(rows[s].pending, [event |-> event, kind |-> mode])
    <3>1. result[s] = [rows[s] EXCEPT !.pending = q] BY <1>2, <2>3 DEF QueueInput
    <3>2. q \in Seq(Input) BY <2>1, <1>5, AppendProperties DEF Row, Input
    <3> HIDE DEF q
    <3>3. result[s] \in Row /\ WithPending(result[s], rows[s], q) BY <2>1, <3>1, <3>2 DEF Row, WithPending
    <3>4. Len(Queue(rows[s])) < MaxQueue /\ rows[s].sync_seq <= Len(log) BY <1>2, <2>3 DEF QueueHasRoom, RouterAccepts
    <3>5. log'[event].author # s BY <1>3, <1>5, <2>3
    <3>6. Moved(s, rows[s], result[s], log')
      BY <1>1, <1>4, <1>5, <1>6, <2>1, <2>2, <3>3, <3>4, <3>5, AppendedMoved DEF q
    <3>7. result[s].sync_seq = rows[s].sync_seq BY <3>3 DEF WithPending
    <3> QED BY <1>4, <2>1, <3>3, <3>6, <3>7, MovedTwice
  <2>4. CASE ~(s \in targets /\ ~Holds(rows[s], event))
    BY <1>2, <2>4, <1>1, <1>4, <2>1, <2>2, GrownMoved, MovedTwice DEF QueueInput
  <2> QED BY <2>3, <2>4
<1>8. result = [s \in Sessions |-> result[s]] BY <1>2 DEF QueueInput
<1> QED BY <1>7, <1>8

\* A posted message: routed to the next speakers, and the floor handed on.
LEMMA PostedQueueStep ==
    ASSUME FloorInv, QueueInv,
           \/ \E d \in Sessions \cup {None} : SendMessage(d)
           \/ \E s \in Sessions :
                \/ \E t, d \in Sessions \cup {None} : CompleteMessage(s, t, d)
                \/ CompleteVoteCast(s)
    PROVE  QueueStep /\ Grown(log, log')
<1>0. /\ session \in [Sessions -> Row]
      /\ log \in Seq(Message) /\ mode \in Modes
      /\ \A s \in Sessions : RowTurn(session[s]) /\ RowRuntime(session[s])
                             /\ RowQueue(s, session[s], log)
  BY DEF FloorInv, TypeOK, QueueInv
<1>1. ASSUME NEW author \in Sessions \cup {Human},
             NEW direct \in Sessions \cup {None},
             direct # None => direct # author, Post(author),
             NEW rows \in [Sessions -> Row],
             \A s \in Sessions : Moved(s, session[s], rows[s], log),
             session' \in RoutedAndScheduled(rows, participant', log, mode,
                                             author, direct)
      PROVE  QueueStep
  BY <1>1, <1>0, RoutedMoved DEF Post, RoutedAndScheduled, QueueStep
<1>2. ASSUME NEW d \in Sessions \cup {None}, SendMessage(d)
      PROVE  QueueStep /\ Grown(log, log')
  BY <1>2, StoredMoved, <1>0, <1>1, PostGrows DEF SendMessage, None, Human
<1>3. ASSUME NEW s \in Sessions, OrdinaryOutcomeAllowed(session[s], participant[s])
      PROVE  LET rows == [session EXCEPT ![s] = CompletedRow(session[s])] IN
             /\ rows \in [Sessions -> Row]
             /\ \A t \in Sessions : Moved(t, session[t], rows[t], log)
  <2> DEFINE r == CompletedRow(session[s])
             rows == [session EXCEPT ![s] = r]
  <2>1. Moved(s, session[s], r, log) BY <1>0, <1>3, OrdinaryIsActive, CompletedMoved
  <2>2. r \in Row BY <2>1 DEF Moved
  <2> HIDE DEF r
  <2>3. /\ rows \in [Sessions -> Row]
        /\ \A t \in Sessions : rows[t] = IF t = s THEN r ELSE session[t]
    BY <1>0, <2>2
  <2> HIDE DEF rows
  <2>4. \A t \in Sessions : Moved(t, session[t], rows[t], log) BY <2>1, <2>3, StoredMoved
  <2> QED BY <2>3, <2>4 DEF rows, r
<1>4. ASSUME NEW s \in Sessions,
             NEW t \in Sessions \cup {None}, NEW d \in Sessions \cup {None},
             CompleteMessage(s, t, d)
      PROVE  QueueStep /\ Grown(log, log')
  <2> DEFINE rows == [session EXCEPT ![s] = CompletedRow(session[s])]
             direct == IF d # None THEN d ELSE t
  <2>1. /\ Post(s) /\ participant' = participant
        /\ OrdinaryOutcomeAllowed(session[s], participant[s])
        /\ direct \in Sessions \cup {None}
        /\ direct # None => direct # s
        /\ session' \in RoutedAndScheduled(rows, participant', log, mode, s, direct)
    BY <1>0, <1>4 DEF CompleteMessage
  <2>2. /\ rows \in [Sessions -> Row]
        /\ \A u \in Sessions : Moved(u, session[u], rows[u], log)
    BY <1>3, <2>1
  <2> HIDE DEF rows, direct
  <2> QED BY <1>0, <1>1, <2>1, <2>2, PostGrows
<1>5. ASSUME NEW s \in Sessions, CompleteVoteCast(s)
      PROVE  QueueStep /\ Grown(log, log')
  <2> DEFINE rows == [session EXCEPT ![s] = CompletedRow(session[s])]
  <2>1. /\ Post(s) /\ participant' = participant
        /\ OrdinaryOutcomeAllowed(session[s], participant[s])
        /\ session' \in Scheduled(rows, participant', log', mode)
    BY <1>0, <1>5 DEF CompleteVoteCast
  <2>2. /\ rows \in [Sessions -> Row]
        /\ \A u \in Sessions : Moved(u, session[u], rows[u], log)
    BY <1>3, <2>1
  <2> HIDE DEF rows
  <2>3. Grown(log, log') /\ \A e \in DOMAIN log : log'[e] = log[e] BY <1>0, <2>1, PostGrows
  <2>4. ASSUME NEW u \in Sessions
        PROVE  Moved(u, session[u], rows[u], log')
    BY <1>0, <2>2, <2>3, GrownMoved, MovedTwice DEF Moved
  <2> QED BY <2>1, <2>2, <2>3, <2>4 DEF QueueStep
<1> QED BY <1>2, <1>4, <1>5

\* Deletion, settings, owed assignments and the restart barrier.
LEMMA RoomQueueStep ==
    ASSUME FloorInv, QueueInv,
           \/ \E e \in DOMAIN log : DeleteMessage(e)
           \/ \E m \in Modes : SetMode(m)
           \/ AssignPending
           \/ PrepareRestart
           \/ CompleteRestart
           \/ UNCHANGED vars
    PROVE  QueueStep /\ Grown(log, log')
<1>0. /\ session \in [Sessions -> Row]
      /\ log \in Seq(Message) /\ mode \in Modes
      /\ \A s \in Sessions : RowTurn(session[s]) /\ RowRuntime(session[s])
                             /\ RowQueue(s, session[s], log)
  BY DEF FloorInv, TypeOK, QueueInv
<1>1. ASSUME log' = log,
             \/ session' = session
             \/ session' \in Scheduled(session, participant', log, mode)
      PROVE  QueueStep /\ Grown(log, log')
  BY <1>1, StoredMoved, <1>0, GrownSame DEF QueueStep
<1>2. ASSUME NEW e \in DOMAIN log, DeleteMessage(e)
      PROVE  QueueStep /\ Grown(log, log')
  <2>1. /\ log' = [log EXCEPT ![e].deleted = TRUE]
        /\ session' = [s \in Sessions |->
                         [session[s] EXCEPT !.pending =
                            Without(session[s].pending, {e})]]
    BY <1>2 DEF DeleteMessage
  <2>2. \A d \in DOMAIN log : log[d] \in Message BY <1>0
  <2>3. /\ DOMAIN log' = DOMAIN log
        /\ log'[e] = [log[e] EXCEPT !.deleted = TRUE]
        /\ \A d \in DOMAIN log \ {e} : log'[d] = log[d]
    BY <1>0, <2>1
  <2>4. log'[e].deleted /\ log'[e].author = log[e].author BY <2>2, <2>3 DEF Message
  <2>5. Grown(log, log') BY <2>3, <2>4 DEF Grown
  <2>6. ASSUME NEW s \in Sessions
        PROVE  session'[s] \in Row /\ Moved(s, session[s], session'[s], log')
    <3> DEFINE q == Without(session[s].pending, {e})
    <3>1. session[s] \in Row /\ session[s].pending \in Seq(Input) BY <1>0 DEF Row
    <3>2. q \in Seq(Input) BY <3>1, WithoutSelects
    <3>3. session'[s] = [session[s] EXCEPT !.pending = q] BY <2>1
    <3> HIDE DEF q
    <3>4. session'[s] \in Row /\ WithPending(session'[s], session[s], q) BY <3>1, <3>2, <3>3 DEF Row, WithPending
    <3>5. \A d \in DOMAIN log \ {e} : log'[d].deleted = log[d].deleted BY <2>3
    <3> QED BY <1>0, <2>4, <2>5, <3>1, <3>4, <3>5, DeletedMoved DEF q
  <2>7. session' \in [Sessions -> Row] BY <2>1, <2>6
  <2> QED BY <2>5, <2>6, <2>7 DEF QueueStep
<1>3. ASSUME NEW m, SetMode(m)
      PROVE  QueueStep /\ Grown(log, log')
  BY <1>1, <1>3 DEF SetMode
<1>4. CASE AssignPending BY <1>4, <1>1 DEF AssignPending
<1>5. CASE PrepareRestart BY <1>1, <1>5 DEF PrepareRestart
<1>6. CASE CompleteRestart BY <1>1, <1>6 DEF CompleteRestart
<1>7. CASE UNCHANGED vars BY <1>1, <1>7 DEF vars
<1> QED BY <1>2, <1>3, <1>4, <1>5, <1>6, <1>7

------------------------
(* Every transaction.                                                       *)

\* The transactions of turns, interrupts, starts and stops that post nothing
\* leave the messages alone.
LEMMA LogKept ==
    ASSUME NEW s,
           \/ AuthorizeStart(s)
           \/ CompleteSilently(s)
           \/ \E stopped \in BOOLEAN : FailTurn(s, stopped)
           \/ TaskDiesBeforeStart(s)
           \/ TaskDiesAfterStart(s)
           \/ Mute(s)
           \/ Unmute(s)
           \/ AgentInterrupt(s)
           \/ FinalizeRetained(s)
           \/ RuntimeGone(s)
           \/ PrepareLaunch(s)
           \/ AuthorizeLaunch(s)
           \/ \E reused, active \in BOOLEAN : CompleteLaunch(s, reused, active)
           \/ FailLaunchBeforeEffect(s)
           \/ FailLaunch(s)
           \/ LaunchUnconfirmed(s)
           \/ PrepareStop(s)
           \/ AuthorizeStop(s)
           \/ FailStopBeforeEffect(s)
           \/ RecordStopEffect(s)
           \/ StopUnconfirmed(s)
           \/ FinalizeStop(s)
    PROVE  log' = log
<1>1. ASSUME \/ AuthorizeStart(s)
             \/ CompleteSilently(s)
             \/ \E stopped \in BOOLEAN : FailTurn(s, stopped)
             \/ TaskDiesBeforeStart(s)
             \/ TaskDiesAfterStart(s)
             \/ Mute(s)
             \/ Unmute(s)
             \/ AgentInterrupt(s)
             \/ FinalizeRetained(s)
             \/ RuntimeGone(s)
      PROVE  log' = log
  BY <1>1 DEF AuthorizeStart, CompleteSilently, FailTurn, TaskDiesBeforeStart,
     TaskDiesAfterStart, Mute, Unmute, AgentInterrupt, FinalizeRetained,
     RuntimeGone
<1>2. ASSUME \/ PrepareLaunch(s)
             \/ AuthorizeLaunch(s)
             \/ \E reused, active \in BOOLEAN : CompleteLaunch(s, reused, active)
             \/ FailLaunchBeforeEffect(s)
             \/ FailLaunch(s)
             \/ LaunchUnconfirmed(s)
             \/ PrepareStop(s)
             \/ AuthorizeStop(s)
             \/ FailStopBeforeEffect(s)
             \/ RecordStopEffect(s)
             \/ StopUnconfirmed(s)
             \/ FinalizeStop(s)
      PROVE  log' = log
  BY <1>2 DEF PrepareLaunch, AuthorizeLaunch, CompleteLaunch,
     FailLaunchBeforeEffect, FailLaunch, LaunchUnconfirmed, PrepareStop,
     AuthorizeStop, FailStopBeforeEffect, RecordStopEffect, StopUnconfirmed,
     FinalizeStop
<1> QED BY <1>1, <1>2

\* Every transaction has the shape, and never takes a message back.
LEMMA EveryQueueStep ==
    ASSUME FloorInv, QueueInv, [Next]_vars
    PROVE  QueueStep /\ Grown(log, log')
BY TurnQueueStep, ModerationQueueStep, PostedQueueStep, RoomQueueStep, LogKept, GrownSame, ManagedAssumption,
   LaunchQueueStep, StopQueueStep DEF FloorNext, LifecycleNext, Next

\* Every row is moved well by every transaction.
LEMMA EveryStepMoves ==
    ASSUME FloorInv, QueueInv, [Next]_vars, NEW s \in Sessions
    PROVE  Moved(s, session[s], session'[s], log')
<1>1. FloorInv' BY NextFloorInv
<1> QED BY <1>1, EveryQueueStep, QueueStepMoves

------------------------
(* The theorems.                                                            *)

\* A room that opens has empty queues.
LEMMA InitQueueInv == Init => QueueInv
BY ConcatEmptySeq, BoundsAssumption DEF QueueInv, Init, FloorInit, InitRow, RowTurn, TurnClear, RowRuntime,
   Queue, RowQueue, Servable, NoneDeleted

\* Every transaction keeps the queues servable and the turn fields in accord.
LEMMA NextQueueInv == FloorInv /\ QueueInv /\ [Next]_vars => QueueInv'
BY EveryStepMoves DEF Moved, QueueInv

\* The inductive invariant of queues and turn fields holds in every reachable
\* state of the room floor.
THEOREM QueueInvariant == Spec => []QueueInv
<1> QED BY InitQueueInv, NextQueueInv, FloorInvariant, PTL DEF Spec

\* No interleaving of turns, interrupts, starts and stops leaves a row that
\* active_turn_authority rejects, except a start that is left unconfirmed: the
\* routing and the assignment of the room never fail on another row.
THEOREM TurnAuthorityHolds == Spec => []TurnAuthority
<1>1. FloorInv /\ QueueInv => TurnAuthority
  BY RowQueueServes DEF TurnAuthority, FloorInv, TypeOK, QueueInv, Authority, RowTurn
<1> QED BY <1>1, FloorInvariant, QueueInvariant, PTL

\* What is queued for a session is always accepted by valid_pending_inputs: no
\* queue ever makes the scheduler of the room return an error.
THEOREM QueuesAreServable == Spec => []QueuesServable
<1>1. FloorInv /\ QueueInv => QueuesServable
  BY RowQueueServes DEF QueuesServable, FloorInv, TypeOK, QueueInv, RowQueue, Servable
<1> QED BY <1>1, FloorInvariant, QueueInvariant, PTL

\* Routed input is neither lost nor replayed by any transaction, for any number
\* of sessions, messages and queued events.
THEOREM InputIsConserved == Spec => InputConserved
<1>1. FloorInv /\ QueueInv /\ [Next]_vars =>
        [\A s \in Sessions :
          /\ \A e \in Queued(session[s]) :
               \/ e \in Queued(session'[s])
               \/ log'[e].deleted
               \/ e <= session'[s].sync_seq
          /\ session'[s].sync_seq # session[s].sync_seq =>
               /\ session'[s].sync_seq = session[s].up_to
               /\ session'[s].sync_seq > session[s].sync_seq]_vars
  BY EveryStepMoves DEF Moved, Conserved
<1> QED BY <1>1, FloorInvariant, QueueInvariant, PTL DEF Spec, InputConserved

------------------------
(* After the scheduler.                                                     *)

\* A row that was handed the floor holds it.
LEMMA AssignedIsActive ==
    ASSUME NEW row \in Row, NEW n \in 1..Len(row.pending)
    PROVE  TurnActive(PrepareAssignment(row, n))
<1> DEFINE r == PrepareAssignment(row, n)
           p == row.pending
           a == Prefix(p, n)
<1>1. p \in Seq(Input) BY DEF Row
<1>2. /\ r.runtime = "busy" /\ r.turn = TRUE
      /\ r.inflight = a /\ r.up_to = p[n].event
  BY DEF PrepareAssignment, Row
<1> HIDE DEF r, p
<1>3. n \in 1..Len(p) BY DEF p
<1>4. a \in Seq(Input) /\ Len(a) = n /\ \A i \in 1..n : a[i] = p[i] BY <1>1, <1>3, SplitQueue
<1> HIDE DEF a
<1>5. a # <<>> /\ a[Len(a)] = p[n] BY <1>1, <1>3, <1>4
<1>6. TurnActive(r) BY <1>2, <1>5 DEF TurnActive
<1> QED BY <1>6 DEF r

\* assign_available_pending leaves no candidate behind a free floor.
LEMMA ScheduledIsNotStalled ==
    ASSUME NEW rows \in [Sessions -> Row], mode \in Modes,
           session' \in Scheduled(rows, participant', log', mode),
           mode' = mode, quiescing' = quiescing
    PROVE  ~Stalled'
<1>1. SUFFICES ASSUME ~quiescing,
                      NEW c \in Sessions,
                      Ready(session'[c], participant'[c]),
                      session'[c].pending # <<>>,
                      mode = "ordered" =>
                         \A s \in Sessions : ~TurnActive(session'[s])
               PROVE  FALSE
  BY DEF Stalled, Candidates, FloorHeld, AnyActive
<1> DEFINE chosen == Chosen(rows, participant', mode)
           cands == Candidates(rows, participant')
<1>2. PICK fit \in [Sessions -> 1..MaxBatch] :
        /\ \A s \in Sessions :
             s \in chosen => fit[s] <= RunLength(rows[s].pending)
        /\ session' = Assigned(rows, participant', mode, fit)
  BY <1>1 DEF Scheduled
<1>3. chosen \subseteq cands BY ChosenAreCandidates
<1>4. ASSUME NEW s \in Sessions, s \in chosen
      PROVE  TurnActive(session'[s])
  BY <1>3, <1>4, RunLengthBounds, <1>2, BoundsAssumption, AssignedIsActive DEF Candidates, Row, Assigned
<1>5. ASSUME NEW s \in Sessions, s \notin chosen
      PROVE  \/ session'[s] = rows[s]
             \/ /\ session'[s] = [rows[s] EXCEPT !.schedule_requested = FALSE]
                /\ rows[s].pending = <<>>
  BY <1>2, <1>5 DEF Assigned
<1> HIDE DEF chosen, cands
<1>6. c \notin chosen BY <1>1, <1>4 DEF Ready, Assignable, TurnActive
<1>7. session'[c] = rows[c] BY <1>1, <1>5, <1>6 DEF Row
<1>8. c \in cands BY <1>1, <1>7 DEF cands, Candidates
<1>9. CASE mode = "ambient" BY <1>9, <1>6, <1>8 DEF chosen, Chosen, cands
<1>10. CASE mode = "ordered" /\ AnyActive(rows)
  <2>1. PICK s \in Sessions : TurnActive(rows[s]) BY <1>10 DEF AnyActive
  <2>2. s \notin chosen BY <2>1, <1>3 DEF cands, Candidates, Ready, Assignable, TurnActive
  <2>3. session'[s].turn = rows[s].turn /\ session'[s].runtime = rows[s].runtime
        /\ session'[s].inflight = rows[s].inflight
        /\ session'[s].up_to = rows[s].up_to
    <3>1. CASE session'[s] = rows[s] BY <3>1
    <3>2. CASE session'[s] = [rows[s] EXCEPT !.schedule_requested = FALSE] BY <3>2 DEF Row
    <3> QED BY <1>5, <2>2, <3>1, <3>2
  <2>4. TurnActive(session'[s]) BY <2>1, <2>3 DEF TurnActive
  <2> QED BY <1>1, <1>10, <2>4
<1>11. CASE mode = "ordered" /\ ~AnyActive(rows)
  <2>1. \E s \in cands : \A t \in cands : Earlier(rows, s, t)
    <3>1. ASSUME NEW s \in cands
          PROVE  rows[s].pending[1].event \in Nat
      <4>1. rows[s].pending \in Seq(Input) /\ rows[s].pending # <<>> BY DEF cands, Candidates, Row
      <4>2. rows[s].pending[1] \in Input BY <4>1
      <4> QED BY <4>2 DEF Input
    <3>2. cands \in SUBSET Sessions /\ cands # {} BY <1>8 DEF cands, Candidates
    <3> QED BY <3>1, <3>2, EarliestExists
  <2> DEFINE w == CHOOSE s \in cands : \A t \in cands : Earlier(rows, s, t)
  <2>2. w \in cands BY <2>1
  <2>3. chosen = {w} BY <1>8, <1>11 DEF chosen, Chosen, cands
  <2> HIDE DEF w
  <2>4. w \in Sessions /\ TurnActive(session'[w]) BY <1>4, <2>2, <2>3 DEF cands, Candidates
  <2> QED BY <1>1, <1>11, <2>4
<1> QED BY <1>9, <1>10, <1>11 DEF Modes

------------------------
(* Without the scheduler.                                                   *)

SameTurnFields(r, row) ==
    /\ r.turn = row.turn /\ r.runtime = row.runtime
    /\ r.inflight = row.inflight /\ r.up_to = row.up_to

\* The row r of a session does not ask for the floor unless it did as row, and
\* holds on to an active turn, or is one that the scheduler rejects.
Calm(row, part, r, npart) ==
    /\ Ready(r, npart) /\ r.pending # <<>> => Ready(row, part) /\ row.pending # <<>>
    /\ TurnActive(row) /\ Authority(r) => TurnActive(r)
    /\ StartUnconfirmed(row) => SameTurnFields(r, row)

\* If every row stays calm then no new stall appears.
LEMMA CalmStep ==
    ASSUME FloorInv, QueueInv,
           \A s \in Sessions :
              Calm(session[s], participant[s], session'[s], participant'[s]),
           mode' = mode, quiescing' = quiescing, wake' = wake
    PROVE  Stalled' => Stalled
BY RowQueueServes DEF FloorInv, TypeOK, Stalled, SchedulerAccepts, QueueInv, Calm, Authority, SameTurnFields,
   TurnActive, TurnClear, RowTurn, Candidates, FloorHeld, AnyActive

\* A transaction that rewrites one row calmly.
LEMMA OneCalmRow ==
    ASSUME FloorInv, QueueInv, NEW s \in Sessions, NEW r,
           session' = [session EXCEPT ![s] = r],
           Calm(session[s], participant[s], r, participant'[s]),
           \A t \in Sessions \ {s} : participant'[t] = participant[t],
           mode' = mode, quiescing' = quiescing, wake' = wake
    PROVE  Stalled' => Stalled
BY CalmStep DEF FloorInv, TypeOK, Calm, SameTurnFields

\* A row whose readiness only shrinks and whose turn fields stay is calm.
LEMMA SameFieldsCalm ==
    ASSUME NEW row, NEW part, NEW r, NEW npart,
           SameTurnFields(r, row),
           Ready(r, npart) /\ r.pending # <<>> =>
               Ready(row, part) /\ row.pending # <<>>
    PROVE  Calm(row, part, r, npart)
BY DEF Calm, SameTurnFields, TurnActive

\* A row that keeps its turn and is not ready is calm.
LEMMA KeptTurnCalm ==
    ASSUME NEW row, NEW part, NEW r, NEW npart,
           r.turn = row.turn, ~StartUnconfirmed(row), ~Assignable(r)
    PROVE  Calm(row, part, r, npart)
BY DEF Calm, Ready, Authority, TurnActive, TurnClear

------------------------
(* The transactions that run the scheduler, or owe a run of it.             *)

\* route_message leaves well typed rows.
LEMMA RoutedType ==
    ASSUME NEW rows \in [Sessions -> Row], NEW parts, log \in Seq(Message),
           mode \in Modes, NEW author, NEW direct,
           NEW result \in Routed(rows, parts, log, mode, author, direct)
    PROVE  result \in [Sessions -> Row]
<1> DEFINE event == Len(log) + 1
<1>1. event \in Nat OBVIOUS
<1>2. PICK targets : result = QueueInput(rows, targets, event, mode) BY DEF Routed
<1> HIDE DEF event
<1>3. ASSUME NEW s \in Sessions
      PROVE  result[s] \in Row
  <2> DEFINE q == Append(rows[s].pending, [event |-> event, kind |-> mode])
  <2>1. rows[s] \in Row /\ rows[s].pending \in Seq(Input) BY DEF Row
  <2>2. q \in Seq(Input) BY <1>1, <2>1, AppendProperties DEF Input
  <2>3. result[s] = rows[s] \/ result[s] = [rows[s] EXCEPT !.pending = q] BY <1>2 DEF QueueInput
  <2> HIDE DEF q
  <2> QED BY <2>1, <2>2, <2>3 DEF Row
<1>4. result = [s \in Sessions |-> result[s]] BY <1>2 DEF QueueInput
<1> QED BY <1>3, <1>4

\* A message that is routed and scheduled leaves no idle floor.
LEMMA RoutedIsNotStalled ==
    ASSUME NEW rows \in [Sessions -> Row], NEW author, NEW direct,
           log \in Seq(Message), mode \in Modes, Post(author),
           participant' = participant, mode' = mode, quiescing' = quiescing,
           session' \in RoutedAndScheduled(rows, participant, log, mode,
                                           author, direct)
    PROVE  ~Stalled'
BY RoutedType, ScheduledIsNotStalled DEF Post, RoutedAndScheduled

\* The scheduler of a room whose rows it accepts never comes back empty.
LEMMA ScheduledNotEmpty ==
    ASSUME session \in [Sessions -> Row],
           Scheduled(session, participant, log, mode) = {}
    PROVE  ~quiescing /\ ~SchedulerAccepts(session, participant, log)
<1>1. ~quiescing BY DEF Scheduled
<1>2. ASSUME SchedulerAccepts(session, participant, log)
      PROVE  FALSE
  <2> DEFINE f == [s \in Sessions |-> 1]
             chosen == Chosen(session, participant, mode)
  <2>1. chosen \subseteq Candidates(session, participant) BY ChosenAreCandidates
  <2>2. ASSUME NEW s \in Sessions, s \in chosen
        PROVE  1 <= RunLength(session[s].pending)
    BY <2>1, <2>2, RunLengthBounds, BoundsAssumption DEF Candidates, Row
  <2>3. 1 \in 1..MaxBatch BY BoundsAssumption
  <2>4. f \in [Sessions -> 1..MaxBatch] /\ \A s \in Sessions : f[s] = 1 BY <2>3
  <2> HIDE DEF f, chosen
  <2>5. \A s \in Sessions : IF s \in chosen
                            THEN f[s] <= RunLength(session[s].pending)
                            ELSE f[s] = 1
    BY <2>2, <2>4
  <2>6. Assigned(session, participant, mode, f)
          \in Scheduled(session, participant, log, mode)
    BY <1>1, <1>2, <2>4, <2>5 DEF Scheduled, chosen
  <2> QED BY <2>6
<1> QED BY <1>1, <1>2

\* The turn outcomes, unmuting, a finished stop and the commands that owe a wake
\* leave no idle floor.
LEMMA ScheduledStepNotStalled ==
    ASSUME FloorInv,
           \/ \E d \in Sessions \cup {None} : SendMessage(d)
           \/ \E s \in Sessions :
                \/ \E t, d \in Sessions \cup {None} : CompleteMessage(s, t, d)
                \/ CompleteVoteCast(s)
                \/ CompleteSilently(s)
                \/ \E stopped \in BOOLEAN : FailTurn(s, stopped)
                \/ TaskDiesBeforeStart(s)
                \/ Unmute(s)
                \/ FinalizeStop(s)
                \/ \E reused, active \in BOOLEAN :
                      CompleteLaunch(s, reused, active)
           \/ \E m \in Modes : SetMode(m)
           \/ AssignPending
           \/ PrepareRestart
           \/ CompleteRestart
    PROVE  ~Stalled'
<1>0. /\ session \in [Sessions -> Row]
      /\ log \in Seq(Message) /\ mode \in Modes
  BY DEF FloorInv, TypeOK
<1>b. FALSE \in BOOLEAN OBVIOUS
<1>1. ASSUME NEW s \in Sessions, NEW r \in Row,
             mode' = mode, quiescing' = quiescing,
             session' \in Scheduled([session EXCEPT ![s] = r],
                                    participant', log', mode)
      PROVE  ~Stalled'
  <2>1. [session EXCEPT ![s] = r] \in [Sessions -> Row] BY <1>0
  <2> QED BY <1>0, <1>1, <2>1, ScheduledIsNotStalled
<1>2. ASSUME NEW d, SendMessage(d)
      PROVE  ~Stalled'
  BY <1>0, <1>2, RoutedIsNotStalled DEF SendMessage
<1>3. ASSUME NEW s \in Sessions
      PROVE  /\ CompletedRow(session[s]) \in Row
             /\ \A stopped \in BOOLEAN : FailedRow(session[s], log, stopped) \in Row
             /\ DetachedRow(session[s], log) \in Row
  BY <1>0, <1>b, TurnEndTypes
<1>4. ASSUME NEW s \in Sessions, NEW t, NEW d, CompleteMessage(s, t, d)
      PROVE  ~Stalled'
  <2> DEFINE rows == [session EXCEPT ![s] = CompletedRow(session[s])]
  <2>1. rows \in [Sessions -> Row] BY <1>0, <1>3
  <2>2. /\ Post(s) /\ participant' = participant
        /\ mode' = mode /\ quiescing' = quiescing
        /\ \E direct : session' \in
             RoutedAndScheduled(rows, participant, log, mode, s, direct)
    BY <1>4 DEF CompleteMessage
  <2> HIDE DEF rows
  <2> QED BY <1>0, <2>1, <2>2, RoutedIsNotStalled
<1>5. ASSUME NEW s \in Sessions, CompleteVoteCast(s)
      PROVE  ~Stalled'
  BY <1>5, <1>1, <1>3 DEF CompleteVoteCast
<1>6. ASSUME NEW s \in Sessions, CompleteSilently(s)
      PROVE  ~Stalled'
  BY <1>6, <1>1, <1>3 DEF CompleteSilently
<1>7. ASSUME NEW s \in Sessions, NEW stopped \in BOOLEAN, FailTurn(s, stopped)
      PROVE  ~Stalled'
  BY <1>7, <1>1, <1>3 DEF FailTurn
<1>8. ASSUME NEW s \in Sessions, TaskDiesBeforeStart(s)
      PROVE  ~Stalled'
  BY <1>8, <1>1, <1>3, <1>b DEF TaskDiesBeforeStart
<1>9. ASSUME NEW s \in Sessions, Unmute(s)
      PROVE  ~Stalled'
  <2> DEFINE r == [session[s] EXCEPT !.schedule_requested = TRUE]
  <2>1. r \in Row BY <1>0, ZenonT(60) DEF Row
  <2>2. /\ mode' = mode /\ quiescing' = quiescing
        /\ session' \in Scheduled([session EXCEPT ![s] = r],
                                  participant', log', mode)
    BY <1>0, <1>9 DEF Unmute
  <2> HIDE DEF r
  <2> QED BY <1>1, <2>1, <2>2
<1>10. ASSUME NEW s \in Sessions, FinalizeStop(s)
       PROVE  ~Stalled'
  BY <1>10, <1>1, <1>3 DEF FinalizeStop
<1>11. ASSUME NEW s, NEW reused, NEW active, CompleteLaunch(s, reused, active)
       PROVE  ~Stalled'
  BY <1>11 DEF CompleteLaunch, Stalled
<1>12. ASSUME NEW m, SetMode(m)
       PROVE  ~Stalled'
  BY <1>12 DEF SetMode, Stalled
<1>13. CASE AssignPending BY <1>13, <1>0, ScheduledNotEmpty, ScheduledIsNotStalled DEF AssignPending, Stalled
<1>14. CASE PrepareRestart BY <1>14 DEF PrepareRestart, Stalled
<1>15. CASE CompleteRestart BY <1>15 DEF CompleteRestart, Stalled
<1> QED BY <1>2, <1>4, <1>5, <1>6, <1>7, <1>8, <1>9, <1>10, <1>11, <1>12, <1>13,
     <1>14, <1>15

------------------------
(* The transactions that leave the scheduler alone.                         *)

\* Steps of a running turn and message deletion.
LEMMA CalmFloorSteps ==
    ASSUME FloorInv, QueueInv,
           \/ \E s \in Sessions :
                \/ AuthorizeStart(s)
                \/ TaskDiesAfterStart(s)
                \/ Mute(s)
                \/ AgentInterrupt(s)
           \/ \E e \in DOMAIN log : DeleteMessage(e)
           \/ UNCHANGED vars
    PROVE  Stalled' => Stalled
<1>0. /\ session \in [Sessions -> Row]
      /\ participant \in [Sessions -> Part]
  BY DEF FloorInv, TypeOK
<1>1. ASSUME NEW s \in Sessions, NEW r,
             session' = [session EXCEPT ![s] = r],
             SameTurnFields(r, session[s]), r.pending = session[s].pending,
             r.enabled = session[s].enabled, r.status = session[s].status,
             r.session_active = session[s].session_active,
             r.intent = session[s].intent,
             participant'[s].status = participant[s].status,
             participant[s].muted => participant'[s].muted,
             \A t \in Sessions \ {s} : participant'[t] = participant[t],
             mode' = mode, quiescing' = quiescing, wake' = wake
      PROVE  Stalled' => Stalled
  <2>1. Ready(r, participant'[s]) => Ready(session[s], participant[s]) BY <1>1 DEF Ready, Assignable, SameTurnFields
  <2>2. Calm(session[s], participant[s], r, participant'[s]) BY <1>1, <2>1, SameFieldsCalm
  <2> QED BY <1>1, <2>2, OneCalmRow
<1>2. ASSUME NEW s \in Sessions, NEW x \in Executions,
             session' = [session EXCEPT ![s].exec = x],
             participant' = participant,
             mode' = mode, quiescing' = quiescing, wake' = wake
      PROVE  Stalled' => Stalled
  <2> DEFINE r == [session[s] EXCEPT !.exec = x]
  <2>1. session[s] \in Row BY <1>0
  <2>2. /\ SameTurnFields(r, session[s]) /\ r.pending = session[s].pending
        /\ r.enabled = session[s].enabled /\ r.status = session[s].status
        /\ r.session_active = session[s].session_active
        /\ r.intent = session[s].intent
    BY <2>1 DEF Row, SameTurnFields
  <2>3. session' = [session EXCEPT ![s] = r] BY <1>0, <1>2
  <2> HIDE DEF r
  <2> QED BY <1>1, <1>2, <2>2, <2>3
<1>3. ASSUME NEW s \in Sessions, NEW x,
             session' = [session EXCEPT ![s].effect = x],
             participant'[s].status = participant[s].status,
             participant[s].muted => participant'[s].muted,
             \A t \in Sessions \ {s} : participant'[t] = participant[t],
             mode' = mode, quiescing' = quiescing, wake' = wake
      PROVE  Stalled' => Stalled
  <2> DEFINE r == [session[s] EXCEPT !.effect = x]
  <2>1. session[s] \in Row BY <1>0
  <2>2. /\ SameTurnFields(r, session[s]) /\ r.pending = session[s].pending
        /\ r.enabled = session[s].enabled /\ r.status = session[s].status
        /\ r.session_active = session[s].session_active
        /\ r.intent = session[s].intent
    BY <2>1 DEF Row, SameTurnFields
  <2>3. session' = [session EXCEPT ![s] = r] BY <1>0, <1>3
  <2> HIDE DEF r
  <2> QED BY <1>1, <1>3, <2>2, <2>3
<1>4. ASSUME NEW s \in Sessions, AuthorizeStart(s) \/ TaskDiesAfterStart(s)
      PROVE  Stalled' => Stalled
  BY <1>2, <1>4 DEF Executions, AuthorizeStart, TaskDiesAfterStart
<1>5. ASSUME NEW s \in Sessions, AgentInterrupt(s)
      PROVE  Stalled' => Stalled
  BY <1>3, <1>5 DEF AgentInterrupt
<1>6. ASSUME NEW s \in Sessions, Mute(s)
      PROVE  Stalled' => Stalled
  <2> DEFINE x == IF TurnActive(session[s]) THEN "participant_muted"
                  ELSE session[s].effect
  <2>1. session' = [session EXCEPT ![s].effect = x] BY <1>0, <1>6 DEF Mute
  <2>2. /\ participant' = [participant EXCEPT ![s].muted = TRUE]
        /\ mode' = mode /\ quiescing' = quiescing /\ wake' = wake
    BY <1>6 DEF Mute
  <2>3. /\ participant'[s].status = participant[s].status
        /\ participant'[s].muted
        /\ \A t \in Sessions \ {s} : participant'[t] = participant[t]
    BY <1>0, <2>2 DEF Part
  <2> HIDE DEF x
  <2> QED BY <1>3, <2>1, <2>2, <2>3
<1>7. ASSUME NEW e \in DOMAIN log, DeleteMessage(e)
      PROVE  Stalled' => Stalled
  <2>1. ASSUME NEW s \in Sessions
        PROVE  Calm(session[s], participant[s], session'[s], participant'[s])
    <3> DEFINE p == session[s].pending
               q == Without(p, {e})
    <3>1. session[s] \in Row /\ p \in Seq(Input) BY <1>0 DEF Row
    <3>2. q \in Seq(Input) /\ Len(q) <= Len(p) BY <3>1, WithoutSelects
    <3>3. session'[s] = [session[s] EXCEPT !.pending = q] BY <1>7 DEF DeleteMessage
    <3> HIDE DEF q, p
    <3>4. p = <<>> => q = <<>> BY <3>1, <3>2, EmptySeq
    <3>5. /\ SameTurnFields(session'[s], session[s]) /\ session'[s].pending = q
          /\ session'[s].enabled = session[s].enabled
          /\ session'[s].status = session[s].status
          /\ session'[s].session_active = session[s].session_active
          /\ session'[s].intent = session[s].intent
      BY <3>1, <3>3 DEF Row, SameTurnFields
    <3>6. participant' = participant BY <1>7 DEF DeleteMessage
    <3>7. Ready(session'[s], participant'[s]) => Ready(session[s], participant[s])
      BY <3>5, <3>6 DEF Ready, Assignable, SameTurnFields
    <3> QED BY <3>4, <3>5, <3>7, SameFieldsCalm DEF p
  <2>2. mode' = mode /\ quiescing' = quiescing /\ wake' = wake BY <1>7 DEF DeleteMessage
  <2> QED BY <2>1, <2>2, CalmStep
<1>8. CASE UNCHANGED vars BY <1>8 DEF vars, Stalled
<1> QED BY <1>4, <1>5, <1>6, <1>7, <1>8

\* Starts and stops up to their outcome.
LEMMA CalmLifecycleSteps ==
    ASSUME FloorInv, QueueInv, NEW s \in Sessions,
           \/ PrepareLaunch(s)
           \/ AuthorizeLaunch(s)
           \/ FailLaunch(s)
           \/ LaunchUnconfirmed(s)
           \/ PrepareStop(s)
           \/ AuthorizeStop(s)
           \/ RecordStopEffect(s)
           \/ StopUnconfirmed(s)
           \/ RuntimeGone(s) /\ StopUnderWay(session[s])
    PROVE  Stalled' => Stalled
<1> DEFINE row == session[s]
<1>0. /\ session \in [Sessions -> Row] /\ row \in Row
      /\ participant \in [Sessions -> Part]
  BY DEF FloorInv, TypeOK
<1>1. ASSUME NEW r, session' = [session EXCEPT ![s] = r],
             r.turn = row.turn, ~StartUnconfirmed(row), ~Assignable(r),
             \A t \in Sessions \ {s} : participant'[t] = participant[t],
             mode' = mode, quiescing' = quiescing, wake' = wake
      PROVE  Stalled' => Stalled
  BY <1>1, KeptTurnCalm, OneCalmRow
<1>2. CASE PrepareLaunch(s)
  <2> DEFINE r == LaunchingRow(row, "prepared")
  <2>1. r.turn = row.turn /\ r.intent = "start" BY <1>0 DEF LaunchingRow, Row
  <2>2. /\ session' = [session EXCEPT ![s] = r] /\ ~StartUnconfirmed(row)
        /\ participant' = participant
        /\ mode' = mode /\ quiescing' = quiescing /\ wake' = wake
    BY <1>2 DEF PrepareLaunch, NoIntent, StartUnconfirmed, HasIntent
  <2> HIDE DEF r
  <2>3. ~Assignable(r) BY <2>1 DEF Assignable
  <2> QED BY <1>1, <2>1, <2>2, <2>3
<1>3. CASE AuthorizeLaunch(s)
  <2> DEFINE r == [LaunchingRow(row, "effect_inflight") EXCEPT !.custody = TRUE]
  <2>1. r.turn = row.turn /\ r.intent = "start" BY <1>0 DEF LaunchingRow, Row
  <2>2. /\ session' = [session EXCEPT ![s] = r] /\ ~StartUnconfirmed(row)
        /\ participant' = participant
        /\ mode' = mode /\ quiescing' = quiescing /\ wake' = wake
    BY <1>3 DEF AuthorizeLaunch, StartUnconfirmed, HasIntent
  <2> HIDE DEF r
  <2>3. ~Assignable(r) BY <2>1 DEF Assignable
  <2> QED BY <1>1, <2>1, <2>2, <2>3
<1>4. CASE FailLaunch(s)
  <2> DEFINE r == [ClearIntent(row) EXCEPT
                   !.status  = "unavailable",
                   !.enabled = FALSE,
                   !.runtime = "error",
                   !.session_active = FALSE,
                   !.custody = FALSE]
  <2>1. r.turn = row.turn /\ ~r.enabled BY <1>0 DEF ClearIntent, Row
  <2>2. /\ session' = [session EXCEPT ![s] = r] /\ ~StartUnconfirmed(row)
        /\ participant' = participant
        /\ mode' = mode /\ quiescing' = quiescing /\ wake' = wake
    BY <1>4 DEF FailLaunch, StartUnconfirmed, HasIntent
  <2> HIDE DEF r
  <2>3. ~Assignable(r) BY <2>1 DEF Assignable
  <2> QED BY <1>1, <2>1, <2>2, <2>3
<1>5. CASE LaunchUnconfirmed(s)
  <2> DEFINE r == [row EXCEPT !.status = "unavailable",
                              !.enabled = FALSE,
                              !.runtime = "disconnected",
                              !.session_active = FALSE,
                              !.step = "unconfirmed"]
  <2>1. r.turn = row.turn /\ ~r.enabled BY <1>0 DEF Row
  <2>2. /\ session' = [session EXCEPT ![s] = r] /\ ~StartUnconfirmed(row)
        /\ participant' = participant
        /\ mode' = mode /\ quiescing' = quiescing /\ wake' = wake
    BY <1>5 DEF LaunchUnconfirmed, StartUnconfirmed, HasIntent
  <2> HIDE DEF r
  <2>3. ~Assignable(r) BY <2>1 DEF Assignable
  <2> QED BY <1>1, <2>1, <2>2, <2>3
<1>6. CASE PrepareStop(s)
  <2> DEFINE x == IF ExitConfirmed(row) THEN "effect_applied" ELSE "prepared"
             r == [row EXCEPT !.intent = "stop", !.step = x]
  <2>1. r.turn = row.turn /\ r.intent = "stop" BY <1>0 DEF Row
  <2>2. /\ session' = [session EXCEPT ![s] = r] /\ ~StartUnconfirmed(row)
        /\ participant' = participant
        /\ mode' = mode /\ quiescing' = quiescing /\ wake' = wake
    BY <1>6 DEF PrepareStop, NoIntent, StartUnconfirmed, HasIntent
  <2> HIDE DEF r
  <2>3. ~Assignable(r) BY <2>1 DEF Assignable
  <2> QED BY <1>1, <2>1, <2>2, <2>3
<1>7. CASE AuthorizeStop(s)
  <2> DEFINE r == [row EXCEPT !.runtime = "stopping",
                              !.enabled = FALSE,
                              !.step = "effect_inflight"]
  <2>1. r.turn = row.turn /\ ~r.enabled BY <1>0 DEF Row
  <2>2. /\ session' = [session EXCEPT ![s] = r] /\ ~StartUnconfirmed(row)
        /\ participant' = participant
        /\ mode' = mode /\ quiescing' = quiescing /\ wake' = wake
    BY <1>7 DEF AuthorizeStop, StartUnconfirmed, HasIntent
  <2> HIDE DEF r
  <2>3. ~Assignable(r) BY <2>1 DEF Assignable
  <2> QED BY <1>1, <2>1, <2>2, <2>3
<1>8. ASSUME row.intent = "stop", participant' = participant,
             session' = [session EXCEPT
                ![s] = [StoppedTurnRow(row) EXCEPT !.step = "effect_applied"]],
             mode' = mode, quiescing' = quiescing, wake' = wake
      PROVE  Stalled' => Stalled
  <2> DEFINE r == [StoppedTurnRow(row) EXCEPT !.step = "effect_applied"]
  <2>1. r.turn = row.turn /\ r.intent = row.intent BY <1>0 DEF StoppedTurnRow, Row
  <2>2. session' = [session EXCEPT ![s] = r] /\ ~StartUnconfirmed(row) BY <1>8 DEF StartUnconfirmed, HasIntent
  <2> HIDE DEF r
  <2>3. ~Assignable(r) BY <1>8, <2>1 DEF Assignable
  <2> QED BY <1>1, <1>8, <2>1, <2>2, <2>3
<1>9. CASE RecordStopEffect(s) BY <1>8, <1>9 DEF RecordStopEffect, HasIntent
<1>10. CASE RuntimeGone(s) /\ StopUnderWay(row) BY <1>10, <1>8 DEF RuntimeGone, StopUnderWay
<1>11. CASE StopUnconfirmed(s)
  <2> DEFINE cut == IF TurnActive(row) THEN row
                    ELSE [ReleasedRow(row, log) EXCEPT
                            !.runtime = "disconnected",
                            !.session_active = FALSE]
             r == [cut EXCEPT !.status  = "unavailable",
                              !.enabled = FALSE,
                              !.step    = "unconfirmed"]
  <2>1. /\ session' = [session EXCEPT ![s] = r] /\ ~StartUnconfirmed(row)
        /\ participant' = [participant EXCEPT ![s] = Detached(participant[s])]
        /\ mode' = mode /\ quiescing' = quiescing /\ wake' = wake
        /\ Authority(row)
    BY <1>11 DEF StopUnconfirmed, StartUnconfirmed, HasIntent
  <2>2. cut \in Row /\ cut.turn = row.turn
    <3>1. CASE TurnActive(row) BY <1>0, <3>1
    <3>2. CASE ~TurnActive(row)
      <4> DEFINE q == ReleasedRow(row, log)
      <4>1. q \in Row /\ q.turn = FALSE BY <1>0, ReleasedFields
      <4>2. row.turn = FALSE BY <1>0, <2>1, <3>2 DEF Authority, TurnClear, Row
      <4> HIDE DEF q
      <4>3. cut = [q EXCEPT !.runtime = "disconnected", !.session_active = FALSE] BY <3>2 DEF q
      <4> HIDE DEF cut
      <4> QED BY <4>1, <4>2, <4>3 DEF Row, Runtimes
    <3> QED BY <3>1, <3>2
  <2> HIDE DEF cut
  <2>3. r.turn = cut.turn /\ ~r.enabled BY <2>2 DEF Row
  <2> HIDE DEF r
  <2>4. ~Assignable(r) BY <2>3 DEF Assignable
  <2>5. \A t \in Sessions \ {s} : participant'[t] = participant[t] BY <1>0, <2>1
  <2> QED BY <1>1, <2>1, <2>2, <2>3, <2>4, <2>5
<1> QED BY <1>2, <1>3, <1>4, <1>5, <1>6, <1>7, <1>9, <1>10, <1>11

\* An interrupt hands the floor on, unless an agent command asked for it.
LEMMA InterruptSteps ==
    ASSUME FloorInv, NEW s \in Sessions,
           \/ FinalizeRetained(s)
           \/ RuntimeGone(s) /\ ~StopUnderWay(session[s])
    PROVE  \/ ~Stalled'
           \/ session[s].effect = "agent_interrupt" /\ ~session'[s].turn
<1> DEFINE row == session[s]
<1>0. /\ session \in [Sessions -> Row] /\ row \in Row /\ mode \in Modes BY DEF FloorInv, TypeOK
<1>b. FALSE \in BOOLEAN OBVIOUS
<1>1. ASSUME NEW r \in Row, ~r.turn, mode' = mode, quiescing' = quiescing,
             \/ row.effect = "agent_interrupt" /\ session' = [session EXCEPT ![s] = r]
             \/ session' \in Scheduled([session EXCEPT ![s] = r],
                                       participant', log', mode)
      PROVE  \/ ~Stalled'
             \/ row.effect = "agent_interrupt" /\ ~session'[s].turn
  <2>1. [session EXCEPT ![s] = r] \in [Sessions -> Row]
        /\ [session EXCEPT ![s] = r][s] = r
    BY <1>0
  <2> QED BY <1>0, <1>1, <2>1, ScheduledIsNotStalled
<1>2. CASE FinalizeRetained(s)
  <2> DEFINE r == RetainedRow(row, log)
  <2>1. r \in Row /\ ~r.turn BY <1>0, <1>b, TurnEndTypes, TurnEndFields
  <2>2. /\ mode' = mode /\ quiescing' = quiescing
        /\ \/ row.effect = "agent_interrupt" /\ session' = [session EXCEPT ![s] = r]
           \/ session' \in Scheduled([session EXCEPT ![s] = r],
                                     participant', log', mode)
    BY <1>2 DEF FinalizeRetained
  <2> HIDE DEF r
  <2> QED BY <1>1, <2>1, <2>2
<1>3. CASE RuntimeGone(s) /\ ~StopUnderWay(row)
  <2> DEFINE r == GoneRow(row, log)
  <2>1. r \in Row /\ ~r.turn BY <1>0, <1>b, TurnEndTypes, TurnEndFields
  <2>2. /\ mode' = mode /\ quiescing' = quiescing
        /\ \/ row.effect = "agent_interrupt" /\ session' = [session EXCEPT ![s] = r]
           \/ session' \in Scheduled([session EXCEPT ![s] = r],
                                     participant', log', mode)
    BY <1>3 DEF RuntimeGone
  <2> HIDE DEF r
  <2> QED BY <1>1, <2>1, <2>2
<1> QED BY <1>2, <1>3

\* A start or stop that is rejected before its effect gives up its intent.
LEMMA RejectedSteps ==
    ASSUME FloorInv, NEW s \in Sessions,
           FailLaunchBeforeEffect(s) \/ FailStopBeforeEffect(s)
    PROVE  session[s].step = "prepared" /\ session'[s].intent = "none"
<1>0. session \in [Sessions -> Row] /\ session[s] \in Row BY DEF FloorInv, TypeOK
<1>1. session[s].step = "prepared" BY DEF FailLaunchBeforeEffect, FailStopBeforeEffect, HasIntent
<1>2. ClearIntent(session[s]).intent = "none" BY <1>0 DEF ClearIntent, Row
<1>3. [ClearIntent(session[s]) EXCEPT
         !.status  = "unavailable",
         !.enabled = FALSE,
         !.runtime = "error",
         !.session_active = FALSE].intent = "none"
  BY <1>0 DEF ClearIntent, Row
<1>4. CASE FailLaunchBeforeEffect(s) BY <1>0, <1>4, <1>1, <1>2, <1>3 DEF FailLaunchBeforeEffect
<1>5. CASE FailStopBeforeEffect(s) BY <1>0, <1>5, <1>1, <1>2 DEF FailStopBeforeEffect
<1> QED BY <1>4, <1>5

------------------------
(* The theorem.                                                             *)

\* What FloorNeverIdles says of one transaction.
LEMMA NoNewStall ==
    ASSUME FloorInv, QueueInv, [Next]_vars, ~Stalled, Stalled'
    PROVE  \E s \in Sessions :
             \/ session[s].effect = "agent_interrupt" /\ ~session'[s].turn
             \/ session[s].step = "prepared" /\ session'[s].intent = "none"
BY ScheduledStepNotStalled, CalmFloorSteps, CalmLifecycleSteps, InterruptSteps, ManagedAssumption,
   RejectedSteps DEF FloorNext, LifecycleNext, Next

\* The floor of a room never falls idle while a session could take it, whatever
\* transactions of turns, moderation, settings, starts, stops and restarts
\* interleave, except after an agent interrupt and after a start or stop that
\* was rejected before its effect.
THEOREM FloorProgress == Spec => FloorNeverIdles
<1>1. FloorInv /\ QueueInv /\ [Next]_vars =>
        [~Stalled /\ Stalled' =>
          \E s \in Sessions :
             \/ session[s].effect = "agent_interrupt" /\ ~session'[s].turn
             \/ session[s].step = "prepared" /\ session'[s].intent = "none"]_vars
  BY NoNewStall
<1> QED BY <1>1, FloorInvariant, QueueInvariant, PTL DEF Spec, FloorNeverIdles

=============================================================================
