----------------------- MODULE SkeletonFrontierProofs -----------------------
(***************************************************************************)
(* The frontier engine for every number of variables, every wave capacity  *)
(* and every selection mode: its safety, and that it implements the level  *)
(* semantics of the sequential engine (SkeletonLevels), its early stop     *)
(* included, and keeps the order of R's random stream in permutation mode. *)
(***************************************************************************)
EXTENDS SkeletonFrontier, LayerPlanProofs

-----------------------------------------------------------------------------
(* Facts about the operators *)

\* The largest p-value of a nonempty set exists and belongs to it.
LEMMA MaxPValue ==
  ASSUME NEW T \in SUBSET (PValue \cup {MinusInfinity}), T # {}
  PROVE  Max(T) \in T /\ \A x \in T : x <= Max(T)
<1> DEFINE D == {PTop - x : x \in T}
<1>1. \A x \in T : x \in Int /\ x <= PTop
  BY PTopAssumption DEF PValue, MinusInfinity
<1>2. D \in SUBSET Nat /\ D # {}
  BY <1>1, PTopAssumption
<1>3. PICK k \in D : \A j \in D : k <= j
  BY <1>2, LeastNat
<1>4. PICK m \in T : k = PTop - m
  BY <1>3
<1>5. \A x \in T : m >= x
  BY <1>1, <1>3, <1>4, PTopAssumption
<1>6. QED
  BY <1>1, <1>4, <1>5 DEF Max

\* A run of positions of one edge's list.
LEMMA RunOfTasks ==
  ASSUME NEW e, NEW a \in Int, NEW b \in Int, a <= b
  PROVE  /\ IsFiniteSet({e} \X (a .. b))
         /\ Cardinality({e} \X (a .. b)) = b - a + 1
<1>1. IsFiniteSet({e}) /\ Cardinality({e}) = 1
  BY FS_Singleton
<1>2. IsFiniteSet(a .. b) /\ Cardinality(a .. b) = b - a + 1
  <2>1. Cardinality(a .. b) = IF a > b THEN 0 ELSE b - a + 1
    BY FS_Interval
  <2>2. QED
    BY <2>1, FS_Interval
<1>3. IsFiniteSet({e} \X (a .. b))
      /\ Cardinality({e} \X (a .. b)) = Cardinality({e}) * Cardinality(a .. b)
  BY <1>1, <1>2, FS_Product
<1>4. QED
  BY <1>1, <1>2, <1>3

\* What is left of a wave when edge e leaves its first group: the same groups
\* without e, shifted when the first one is used up.
LEMMA TailOfWave ==
  ASSUME NEW w \in Seq(SUBSET Edge), w # << >>
  PROVE  /\ Tail(w) \in Seq(SUBSET Edge)
         /\ Len(Tail(w)) = Len(w) - 1
         /\ DOMAIN Tail(w) = 1 .. Len(w) - 1
         /\ \A i \in DOMAIN Tail(w) : i + 1 \in DOMAIN w /\ Tail(w)[i] = w[i + 1]
<1>1. /\ Tail(w) \in Seq(SUBSET Edge)
      /\ Len(Tail(w)) = Len(w) - 1
      /\ \A i \in 1 .. Len(Tail(w)) : Tail(w)[i] = w[i + 1]
  BY HeadTailProperties
<1> DEFINE v == Tail(w)
<1> HIDE DEF v
<1>2. v \in Seq(SUBSET Edge) /\ Len(v) = Len(w) - 1
      /\ \A i \in 1 .. Len(v) : v[i] = w[i + 1]
  BY <1>1 DEF v
<1>3. DOMAIN v = 1 .. Len(v) /\ DOMAIN w = 1 .. Len(w) /\ Len(w) \in Nat
  BY <1>2
<1>4. \A i \in DOMAIN v : i + 1 \in DOMAIN w /\ v[i] = w[i + 1]
  BY <1>2, <1>3
<1>5. QED
  BY <1>2, <1>3, <1>4 DEF v

LEMMA WaveAfterLeave ==
  ASSUME NEW w \in Seq(SUBSET Edge), w # << >>, NEW e \in w[1],
         \A k \in DOMAIN w : w[k] # {},
         \A k, l \in DOMAIN w : l # k => w[k] \cap w[l] = {}
  PROVE  /\ WithoutEdge(w, e) \in Seq(SUBSET Edge)
         /\ \E d \in {0, 1} :
              /\ Len(WithoutEdge(w, e)) = Len(w) - d
              /\ d = 1 => w[1] = {e}
              /\ \A k \in DOMAIN WithoutEdge(w, e) :
                   /\ k + d \in DOMAIN w
                   /\ WithoutEdge(w, e)[k] = w[k + d] \ {e}
                   /\ WithoutEdge(w, e)[k] # {}
<1>1. Len(w) \in Nat \ {0} /\ DOMAIN w = 1 .. Len(w) /\ 1 \in DOMAIN w
  OBVIOUS
<1>2. ASSUME NEW k \in DOMAIN w, k # 1
      PROVE  w[k] \ {e} = w[k]
  <2>1. w[1] \cap w[k] = {}
    BY <1>1, <1>2
  <2>2. QED
    BY <2>1
<1>3. CASE w[1] = {e}
  <2> DEFINE v == Tail(w)
  <2>1. WithoutEdge(w, e) = v
    BY <1>3 DEF WithoutEdge
  <2>2. /\ v \in Seq(SUBSET Edge)
        /\ Len(v) = Len(w) - 1
        /\ DOMAIN v = 1 .. Len(w) - 1
        /\ \A i \in DOMAIN v : i + 1 \in DOMAIN w /\ v[i] = w[i + 1]
    BY TailOfWave
  <2> HIDE DEF v
  <2>3. \A k \in DOMAIN v :
          k + 1 \in DOMAIN w /\ v[k] = w[k + 1] \ {e} /\ v[k] # {}
    <3>1. SUFFICES ASSUME NEW k \in DOMAIN v
                   PROVE  k + 1 \in DOMAIN w /\ v[k] = w[k + 1] \ {e} /\ v[k] # {}
      OBVIOUS
    <3>2. k + 1 \in DOMAIN w /\ v[k] = w[k + 1]
      BY <2>2
    <3>3. k + 1 # 1
      BY <2>2
    <3>4. w[k + 1] # {}
      BY <3>2
    <3>5. QED
      BY <1>2, <3>2, <3>3, <3>4
  <2>4. QED
    BY <1>3, <2>1, <2>2, <2>3
<1>4. CASE w[1] # {e}
  <2> DEFINE v == [w EXCEPT ![1] = w[1] \ {e}]
  <2>1. WithoutEdge(w, e) = v
    BY <1>4 DEF WithoutEdge
  <2>2. v \in Seq(SUBSET Edge) /\ Len(v) = Len(w)
        /\ \A j \in 1 .. Len(w) : v[j] = IF j = 1 THEN w[1] \ {e} ELSE w[j]
    <3>1. w[1] \ {e} \in SUBSET Edge /\ 1 \in 1 .. Len(w)
      BY <1>1
    <3>2. QED
      BY <3>1, ExceptSeq
  <2> HIDE DEF v
  <2>3. DOMAIN v = DOMAIN w
    BY <1>1, <2>2
  <2>4. \A k \in DOMAIN v :
          k + 0 \in DOMAIN w /\ v[k] = w[k + 0] \ {e} /\ v[k] # {}
    <3>1. SUFFICES ASSUME NEW k \in DOMAIN v
                   PROVE  k + 0 \in DOMAIN w /\ v[k] = w[k + 0] \ {e} /\ v[k] # {}
      OBVIOUS
    <3>2. k \in Nat /\ k + 0 = k /\ k \in DOMAIN w
      BY <1>1, <2>3
    <3>3. v[k] = w[k] \ {e}
      BY <1>1, <1>2, <2>2, <3>2
    <3>4. w[k] \ {e} # {}
      BY <1>2, <1>4, <3>2
    <3>5. QED
      BY <3>2, <3>3, <3>4
  <2>5. Len(v) = Len(w) - 0
    BY <1>1, <2>2
  <2>6. QED
    BY <2>1, <2>2, <2>4, <2>5
<1>5. QED
  BY <1>3, <1>4

-----------------------------------------------------------------------------
(* The next task of an edge is consumed *)

\* Consuming touches only the group being executed: the other groups, the
\* buckets and the outcomes of other tasks stay, and the task is new.
LEMMA ConsumeWave ==
  ASSUME FrontierInv, NEW e \in Edge, NEW p, Consume(e, p)
  PROVE  /\ e \in Unfinished
         /\ \A S \in SUBSET Vertex : e \notin ready[S]
         /\ wave' \in Seq(SUBSET Edge)
         /\ phase' \in {"select", "execute"}
         /\ WavePhase'
         /\ \A k \in DOMAIN wave' : wave'[k] # {} /\ e \notin wave'[k]
         /\ \A k \in DOMAIN wave' : \E m \in DOMAIN wave : wave'[k] \subseteq wave[m]
         /\ \A k, l \in DOMAIN wave' : l # k => wave'[k] \cap wave'[l] = {}
         /\ \A m \in DOMAIN wave : \A f \in wave[m] :
              f # e => \E k \in DOMAIN wave' : f \in wave'[k]
<1>1. /\ wave \in Seq(SUBSET Edge) /\ wave # << >> /\ e \in wave[1]
      /\ wave' = WithoutEdge(wave, e)
  BY DEF FrontierInv, TypeOK, WavePhase, Consume, LeaveGroup
<1>2. /\ \A k \in DOMAIN wave : wave[k] # {}
      /\ \A k, l \in DOMAIN wave : l # k => wave[k] \cap wave[l] = {}
  BY DEF FrontierInv, FrontierPartition, GroupsWait
<1>3. Len(wave) \in Nat \ {0} /\ DOMAIN wave = 1 .. Len(wave) /\ 1 \in DOMAIN wave
  BY <1>1
<1>4. /\ wave' \in Seq(SUBSET Edge)
      /\ \E d \in {0, 1} :
           /\ Len(wave') = Len(wave) - d
           /\ d = 1 => wave[1] = {e}
           /\ \A k \in DOMAIN wave' :
                k + d \in DOMAIN wave /\ wave'[k] = wave[k + d] \ {e} /\ wave'[k] # {}
  BY <1>1, <1>2, WaveAfterLeave
<1>5. PICK d \in {0, 1} :
        /\ Len(wave') = Len(wave) - d
        /\ d = 1 => wave[1] = {e}
        /\ \A k \in DOMAIN wave' :
             k + d \in DOMAIN wave /\ wave'[k] = wave[k + d] \ {e} /\ wave'[k] # {}
  BY <1>4
<1>6. DOMAIN wave' = 1 .. Len(wave) - d
  BY <1>4, <1>5
<1>7. e \in Unfinished
  BY <1>1, <1>3 DEF FrontierInv, FrontierPartition, GroupsWait
<1>8. \A S \in SUBSET Vertex : e \notin ready[S]
  BY <1>1, <1>3 DEF FrontierInv, FrontierPartition, ReadyEdgesWait
<1>9. phase' \in {"select", "execute"} /\ WavePhase'
  BY DEF Consume, LeaveGroup, WavePhase
<1>10. \A k \in DOMAIN wave' : wave'[k] # {} /\ e \notin wave'[k]
  BY <1>5
<1>11. \A k \in DOMAIN wave' : \E m \in DOMAIN wave : wave'[k] \subseteq wave[m]
  BY <1>5
<1>12. \A k, l \in DOMAIN wave' : l # k => wave'[k] \cap wave'[l] = {}
  <2>1. SUFFICES ASSUME NEW k \in DOMAIN wave', NEW l \in DOMAIN wave', l # k
                 PROVE  wave'[k] \cap wave'[l] = {}
    OBVIOUS
  <2>2. k + d \in DOMAIN wave /\ l + d \in DOMAIN wave /\ l + d # k + d
    BY <1>3, <1>5, <1>6, <2>1
  <2>3. wave[k + d] \cap wave[l + d] = {}
    BY <1>2, <2>2
  <2>4. QED
    BY <1>5, <2>3
<1>13. \A m \in DOMAIN wave : \A f \in wave[m] :
         f # e => \E k \in DOMAIN wave' : f \in wave'[k]
  <2>1. SUFFICES ASSUME NEW m \in DOMAIN wave, NEW f \in wave[m], f # e
                 PROVE  \E k \in DOMAIN wave' : f \in wave'[k]
    OBVIOUS
  <2>2. m - d \in DOMAIN wave' /\ (m - d) + d = m
    <3>1. m \in 1 .. Len(wave) /\ (d = 1 => m # 1)
      BY <1>3, <1>5, <2>1
    <3>2. QED
      BY <1>3, <1>6, <3>1
  <2>3. wave'[m - d] = wave[m] \ {e}
    BY <1>5, <2>2
  <2>4. QED
    BY <2>1, <2>2, <2>3
<1>14. QED
  BY <1>4, <1>7, <1>8, <1>9, <1>10, <1>11, <1>12, <1>13

LEMMA ConsumeOutcome ==
  ASSUME FrontierInv, NEW e \in Edge, NEW p \in PValue, Consume(e, p)
  PROVE  /\ edge_positions[e] + 1 \in DOMAIN plan[e]
         /\ DOMAIN outcomes' = DOMAIN outcomes \cup {<<e, edge_positions[e] + 1>>}
         /\ DOMAIN outcomes' \subseteq TaskIds(plan)
         /\ <<e, edge_positions[e] + 1>> \notin DOMAIN outcomes
         /\ outcomes' \in [DOMAIN outcomes' -> PValue]
         /\ outcomes'[<<e, edge_positions[e] + 1>>] = p
         /\ \A t \in DOMAIN outcomes : outcomes'[t] = outcomes[t]
<1>1. e \in Unfinished
  BY ConsumeWave
<1>2. /\ plan \in [Edge -> Seq(Task)]
      /\ edge_positions \in [Edge -> Nat]
      /\ DOMAIN outcomes \subseteq TaskIds(plan)
      /\ outcomes \in [DOMAIN outcomes -> PValue]
  BY DEF FrontierInv, TypeOK
<1>3. edge_positions[e] + 1 \in DOMAIN plan[e]
  BY <1>1, <1>2 DEF Unfinished
<1>4. <<e, edge_positions[e] + 1>> \notin DOMAIN outcomes
  <2>1. phase # "plan"
    BY DEF Consume
  <2>2. <<e, edge_positions[e] + 1>> \in DOMAIN outcomes =>
          edge_positions[e] + 1 <= edge_positions[e]
    BY <1>3, <2>1 DEF FrontierInv, ConsumedPrefix
  <2>3. QED
    BY <1>2, <2>2
<1>5. outcomes' = WithOutcome(outcomes, <<e, edge_positions[e] + 1>>, p)
  BY DEF Consume
<1>6. <<e, edge_positions[e] + 1>> \in TaskIds(plan)
  BY <1>3, TaskIdsElements
<1> DEFINE t == <<e, edge_positions[e] + 1>>
<1> HIDE DEF t
<1>7. /\ DOMAIN outcomes' = DOMAIN outcomes \cup {t}
      /\ outcomes' \in [DOMAIN outcomes' -> PValue]
      /\ outcomes'[t] = p
      /\ \A u \in DOMAIN outcomes : u # t => outcomes'[u] = outcomes[u]
  BY <1>2, <1>5 DEF WithOutcome, t
<1>8. QED
  BY <1>2, <1>3, <1>4, <1>6, <1>7 DEF t

\* The frontier stays a partition when the edge that leaves its group either
\* is finished or enters the bucket of its next task.
LEMMA ConsumePartition ==
  ASSUME FrontierInv, NEW e \in Edge, NEW p, Consume(e, p),
         edge_positions' \in [Edge -> Nat],
         \A f \in Edge : f # e => edge_positions'[f] = edge_positions[f],
         ready' \in [SUBSET Vertex -> SUBSET Edge],
         \A S \in SUBSET Vertex : ready[S] \subseteq ready'[S]
                                  /\ ready'[S] \subseteq ready[S] \cup {e},
         e \in Unfinished' => e \in ready'[NextTask(e)'.S],
         \A S \in SUBSET Vertex :
           e \in ready'[S] => e \in Unfinished' /\ NextTask(e)'.S = S
  PROVE  FrontierPartition'
<1>1. plan' = plan
  BY DEF Consume
<1>2. ASSUME NEW f \in Edge, f # e
      PROVE  (f \in Unfinished' <=> f \in Unfinished) /\ NextTask(f)' = NextTask(f)
  BY <1>1, <1>2 DEF Unfinished, NextTask
<1>3. /\ \A S \in SUBSET Vertex : e \notin ready[S]
      /\ \A k \in DOMAIN wave' : wave'[k] # {} /\ e \notin wave'[k]
      /\ \A k \in DOMAIN wave' : \E m \in DOMAIN wave : wave'[k] \subseteq wave[m]
      /\ \A k, l \in DOMAIN wave' : l # k => wave'[k] \cap wave'[l] = {}
      /\ \A m \in DOMAIN wave : \A f \in wave[m] :
           f # e => \E k \in DOMAIN wave' : f \in wave'[k]
      /\ wave' \in Seq(SUBSET Edge)
  BY ConsumeWave
<1>4. ready \in [SUBSET Vertex -> SUBSET Edge] /\ Unfinished \subseteq Edge
  BY DEF FrontierInv, TypeOK, Unfinished
<1>5. ReadyEdgesWait'
  <2>1. SUFFICES ASSUME NEW S \in SUBSET Vertex, NEW f \in ready'[S]
                 PROVE  /\ f \in Unfinished'
                        /\ NextTask(f)'.S = S
                        /\ \A k \in DOMAIN wave' : f \notin wave'[k]
    BY DEF ReadyEdgesWait
  <2>2. CASE f = e
    BY <1>3, <2>1, <2>2
  <2>3. CASE f # e
    <3>1. f \in Edge /\ f \in ready[S]
      BY <1>4, <2>1, <2>3
    <3>2. /\ f \in Unfinished /\ NextTask(f).S = S
          /\ \A k \in DOMAIN wave : f \notin wave[k]
      BY <3>1 DEF FrontierInv, FrontierPartition, ReadyEdgesWait
    <3>3. QED
      BY <1>2, <1>3, <2>3, <3>1, <3>2
  <2>4. QED
    BY <2>2, <2>3
<1>6. GroupsWait'
  <2>1. SUFFICES ASSUME NEW k \in DOMAIN wave'
                 PROVE  /\ wave'[k] \subseteq Unfinished'
                        /\ \A f, g \in wave'[k] : NextTask(f)'.S = NextTask(g)'.S
    BY <1>3 DEF GroupsWait
  <2>2. PICK m \in DOMAIN wave : wave'[k] \subseteq wave[m]
    BY <1>3
  <2>3. wave[m] \subseteq Unfinished
        /\ \A f, g \in wave[m] : NextTask(f).S = NextTask(g).S
    BY DEF FrontierInv, FrontierPartition, GroupsWait
  <2>4. \A f \in wave'[k] : f \in Edge /\ f # e /\ f \in Unfinished
    BY <1>3, <1>4, <2>2, <2>3
  <2>5. QED
    BY <1>2, <2>2, <2>3, <2>4
<1>7. NoEdgeLost'
  <2>1. SUFFICES ASSUME NEW f \in Unfinished'
                 PROVE  \/ f \in ready'[NextTask(f)'.S]
                        \/ \E k \in DOMAIN wave' : f \in wave'[k]
    BY DEF NoEdgeLost
  <2>2. CASE f = e
    BY <2>1, <2>2
  <2>3. CASE f # e
    <3>1. f \in Edge
      BY <1>1, <2>1 DEF Unfinished
    <3>2. f \in Unfinished /\ NextTask(f)' = NextTask(f)
      BY <1>2, <2>1, <2>3, <3>1
    <3>3. CASE f \in ready[NextTask(f).S]
      <4>1. NextTask(f).S \in SUBSET Vertex
        <5>1. edge_positions[f] + 1 \in DOMAIN plan[f]
          BY <3>1, <3>2 DEF FrontierInv, TypeOK, Unfinished
        <5>2. NextTask(f) \in Task
          BY <3>1, <5>1 DEF FrontierInv, TypeOK, NextTask
        <5>3. QED
          BY <5>2 DEF Task
      <4>2. QED
        BY <3>2, <3>3, <4>1
    <3>4. CASE \E m \in DOMAIN wave : f \in wave[m]
      BY <1>3, <2>3, <3>4
    <3>5. QED
      BY <3>2, <3>3, <3>4 DEF FrontierInv, FrontierPartition, NoEdgeLost
  <2>4. QED
    BY <2>2, <2>3
<1>8. QED
  BY <1>5, <1>6, <1>7 DEF FrontierPartition

-----------------------------------------------------------------------------
(* Counters and outcomes of an advancing edge *)

\* Moving an edge's position from pos to q takes q - pos tasks off the pending
\* ones, and takes the edge off the unfinished ones when q ends its list.
LEMMA PositionMove ==
  ASSUME FrontierInv, NEW e \in Unfinished,
         NEW q \in edge_positions[e] + 1 .. Len(plan[e]),
         plan' = plan, edge_positions' = [edge_positions EXCEPT ![e] = q]
  PROVE  /\ edge_positions' \in [Edge -> Nat]
         /\ Cardinality(PendingTasks') = Cardinality(PendingTasks) - (q - edge_positions[e])
         /\ Cardinality(PendingTasks') \in Nat
         /\ q = Len(plan[e]) =>
              /\ Unfinished' = Unfinished \ {e}
              /\ Cardinality(Unfinished') = Cardinality(Unfinished) - 1
         /\ q < Len(plan[e]) => Unfinished' = Unfinished
         /\ Cardinality(Unfinished') \in Nat
<1>1. plan \in [Edge -> Seq(Task)] /\ edge_positions \in [Edge -> Nat] /\ e \in Edge
  BY DEF FrontierInv, TypeOK, Unfinished
<1>2. Len(plan[e]) \in Nat /\ edge_positions[e] \in Nat /\ q \in Nat
      /\ DOMAIN plan[e] = 1 .. Len(plan[e])
  BY <1>1
<1>3. edge_positions' \in [Edge -> Nat] /\ edge_positions'[e] = q
      /\ \A f \in Edge : f # e => edge_positions'[f] = edge_positions[f]
  BY <1>1, <1>2
<1> DEFINE gone == {e} \X (edge_positions[e] + 1 .. q)
<1>4. IsFiniteSet(gone) /\ Cardinality(gone) = q - edge_positions[e]
  <2>1. edge_positions[e] + 1 \in Int /\ q \in Int /\ edge_positions[e] + 1 <= q
    BY <1>2
  <2>2. Cardinality(gone) = q - (edge_positions[e] + 1) + 1
    BY <2>1, RunOfTasks
  <2>3. IsFiniteSet(gone)
    BY <2>1, RunOfTasks
  <2> HIDE DEF gone
  <2>4. Cardinality(gone) = q - edge_positions[e]
    BY <1>2, <2>2
  <2>5. QED
    BY <2>3, <2>4
<1>5. PendingTasks \subseteq TaskIds(plan) /\ IsFiniteSet(PendingTasks)
  BY <1>1, TasksFinite, FS_Subset DEF PendingTasks
<1>6. gone \subseteq PendingTasks
  <2>1. ASSUME NEW i \in edge_positions[e] + 1 .. q
        PROVE  <<e, i>> \in PendingTasks
    <3>1. i \in DOMAIN plan[e] /\ i > edge_positions[e]
      BY <1>2
    <3>2. QED
      BY <1>1, <3>1, TaskIdsElements DEF PendingTasks
  <2>2. QED
    BY <2>1
<1>7. PendingTasks' = PendingTasks \ gone
  <2>1. ASSUME NEW t \in TaskIds(plan)
        PROVE  t[2] > edge_positions'[t[1]] <=>
                 t[2] > edge_positions[t[1]] /\ t \notin gone
    <3>1. t = <<t[1], t[2]>> /\ t[1] \in Edge /\ t[2] \in DOMAIN plan[t[1]]
      BY TaskIdsShape
    <3>2. t[2] \in Nat
      BY <1>1, <3>1
    <3>3. CASE t[1] = e
      <4>1. t \in gone <=> t[2] \in edge_positions[e] + 1 .. q
        BY <3>1, <3>3
      <4>2. QED
        BY <1>2, <1>3, <3>2, <3>3, <4>1
    <3>4. CASE t[1] # e
      BY <1>3, <3>1, <3>4
    <3>5. QED
      BY <3>3, <3>4
  <2>2. QED
    BY <2>1 DEF PendingTasks
<1>8. Cardinality(PendingTasks') = Cardinality(PendingTasks) - (q - edge_positions[e])
      /\ Cardinality(PendingTasks') \in Nat
  <2>1. IsFiniteSet(PendingTasks')
        /\ Cardinality(PendingTasks') = Cardinality(PendingTasks) - Cardinality(PendingTasks \cap gone)
    BY <1>5, <1>7, FS_Difference
  <2>2. PendingTasks \cap gone = gone
    BY <1>6
  <2>3. QED
    BY <1>4, <2>1, <2>2, FS_CardinalityType
<1>9. IsFiniteSet(Unfinished)
  BY EdgesFinite, FS_Subset DEF Unfinished
<1>10. q = Len(plan[e]) =>
         /\ Unfinished' = Unfinished \ {e}
         /\ Cardinality(Unfinished') = Cardinality(Unfinished) - 1
  <2>1. SUFFICES ASSUME q = Len(plan[e])
                 PROVE  /\ Unfinished' = Unfinished \ {e}
                        /\ Cardinality(Unfinished \ {e}) = Cardinality(Unfinished) - 1
    OBVIOUS
  <2>2. Unfinished' = Unfinished \ {e}
    BY <1>1, <1>2, <1>3, <2>1 DEF Unfinished
  <2>3. QED
    BY <1>9, <2>2, FS_RemoveElement
<1>11. q < Len(plan[e]) => Unfinished' = Unfinished
  BY <1>1, <1>2, <1>3 DEF Unfinished
<1>12. Cardinality(Unfinished') \in Nat
  <2>1. Unfinished' \subseteq Edge
    BY DEF Unfinished
  <2>2. QED
    BY <2>1, EdgesFinite, FS_Subset, FS_CardinalityType
<1>13. QED
  BY <1>3, <1>8, <1>10, <1>11, <1>12

\* The removed edges after one more outcome.
LEMMA ConsumeRemoved ==
  ASSUME FrontierInv, NEW e \in Edge, NEW p \in PValue, Consume(e, p)
  PROVE  /\ e \notin RemovedEdges(outcomes)
         /\ Independent(p) => RemovedEdges(outcomes') = RemovedEdges(outcomes) \cup {e}
         /\ ~Independent(p) => RemovedEdges(outcomes') = RemovedEdges(outcomes)
<1> DEFINE t == <<e, edge_positions[e] + 1>>
<1>1. e \in Unfinished /\ phase # "plan"
  BY ConsumeWave DEF Consume
<1>2. e \notin RemovedEdges(outcomes)
  BY <1>1 DEF FrontierInv, ConsumedPrefix
<1>3. /\ DOMAIN outcomes' = DOMAIN outcomes \cup {t}
      /\ t \notin DOMAIN outcomes
      /\ outcomes'[t] = p
      /\ \A u \in DOMAIN outcomes : outcomes'[u] = outcomes[u]
  BY ConsumeOutcome
<1>4. t[1] = e
  OBVIOUS
<1> HIDE DEF t
<1>5. Separators(outcomes') =
        Separators(outcomes) \cup (IF Independent(p) THEN {t} ELSE {})
  BY <1>3 DEF Separators
<1>6. QED
  BY <1>2, <1>4, <1>5 DEF RemovedEdges

\* The prefix an edge has consumed is extended by its next task.
LEMMA ConsumePrefix ==
  ASSUME FrontierInv, NEW e \in Edge, NEW p \in PValue, Consume(e, p),
         NEW q \in edge_positions[e] + 1 .. Len(plan[e]),
         edge_positions' = [edge_positions EXCEPT ![e] = q],
         ~Independent(p) => q = edge_positions[e] + 1 /\ delete_edges' = delete_edges,
         Independent(p) => q = Len(plan[e]) /\ delete_edges' = delete_edges \cup Cells(e)
  PROVE  ConsumedPrefix'
<1> DEFINE pos == edge_positions[e]
           t == <<e, pos + 1>>
<1>1. phase # "plan" /\ plan' = plan /\ e \in Unfinished
  BY ConsumeWave DEF Consume
<1>2. plan \in [Edge -> Seq(Task)] /\ edge_positions \in [Edge -> Nat]
  BY DEF FrontierInv, TypeOK
<1>3. /\ pos + 1 \in DOMAIN plan[e]
      /\ DOMAIN outcomes' = DOMAIN outcomes \cup {t}
      /\ t \notin DOMAIN outcomes
      /\ outcomes'[t] = p
      /\ \A u \in DOMAIN outcomes : outcomes'[u] = outcomes[u]
  BY ConsumeOutcome
<1>4. /\ e \notin RemovedEdges(outcomes)
      /\ Independent(p) => RemovedEdges(outcomes') = RemovedEdges(outcomes) \cup {e}
      /\ ~Independent(p) => RemovedEdges(outcomes') = RemovedEdges(outcomes)
  BY ConsumeRemoved
<1>5. /\ edge_positions'[e] = q /\ pos \in Nat /\ q \in Nat /\ pos + 1 <= q
      /\ \A f \in Edge : f # e => edge_positions'[f] = edge_positions[f]
      /\ DOMAIN plan[e] = 1 .. Len(plan[e])
  BY <1>2
<1>6. \A f \in Edge : \A i \in DOMAIN plan[f] :
        /\ <<f, i>> \in DOMAIN outcomes =>
             i <= edge_positions[f] /\ Reached(outcomes, f, i)
        /\ i <= edge_positions[f] =>
             <<f, i>> \in DOMAIN outcomes \/ f \in RemovedEdges(outcomes)
  BY <1>1 DEF FrontierInv, ConsumedPrefix
<1>7. ASSUME NEW f \in Edge, NEW i \in Nat, Reached(outcomes, f, i)
      PROVE  Reached(outcomes', f, i)
  BY <1>3, <1>7 DEF Reached
<1>8. Reached(outcomes', e, pos + 1)
  <2>1. SUFFICES ASSUME NEW j \in 1 .. (pos + 1) - 1
                 PROVE  <<e, j>> \in DOMAIN outcomes' /\ ~Independent(outcomes'[<<e, j>>])
    BY DEF Reached
  <2>2. j \in DOMAIN plan[e] /\ j <= pos
    BY <1>3, <1>5
  <2>3. <<e, j>> \in DOMAIN outcomes
    BY <1>4, <1>6, <2>2
  <2>4. ~Independent(outcomes[<<e, j>>])
    <3>1. <<e, j>>[1] = e
      OBVIOUS
    <3>2. QED
      BY <1>4, <2>3, <3>1 DEF RemovedEdges, Separators
  <2>5. QED
    BY <1>3, <2>3, <2>4
<1>9. \A f \in Edge : \A i \in DOMAIN plan'[f] :
        /\ <<f, i>> \in DOMAIN outcomes' =>
             i <= edge_positions'[f] /\ Reached(outcomes', f, i)
        /\ i <= edge_positions'[f] =>
             <<f, i>> \in DOMAIN outcomes' \/ f \in RemovedEdges(outcomes')
  <2>1. SUFFICES ASSUME NEW f \in Edge, NEW i \in DOMAIN plan[f]
                 PROVE  /\ <<f, i>> \in DOMAIN outcomes' =>
                             i <= edge_positions'[f] /\ Reached(outcomes', f, i)
                        /\ i <= edge_positions'[f] =>
                             <<f, i>> \in DOMAIN outcomes' \/ f \in RemovedEdges(outcomes')
    BY <1>1
  <2>2. i \in Nat
    BY <1>2
  <2>3. CASE f # e
    <3>1. <<f, i>> # t
      BY <2>3
    <3>2. QED
      BY <1>3, <1>4, <1>5, <1>6, <1>7, <2>2, <2>3, <3>1
  <2>4. CASE f = e
    <3>1. <<e, i>> \in DOMAIN outcomes' =>
            i <= edge_positions'[e] /\ Reached(outcomes', e, i)
      <4>1. CASE i = pos + 1
        BY <1>5, <1>8, <4>1
      <4>2. CASE i # pos + 1
        <5>1. <<e, i>> # t
          BY <4>2
        <5>2. <<e, i>> \in DOMAIN outcomes' => <<e, i>> \in DOMAIN outcomes
          BY <1>3, <5>1
        <5>3. <<e, i>> \in DOMAIN outcomes => i <= pos /\ Reached(outcomes, e, i)
          BY <1>6, <2>4
        <5>4. QED
          BY <1>5, <1>7, <2>2, <5>2, <5>3
      <4>3. QED
        BY <4>1, <4>2
    <3>2. i <= edge_positions'[e] =>
            <<e, i>> \in DOMAIN outcomes' \/ e \in RemovedEdges(outcomes')
      <4>1. CASE Independent(p)
        BY <1>4, <4>1
      <4>2. CASE ~Independent(p)
        <5>1. q = pos + 1
          BY <4>2
        <5>2. CASE i = pos + 1
          BY <1>3, <5>2
        <5>3. CASE i # pos + 1
          <6>1. i <= edge_positions'[e] => i <= pos
            BY <1>5, <2>2, <5>1, <5>3
          <6>2. i <= pos => <<e, i>> \in DOMAIN outcomes
            BY <1>4, <1>6, <2>4
          <6>3. QED
            BY <1>3, <6>1, <6>2
        <5>4. QED
          BY <5>2, <5>3
      <4>3. QED
        BY <4>1, <4>2
    <3>3. QED
      BY <2>4, <3>1, <3>2
  <2>5. QED
    BY <2>3, <2>4
<1>10. RemovedEdges(outcomes') \cap Unfinished' = {}
  <2>1. RemovedEdges(outcomes) \cap Unfinished = {}
    BY <1>1 DEF FrontierInv, ConsumedPrefix
  <2>2. Unfinished' \subseteq Unfinished
    <3>1. \A f \in Edge : f # e => (f \in Unfinished' <=> f \in Unfinished)
      BY <1>1, <1>5 DEF Unfinished
    <3>2. Unfinished' \subseteq Edge
      BY DEF Unfinished
    <3>3. QED
      BY <1>1, <3>1, <3>2
  <2>3. Independent(p) => e \notin Unfinished'
    BY <1>1, <1>5 DEF Unfinished
  <2>4. QED
    BY <1>4, <2>1, <2>2, <2>3
<1>11. delete_edges' = UNION {Cells(f) : f \in RemovedEdges(outcomes')}
  <2>1. delete_edges = UNION {Cells(f) : f \in RemovedEdges(outcomes)}
    BY <1>1 DEF FrontierInv, ConsumedPrefix
  <2>2. CASE Independent(p)
    <3>1. delete_edges' = delete_edges \cup Cells(e)
      BY <2>2
    <3>2. RemovedEdges(outcomes') = RemovedEdges(outcomes) \cup {e}
      BY <1>4, <2>2
    <3>3. QED
      BY <2>1, <3>1, <3>2, Zenon
  <2>3. CASE ~Independent(p)
    BY <1>4, <2>1, <2>3
  <2>4. QED
    BY <2>2, <2>3
<1>12. QED
  BY <1>9, <1>10, <1>11 DEF ConsumedPrefix

-----------------------------------------------------------------------------
(* Every action preserves the invariant *)

\* What the three outcomes of an advance have in common.
LEMMA AdvanceInv ==
  ASSUME FrontierInv, NEW e \in Edge, NEW p \in PValue, Consume(e, p),
         NEW q \in edge_positions[e] + 1 .. Len(plan[e]),
         edge_positions' = [edge_positions EXCEPT ![e] = q],
         ~Independent(p) => q = edge_positions[e] + 1 /\ delete_edges' = delete_edges,
         Independent(p) => q = Len(plan[e]) /\ delete_edges' = delete_edges \cup Cells(e),
         remaining' = remaining - (q - edge_positions[e]),
         ignored' = ignored + (q - edge_positions[e] - 1),
         q = Len(plan[e]) => active_edges' = active_edges - 1 /\ ready' = ready,
         q < Len(plan[e]) => /\ active_edges' = active_edges
                             /\ ready' = [ready EXCEPT ![plan[e][q + 1].S] = @ \cup {e}]
  PROVE  FrontierInv'
<1>1. e \in Unfinished /\ phase # "plan" /\ plan' = plan
      /\ \A S \in SUBSET Vertex : e \notin ready[S]
  BY ConsumeWave DEF Consume
<1>2. plan \in [Edge -> Seq(Task)] /\ edge_positions \in [Edge -> Nat]
      /\ ready \in [SUBSET Vertex -> SUBSET Edge]
      /\ active_edges \in Nat /\ remaining \in Nat /\ ignored \in Nat
  BY DEF FrontierInv, TypeOK
<1>3. edge_positions[e] \in Nat /\ q \in Nat /\ Len(plan[e]) \in Nat
      /\ edge_positions[e] + 1 <= q /\ q <= Len(plan[e])
      /\ DOMAIN plan[e] = 1 .. Len(plan[e]) /\ edge_positions'[e] = q
      /\ \A f \in Edge : f # e => edge_positions'[f] = edge_positions[f]
  BY <1>2
<1>4. /\ edge_positions' \in [Edge -> Nat]
      /\ Cardinality(PendingTasks') = Cardinality(PendingTasks) - (q - edge_positions[e])
      /\ Cardinality(PendingTasks') \in Nat
      /\ q = Len(plan[e]) =>
           /\ Unfinished' = Unfinished \ {e}
           /\ Cardinality(Unfinished') = Cardinality(Unfinished) - 1
      /\ q < Len(plan[e]) => Unfinished' = Unfinished
      /\ Cardinality(Unfinished') \in Nat
  BY <1>1, PositionMove
<1>5. active_edges = Cardinality(Unfinished) /\ remaining = Cardinality(PendingTasks)
      /\ Cardinality(DOMAIN outcomes) + ignored + remaining = Cardinality(TaskIds(plan))
  BY <1>1 DEF FrontierInv, FrontierAccounting
<1>6. ready' \in [SUBSET Vertex -> SUBSET Edge]
      /\ FrontierPartition'
  <2>1. CASE q = Len(plan[e])
    <3>1. ready' = ready /\ e \notin Unfinished'
      BY <1>4, <2>1
    <3>2. QED
      BY <1>1, <1>2, <1>3, <1>4, <3>1, ConsumePartition
  <2>2. CASE q < Len(plan[e])
    <3> DEFINE S0 == plan[e][q + 1].S
    <3>1. S0 \in SUBSET Vertex
      <4>1. plan[e][q + 1] \in Task
        BY <1>2, <1>3, <2>2
      <4>2. QED
        BY <4>1 DEF Task
    <3>2. NextTask(e)'.S = S0
      BY <1>1, <1>3 DEF NextTask
    <3> HIDE DEF S0
    <3>3. ready' = [ready EXCEPT ![S0] = @ \cup {e}]
      BY <2>2 DEF S0
    <3>4. ready' \in [SUBSET Vertex -> SUBSET Edge]
      BY <1>2, <3>1, <3>3
    <3>5. \A S \in SUBSET Vertex : ready[S] \subseteq ready'[S]
                                   /\ ready'[S] \subseteq ready[S] \cup {e}
      BY <1>2, <3>1, <3>3
    <3>6. \A S \in SUBSET Vertex : e \in ready'[S] => S = S0
      BY <1>1, <1>2, <3>1, <3>3
    <3>7. e \in ready'[S0] /\ e \in Unfinished'
      BY <1>1, <1>2, <1>4, <2>2, <3>1, <3>3
    <3>8. QED
      BY <1>3, <1>4, <3>2, <3>4, <3>5, <3>6, <3>7, ConsumePartition
  <2>3. QED
    BY <1>3, <2>1, <2>2
<1>7. ConsumedPrefix'
  BY ConsumePrefix
<1>8. WavePhase' /\ wave' \in Seq(SUBSET Edge) /\ phase' \in {"select", "execute"}
  BY ConsumeWave
<1>9. /\ edge_positions[e] + 1 \in DOMAIN plan[e]
      /\ DOMAIN outcomes' = DOMAIN outcomes \cup {<<e, edge_positions[e] + 1>>}
      /\ DOMAIN outcomes' \subseteq TaskIds(plan)
      /\ <<e, edge_positions[e] + 1>> \notin DOMAIN outcomes
      /\ outcomes' \in [DOMAIN outcomes' -> PValue]
  BY ConsumeOutcome
<1>10. Cardinality(DOMAIN outcomes') = Cardinality(DOMAIN outcomes) + 1
       /\ Cardinality(DOMAIN outcomes) \in Nat
  <2>1. IsFiniteSet(DOMAIN outcomes)
    <3>1. DOMAIN outcomes \subseteq TaskIds(plan)
      BY DEF FrontierInv, TypeOK
    <3>2. QED
      BY <1>2, <3>1, TasksFinite, FS_Subset
  <2>2. QED
    BY <1>9, <2>1, FS_AddElement, FS_CardinalityType
<1>11. remaining' = Cardinality(PendingTasks') /\ remaining' \in Nat
  BY <1>4, <1>5
<1>12. active_edges' = Cardinality(Unfinished') /\ active_edges' \in Nat
  BY <1>3, <1>4, <1>5
<1>13. ignored' \in Nat
       /\ Cardinality(DOMAIN outcomes') + ignored' + remaining' = Cardinality(TaskIds(plan'))
  <2>1. TaskIds(plan') = TaskIds(plan)
    BY <1>1
  <2> DEFINE c == Cardinality(DOMAIN outcomes)
             d == Cardinality(DOMAIN outcomes')
             g == q - edge_positions[e]
  <2>2. d = c + 1 /\ c \in Nat /\ g \in Nat /\ g >= 1
    BY <1>3, <1>10
  <2>3. c + ignored + remaining = Cardinality(TaskIds(plan))
    BY <1>5
  <2>4. remaining' = remaining - g /\ ignored' = ignored + (g - 1)
    OBVIOUS
  <2> HIDE DEF c, d, g
  <2>5. ignored' \in Nat /\ d + ignored' + remaining' = c + ignored + remaining
    <3>1. ignored \in Nat /\ remaining \in Nat
      BY <1>2
    <3> QED
      BY <2>2, <2>4, <3>1
  <2>6. QED
    BY <2>1, <2>3, <2>5 DEF d
<1>14. FrontierAccounting'
  BY <1>11, <1>12, <1>13 DEF FrontierAccounting
<1>15. delete_edges' \in SUBSET Cell
  <2>1. Cells(e) \subseteq Cell
    BY DEF Cells, Edge, Cell
  <2>2. QED
    BY <2>1 DEF FrontierInv, TypeOK
<1>16. pcalg_done' \in BOOLEAN
  BY Zenon DEF Consume
<1>17. UNCHANGED resultVars
  BY DEF Consume
<1>18. TypeOK'
  BY <1>1, <1>4, <1>6, <1>8, <1>9, <1>11, <1>12, <1>13, <1>15, <1>16, <1>17
     DEF FrontierInv, TypeOK, resultVars
<1>19. QED
  BY <1>6, <1>7, <1>8, <1>14, <1>18 DEF FrontierInv

LEMMA AdvanceDeletedInv ==
  ASSUME FrontierInv, NEW e \in Edge, NEW p \in PValue, AdvanceDeleted(e, p)
  PROVE  FrontierInv'
<1> DEFINE q == Len(plan[e])
<1>1. Consume(e, p) /\ Independent(p)
  BY DEF AdvanceDeleted
<1>2. e \in Unfinished
  BY <1>1, ConsumeWave
<1>3. edge_positions[e] \in Nat /\ q \in Nat
      /\ edge_positions[e] < q /\ remaining \in Nat /\ ignored \in Nat
  BY <1>2 DEF FrontierInv, TypeOK, Unfinished
<1>4. /\ remaining' = remaining - 1 - (q - (edge_positions[e] + 1))
      /\ ignored' = ignored + (q - (edge_positions[e] + 1))
      /\ edge_positions' = [edge_positions EXCEPT ![e] = q]
      /\ delete_edges' = delete_edges \cup Cells(e)
      /\ active_edges' = active_edges - 1 /\ ready' = ready
  BY DEF AdvanceDeleted, Trailing, MarkDeleted
<1>5. q = Len(plan[e])
  OBVIOUS
<1> HIDE DEF q
<1>6. q \in edge_positions[e] + 1 .. Len(plan[e]) /\ ~(q < Len(plan[e]))
  BY <1>3, <1>5
<1>7. /\ remaining' = remaining - (q - edge_positions[e])
      /\ ignored' = ignored + (q - edge_positions[e] - 1)
  BY <1>3, <1>4
<1>8. QED
  BY <1>1, <1>4, <1>5, <1>6, <1>7, AdvanceInv

LEMMA AdvanceExhaustedInv ==
  ASSUME FrontierInv, NEW e \in Edge, NEW p \in PValue, AdvanceExhausted(e, p)
  PROVE  FrontierInv'
<1> DEFINE q == edge_positions[e] + 1
<1>1. Consume(e, p) /\ ~Independent(p) /\ q = Len(plan[e])
  BY DEF AdvanceExhausted
<1>2. edge_positions \in [Edge -> Nat] /\ edge_positions[e] \in Nat
      /\ remaining \in Nat /\ ignored \in Nat
  BY DEF FrontierInv, TypeOK
<1>3. q \in edge_positions[e] + 1 .. Len(plan[e]) /\ q - edge_positions[e] = 1
  BY <1>1, <1>2
<1>4. /\ remaining' = remaining - (q - edge_positions[e])
      /\ ignored' = ignored + (q - edge_positions[e] - 1)
      /\ edge_positions' = [edge_positions EXCEPT ![e] = q]
  BY <1>2, <1>3 DEF AdvanceExhausted
<1>5. /\ delete_edges' = delete_edges
      /\ active_edges' = active_edges - 1 /\ ready' = ready
      /\ ~(q < Len(plan[e]))
  BY <1>1, <1>2 DEF AdvanceExhausted
<1> HIDE DEF q
<1>6. QED
  BY <1>1, <1>3, <1>4, <1>5, AdvanceInv DEF q

LEMMA AdvanceRequeuedInv ==
  ASSUME FrontierInv, NEW e \in Edge, NEW p \in PValue, AdvanceRequeued(e, p)
  PROVE  FrontierInv'
<1> DEFINE q == edge_positions[e] + 1
<1>1. Consume(e, p) /\ ~Independent(p) /\ q < Len(plan[e])
  BY DEF AdvanceRequeued
<1>2. /\ plan \in [Edge -> Seq(Task)]
      /\ edge_positions \in [Edge -> Nat] /\ edge_positions[e] \in Nat
      /\ remaining \in Nat /\ ignored \in Nat /\ Len(plan[e]) \in Nat
  BY DEF FrontierInv, TypeOK
<1>3. q \in edge_positions[e] + 1 .. Len(plan[e]) /\ q - edge_positions[e] = 1
      /\ edge_positions[e] + 2 = q + 1 /\ q # Len(plan[e])
  BY <1>1, <1>2
<1>4. /\ remaining' = remaining - (q - edge_positions[e])
      /\ ignored' = ignored + (q - edge_positions[e] - 1)
      /\ edge_positions' = [edge_positions EXCEPT ![e] = q]
  BY <1>2, <1>3 DEF AdvanceRequeued
<1>5. /\ delete_edges' = delete_edges /\ active_edges' = active_edges
      /\ ready' = [ready EXCEPT ![plan[e][q + 1].S] = @ \cup {e}]
  BY <1>3 DEF AdvanceRequeued, FollowingKey
<1> HIDE DEF q
<1>6. QED
  BY <1>1, <1>3, <1>4, <1>5, AdvanceInv DEF q

LEMMA InitialResult ==
  /\ InitialAdjacency \in SUBSET Cell
  /\ InitialSepsets \in [Cell -> SUBSET Vertex]
  /\ InitialPmax \in [Cell -> PValue \cup {MinusInfinity}]
<1>1. PTop \in PValue
  BY PTopAssumption DEF PValue
<1>2. QED
  BY <1>1 DEF InitialAdjacency, InitialSepsets, InitialPmax, Cell

\* An empty plan: nothing is unfinished and nothing pending.
Reset == Blank /\ status \in {"running", "done", "failed"}

LEMMA BlankInv == Reset => FrontierInv
<1> SUFFICES ASSUME Reset
             PROVE  FrontierInv
  OBVIOUS
<1> USE DEF Reset, Blank
<1>1. \A e \in Edge : plan[e] = << >> /\ Len(plan[e]) = 0 /\ DOMAIN plan[e] = {}
  OBVIOUS
<1>2. Unfinished = {}
  BY <1>1 DEF Unfinished
<1>3. TaskIds(plan) = {} /\ PendingTasks = {}
  BY <1>1 DEF TaskIds, PendingTasks
<1>4. DOMAIN outcomes = {} /\ outcomes \in [DOMAIN outcomes -> PValue]
  BY DEF NoOutcome
<1>5. DOMAIN wave = {}
  OBVIOUS
<1>6. ready \in [SUBSET Vertex -> SUBSET Edge] /\ \A S \in SUBSET Vertex : ready[S] = {}
  BY DEF NoBucket
<1>7. TypeOK
  BY <1>1, <1>3, <1>4, <1>6, InitialResult DEF TypeOK
<1>8. FrontierPartition
  BY <1>2, <1>5, <1>6
     DEF FrontierPartition, ReadyEdgesWait, GroupsWait, NoEdgeLost
<1>9. FrontierAccounting
  BY <1>2, <1>3, FS_EmptySet DEF FrontierAccounting
<1>10. QED
  BY <1>7, <1>8, <1>9 DEF FrontierInv, ConsumedPrefix, WavePhase

LEMMA InitInv == Init => FrontierInv
BY BlankInv DEF Init, Reset

LEMMA FailInv == Fail => FrontierInv'
<1>1. Fail => Reset'
  BY DEF Fail, Reset, Blank
<1>2. QED
  BY <1>1, BlankInv, PTL

LEMMA BeginLevelInv ==
  ASSUME FrontierInv, BeginLevel
  PROVE  FrontierInv'
<1>1. plan' = MakeLayerPlan(adj, level) /\ level \in Nat
  BY DEF FrontierInv, TypeOK, BeginLevel
<1>2. plan' \in [Edge -> Seq(Task)]
  BY <1>1, PlanType
<1>3. /\ edge_positions' = [e \in Edge |-> 0] /\ outcomes' = NoOutcome
      /\ wave' = << >> /\ phase' = "select" /\ delete_edges' = {} /\ ignored' = 0
      /\ pcalg_done' = TRUE
      /\ UNCHANGED resultVars
  BY DEF BeginLevel, FrontierInv, WavePhase
<1>4. DOMAIN outcomes' = {} /\ outcomes' \in [DOMAIN outcomes' -> PValue]
  BY <1>3 DEF NoOutcome
<1>5. DOMAIN wave' = {}
  BY <1>3
<1>6. Unfinished' = {e \in Edge : Len(plan'[e]) > 0}
  BY <1>2, <1>3 DEF Unfinished
<1>7. active_edges' = Cardinality(Unfinished')
  BY <1>6 DEF BeginLevel
<1>8. PendingTasks' = TaskIds(plan')
  <2>1. ASSUME NEW t \in TaskIds(plan')
        PROVE  t[2] > edge_positions'[t[1]]
    <3>1. t[1] \in Edge /\ t[2] \in DOMAIN plan'[t[1]]
      BY TaskIdsShape
    <3>2. QED
      BY <1>2, <1>3, <3>1
  <2>2. QED
    BY <2>1 DEF PendingTasks
<1>9. remaining' = Cardinality(TaskIds(plan'))
  BY DEF BeginLevel
<1>10. active_edges' \in Nat /\ remaining' \in Nat
  <2>1. IsFiniteSet(Unfinished')
    BY <1>6, EdgesFinite, FS_Subset
  <2>2. IsFiniteSet(TaskIds(plan'))
    BY <1>2, TasksFinite
  <2>3. QED
    BY <1>7, <1>9, <2>1, <2>2, FS_CardinalityType
<1>11. Cardinality(DOMAIN outcomes') = 0
  BY <1>4, FS_EmptySet
<1>12. FrontierAccounting'
  BY <1>3, <1>7, <1>8, <1>9, <1>10, <1>11 DEF FrontierAccounting
<1>13. ready' = [S \in SUBSET Vertex |->
                   {e \in Edge : Len(plan'[e]) > 0 /\ plan'[e][1].S = S}]
  BY DEF BeginLevel
<1>14. ready' \in [SUBSET Vertex -> SUBSET Edge]
  BY <1>13
<1>15. \A e \in Unfinished' : NextTask(e)' = plan'[e][1] /\ plan'[e][1].S \in SUBSET Vertex
  <2>1. SUFFICES ASSUME NEW e \in Unfinished'
                 PROVE  NextTask(e)' = plan'[e][1] /\ plan'[e][1].S \in SUBSET Vertex
    OBVIOUS
  <2>2. e \in Edge /\ Len(plan'[e]) > 0
    BY <1>6
  <2>3. plan'[e][1] \in Task
    BY <1>2, <2>2
  <2>4. edge_positions'[e] + 1 = 1
    BY <1>3, <2>2
  <2>5. QED
    BY <2>3, <2>4 DEF NextTask, Task
<1>16. FrontierPartition'
  <2>1. ReadyEdgesWait'
    BY <1>5, <1>6, <1>13, <1>15 DEF ReadyEdgesWait
  <2>2. GroupsWait'
    BY <1>5 DEF GroupsWait
  <2>3. NoEdgeLost'
    BY <1>6, <1>13, <1>15 DEF NoEdgeLost
  <2>4. QED
    BY <2>1, <2>2, <2>3 DEF FrontierPartition
<1>17. ConsumedPrefix'
  <2>1. RemovedEdges(outcomes') = {}
    BY <1>4 DEF RemovedEdges, Separators
  <2>2. \A e \in Edge : \A i \in DOMAIN plan'[e] : ~(i <= edge_positions'[e])
    BY <1>2, <1>3
  <2>3. QED
    BY <1>3, <1>4, <2>1, <2>2 DEF ConsumedPrefix
<1>18. TypeOK'
  <2>1. edge_positions' \in [Edge -> Nat] /\ wave' \in Seq(SUBSET Edge)
        /\ delete_edges' \in SUBSET Cell /\ ignored' \in Nat
        /\ DOMAIN outcomes' \subseteq TaskIds(plan')
    BY <1>3, <1>4
  <2>2. pcalg_done' \in BOOLEAN /\ phase' \in {"plan", "select", "execute"}
    BY <1>3
  <2>3. QED
    BY <1>2, <1>3, <1>4, <1>10, <1>14, <2>1, <2>2
       DEF FrontierInv, TypeOK, resultVars
<1>19. QED
  BY <1>3, <1>12, <1>16, <1>17, <1>18 DEF FrontierInv, WavePhase

\* Taking a bucket, or one edge out of one, moves edges from where they wait
\* to a new last group.
LEMMA SelectInv ==
  ASSUME FrontierInv, NEW S \in SUBSET Vertex, NEW G \in SUBSET Edge,
         G # {}, G \subseteq ready[S],
         phase = "select",
         wave' = Append(wave, G),
         ready' = [ready EXCEPT ![S] = @ \ G],
         UNCHANGED <<resultVars, frontierVars, phase, plan>>
  PROVE  FrontierInv'
<1>1. wave \in Seq(SUBSET Edge) /\ ready \in [SUBSET Vertex -> SUBSET Edge]
      /\ plan' = plan /\ edge_positions' = edge_positions
  BY DEF FrontierInv, TypeOK, frontierVars
<1>2. /\ wave' \in Seq(SUBSET Edge)
      /\ Len(wave) \in Nat
      /\ DOMAIN wave = 1 .. Len(wave)
      /\ DOMAIN wave' = 1 .. Len(wave) + 1
      /\ \A k \in DOMAIN wave : wave'[k] = wave[k]
      /\ wave'[Len(wave) + 1] = G
  BY <1>1
<1>3. \A k \in DOMAIN wave' : k \in DOMAIN wave \/ k = Len(wave) + 1
  BY <1>2
<1>4. Unfinished' = Unfinished /\ PendingTasks' = PendingTasks
      /\ \A e : NextTask(e)' = NextTask(e)
  BY <1>1 DEF Unfinished, PendingTasks, NextTask
<1>5. /\ ready' \in [SUBSET Vertex -> SUBSET Edge]
      /\ ready'[S] = ready[S] \ G
      /\ \A T \in SUBSET Vertex : T # S => ready'[T] = ready[T]
  BY <1>1
<1>6. /\ \A T \in SUBSET Vertex : \A e \in ready[T] :
           /\ e \in Unfinished /\ NextTask(e).S = T
           /\ \A k \in DOMAIN wave : e \notin wave[k]
      /\ \A k \in DOMAIN wave :
           /\ wave[k] # {} /\ wave[k] \subseteq Unfinished
           /\ \A e, f \in wave[k] : NextTask(e).S = NextTask(f).S
           /\ \A l \in DOMAIN wave : l # k => wave[k] \cap wave[l] = {}
      /\ \A e \in Unfinished :
           e \in ready[NextTask(e).S] \/ \E k \in DOMAIN wave : e \in wave[k]
  BY DEF FrontierInv, FrontierPartition, ReadyEdgesWait, GroupsWait, NoEdgeLost
<1>7. ReadyEdgesWait'
  <2>1. SUFFICES ASSUME NEW T \in SUBSET Vertex, NEW e \in ready'[T]
                 PROVE  /\ e \in Unfinished /\ NextTask(e).S = T
                        /\ \A k \in DOMAIN wave' : e \notin wave'[k]
    BY <1>4 DEF ReadyEdgesWait
  <2>2. e \in ready[T]
    BY <1>5
  <2>3. e \notin G
    <3>1. CASE T = S
      BY <1>5, <3>1
    <3>2. CASE T # S
      <4>1. e \in G => NextTask(e).S = S
        BY <1>6
      <4>2. NextTask(e).S = T
        BY <1>6, <2>2
      <4>3. QED
        BY <3>2, <4>1, <4>2
    <3>3. QED
      BY <3>1, <3>2
  <2>4. QED
    BY <1>2, <1>3, <1>6, <2>2, <2>3
<1>8. GroupsWait'
  <2>1. SUFFICES ASSUME NEW k \in DOMAIN wave'
                 PROVE  /\ wave'[k] # {} /\ wave'[k] \subseteq Unfinished
                        /\ \A e, f \in wave'[k] : NextTask(e).S = NextTask(f).S
                        /\ \A l \in DOMAIN wave' : l # k => wave'[k] \cap wave'[l] = {}
    BY <1>4 DEF GroupsWait
  <2>2. CASE k \in DOMAIN wave
    <3>1. wave'[k] = wave[k] /\ G \cap wave[k] = {}
      BY <1>2, <1>6, <2>2
    <3>2. QED
      BY <1>2, <1>3, <1>6, <2>2, <3>1
  <2>3. CASE k = Len(wave) + 1
    <3>1. wave'[k] = G
      BY <1>2, <2>3
    <3>2. \A l \in DOMAIN wave : G \cap wave[l] = {}
      BY <1>6
    <3>3. \A l \in DOMAIN wave' : l # k => l \in DOMAIN wave
      BY <1>3, <2>3
    <3>4. QED
      BY <1>2, <1>6, <3>1, <3>2, <3>3
  <2>4. QED
    BY <1>3, <2>2, <2>3
<1>9. NoEdgeLost'
  <2>1. SUFFICES ASSUME NEW e \in Unfinished
                 PROVE  \/ e \in ready'[NextTask(e).S]
                        \/ \E k \in DOMAIN wave' : e \in wave'[k]
    BY <1>4 DEF NoEdgeLost
  <2>2. CASE e \in G
    <3>1. Len(wave) + 1 \in DOMAIN wave'
      BY <1>2
    <3>2. QED
      BY <1>2, <2>2, <3>1
  <2>3. CASE e \notin G /\ e \in ready[NextTask(e).S]
    <3>1. NextTask(e).S \in SUBSET Vertex
      <4>1. e \in Edge /\ edge_positions[e] + 1 \in DOMAIN plan[e]
        BY DEF FrontierInv, TypeOK, Unfinished
      <4>2. NextTask(e) \in Task
        BY <4>1 DEF FrontierInv, TypeOK, NextTask
      <4>3. QED
        BY <4>2 DEF Task
    <3>2. QED
      BY <1>5, <2>3, <3>1
  <2>4. CASE \E k \in DOMAIN wave : e \in wave[k]
    BY <1>2, <2>4
  <2>5. QED
    BY <1>6, <2>2, <2>3, <2>4
<1>10. FrontierPartition'
  BY <1>7, <1>8, <1>9 DEF FrontierPartition
<1>11. TypeOK'
  BY <1>2, <1>5 DEF FrontierInv, TypeOK, resultVars, frontierVars
<1>12. FrontierAccounting'
  BY <1>4 DEF FrontierInv, FrontierAccounting, frontierVars
<1>13. ConsumedPrefix'
  BY <1>4 DEF FrontierInv, ConsumedPrefix, frontierVars
<1>14. WavePhase'
  BY DEF WavePhase
<1>15. QED
  BY <1>10, <1>11, <1>12, <1>13, <1>14 DEF FrontierInv

LEMMA SelectGroupInv ==
  ASSUME FrontierInv, SelectGroup
  PROVE  FrontierInv'
<1>1. PICK S \in Buckets : SelectBucket(S) \/ \E e \in ready[S] : SelectTask(S, e)
  BY DEF SelectGroup
<1>2. S \in SUBSET Vertex /\ ready[S] # {} /\ ready \in [SUBSET Vertex -> SUBSET Edge]
  BY DEF Buckets, FrontierInv, TypeOK
<1>3. phase = "select" /\ UNCHANGED <<resultVars, frontierVars, phase, plan>>
  BY DEF SelectGroup
<1>4. CASE SelectBucket(S)
  <2>1. wave' = Append(wave, ready[S]) /\ ready' = [ready EXCEPT ![S] = {}]
    BY <1>4 DEF SelectBucket
  <2>2. ready' = [ready EXCEPT ![S] = @ \ ready[S]]
    BY <2>1
  <2>3. ready[S] \in SUBSET Edge
    BY <1>2
  <2>4. QED
    BY <1>2, <1>3, <2>1, <2>2, <2>3, SelectInv
<1>5. CASE \E e \in ready[S] : SelectTask(S, e)
  <2>1. PICK e \in ready[S] : SelectTask(S, e)
    BY <1>5
  <2>2. wave' = Append(wave, {e}) /\ ready' = [ready EXCEPT ![S] = @ \ {e}]
    BY <2>1 DEF SelectTask
  <2>3. {e} \in SUBSET Edge /\ {e} # {} /\ {e} \subseteq ready[S]
    BY <1>2
  <2>4. QED
    BY <1>2, <1>3, <2>2, <2>3, SelectInv
<1>6. QED
  BY <1>1, <1>4, <1>5

LEMMA StartWaveInv ==
  ASSUME FrontierInv, StartWave
  PROVE  FrontierInv'
<1>1. /\ UNCHANGED <<resultVars, frontierVars, plan, ready, wave>>
      /\ phase = "select" /\ phase' = "execute" /\ wave # << >>
  BY DEF StartWave
<1>2. Unfinished' = Unfinished /\ PendingTasks' = PendingTasks
      /\ \A e : NextTask(e)' = NextTask(e)
  BY <1>1 DEF Unfinished, PendingTasks, NextTask, frontierVars
<1>3. FrontierPartition'
  BY <1>1, <1>2 DEF FrontierInv, FrontierPartition, ReadyEdgesWait, GroupsWait, NoEdgeLost
<1>4. TypeOK'
  BY <1>1 DEF FrontierInv, TypeOK, resultVars, frontierVars
<1>5. FrontierAccounting' /\ ConsumedPrefix'
  BY <1>1, <1>2 DEF FrontierInv, FrontierAccounting, ConsumedPrefix, frontierVars
<1>6. QED
  BY <1>1, <1>3, <1>4, <1>5 DEF FrontierInv, WavePhase

\* The replay keeps the result well typed.
LEMMA ReplayType ==
  ASSUME NEW sep \in [Cell -> SUBSET Vertex],
         NEW pm \in [Cell -> PValue \cup {MinusInfinity}],
         NEW pl \in [Edge -> Seq(Task)],
         NEW pv, pv \in [DOMAIN pv -> PValue], DOMAIN pv \subseteq TaskIds(pl)
  PROVE  /\ ReplayedSepsets(sep, pl, pv) \in [Cell -> SUBSET Vertex]
         /\ ReplayedPmax(pm, pv) \in [Cell -> PValue \cup {MinusInfinity}]
<1>1. ASSUME NEW c \in Cell
      PROVE  Max({pm[c]} \cup {pv[t] : t \in {u \in DOMAIN pv : u[1] = EdgeOf(c)}})
               \in PValue \cup {MinusInfinity}
  <2> DEFINE T == {pm[c]} \cup {pv[t] : t \in {u \in DOMAIN pv : u[1] = EdgeOf(c)}}
  <2>1. T \in SUBSET (PValue \cup {MinusInfinity}) /\ T # {}
    OBVIOUS
  <2> HIDE DEF T
  <2>2. Max(T) \in T
    BY <2>1, MaxPValue
  <2>3. QED
    BY <2>1, <2>2 DEF T
<1>2. ReplayedPmax(pm, pv) \in [Cell -> PValue \cup {MinusInfinity}]
  BY <1>1 DEF ReplayedPmax
<1>3. ASSUME NEW t \in DOMAIN pv
      PROVE  pl[t[1]][t[2]].S \in SUBSET Vertex
  <2>1. t[1] \in Edge /\ t[2] \in DOMAIN pl[t[1]]
    BY TaskIdsShape
  <2>2. pl[t[1]][t[2]] \in Task
    BY <2>1
  <2>3. QED
    BY <2>2 DEF Task
<1>4. ASSUME NEW c \in Cell, EdgeOf(c) \in RemovedEdges(pv)
      PROVE  (CHOOSE t \in Separators(pv) : t[1] = EdgeOf(c)) \in DOMAIN pv
  <2>1. \E t \in Separators(pv) : t[1] = EdgeOf(c)
    BY <1>4 DEF RemovedEdges
  <2>2. QED
    BY <2>1 DEF Separators
<1>5. ReplayedSepsets(sep, pl, pv) \in [Cell -> SUBSET Vertex]
  BY <1>3, <1>4 DEF ReplayedSepsets
<1>6. QED
  BY <1>2, <1>5

LEMMA CommitLevelInv ==
  ASSUME FrontierInv, CommitLevel
  PROVE  FrontierInv'
<1>1. /\ UNCHANGED <<plan, ready, wave, edge_positions, active_edges, remaining,
                     ignored, delete_edges, pcalg_done>>
      /\ active_edges = 0 /\ phase' = "plan" /\ outcomes' = NoOutcome
      /\ level' = level + 1 /\ status' \in {"running", "done", "failed"}
      /\ adj' = adj \ delete_edges
      /\ n_edgetests' = Append(n_edgetests, Cardinality(DOMAIN outcomes))
  BY DEF CommitLevel
<1>2. Unfinished = {}
  <2>1. IsFiniteSet(Unfinished)
    BY EdgesFinite, FS_Subset DEF Unfinished
  <2>2. Cardinality(Unfinished) = 0
    BY <1>1 DEF FrontierInv, FrontierAccounting
  <2>3. QED
    BY <2>1, <2>2, FS_EmptySet
<1>3. wave' = << >>
  <2>1. wave \in Seq(SUBSET Edge) /\ \A k \in DOMAIN wave : wave[k] # {} /\ wave[k] \subseteq {}
    BY <1>2 DEF FrontierInv, TypeOK, FrontierPartition, GroupsWait
  <2>2. DOMAIN wave = {}
    BY <2>1
  <2>3. QED
    BY <1>1, <2>1, <2>2
<1>4. Unfinished' = Unfinished /\ PendingTasks' = PendingTasks
      /\ \A e : NextTask(e)' = NextTask(e)
  BY <1>1 DEF Unfinished, PendingTasks, NextTask
<1>5. FrontierPartition'
  BY <1>1, <1>4 DEF FrontierInv, FrontierPartition, ReadyEdgesWait, GroupsWait, NoEdgeLost
<1>6. FrontierAccounting'
  BY <1>1, <1>4 DEF FrontierInv, FrontierAccounting
<1>7. /\ sepsets' \in [Cell -> SUBSET Vertex]
      /\ pmax' \in [Cell -> PValue \cup {MinusInfinity}]
  BY ReplayType DEF FrontierInv, TypeOK, CommitLevel
<1>8. Cardinality(DOMAIN outcomes) \in Nat
  <2>1. IsFiniteSet(DOMAIN outcomes)
    BY TasksFinite, FS_Subset DEF FrontierInv, TypeOK
  <2>2. QED
    BY <2>1, FS_CardinalityType
<1>9. level' \in Nat /\ n_edgetests' \in Seq(Nat) /\ adj' \in SUBSET Cell
  BY <1>1, <1>8 DEF FrontierInv, TypeOK
<1>10. DOMAIN outcomes' = {} /\ outcomes' \in [DOMAIN outcomes' -> PValue]
  BY <1>1 DEF NoOutcome
<1>11. TypeOK'
  BY <1>1, <1>7, <1>9, <1>10 DEF FrontierInv, TypeOK
<1>12. QED
  BY <1>1, <1>3, <1>5, <1>6, <1>11 DEF FrontierInv, ConsumedPrefix, WavePhase

LEMMA StutterInv ==
  ASSUME FrontierInv, UNCHANGED vars
  PROVE  FrontierInv'
<1>1. UNCHANGED <<resultVars, frontierVars, phase, plan, ready, wave>>
  BY DEF vars
<1>2. Unfinished' = Unfinished /\ PendingTasks' = PendingTasks
      /\ \A e : NextTask(e)' = NextTask(e)
  BY <1>1 DEF Unfinished, PendingTasks, NextTask, frontierVars
<1>3. FrontierPartition' /\ WavePhase'
  BY <1>1, <1>2
     DEF FrontierInv, FrontierPartition, ReadyEdgesWait, GroupsWait, NoEdgeLost, WavePhase
<1>4. TypeOK'
  BY <1>1 DEF FrontierInv, TypeOK, resultVars, frontierVars
<1>5. FrontierAccounting' /\ ConsumedPrefix'
  BY <1>1, <1>2 DEF FrontierInv, FrontierAccounting, ConsumedPrefix, frontierVars
<1>6. QED
  BY <1>3, <1>4, <1>5 DEF FrontierInv

LEMMA NextInv ==
  ASSUME FrontierInv, [Next]_vars
  PROVE  FrontierInv'
<1>1. CASE BeginLevel
  BY <1>1, BeginLevelInv
<1>2. CASE SelectGroup
  BY <1>2, SelectGroupInv
<1>3. CASE StartWave
  BY <1>3, StartWaveInv
<1>4. ASSUME NEW e \in Edge, NEW p \in PossibleP(e),
             AdvanceDeleted(e, p) \/ AdvanceExhausted(e, p) \/ AdvanceRequeued(e, p)
      PROVE  FrontierInv'
  <2>1. p \in PValue
    BY DEF PossibleP
  <2>2. QED
    BY <1>4, <2>1, AdvanceDeletedInv, AdvanceExhaustedInv, AdvanceRequeuedInv
<1>5. CASE CommitLevel
  BY <1>5, CommitLevelInv
<1>6. CASE Fail
  BY <1>6, FailInv
<1>7. CASE UNCHANGED vars
  BY <1>7, StutterInv
<1>8. QED
  BY <1>1, <1>2, <1>3, <1>4, <1>5, <1>6, <1>7 DEF Next, Progress, Returned

-----------------------------------------------------------------------------
(* The theorems *)

\* The invariant of the frontier loop holds in every reachable state.
THEOREM FrontierInvariant == Spec => []FrontierInv
<1>1. Init => FrontierInv
  BY InitInv
<1>2. FrontierInv /\ [Next]_vars => FrontierInv'
  BY NextInv
<1>3. QED
  BY <1>1, <1>2, PTL DEF Spec

\* Every variable keeps the type the code declares it with; in particular the
\* counters active_edges and remaining never go below zero.
THEOREM TypeCorrect == Spec => []TypeOK
<1>1. FrontierInv => TypeOK
  BY DEF FrontierInv
<1>2. QED
  BY <1>1, FrontierInvariant, PTL

\* No edge is lost, duplicated or filed under the wrong conditioning set by the
\* wave scheduler, for any number of variables and any wave capacity.
THEOREM PartitionHolds == Spec => []FrontierPartition
<1>1. FrontierInv => FrontierPartition
  BY DEF FrontierInv
<1>2. QED
  BY <1>1, FrontierInvariant, PTL

\* The loop counters count exactly the unfinished edges and the pending tasks.
THEOREM AccountingHolds == Spec => []FrontierAccounting
<1>1. FrontierInv => FrontierAccounting
  BY DEF FrontierInv
<1>2. QED
  BY <1>1, FrontierInvariant, PTL

\* Each edge consumes the prefix of its list that the sequential engine tests.
THEOREM PrefixHolds == Spec => []ConsumedPrefix
<1>1. FrontierInv => ConsumedPrefix
  BY DEF FrontierInv
<1>2. QED
  BY <1>1, FrontierInvariant, PTL

-----------------------------------------------------------------------------
(* The refinement of SkeletonLevels.                                       *)

\* What the refinement needs besides FrontierInv: the plan is the level's own,
\* nothing is known between two levels, and pcalg_done is about the consumed
\* tasks.
PlanInv ==
  /\ phase # "plan" => plan = MakeLayerPlan(adj, level)
  /\ phase = "plan" => outcomes = NoOutcome
  /\ status # "running" => phase = "plan"
  /\ status = "running" => level <= MaxLevel
  /\ phase # "plan" =>
       (pcalg_done <=> \A t \in DOMAIN outcomes : ~plan[t[1]][t[2]].opens)

-----------------------------------------------------------------------------
(* The specification's operators are this module's.                        *)

LEMMA SameCombinations ==
  ASSUME NEW S, NEW k
  PROVE  Levels!EnumerateCombinations(S, k) = EnumerateCombinations(S, k)
BY DEF Levels!EnumerateCombinations, EnumerateCombinations, Levels!kSubset,
       kSubset, Levels!LexLess, LexLess, Levels!Cardinality, Cardinality

LEMMA SamePlan ==
  ASSUME NEW a, NEW l
  PROVE  Levels!MakeLayerPlan(a, l) = MakeLayerPlan(a, l)
<1>1. Levels!Edge = Edge /\ Levels!Vertex = Vertex
  BY DEF Levels!Edge, Edge, Levels!Cell, Cell, Levels!Vertex, Vertex
<1>2. \A x, y : Levels!NeighborsFromSnapshot(a, x, y) = NeighborsFromSnapshot(a, x, y)
  BY <1>1 DEF Levels!NeighborsFromSnapshot, NeighborsFromSnapshot
<1>3. \A A : Levels!Cardinality(A) = Cardinality(A)
  BY DEF Levels!Cardinality, Cardinality
<1>4. \A N, i : Levels!OpensNextLevel(N, l, i) = OpensNextLevel(N, l, i)
  BY <1>3 DEF Levels!OpensNextLevel, OpensNextLevel
<1>5. \A x, y : Levels!DirectionTasks(a, l, x, y) = DirectionTasks(a, l, x, y)
  BY <1>2, <1>4, SameCombinations DEF Levels!DirectionTasks, DirectionTasks
<1>6. QED
  BY <1>1, <1>5 DEF Levels!MakeLayerPlan, MakeLayerPlan, Levels!EdgeTasks, EdgeTasks
LEMMA SameOps ==
  /\ Levels!Edge = Edge /\ Levels!PValue = PValue
  /\ Levels!NoOutcome = NoOutcome
  /\ \A pv : Levels!RemovedEdges(pv) = RemovedEdges(pv)
  /\ \A pv, e, i : Levels!Reached(pv, e, i) <=> Reached(pv, e, i)
  /\ \A pl, pv : Levels!PassComplete(pl, pv) <=> PassComplete(pl, pv)
  /\ \A pl : Levels!TaskIds(pl) = TaskIds(pl)
  /\ \A e : Levels!Cells(e) = Cells(e)
  /\ \A pv, t, p : Levels!WithOutcome(pv, t, p) = WithOutcome(pv, t, p)
  /\ \A pm, e, p : Levels!PmaxWith(pm, e, p) = PmaxWith(pm, e, p)
  /\ \A ss, e, S, p : Levels!SepsetsWith(ss, e, S, p) = SepsetsWith(ss, e, S, p)
  /\ Levels!InitialAdjacency = InitialAdjacency
  /\ Levels!InitialSepsets = InitialSepsets /\ Levels!InitialPmax = InitialPmax
<1>1. Levels!Edge = Edge /\ Levels!Cell = Cell
  BY DEF Levels!Edge, Edge, Levels!Cell, Cell, Levels!Vertex, Vertex
<1>2. Levels!NoOutcome = NoOutcome /\ Levels!PValue = PValue /\ Levels!MinusInfinity = MinusInfinity
  BY DEF Levels!NoOutcome, NoOutcome, Levels!PValue, PValue, Levels!MinusInfinity, MinusInfinity
<1>3. \A p : Levels!Independent(p) <=> Independent(p)
  BY DEF Levels!Independent, Independent
<1>4. \A pv : Levels!RemovedEdges(pv) = RemovedEdges(pv)
  BY <1>3 DEF Levels!RemovedEdges, RemovedEdges, Levels!Separators, Separators
<1>5. \A pv, e, i : Levels!Reached(pv, e, i) <=> Reached(pv, e, i)
  BY <1>3 DEF Levels!Reached, Reached
<1>6. \A pl, pv : Levels!PassComplete(pl, pv) <=> PassComplete(pl, pv)
  BY <1>1, <1>5 DEF Levels!PassComplete, PassComplete
<1>7. \A pl : Levels!TaskIds(pl) = TaskIds(pl)
  BY <1>1 DEF Levels!TaskIds, TaskIds
<1>8. \A e : Levels!Cells(e) = Cells(e)
  BY DEF Levels!Cells, Cells
<1>9. \A pv, t, p : Levels!WithOutcome(pv, t, p) = WithOutcome(pv, t, p)
  BY DEF Levels!WithOutcome, WithOutcome
<1>10. \A pm, e, p : Levels!PmaxWith(pm, e, p) = PmaxWith(pm, e, p)
  BY <1>1, <1>8 DEF Levels!PmaxWith, PmaxWith
<1>11. \A ss, e, S, p : Levels!SepsetsWith(ss, e, S, p) = SepsetsWith(ss, e, S, p)
  BY <1>1, <1>3, <1>8 DEF Levels!SepsetsWith, SepsetsWith
<1>12. /\ Levels!InitialAdjacency = InitialAdjacency
       /\ Levels!InitialSepsets = InitialSepsets /\ Levels!InitialPmax = InitialPmax
  BY <1>1, <1>2 DEF Levels!InitialAdjacency, InitialAdjacency, Levels!InitialSepsets,
     InitialSepsets, Levels!InitialPmax, InitialPmax
<1>13. QED
  BY <1>1, <1>2, <1>4, <1>5, <1>6, <1>7, <1>8, <1>9, <1>10, <1>11, <1>12

-----------------------------------------------------------------------------
(* The second invariant.                                                   *)

LEMMA PlanInvNext ==
  ASSUME FrontierInv, PlanInv, [Next]_vars
  PROVE  PlanInv'
<1>1. CASE BeginLevel
  BY <1>1 DEF BeginLevel, PlanInv, NoOutcome, resultVars
<1>2. CASE SelectGroup
  BY <1>2 DEF SelectGroup, PlanInv, resultVars, frontierVars
<1>3. CASE StartWave
  BY <1>3 DEF StartWave, PlanInv, resultVars, frontierVars
<1>4. ASSUME NEW e \in Edge, NEW p \in PossibleP(e), Consume(e, p)
      PROVE  PlanInv'
  <2>1. p \in PValue
    BY DEF PossibleP
  <2>2. /\ DOMAIN outcomes' = DOMAIN outcomes \cup {<<e, edge_positions[e] + 1>>}
        /\ phase' \in {"select", "execute"} /\ phase # "plan"
    BY <1>4, <2>1, ConsumeOutcome, ConsumeWave DEF Consume
  <2>3. UNCHANGED <<plan, adj, level, status>> /\ status = "running"
    BY <1>4 DEF Consume, resultVars
  <2>4. /\ pcalg_done' = (pcalg_done /\ ~NextTask(e).opens)
        /\ pcalg_done \in BOOLEAN
    BY <1>4 DEF Consume, FrontierInv, TypeOK
  <2>5. pcalg_done' <=> \A t \in DOMAIN outcomes' : ~plan[t[1]][t[2]].opens
    <3> DEFINE u == <<e, edge_positions[e] + 1>>
               opened(t) == plan[t[1]][t[2]].opens
    <3>1. opened(u) = NextTask(e).opens
      BY DEF NextTask
    <3>2. pcalg_done <=> \A t \in DOMAIN outcomes : ~opened(t)
      BY <2>2 DEF PlanInv
    <3>3. DOMAIN outcomes' = DOMAIN outcomes \cup {u}
      BY <2>2
    <3> HIDE DEF u, opened
    <3>4. pcalg_done' <=> pcalg_done /\ ~opened(u)
      BY <2>4, <3>1, Zenon
    <3>5. pcalg_done' <=> \A t \in DOMAIN outcomes' : ~opened(t)
      BY <3>2, <3>3, <3>4, Zenon
    <3>6. QED
      BY <3>5, Zenon DEF opened
  <2>6. QED
    BY <2>2, <2>3, <2>5 DEF PlanInv
<1>5. CASE CommitLevel
  BY <1>5, MaxLevelAssumption DEF CommitLevel, PlanInv, FrontierInv, TypeOK
<1>6. CASE Fail
  BY <1>6 DEF Fail, PlanInv
<1>7. CASE UNCHANGED vars
  BY <1>7 DEF vars, resultVars, frontierVars, PlanInv
<1>8. QED
  BY <1>1, <1>2, <1>3, <1>4, <1>5, <1>6, <1>7
     DEF Next, Progress, Returned, AdvanceDeleted, AdvanceExhausted, AdvanceRequeued

LEMMA PlanInvInit == Init => PlanInv
BY MaxLevelAssumption DEF Init, Blank, PlanInv

-----------------------------------------------------------------------------
(* Replaying one more outcome is what the sequential engine writes.        *)

LEMMA CellsOfEdge ==
  ASSUME NEW e \in Edge, NEW c \in Cell
  PROVE  c \in Cells(e) <=> EdgeOf(c) = e
<1>1. /\ e = <<e[1], e[2]>> /\ e[1] < e[2] /\ e[1] \in Int /\ e[2] \in Int
      /\ c = <<c[1], c[2]>> /\ c[1] \in Int /\ c[2] \in Int
  BY PAssumption DEF Edge, Cell, Vertex
<1>2. QED
  BY <1>1 DEF Cells, EdgeOf

LEMMA MaxOfOneMore ==
  ASSUME NEW T \in SUBSET (PValue \cup {MinusInfinity}), T # {}, NEW p \in PValue
  PROVE  Max(T \cup {p}) = IF p > Max(T) THEN p ELSE Max(T)
<1> DEFINE U == T \cup {p}
<1>1. U \in SUBSET (PValue \cup {MinusInfinity}) /\ U # {} /\ U \subseteq Int
  BY PTopAssumption DEF PValue, MinusInfinity
<1>2. Max(T) \in T /\ \A x \in T : x <= Max(T)
  BY MaxPValue
<1> HIDE DEF U
<1>3. Max(U) \in U /\ \A x \in U : x <= Max(U)
  BY <1>1, MaxPValue
<1>4. QED
  BY <1>1, <1>2, <1>3 DEF U

LEMMA OneSeparator ==
  ASSUME FrontierInv, phase # "plan",
         NEW s \in Separators(outcomes), NEW t \in Separators(outcomes), s[1] = t[1]
  PROVE  s = t
<1>1. /\ s = <<s[1], s[2]>> /\ s[1] \in Edge /\ s[2] \in DOMAIN plan[s[1]]
      /\ t = <<t[1], t[2]>> /\ t[2] \in DOMAIN plan[t[1]]
      /\ plan[s[1]] \in Seq(Task)
  BY TaskIdsShape DEF Separators, FrontierInv, TypeOK
<1>2. Reached(outcomes, s[1], s[2]) /\ Reached(outcomes, s[1], t[2])
  BY <1>1 DEF FrontierInv, ConsumedPrefix, Separators
<1>3. s[2] \in Nat \ {0} /\ t[2] \in Nat \ {0}
  BY <1>1
<1>4. Independent(outcomes[<<s[1], s[2]>>]) /\ Independent(outcomes[<<s[1], t[2]>>])
  BY <1>1 DEF Separators
<1>5. ~(s[2] < t[2]) /\ ~(t[2] < s[2])
  BY <1>2, <1>3, <1>4 DEF Reached
<1>6. QED
  BY <1>1, <1>3, <1>5

LEMMA ReplayOneMore ==
  ASSUME FrontierInv, NEW e \in Edge, NEW p \in PValue, Consume(e, p)
  PROVE  /\ ReplayedPmax(pmax, outcomes') = PmaxWith(ReplayedPmax(pmax, outcomes), e, p)
         /\ ReplayedSepsets(sepsets, plan, outcomes') =
              SepsetsWith(ReplayedSepsets(sepsets, plan, outcomes), e, NextTask(e).S, p)
<1> DEFINE t == <<e, edge_positions[e] + 1>>
<1>1. /\ DOMAIN outcomes' = DOMAIN outcomes \cup {t} /\ t \notin DOMAIN outcomes
      /\ outcomes'[t] = p /\ \A u \in DOMAIN outcomes : outcomes'[u] = outcomes[u]
  BY ConsumeOutcome
<1>2. outcomes \in [DOMAIN outcomes -> PValue]
      /\ pmax \in [Cell -> PValue \cup {MinusInfinity}]
  BY DEF FrontierInv, TypeOK
<1>3. t[1] = e /\ NextTask(e) = plan[t[1]][t[2]]
  BY DEF NextTask
<1>4. phase # "plan"
  BY DEF Consume
<1> HIDE DEF t
<1>5. ASSUME NEW c \in Cell
      PROVE  ReplayedPmax(pmax, outcomes')[c]
               = PmaxWith(ReplayedPmax(pmax, outcomes), e, p)[c]
  <2> DEFINE A == {pmax[c]} \cup {outcomes[u] : u \in {v \in DOMAIN outcomes : v[1] = EdgeOf(c)}}
             B == {pmax[c]} \cup {outcomes'[u] : u \in {v \in DOMAIN outcomes' : v[1] = EdgeOf(c)}}
  <2>1. A \in SUBSET (PValue \cup {MinusInfinity}) /\ A # {}
    BY <1>2
  <2>2. B = A \cup (IF c \in Cells(e) THEN {p} ELSE {})
    <3>1. {v \in DOMAIN outcomes' : v[1] = EdgeOf(c)}
            = {v \in DOMAIN outcomes : v[1] = EdgeOf(c)}
                \cup (IF c \in Cells(e) THEN {t} ELSE {})
      BY <1>1, <1>3, CellsOfEdge
    <3>2. QED
      BY <1>1, <3>1
  <2>3. ReplayedPmax(pmax, outcomes')[c] = Max(B) /\ ReplayedPmax(pmax, outcomes)[c] = Max(A)
    BY DEF ReplayedPmax
  <2> HIDE DEF A, B
  <2>4. PmaxWith(ReplayedPmax(pmax, outcomes), e, p)[c]
          = IF c \in Cells(e) /\ p > Max(A) THEN p ELSE Max(A)
    BY <2>3 DEF PmaxWith
  <2>5. CASE c \in Cells(e)
    BY <2>1, <2>2, <2>3, <2>4, <2>5, MaxOfOneMore
  <2>6. CASE c \notin Cells(e)
    <3>1. B = A
      BY <2>2, <2>6
    <3>2. QED
      BY <2>3, <2>4, <2>6, <3>1
  <2>7. QED
    BY <2>5, <2>6
<1>6. ReplayedPmax(pmax, outcomes') = PmaxWith(ReplayedPmax(pmax, outcomes), e, p)
  <2>1. /\ DOMAIN ReplayedPmax(pmax, outcomes') = Cell
        /\ DOMAIN PmaxWith(ReplayedPmax(pmax, outcomes), e, p) = Cell
    BY DEF ReplayedPmax, PmaxWith
  <2>2. QED
    BY <1>5, <2>1 DEF ReplayedPmax, PmaxWith
<1>7. /\ e \notin RemovedEdges(outcomes)
      /\ Separators(outcomes') = Separators(outcomes) \cup (IF Independent(p) THEN {t} ELSE {})
  BY <1>1, ConsumeRemoved DEF Separators
<1>8. ASSUME NEW c \in Cell
      PROVE  ReplayedSepsets(sepsets, plan, outcomes')[c]
               = SepsetsWith(ReplayedSepsets(sepsets, plan, outcomes), e, NextTask(e).S, p)[c]
  <2> DEFINE of(pv, f) == CHOOSE u \in Separators(pv) : u[1] = f
  <2>1. \A pv : ReplayedSepsets(sepsets, plan, pv)[c] =
          IF EdgeOf(c) \in RemovedEdges(pv)
          THEN plan[of(pv, EdgeOf(c))[1]][of(pv, EdgeOf(c))[2]].S ELSE sepsets[c]
    BY DEF ReplayedSepsets
  <2>2. SepsetsWith(ReplayedSepsets(sepsets, plan, outcomes), e, NextTask(e).S, p)[c]
          = IF EdgeOf(c) = e /\ Independent(p) THEN plan[t[1]][t[2]].S
            ELSE ReplayedSepsets(sepsets, plan, outcomes)[c]
    BY <1>3, CellsOfEdge DEF SepsetsWith
  <2>3. CASE EdgeOf(c) = e /\ Independent(p)
    <3>1. \A u \in Separators(outcomes') : u[1] = e => u = t
      BY <1>7 DEF RemovedEdges
    <3>2. t \in Separators(outcomes') /\ t[1] = e /\ e \in RemovedEdges(outcomes')
      BY <1>3, <1>7, <2>3 DEF RemovedEdges
    <3>3. of(outcomes', e) = t
      BY <3>1, <3>2
    <3> HIDE DEF of
    <3>4. QED
      BY <2>1, <2>2, <2>3, <3>2, <3>3
  <2>4. CASE ~(EdgeOf(c) = e /\ Independent(p))
    <3>1. EdgeOf(c) \in RemovedEdges(outcomes') <=> EdgeOf(c) \in RemovedEdges(outcomes)
      BY <1>3, <1>7, <2>4 DEF RemovedEdges
    <3>2. ASSUME EdgeOf(c) \in RemovedEdges(outcomes)
          PROVE  of(outcomes', EdgeOf(c)) = of(outcomes, EdgeOf(c))
      <4>1. PICK u \in Separators(outcomes) : u[1] = EdgeOf(c)
        BY <3>2 DEF RemovedEdges
      <4>2. \A v \in Separators(outcomes) : v[1] = EdgeOf(c) => v = u
        BY <1>4, <4>1, OneSeparator
      <4>3. \A v \in Separators(outcomes') : v[1] = EdgeOf(c) => v = u
        BY <1>3, <1>7, <2>4, <4>2
      <4>4. u \in Separators(outcomes')
        BY <1>7, <4>1
      <4>5. of(outcomes', EdgeOf(c)) = u
        BY <4>1, <4>3, <4>4
      <4>6. of(outcomes, EdgeOf(c)) = u
        BY <4>1, <4>2
      <4>7. QED
        BY <4>5, <4>6
    <3> HIDE DEF of
    <3>3. QED
      BY <2>1, <2>2, <2>4, <3>1, <3>2
  <2>5. QED
    BY <2>3, <2>4
<1>9. ReplayedSepsets(sepsets, plan, outcomes') =
        SepsetsWith(ReplayedSepsets(sepsets, plan, outcomes), e, NextTask(e).S, p)
  <2>1. /\ DOMAIN ReplayedSepsets(sepsets, plan, outcomes') = Cell
        /\ DOMAIN SepsetsWith(ReplayedSepsets(sepsets, plan, outcomes), e, NextTask(e).S, p) = Cell
    BY DEF ReplayedSepsets, SepsetsWith
  <2>2. QED
    BY <1>8, <2>1 DEF ReplayedSepsets, SepsetsWith
<1>10. QED
  BY <1>6, <1>9

LEMMA ReplayNothing ==
  ASSUME NEW ss \in [Cell -> SUBSET Vertex], NEW pl,
         NEW pm \in [Cell -> PValue \cup {MinusInfinity}]
  PROVE  ReplayedSepsets(ss, pl, NoOutcome) = ss /\ ReplayedPmax(pm, NoOutcome) = pm
<1>1. DOMAIN NoOutcome = {}
  BY DEF NoOutcome
<1>2. RemovedEdges(NoOutcome) = {}
  BY <1>1 DEF RemovedEdges, Separators
<1>3. ReplayedSepsets(ss, pl, NoOutcome) = ss
  BY <1>2 DEF ReplayedSepsets
<1>4. ASSUME NEW c \in Cell
      PROVE  ReplayedPmax(pm, NoOutcome)[c] = pm[c]
  <2>1. {pm[c]} \cup {NoOutcome[t] : t \in {u \in DOMAIN NoOutcome : u[1] = EdgeOf(c)}} = {pm[c]}
    BY <1>1
  <2>2. Max({pm[c]}) = pm[c]
    <3> DEFINE T == {pm[c]}
    <3>1. T \in SUBSET (PValue \cup {MinusInfinity}) /\ T # {}
      OBVIOUS
    <3> HIDE DEF T
    <3>2. Max(T) \in T
      BY <3>1, MaxPValue
    <3>3. QED
      BY <3>2 DEF T
  <2>3. QED
    BY <2>1, <2>2 DEF ReplayedPmax
<1>5. ReplayedPmax(pm, NoOutcome) = pm
  <2>1. DOMAIN ReplayedPmax(pm, NoOutcome) = Cell /\ DOMAIN pm = Cell
    BY DEF ReplayedPmax
  <2>2. QED
    BY <1>4, <2>1 DEF ReplayedPmax
<1>6. QED
  BY <1>3, <1>5

-----------------------------------------------------------------------------
(* A level without an opening task is the last one with tasks at all.      *)

LEMMA LargerSubset ==
  ASSUME NEW S \in SUBSET Vertex, NEW k \in Nat, kSubset(k + 1, S) # {}
  PROVE  Cardinality(S) > k /\ kSubset(k, S) # {}
<1>1. PICK A \in SUBSET S : Cardinality(A) = k + 1
  BY DEF kSubset
<1>2. IsFiniteSet(S) /\ IsFiniteSet(A) /\ Cardinality(S) \in Nat
  BY VertexFinite, FS_Subset, FS_CardinalityType
<1>3. Cardinality(A) <= Cardinality(S)
  BY <1>2, FS_Subset
<1>4. PICK a : a \in A
  BY <1>1, <1>2, FS_EmptySet
<1>5. Cardinality(A \ {a}) = k
  <2>1. Cardinality(A \ {a}) = Cardinality(A) - 1
    BY <1>2, <1>4, FS_RemoveElement
  <2>2. QED
    BY <1>1, <2>1
<1>6. QED
  BY <1>1, <1>2, <1>3, <1>5 DEF kSubset

LEMMA CombinationsExist ==
  ASSUME NEW S \in SUBSET Vertex, NEW k \in Nat
  PROVE  /\ kSubset(k, S) # {} => 1 \in DOMAIN EnumerateCombinations(S, k)
         /\ kSubset(k, S) = {} => DOMAIN EnumerateCombinations(S, k) = {}
<1>1. DOMAIN EnumerateCombinations(S, k) = 1 .. Cardinality(kSubset(k, S))
  BY DEF EnumerateCombinations
<1>2. IsFiniteSet(kSubset(k, S))
  <2>1. kSubset(k, S) \subseteq SUBSET Vertex
    BY DEF kSubset
  <2>2. QED
    BY <2>1, VertexFinite, FS_Subset
<1>3. Cardinality(kSubset(k, S)) \in Nat
      /\ (Cardinality(kSubset(k, S)) = 0 <=> kSubset(k, S) = {})
  BY <1>2, FS_CardinalityType, FS_EmptySet
<1>4. QED
  BY <1>1, <1>3

\* A direction that has a task in the next level opened it in this one.
LEMMA DirectionOpens ==
  ASSUME NEW a \in SUBSET Cell, NEW b \in SUBSET a, NEW l \in Nat,
         NEW x \in Vertex, NEW y \in Vertex,
         DOMAIN DirectionTasks(b, l + 1, x, y) # {}
  PROVE  /\ 1 \in DOMAIN DirectionTasks(a, l, x, y)
         /\ DirectionTasks(a, l, x, y)[1].opens
<1> DEFINE N == NeighborsFromSnapshot(a, x, y)
           M == NeighborsFromSnapshot(b, x, y)
<1>1. N \in SUBSET Vertex /\ M \in SUBSET N
  BY DEF NeighborsFromSnapshot
<1>2. /\ DOMAIN DirectionTasks(b, l + 1, x, y) = DOMAIN EnumerateCombinations(M, l + 1)
      /\ DOMAIN DirectionTasks(a, l, x, y) = DOMAIN EnumerateCombinations(N, l)
      /\ 1 \in DOMAIN EnumerateCombinations(N, l)
           => DirectionTasks(a, l, x, y)[1].opens = OpensNextLevel(N, l, 1)
  BY DEF DirectionTasks
<1> HIDE DEF M, N
<1>3. kSubset(l + 1, M) # {}
  BY <1>1, <1>2, CombinationsExist
<1>4. kSubset(l + 1, N) # {}
  BY <1>1, <1>3 DEF kSubset
<1>5. Cardinality(N) > l /\ kSubset(l, N) # {}
  BY <1>1, <1>4, LargerSubset
<1>6. 1 \in DOMAIN EnumerateCombinations(N, l)
  BY <1>1, <1>5, CombinationsExist
<1>7. QED
  BY <1>2, <1>5, <1>6 DEF OpensNextLevel

LEMMA PlanOpens ==
  ASSUME NEW a \in SUBSET Cell, NEW b \in SUBSET a, NEW l \in Nat,
         NEW e \in Edge, DOMAIN MakeLayerPlan(b, l + 1)[e] # {}
  PROVE  /\ e \in b
         /\ \E i \in DOMAIN MakeLayerPlan(a, l)[e] : MakeLayerPlan(a, l)[e][i].opens
<1>1. e[1] \in Vertex /\ e[2] \in Vertex
  BY DEF Edge, Cell
<1> DEFINE F(adj0, k) == DirectionTasks(adj0, k, e[1], e[2])
           R(adj0, k) == DirectionTasks(adj0, k, e[2], e[1])
<1>2. /\ F(b, l + 1) \in Seq(Task) /\ R(b, l + 1) \in Seq(Task)
      /\ F(a, l) \in Seq(Task) /\ R(a, l) \in Seq(Task)
  BY <1>1, DirectionTasksType
<1>3. e \in b /\ MakeLayerPlan(b, l + 1)[e] = F(b, l + 1) \o R(b, l + 1)
  BY DEF MakeLayerPlan, EdgeTasks
<1>4. MakeLayerPlan(a, l)[e] = F(a, l) \o R(a, l)
  BY <1>3 DEF MakeLayerPlan, EdgeTasks
<1>5. /\ DOMAIN F(b, l + 1) # {} => 1 \in DOMAIN F(a, l) /\ F(a, l)[1].opens
      /\ DOMAIN R(b, l + 1) # {} => 1 \in DOMAIN R(a, l) /\ R(a, l)[1].opens
  BY <1>1, DirectionOpens
<1> HIDE DEF F, R
<1>6. CASE DOMAIN F(b, l + 1) # {}
  <2>1. 1 \in DOMAIN (F(a, l) \o R(a, l)) /\ (F(a, l) \o R(a, l))[1] = F(a, l)[1]
    BY <1>2, <1>5, <1>6
  <2>2. QED
    BY <1>3, <1>4, <1>5, <1>6, <2>1
<1>7. CASE DOMAIN R(b, l + 1) # {}
  <2>1. /\ Len(F(a, l)) + 1 \in DOMAIN (F(a, l) \o R(a, l))
        /\ (F(a, l) \o R(a, l))[Len(F(a, l)) + 1] = R(a, l)[1]
    BY <1>2, <1>5, <1>7
  <2>2. QED
    BY <1>3, <1>4, <1>5, <1>7, <2>1
<1>8. DOMAIN F(b, l + 1) # {} \/ DOMAIN R(b, l + 1) # {}
  <2>1. Len(F(b, l + 1) \o R(b, l + 1)) = Len(F(b, l + 1)) + Len(R(b, l + 1))
    BY <1>2
  <2>2. Len(F(b, l + 1) \o R(b, l + 1)) # 0
    BY <1>2, <1>3
  <2>3. /\ DOMAIN F(b, l + 1) = 1 .. Len(F(b, l + 1)) /\ Len(F(b, l + 1)) \in Nat
        /\ DOMAIN R(b, l + 1) = 1 .. Len(R(b, l + 1)) /\ Len(R(b, l + 1)) \in Nat
    BY <1>2
  <2>4. Len(F(b, l + 1)) > 0 \/ Len(R(b, l + 1)) > 0
    BY <2>1, <2>2, <2>3
  <2>5. 1 \in DOMAIN F(b, l + 1) \/ 1 \in DOMAIN R(b, l + 1)
    BY <2>3, <2>4
  <2>6. QED
    BY <2>5
<1>9. QED
  BY <1>6, <1>7, <1>8

-----------------------------------------------------------------------------
(* Every step of the engine is a step of the specification or none.        *)

LEMMA InitRefines == Init => Levels!Start
<1> SUFFICES ASSUME Init
             PROVE  Levels!Start
  OBVIOUS
<1>1. Blank /\ status = "running"
  BY DEF Init
<1>2. /\ ReplayedSepsets(sepsets, plan, outcomes) = InitialSepsets
      /\ ReplayedPmax(pmax, outcomes) = InitialPmax
  BY <1>1, ReplayNothing, InitialResult DEF Blank
<1>3. QED
  BY <1>1, <1>2, SameOps DEF Blank, Levels!Start, Levels!Blank

LEMMA FailRefines ==
  ASSUME FrontierInv, Fail
  PROVE  Levels!Fail
<1>1. /\ sepsets' = InitialSepsets /\ pmax' = InitialPmax /\ outcomes' = NoOutcome
      /\ adj' = InitialAdjacency /\ level' = 0 /\ status = "running" /\ status' = "failed"
  BY DEF Fail
<1>2. /\ ReplayedSepsets(sepsets', plan', outcomes') = InitialSepsets
      /\ ReplayedPmax(pmax', outcomes') = InitialPmax
  BY <1>1, ReplayNothing, InitialResult
<1>3. QED
  BY <1>1, <1>2, SameOps DEF Levels!Fail, Levels!Blank

LEMMA StutterRefines ==
  ASSUME FrontierInv, PlanInv, BeginLevel \/ SelectGroup \/ StartWave \/ UNCHANGED vars
  PROVE  UNCHANGED Levels!levelVars
<1>1. UNCHANGED <<level, adj, sepsets, pmax, status, outcomes>>
  BY DEF BeginLevel, SelectGroup, StartWave, vars, resultVars, frontierVars, PlanInv
<1>2. plan' = plan \/ outcomes = NoOutcome
  BY DEF BeginLevel, SelectGroup, StartWave, vars, PlanInv
<1>3. ReplayedSepsets(sepsets', plan', outcomes') = ReplayedSepsets(sepsets, plan, outcomes)
  BY <1>1, <1>2, ReplayNothing DEF FrontierInv, TypeOK
<1>4. QED
  BY <1>1, <1>3 DEF Levels!levelVars

LEMMA ConsumeRefines ==
  ASSUME FrontierInv, PlanInv, NEW e \in Edge, NEW p \in PValue, Consume(e, p)
  PROVE  Levels!Next
<1> DEFINE i == edge_positions[e] + 1
<1>1. /\ i \in DOMAIN plan[e] /\ <<e, i>> \notin DOMAIN outcomes
      /\ outcomes' = WithOutcome(outcomes, <<e, i>>, p)
  BY ConsumeOutcome DEF Consume
<1>2. /\ plan' = plan /\ plan = MakeLayerPlan(adj, level) /\ phase # "plan"
      /\ UNCHANGED <<level, adj, sepsets, pmax, status>> /\ status = "running"
  BY DEF Consume, resultVars, PlanInv
<1>3. Reached(outcomes, e, i)
  <2>1. e \notin RemovedEdges(outcomes)
    BY ConsumeRemoved
  <2>2. edge_positions \in [Edge -> Nat] /\ plan \in [Edge -> Seq(Task)]
    BY DEF FrontierInv, TypeOK
  <2>3. ASSUME NEW j \in 1 .. i - 1
        PROVE  <<e, j>> \in DOMAIN outcomes
    <3>1. j \in DOMAIN plan[e] /\ j <= edge_positions[e]
      BY <1>1, <2>2
    <3>2. QED
      BY <1>2, <2>1, <3>1 DEF FrontierInv, ConsumedPrefix
  <2>4. ASSUME NEW j \in 1 .. i - 1
        PROVE  ~Independent(outcomes[<<e, j>>])
    <3>1. Independent(outcomes[<<e, j>>]) => <<e, j>> \in Separators(outcomes)
      BY <2>3 DEF Separators
    <3>2. <<e, j>>[1] = e
      OBVIOUS
    <3>3. QED
      BY <2>1, <3>1, <3>2 DEF RemovedEdges
  <2>5. QED
    BY <2>3, <2>4 DEF Reached
<1>4. /\ ReplayedPmax(pmax', outcomes') = PmaxWith(ReplayedPmax(pmax, outcomes), e, p)
      /\ ReplayedSepsets(sepsets', plan', outcomes') =
           SepsetsWith(ReplayedSepsets(sepsets, plan, outcomes), e, plan[e][i].S, p)
  BY <1>2, ReplayOneMore DEF NextTask
<1> HIDE DEF i
<1>5. Levels!Test(e, i, p)
  BY <1>1, <1>2, <1>3, <1>4, SameOps, SamePlan DEF Levels!Test
<1>6. QED
  BY <1>1, <1>2, <1>5, SameOps, SamePlan DEF Levels!Next

LEMMA CommitRefines ==
  ASSUME FrontierInv, PlanInv, CommitLevel
  PROVE  Levels!CommitLevel
<1>1. /\ active_edges = 0 /\ phase = "select" /\ status = "running"
      /\ plan = MakeLayerPlan(adj, level)
      /\ adj' = adj \ delete_edges /\ level' = level + 1 /\ outcomes' = NoOutcome
      /\ status' = IF pcalg_done \/ level = MaxLevel THEN "done" ELSE "running"
      /\ sepsets' = ReplayedSepsets(sepsets, plan, outcomes)
      /\ pmax' = ReplayedPmax(pmax, outcomes)
  BY DEF CommitLevel, PlanInv
<1>2. /\ plan \in [Edge -> Seq(Task)] /\ edge_positions \in [Edge -> Nat]
      /\ adj \in SUBSET Cell /\ level \in Nat
  BY DEF FrontierInv, TypeOK
<1>3. \A e \in Edge : \A k \in DOMAIN plan[e] : k <= edge_positions[e]
  <2>1. IsFiniteSet(Unfinished)
    BY EdgesFinite, FS_Subset DEF Unfinished
  <2>2. Unfinished = {}
    BY <1>1, <2>1, FS_EmptySet DEF FrontierInv, FrontierAccounting
  <2>3. QED
    BY <1>2, <2>2 DEF Unfinished
<1>4. ASSUME NEW e \in Edge, NEW k \in DOMAIN plan[e], e \notin RemovedEdges(outcomes)
      PROVE  <<e, k>> \in DOMAIN outcomes
  BY <1>1, <1>3, <1>4 DEF FrontierInv, ConsumedPrefix
<1>5. PassComplete(plan, outcomes)
  <2>1. SUFFICES ASSUME NEW e \in Edge, NEW k \in DOMAIN plan[e], Reached(outcomes, e, k),
                        e \in RemovedEdges(outcomes)
                 PROVE  <<e, k>> \in DOMAIN outcomes
    BY <1>4 DEF PassComplete
  <2>2. PICK t \in Separators(outcomes) : t[1] = e
    BY <2>1 DEF RemovedEdges
  <2>3. /\ t = <<e, t[2]>> /\ t[2] \in DOMAIN plan[e] /\ t \in DOMAIN outcomes
        /\ Independent(outcomes[<<e, t[2]>>])
    BY <2>2, TaskIdsShape DEF Separators, FrontierInv, TypeOK
  <2>4. t[2] \in Nat \ {0} /\ k \in Nat \ {0}
    BY <1>2, <2>3
  <2>5. ~(t[2] < k)
    BY <2>1, <2>3, <2>4 DEF Reached
  <2>6. Reached(outcomes, e, t[2])
    BY <1>1, <2>3 DEF FrontierInv, ConsumedPrefix
  <2>7. QED
    BY <2>3, <2>4, <2>5, <2>6 DEF Reached
<1>6. delete_edges = UNION {Cells(e) : e \in RemovedEdges(outcomes)}
  BY <1>1 DEF FrontierInv, ConsumedPrefix
<1>7. ASSUME pcalg_done
      PROVE  TaskIds(MakeLayerPlan(adj', level')) = {}
  <2>1. SUFFICES ASSUME NEW e \in Edge, DOMAIN MakeLayerPlan(adj', level + 1)[e] # {}
                 PROVE  FALSE
    BY <1>1 DEF TaskIds
  <2>2. adj' \in SUBSET adj
    BY <1>1
  <2>3. e \in adj'
    BY <1>2, <2>1, <2>2, PlanOpens
  <2>4. PICK k \in DOMAIN plan[e] : plan[e][k].opens
    BY <1>1, <1>2, <2>1, <2>2, PlanOpens
  <2>5. e \notin RemovedEdges(outcomes)
    BY <1>1, <1>6, <2>3 DEF Cells
  <2>6. <<e, k>> \in DOMAIN outcomes
    BY <1>4, <2>5
  <2>7. <<e, k>>[1] = e /\ <<e, k>>[2] = k
    OBVIOUS
  <2>8. QED
    BY <1>1, <1>7, <2>4, <2>6, <2>7 DEF PlanInv
<1>8. level <= MaxLevel
  BY <1>1 DEF PlanInv
<1>9. \/ status' = "running" /\ level' <= MaxLevel
      \/ /\ status' = "done"
         /\ level' > MaxLevel \/ TaskIds(MakeLayerPlan(adj', level')) = {}
  <2>1. CASE pcalg_done
    BY <1>1, <1>7, <2>1
  <2>2. CASE level = MaxLevel
    BY <1>1, <1>2, <2>2
  <2>3. CASE ~pcalg_done /\ level # MaxLevel
    BY <1>1, <1>2, <1>8, <2>3, MaxLevelAssumption
  <2>4. QED
    BY <2>1, <2>2, <2>3
<1>10. /\ ReplayedSepsets(sepsets', plan', outcomes') = ReplayedSepsets(sepsets, plan, outcomes)
       /\ ReplayedPmax(pmax', outcomes') = ReplayedPmax(pmax, outcomes)
  <2>1. /\ sepsets' \in [Cell -> SUBSET Vertex]
        /\ pmax' \in [Cell -> PValue \cup {MinusInfinity}]
    BY <1>1, ReplayType DEF FrontierInv, TypeOK
  <2>2. QED
    BY <1>1, <2>1, ReplayNothing
<1>11. {Levels!Cells(e) : e \in Levels!RemovedEdges(outcomes)}
         = {Cells(e) : e \in RemovedEdges(outcomes)}
  BY SameOps
<1>12. QED
  BY <1>1, <1>5, <1>6, <1>9, <1>10, <1>11, SameOps, SamePlan DEF Levels!CommitLevel

\* The frontier engine, whatever order its waves run in, computes what the
\* sequential engine computes: every behaviour of it is one of SkeletonLevels.
THEOREM FrontierImplementsLevels == Spec => RefinesLevels
<1>1. Init => FrontierInv /\ PlanInv /\ Levels!Start
  BY InitInv, PlanInvInit, InitRefines
<1>2. FrontierInv /\ PlanInv /\ [Next]_vars => FrontierInv' /\ PlanInv'
  BY NextInv, PlanInvNext
<1>3. FrontierInv /\ PlanInv /\ [Next]_vars => [Levels!Next]_(Levels!levelVars)
  <2> SUFFICES ASSUME FrontierInv, PlanInv, [Next]_vars
               PROVE  Levels!Next \/ UNCHANGED Levels!levelVars
    OBVIOUS
  <2>1. CASE BeginLevel \/ SelectGroup \/ StartWave \/ UNCHANGED vars
    BY <2>1, StutterRefines
  <2>2. ASSUME NEW e \in Edge, NEW p \in PossibleP(e), Consume(e, p)
        PROVE  Levels!Next
    <3>1. p \in PValue
      BY DEF PossibleP
    <3>2. QED
      BY <2>2, <3>1, ConsumeRefines
  <2>3. CASE CommitLevel
    BY <2>3, CommitRefines DEF Levels!Next
  <2>4. CASE Fail
    BY <2>4, FailRefines DEF Levels!Next
  <2>5. QED
    BY <2>1, <2>2, <2>3, <2>4
       DEF Next, Progress, Returned, AdvanceDeleted, AdvanceExhausted, AdvanceRequeued
<1>4. QED
  BY <1>1, <1>2, <1>3, PTL DEF Spec, RefinesLevels, Levels!Spec

-----------------------------------------------------------------------------
(* In permutation mode the tests draw from R's stream in pcalg order.      *)

\* The wave is one task, the first in pcalg order among the edges' next tasks.
StreamInv ==
  LegacyRPermutation =>
    /\ Len(wave) <= 1
    /\ \A k \in DOMAIN wave : \E e \in Edge :
         /\ wave[k] = {e}
         /\ \A f \in Unfinished :
              f # e => PcalgTaskLess(NextTask(e), NextTask(f))

LEMMA StreamInvEmpty ==
  ASSUME wave = << >>
  PROVE  StreamInv
<1>1. Len(wave) = 0 /\ DOMAIN wave = {}
  OBVIOUS
<1>2. QED
  BY <1>1 DEF StreamInv

LEMMA StreamInvSelect ==
  ASSUME FrontierInv, SelectGroup
  PROVE  StreamInv'
<1> SUFFICES ASSUME LegacyRPermutation
             PROVE  StreamInv'
  BY DEF StreamInv
<1>1. wave = << >>
  <2>1. Len(wave) < 1 /\ wave \in Seq(SUBSET Edge)
    BY WaveAssumption DEF SelectGroup, FrontierInv, TypeOK
  <2>2. QED
    BY <2>1
<1>2. PICK S \in Buckets : \E e \in ready[S] : SelectTask(S, e)
  BY DEF SelectGroup, SelectBucket
<1>3. PICK e \in ready[S] : SelectTask(S, e)
  BY <1>2
<1>4. /\ ready \in [SUBSET Vertex -> SUBSET Edge] /\ plan \in [Edge -> Seq(Task)]
      /\ edge_positions \in [Edge -> Nat]
  BY DEF FrontierInv, TypeOK
<1>5. e \in Edge /\ wave' = <<{e}>>
  BY <1>1, <1>4, <1>3 DEF SelectTask, Buckets
<1>6. UNCHANGED <<plan, edge_positions>>
  BY DEF SelectGroup, frontierVars
<1>7. ASSUME NEW f \in Unfinished, f # e
      PROVE  PcalgTaskLess(NextTask(e), NextTask(f))
  <2>1. f \in ready[NextTask(f).S]
    BY <1>1 DEF FrontierInv, FrontierPartition, NoEdgeLost
  <2>2. NextTask(f).S \in SUBSET Vertex
    <3>1. f \in Edge /\ edge_positions[f] + 1 \in DOMAIN plan[f]
      BY <1>4 DEF Unfinished
    <3>2. NextTask(f) \in Task
      BY <1>4, <3>1 DEF NextTask
    <3>3. QED
      BY <3>2 DEF Task
  <2>3. NextTask(f).S \in Buckets
    BY <2>1, <2>2 DEF Buckets
  <2>4. QED
    BY <1>3, <1>7, <2>1, <2>3 DEF SelectTask
<1>8. Unfinished' = Unfinished /\ \A f : NextTask(f)' = NextTask(f)
  BY <1>6 DEF Unfinished, NextTask
<1>9. Len(wave') = 1 /\ \A k \in DOMAIN wave' : wave'[k] = {e}
  BY <1>5
<1>10. QED
  BY <1>5, <1>7, <1>8, <1>9 DEF StreamInv

LEMMA StreamInvConsume ==
  ASSUME FrontierInv, StreamInv, NEW e \in Edge, NEW p, Consume(e, p)
  PROVE  StreamInv'
<1> SUFFICES ASSUME LegacyRPermutation
             PROVE  StreamInv'
  BY DEF StreamInv
<1>1. wave \in Seq(SUBSET Edge) /\ wave # << >> /\ Len(wave) <= 1
  BY DEF FrontierInv, TypeOK, WavePhase, Consume, StreamInv
<1>2. Len(wave) = 1 /\ 1 \in DOMAIN wave
  <2>1. Len(wave) \in Nat /\ Len(wave) # 0
    BY <1>1
  <2>2. Len(wave) = 1
    <3> DEFINE n == Len(wave)
    <3>1. n \in Nat /\ n # 0 /\ n <= 1
      BY <1>1, <2>1
    <3> HIDE DEF n
    <3>2. n = 1
      BY <3>1
    <3>3. QED
      BY <3>2 DEF n
  <2>3. QED
    BY <1>1, <2>2
<1>3. wave[1] = {e}
  BY <1>2 DEF StreamInv, Consume
<1>4. wave' = Tail(wave)
  BY <1>3 DEF Consume, LeaveGroup, WithoutEdge
<1>5. wave' = << >>
  BY <1>1, <1>2, <1>4
<1>6. QED
  BY <1>5 DEF StreamInv

LEMMA StreamInvNext ==
  ASSUME FrontierInv, StreamInv, [Next]_vars
  PROVE  StreamInv'
<1>1. CASE BeginLevel
  BY <1>1 DEF BeginLevel, FrontierInv, WavePhase, StreamInv
<1>2. CASE SelectGroup
  BY <1>2, StreamInvSelect
<1>3. CASE StartWave \/ UNCHANGED vars
  <2>1. UNCHANGED <<wave, plan, edge_positions>>
    BY <1>3 DEF StartWave, vars, frontierVars
  <2>2. Unfinished' = Unfinished /\ \A f : NextTask(f)' = NextTask(f)
    BY <2>1 DEF Unfinished, NextTask
  <2>3. QED
    BY <2>1, <2>2 DEF StreamInv
<1>4. ASSUME NEW e \in Edge, NEW p \in PossibleP(e), Consume(e, p)
      PROVE  StreamInv'
  BY <1>4, StreamInvConsume
<1>5. CASE CommitLevel \/ Fail
  <2>1. wave' = << >>
    BY <1>5, CommitLevelInv, FailInv DEF CommitLevel, Fail, FrontierInv, WavePhase
  <2>2. QED
    BY <2>1 DEF StreamInv
<1>6. QED
  BY <1>1, <1>2, <1>3, <1>4, <1>5
     DEF Next, Progress, Returned, AdvanceDeleted, AdvanceExhausted, AdvanceRequeued

LEMMA ConsumeInOrder ==
  ASSUME FrontierInv, PlanInv, StreamInv, LegacyRPermutation,
         NEW e \in Edge, NEW p \in PValue, Consume(e, p)
  PROVE  StreamOrderKept
<1> DEFINE i == edge_positions[e] + 1
<1>1. /\ i \in DOMAIN plan[e] /\ phase # "plan" /\ plan = MakeLayerPlan(adj, level)
      /\ \A t \in DOMAIN outcomes' \ DOMAIN outcomes : t = <<e, i>>
  <2>1. i \in DOMAIN plan[e] /\ DOMAIN outcomes' = DOMAIN outcomes \cup {<<e, i>>}
    BY ConsumeOutcome
  <2>2. phase # "plan" /\ plan = MakeLayerPlan(adj, level)
    BY DEF Consume, PlanInv
  <2>3. QED
    BY <2>1, <2>2
<1>2. /\ plan \in [Edge -> Seq(Task)] /\ edge_positions \in [Edge -> Nat] /\ level \in Nat
      /\ wave \in Seq(SUBSET Edge)
  BY DEF FrontierInv, TypeOK
<1>3. ASSUME NEW f \in Unfinished, f # e
      PROVE  PcalgTaskLess(plan[e][i], NextTask(f))
  <2>1. 1 \in DOMAIN wave /\ e \in wave[1]
    BY <1>2 DEF FrontierInv, WavePhase, Consume
  <2>2. QED
    BY <1>3, <2>1 DEF StreamInv, NextTask
<1> HIDE DEF i
<1>4. ASSUME NEW s \in TaskIds(plan), PcalgTaskLess(plan[s[1]][s[2]], plan[e][i]),
             s[1] \notin RemovedEdges(outcomes)
      PROVE  s \in DOMAIN outcomes
  <2> DEFINE f == s[1]
             j == s[2]
  <2>1. s = <<f, j>> /\ f \in Edge /\ j \in DOMAIN plan[f]
    BY TaskIdsShape
  <2> HIDE DEF f, j
  <2>2. SUFFICES ASSUME s \notin DOMAIN outcomes
                 PROVE  FALSE
    OBVIOUS
  <2>3. ~(j <= edge_positions[f])
    BY <1>1, <1>4, <2>1, <2>2 DEF FrontierInv, ConsumedPrefix, f
  <2>4. /\ edge_positions[f] \in Nat /\ j \in Nat /\ edge_positions[f] + 1 <= j
        /\ j <= Len(plan[f]) /\ edge_positions[f] + 1 \in DOMAIN plan[f]
        /\ f \in Unfinished
    BY <1>2, <2>1, <2>3 DEF Unfinished
  <2>5. /\ plan[f][j] \in Task /\ NextTask(f) \in Task /\ plan[e][i] \in Task
        /\ NextTask(f) = plan[f][edge_positions[f] + 1]
    BY <1>1, <1>2, <2>1, <2>4 DEF NextTask
  <2>6. NextTask(f) = plan[f][j] \/ PcalgTaskLess(NextTask(f), plan[f][j])
    <3>1. CASE j = edge_positions[f] + 1
      BY <2>5, <3>1
    <3>2. CASE edge_positions[f] + 1 < j
      BY <1>1, <1>2, <2>1, <2>4, <2>5, <3>2, PlanAscends
    <3>3. QED
      BY <2>4, <3>1, <3>2
  <2>7. NextTask(f) = plan[e][i] \/ PcalgTaskLess(plan[e][i], NextTask(f))
    BY <1>3, <2>4 DEF NextTask, i
  <2>8. PcalgTaskLess(plan[f][j], plan[e][i])
    BY <1>4 DEF f, j
  <2>9. QED
    BY <2>5, <2>6, <2>7, <2>8, PcalgOrder
<1>5. <<e, i>>[1] = e /\ <<e, i>>[2] = i
  OBVIOUS
<1>6. QED
  BY <1>1, <1>4, <1>5 DEF StreamOrderKept

\* In permutation mode a task runs only when every task before it in pcalg
\* order has run or lost its edge, so the tests consume R's random stream in
\* the order of the sequential engine (pcalg_task_less).
THEOREM PermutationOrder == Spec => [][LegacyRPermutation => StreamOrderKept]_vars
<1>1. Init => FrontierInv /\ PlanInv /\ StreamInv
  BY InitInv, PlanInvInit, StreamInvEmpty DEF Init, Blank
<1>2. FrontierInv /\ PlanInv /\ StreamInv /\ [Next]_vars
        => FrontierInv' /\ PlanInv' /\ StreamInv'
  BY NextInv, PlanInvNext, StreamInvNext
<1>3. FrontierInv /\ PlanInv /\ StreamInv /\ [Next]_vars
        => [LegacyRPermutation => StreamOrderKept]_vars
  <2> SUFFICES ASSUME FrontierInv, PlanInv, StreamInv, Next, LegacyRPermutation
               PROVE  StreamOrderKept
    OBVIOUS
  <2>1. CASE outcomes' = outcomes \/ outcomes' = NoOutcome
    BY <2>1 DEF StreamOrderKept, NoOutcome
  <2>2. ASSUME NEW e \in Edge, NEW p \in PossibleP(e), Consume(e, p)
        PROVE  StreamOrderKept
    <3>1. p \in PValue
      BY DEF PossibleP
    <3>2. QED
      BY <2>2, <3>1, ConsumeInOrder
  <2>3. QED
    BY <2>1, <2>2
       DEF Next, Progress, Returned, AdvanceDeleted, AdvanceExhausted, AdvanceRequeued,
           BeginLevel, SelectGroup, StartWave, CommitLevel, Fail, vars, frontierVars
<1>4. QED
  BY <1>1, <1>2, <1>3, PTL DEF Spec

=============================================================================
