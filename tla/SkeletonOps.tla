---------------------------- MODULE SkeletonOps ----------------------------
(***************************************************************************)
(* What the skeleton engines share: the p-values, the deletion rule, the   *)
(* replay of a level's outcomes into sepsets and pmax, and the initial     *)
(* result.  An outcome function pv maps the tasks <<e, i>> tested in a     *)
(* level to their p-values.                                                *)
(*                                                                         *)
(* p-values are numbers of 0 .. PTop (only their order matters), PTop      *)
(* standing for 1.0; MinusInfinity is the initial pmax.                    *)
(***************************************************************************)
EXTENDS LayerPlan

CONSTANTS Alpha,     \* significance level
          PTop,      \* the p-value 1.0
          MaxLevel   \* max_conditioning_size

ASSUME AlphaAssumption == Alpha \in Int
ASSUME PTopAssumption == PTop \in Nat
ASSUME MaxLevelAssumption == MaxLevel \in Nat

PValue == 0 .. PTop

MinusInfinity == -1

\* The decision of every engine: p >= alpha removes the edge.
Independent(p) == p >= Alpha

\* Both matrix cells of an edge, and the edge a cell belongs to.
Cells(e) == {e, <<e[2], e[1]>>}

EdgeOf(c) == IF c[1] < c[2] THEN c ELSE <<c[2], c[1]>>

-----------------------------------------------------------------------------
\* Outcome functions: none yet, and one more task's p-value.
NoOutcome == [t \in {} |-> 0]

WithOutcome(pv, t, p) ==
  [u \in DOMAIN pv \cup {t} |-> IF u = t THEN p ELSE pv[u]]

\* The tasks with an independent outcome, and the edges they remove.
Separators(pv) == {t \in DOMAIN pv : Independent(pv[t])}

RemovedEdges(pv) == {t[1] : t \in Separators(pv)}

\* A task is reached by a sequential pass when every earlier task of its edge
\* was tested and found dependent.
Reached(pv, e, i) ==
  \A j \in 1 .. i - 1 : <<e, j>> \in DOMAIN pv /\ ~Independent(pv[<<e, j>>])

\* Every task of the plan that the sequential pass reaches has its outcome.
PassComplete(plan, pv) ==
  \A e \in Edge : \A i \in DOMAIN plan[e] :
    Reached(pv, e, i) => <<e, i>> \in DOMAIN pv

\* What one tested task writes: pmax moves up on both cells of its edge, and
\* an independent outcome records the conditioning set on both.
PmaxWith(pmax, e, p) ==
  [c \in Cell |-> IF c \in Cells(e) /\ p > pmax[c] THEN p ELSE pmax[c]]

SepsetsWith(sepsets, e, S, p) ==
  [c \in Cell |-> IF c \in Cells(e) /\ Independent(p) THEN S ELSE sepsets[c]]

\* What a replay of all the tasks of pv writes.
ReplayedSepsets(sepsets, plan, pv) ==
  [c \in Cell |->
     IF EdgeOf(c) \in RemovedEdges(pv)
     THEN LET t == CHOOSE t \in Separators(pv) : t[1] = EdgeOf(c)
          IN  plan[t[1]][t[2]].S
     ELSE sepsets[c]]

\* (Mutant: the reverse cell keeps its old pmax.)
MutReplayedPmax(pmax, pv) ==
  [c \in Cell |->
     Max({pmax[c]} \cup {pv[t] : t \in {u \in DOMAIN pv : u[1] = c}})]

ReplayedPmax(pmax, pv) ==
  [c \in Cell |->
     Max({pmax[c]} \cup {pv[t] : t \in {u \in DOMAIN pv : u[1] = EdgeOf(c)}})]

-----------------------------------------------------------------------------
\* Before level 0: the complete graph, no separating set, no p-value.
InitialAdjacency == {c \in Cell : c[1] # c[2]}

InitialSepsets == [c \in Cell |-> {}]

InitialPmax == [c \in Cell |-> IF c[1] = c[2] THEN PTop ELSE MinusInfinity]

=============================================================================
