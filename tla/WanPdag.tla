------------------------------ MODULE WanPdag ------------------------------
(***************************************************************************)
(* The orientation phase: orient_wanpdag_native of wanpdag_engine.cpp.     *)
(*                                                                         *)
(* The engine starts from a skeleton and its separating sets, orients the  *)
(* colliders, then visits the vertices by the size of their undirected     *)
(* neighbourhoods and tries to orient a subset S of the neighbours of V    *)
(* into V.  Whether V regressed on S and its parents is independent of S,  *)
(* and whether a member of S could be regressed the other way round, are   *)
(* statistical verdicts: they are chosen freely for every call.            *)
(*                                                                         *)
(* Its rules are those of orientation_matrix.cpp and                       *)
(* orientation_rules.cpp.  A pdag gives every ordered pair of variables 0  *)
(* (no edge), 1 (present) or 2 (conflict); a -- b is 1/1, a -> b is 1/0.   *)
(* The code edits one matrix while it scans pairs it listed before the     *)
(* scan, so each scan is a nest of loops whose edits are chosen by the     *)
(* matrix g it started from and applied to the matrix h of the moment.     *)
(***************************************************************************)
EXTENDS LayerPlan, SequencesExt

Pdag == [Vertex \X Vertex -> 0 .. 2]

AnyEdge(g, a, b) == g[<<a, b>>] # 0 \/ g[<<b, a>>] # 0
Undirected(g, a, b) == g[<<a, b>>] = 1 /\ g[<<b, a>>] = 1
Directed(g, a, b) == g[<<a, b>>] = 1 /\ g[<<b, a>>] = 0

SetDirected(g, a, b) == [g EXCEPT ![<<a, b>>] = 1, ![<<b, a>>] = 0]
SetConflict(g, a, b) == [g EXCEPT ![<<a, b>>] = 2, ![<<b, a>>] = 2]

Parents(g, v) == {u \in Vertex \ {v} : Directed(g, u, v)}

\* orient_edge: what the collider phase does with one arrow.
OrientEdge(g, from, to, solve) ==
    CASE ~solve                         -> SetDirected(g, from, to)
      [] solve /\ g[<<from, to>>] = 1   -> [g EXCEPT ![<<to, from>>] = 0]
      [] solve /\ g[<<from, to>>] # 1   -> SetConflict(g, from, to)

\* orient_rule_edge
OrientRuleEdge(g, from, to, solve) ==
    CASE ~solve \/ Undirected(g, from, to)       -> SetDirected(g, from, to)
      [] solve /\ Directed(g, to, from)          -> SetConflict(g, from, to)
      [] OTHER                                   -> g

\* for (v = 0; v < P; ++v): edit[v] is what the body does to a matrix for v.
Loop(edit) ==
    [g \in Pdag |->
        LET after[k \in 0 .. P] == IF k = 0 THEN g ELSE edit[k - 1][after[k - 1]]
        IN  after[P]]

\* A body that does nothing.
Skip == [h \in Pdag |-> h]

-----------------------------------------------------------------------------
(* Colliders x -> y <- z.                                                  *)

\* sepset is a function on unordered pairs of vertices.
IsCollider(g, sepset, x, y, z) ==
    /\ x # y /\ z \notin {x, y}
    /\ g[<<x, y>>] # 0 /\ g[<<y, z>>] # 0
    /\ ~AnyEdge(g, x, z)
    /\ y \notin sepset[{x, z}]

\* The scan looks at the matrix it is editing.
MutOrientCollider(h, x, y, z, solve) ==
    IF h[<<x, y>>] = 0 THEN h
    ELSE OrientEdge(OrientEdge(h, x, y, solve), z, y, solve)

OrientCollider(h, x, y, z, solve) ==
    OrientEdge(OrientEdge(h, x, y, solve), z, y, solve)

CollidersAt(g, sepset, solve, x, y) ==
    [z \in Vertex |->
        IF IsCollider(g, sepset, x, y, z)
        THEN [h \in Pdag |-> OrientCollider(h, x, y, z, solve)] ELSE Skip]

CollidersInto(g, sepset, solve, y) ==
    [x \in Vertex |-> Loop(CollidersAt(g, sepset, solve, x, y))]

\* orient_colliders: the pairs x, y columns first, then z; tests the initial
\* matrix, edits the current one.
OrientColliders(g, sepset, solve) ==
    Loop([y \in Vertex |-> Loop(CollidersInto(g, sepset, solve, y))])[g]

-----------------------------------------------------------------------------
(* The three propagation rules.                                            *)

\* Any edge b ~ c will do, an oriented one too.
MutRule1Applies(g, a, b, c) == c \notin {a, b} /\ AnyEdge(g, b, c) /\ ~AnyEdge(g, a, c)

\* a -> b -- c with a and c not adjacent.
Rule1Applies(g, a, b, c) == c \notin {a, b} /\ Undirected(g, b, c) /\ ~AnyEdge(g, a, c)

Rule1From(solve, a, b) ==
    [c \in Vertex |->
        [h \in Pdag |-> IF Rule1Applies(h, a, b, c)
                        THEN OrientRuleEdge(h, b, c, solve) ELSE h]]

Rule1Column(g, solve, b) ==
    [a \in Vertex |-> IF a # b /\ Directed(g, a, b)
                      THEN Loop(Rule1From(solve, a, b)) ELSE Skip]

\* The listed pairs are visited as R's which(arr.ind = TRUE) gives them:
\* columns first.
ApplyRule1(g, solve) == Loop([b \in Vertex |-> Loop(Rule1Column(g, solve, b))])[g]

\* a -- b with a -> c -> b.
Rule2Applies(g, a, b) ==
    /\ Undirected(g, a, b)
    /\ \E c \in Vertex \ {a, b} : Directed(g, a, c) /\ Directed(g, c, b)

Rule2Column(g, solve, b) ==
    [a \in Vertex |->
        IF a # b /\ Undirected(g, a, b)
        THEN [h \in Pdag |-> IF Rule2Applies(h, a, b)
                             THEN OrientRuleEdge(h, a, b, solve) ELSE h]
        ELSE Skip]

ApplyRule2(g, solve) == Loop([b \in Vertex |-> Loop(Rule2Column(g, solve, b))])[g]

\* a -- b with a -- c1 -> b, a -- c2 -> b and c1, c2 not adjacent.
Rule3Applies(g, a, b) ==
    /\ Undirected(g, a, b)
    /\ \E c1, c2 \in {c \in Vertex \ {a, b} : Undirected(g, a, c) /\ Directed(g, c, b)} :
            c1 # c2 /\ ~AnyEdge(g, c1, c2)

Rule3Column(g, solve, b) ==
    [a \in Vertex |->
        IF a # b /\ Undirected(g, a, b)
        THEN [h \in Pdag |-> IF Rule3Applies(h, a, b)
                             THEN OrientRuleEdge(h, a, b, solve) ELSE h]
        ELSE Skip]

ApplyRule3(g, solve) == Loop([b \in Vertex |-> Loop(Rule3Column(g, solve, b))])[g]

\* One pass of apply_rules_until_converged.
ApplyRules(g, solve) == ApplyRule3(ApplyRule2(ApplyRule1(g, solve), solve), solve)

-----------------------------------------------------------------------------
\* check_immor: S is a clique adjacent to every parent of v, so S -> v makes
\* no new unshielded collider at v.
CheckImmor(g, v, S) ==
    /\ \A a, b \in S : a # b => AnyEdge(g, a, b)
    /\ \A u \in Parents(g, v), a \in S : AnyEdge(g, u, a)

UndirectedNeighborhoods(g) ==
    [a \in Vertex |-> {b \in Vertex \ {a} : Undirected(g, a, b)}]

-----------------------------------------------------------------------------
(* The engine.                                                             *)

VARIABLES
    adjacency,      \* the skeleton, as a pdag of undirected edges
    sepset,         \* its separating sets
    solve_confl,    \* option: record conflicting arrows instead of overwriting
    pdag,
    neighborhoods,  \* undirected neighbours, recomputed after an acceptance
    nbhd_updated,   \* the vertices accepted at least once
    s,              \* size of the neighbourhoods visited
    V,              \* the vertex visited
    s2,             \* size of the subsets tried
    subsets,        \* the subsets of size s2 still to try
    phase

vars == <<adjacency, sepset, solve_confl, pdag, neighborhoods, nbhd_updated,
          s, V, s2, subsets, phase>>
input == <<adjacency, sepset, solve_confl>>

Pair == {e \in SUBSET Vertex : Cardinality(e) = 2}

\* A skeleton the level search can produce: an edge is deleted at the level
\* of its separating set's size, drawn from the neighbours one of its ends
\* has at the start of that level.
SkeletonResult(adj, sep) ==
    \A e \in Pair \ adj : \E u \in e :
        \A y \in sep[e] :
            \/ {u, y} \in adj
            \/ Cardinality(sep[{u, y}]) >= Cardinality(sep[e])

\* The separating sets, given by the ranks of their members among the other
\* vertices.
Others(e) == SetToSortSeq(Vertex \ e, <)

SepsetOf(pick) ==
    [e \in Pair |-> IF e \in DOMAIN pick THEN {Others(e)[k] : k \in pick[e]} ELSE {}]

Init ==
    /\ \E adj \in SUBSET Pair : \E pick \in [Pair \ adj -> SUBSET (1 .. P - 2)] :
        /\ adjacency = [e \in Vertex \X Vertex |-> IF {e[1], e[2]} \in adj THEN 1 ELSE 0]
        /\ sepset = SepsetOf(pick)
        /\ SkeletonResult(adj, sepset)
    /\ solve_confl \in BOOLEAN
    /\ pdag = adjacency
    /\ neighborhoods = [v \in Vertex |-> {}]
    /\ nbhd_updated = {}
    /\ s = 1 /\ V = 0 /\ s2 = 0 /\ subsets = <<>>
    /\ phase = "collider"

\* A graph without edges is returned as it is.
Colliders ==
    /\ phase = "collider"
    /\ LET g == OrientColliders(pdag, sepset, solve_confl)
       IN  pdag' = g /\ neighborhoods' = UndirectedNeighborhoods(g)
    /\ phase' = IF \A e \in DOMAIN pdag : pdag[e] = 0 THEN "done" ELSE "size"
    /\ UNCHANGED <<input, nbhd_updated, s, V, s2, subsets>>

\* while (max_neighborhood_size(neighborhoods) >= s)
MoreSizes == \E v \in Vertex : Cardinality(neighborhoods[v]) >= s

NextSize ==
    /\ phase = "size"
    /\ phase' = IF MoreSizes THEN "vertex" ELSE "done"
    /\ V' = 0
    /\ UNCHANGED <<input, pdag, neighborhoods, nbhd_updated, s, s2, subsets>>

Eligible ==
    LET size == Cardinality(neighborhoods[V])
    IN  size = s \/ (size < s /\ V \in nbhd_updated)

\* for (V ...): a vertex of another size is passed over.
VisitVertex ==
    /\ phase = "vertex" /\ V < P
    /\ LET size == Cardinality(neighborhoods[V])
       IN  IF Eligible /\ size > 0
           THEN /\ s2' = size
                /\ subsets' = EnumerateCombinations(neighborhoods[V], size)
                /\ phase' = "subset"
                /\ UNCHANGED V
           ELSE V' = V + 1 /\ UNCHANGED <<s2, subsets, phase>>
    /\ UNCHANGED <<input, pdag, neighborhoods, nbhd_updated, s>>

EndOfRound ==
    /\ phase = "vertex" /\ V = P
    /\ s' = s + 1
    /\ phase' = "size"
    /\ UNCHANGED <<input, pdag, neighborhoods, nbhd_updated, V, s2, subsets>>

\* The next subset, the next smaller size, or the next vertex.
NextSubset ==
    \/ /\ Len(subsets) > 1
       /\ subsets' = Tail(subsets)
       /\ UNCHANGED <<s2, V, phase>>
    \/ /\ Len(subsets) = 1 /\ s2 > 1
       /\ s2' = s2 - 1
       /\ subsets' = EnumerateCombinations(neighborhoods[V], s2 - 1)
       /\ UNCHANGED <<V, phase>>
    \/ /\ Len(subsets) = 1 /\ s2 = 1
       /\ s2' = 0 /\ subsets' = <<>> /\ V' = V + 1 /\ phase' = "vertex"

\* A member W of S has a candidate subset with V in it, so a reverse
\* regression is tried and may be accepted.
ReversePossible(S) ==
    \E W \in S : \E S2 \in SUBSET neighborhoods[W] :
        V \in S2 /\ CheckImmor(pdag, W, S2)

\* S is refused: it would make an immorality, the residual of V stays
\* dependent on S, or a reverse regression is accepted.
Refuse ==
    /\ phase = "subset"
    /\ \E dependent, reverse \in BOOLEAN :
        /\ reverse => ReversePossible(Head(subsets))
        /\ ~CheckImmor(pdag, V, Head(subsets)) \/ dependent \/ reverse
    /\ NextSubset
    /\ UNCHANGED <<input, pdag, neighborhoods, nbhd_updated, s>>

\* apply_generalized_orientation: S -> V, and V -> the other neighbours that
\* are still undirected.
ApplyGeneralized(g, v, S, nbhd) ==
    LET out == {b \in nbhd \ S : Undirected(g, v, b)}
    IN  [e \in DOMAIN g |->
            CASE (e[2] = v /\ e[1] \in S) \/ (e[1] = v /\ e[2] \in out) -> 1
              [] (e[1] = v /\ e[2] \in S) \/ (e[2] = v /\ e[1] \in out) -> 0
              [] OTHER -> g[e]]

Accept ==
    /\ phase = "subset"
    /\ CheckImmor(pdag, V, Head(subsets))
    /\ pdag' = ApplyGeneralized(pdag, V, Head(subsets), neighborhoods[V])
    /\ phase' = "rules"
    /\ UNCHANGED <<input, neighborhoods, nbhd_updated, s, V, s2, subsets>>

MutConverged(g) == TRUE
Converged(g) == ApplyRules(g, solve_confl) = g

\* apply_rules_until_converged, pass by pass.
RulePass ==
    /\ phase = "rules"
    /\ ~Converged(pdag)
    /\ pdag' = ApplyRules(pdag, solve_confl)
    /\ UNCHANGED <<input, neighborhoods, nbhd_updated, s, V, s2, subsets, phase>>

Refreshed(g) == UndirectedNeighborhoods(g)

\* A pass changed nothing: refresh the neighbourhoods and leave V.
RulesDone ==
    /\ phase = "rules"
    /\ Converged(pdag)
    /\ neighborhoods' = Refreshed(pdag)
    /\ nbhd_updated' = nbhd_updated \cup {V}
    /\ s2' = 0 /\ subsets' = <<>> /\ V' = V + 1 /\ phase' = "vertex"
    /\ UNCHANGED <<input, pdag, s>>

Done == phase = "done" /\ UNCHANGED vars

Next == Colliders \/ NextSize \/ VisitVertex \/ EndOfRound \/ Refuse \/ Accept
          \/ RulePass \/ RulesDone \/ Done

\* One thread that never waits.
Spec == Init /\ [][Next]_vars /\ WF_vars(Next)

-----------------------------------------------------------------------------
\* Every variable ranges over its type; the rounds end with the largest
\* neighbourhood, so s never passes P.
TypeOK ==
    /\ pdag \in Pdag
    /\ neighborhoods \in [Vertex -> SUBSET Vertex]
    /\ nbhd_updated \subseteq Vertex
    /\ s \in 1 .. P /\ V \in 0 .. P /\ s2 \in 0 .. P - 1
    /\ \A k \in DOMAIN subsets : subsets[k] \subseteq neighborhoods[V]
    /\ phase \in {"collider", "size", "vertex", "subset", "rules", "done"}

\* Orientation never adds or drops an adjacency of the skeleton, and only
\* solve_confl leaves conflict marks, always on both sides of an edge.
SkeletonKept ==
    \A a, b \in Vertex : a # b =>
        /\ AnyEdge(pdag, a, b) <=> AnyEdge(adjacency, a, b)
        /\ pdag[<<a, b>>] = 2 => pdag[<<b, a>>] = 2 /\ solve_confl

\* What the collider phase means: an edge is oriented into each end that is
\* the middle of a collider using it.  Both ends: a conflict mark, or, without
\* solve_confl, the end scanned last wins.
ColliderReference ==
    LET Into(a, b) == \E z \in Vertex : IsCollider(adjacency, sepset, a, b, z)
    IN  [e \in Vertex \X Vertex |->
            LET a == e[1]
                b == e[2]
            IN  CASE ~AnyEdge(adjacency, a, b) -> 0
                  [] Into(a, b) /\ Into(b, a)  -> IF solve_confl THEN 2
                                                  ELSE IF a < b THEN 1 ELSE 0
                  [] OTHER                     -> IF Into(b, a) THEN 0 ELSE 1]

\* Until the first acceptance the graph is the one the collider rule defines,
\* whatever order the scan meets the triples in.
CollidersMatch ==
    phase \in {"size", "vertex", "subset", "done"} /\ nbhd_updated = {}
        => pdag = ColliderReference

\* Candidate subsets are drawn from the neighbourhoods of the current graph,
\* never from those of before an acceptance.
NeighborhoodsFresh ==
    phase \in {"size", "vertex", "subset"} =>
        neighborhoods = UndirectedNeighborhoods(pdag)

\* An accepted vertex has no undirected edge left: visiting it again under
\* nbhd_updated never finds anything to try.
UpdatedIsSettled ==
    \A v \in nbhd_updated : neighborhoods[v] = {}

\* Whenever the search goes on after an acceptance no rule applies: the passes
\* over stale pair lists do reach the closure the rules define.
RulesClosed ==
    phase \in {"size", "vertex", "subset", "done"} /\ nbhd_updated # {} =>
        \A a, b \in Vertex : a # b =>
            /\ ~Rule2Applies(pdag, a, b) /\ ~Rule3Applies(pdag, a, b)
            /\ \A c \in Vertex : Directed(pdag, a, b) /\ c \notin {a, b}
                  => AnyEdge(pdag, a, c) \/ ~Undirected(pdag, b, c)

\* After the collider phase an arrow is final: no acceptance and no rule turns
\* it round, erases it or marks it as a conflict; and a pass of the rules that
\* asks for another one has turned an undirected edge into an arrow.
OrientationKept ==
    phase # "collider" =>
        /\ \A a, b \in Vertex :
              a # b /\ Directed(pdag, a, b) => Directed(pdag', a, b)
        /\ pdag # pdag' => \E a, b \in Vertex :
              Undirected(pdag, a, b) /\ Directed(pdag', a, b)

\* Between acceptances the search sees one consistent graph: the adjacencies
\* of the skeleton, neighbourhoods of the current graph, no edge left at an
\* accepted vertex and no rule to apply; until the first acceptance it is the
\* graph the collider rule defines.
SearchSound ==
    /\ CollidersMatch
    /\ SkeletonKept
    /\ NeighborhoodsFresh
    /\ UpdatedIsSettled
    /\ RulesClosed

\* OrientationKept, of every step.
OrientationsKept == [][OrientationKept]_vars
=============================================================================
