-------------------------- MODULE FastSplineBatch --------------------------
(***************************************************************************)
(* The batched fast-spline residual fits on the device:                    *)
(* fastkpc/src/cuda/fastspline_batched_solver.cu and                       *)
(* fastspline_residual_cuda.cu.                                            *)
(*                                                                         *)
(* A call carries requests (a target and its conditioning set).  They are  *)
(* grouped by the shape of their designs; a group of one is fitted alone,  *)
(* a group that is too wide goes to the CPU, and any other group is solved *)
(* at once: designs are stored once per group, every fit is scored at all  *)
(* smoothing parameters lambda under a growing ridge until it has one      *)
(* finite score, and the selected factors are shared by the fits that      *)
(* chose the same.  The results are scattered back to the requests.        *)
(*                                                                         *)
(* The scores are inputs: `table` gives for each request its GCV score at  *)
(* every ridge and lambda, or Bad where the candidate has no finite one.   *)
(* What is modelled is which request's vector, design and choice ends up   *)
(* where.                                                                  *)
(***************************************************************************)
EXTENDS Integers, Sequences, FiniteSets, SequencesExt

CONSTANTS
  Datas,        \* the data matrices calls are made with
  Batches,      \* the request sequences calls are made with: <<target, S>>
  Lambdas,      \* size of the lambda grid, ascending
  Ridges,       \* how many ridges fit under the 1e-4 limit
  Tables,       \* the score tables a fit may have
  MaxColumns,   \* kMaxTrueBatchedDesignCols, counted in conditioning columns
  MaxCalls      \* bound on the calls of a behaviour

FastSplineAssumption ==
  /\ Lambdas \in Nat \ {0} /\ Ridges \in Nat \ {0}
  /\ MaxColumns \in Nat /\ MaxCalls \in Nat

Bad == -1

None == <<>>

VARIABLES
  bound,     \* the data the workspace's design cache is bound to
  cache,     \* workspace->design_cache: conditioning set |-> design
  calls,     \* number of calls made
  call,      \* the current call
  table,     \* the score table of every request of the call
  groups,    \* the groups of the call
  g,         \* the current group
  ridge,     \* ridge_attempt of the current group
  active,    \* the fits of the group still without a finite score
  best,      \* best: the choice of every fit of the group
  fits,      \* result.fits, by original index
  pc         \* "idle", "group", "ridge", "select", "returned" or "thrown"

groupVars == <<ridge, active, best>>
vars == <<bound, cache, calls, call, table, groups, g, groupVars, fits, pc>>

\* A design is built from a data matrix and a conditioning set.
Design(data, S) == [data |-> data, S |-> S]

Columns(S) == Cardinality(S)

NotFound == [found |-> FALSE, gcv |-> 0, lambda |-> 0, ridge |-> 0]

NoCall == [data |-> CHOOSE d \in Datas : TRUE, reqs |-> << >>,
           residualOnly |-> FALSE, fallback |-> FALSE, workspace |-> FALSE]

Init ==
  /\ bound = None /\ cache = << >> /\ calls = 0 /\ call = NoCall
  /\ table = << >> /\ groups = << >> /\ g = 1
  /\ ridge = 0 /\ active = {} /\ best = << >>
  /\ fits = << >> /\ pc = "idle"

(* Grouping ***************************************************************)

Bind(data) == IF bound = <<data>> THEN cache ELSE << >>

\* The cache make_fastspline_batch_groups starts from: the workspace's in a
\* residual-only call that has one, else a local one.
StartCache(c) == IF c.residualOnly /\ c.workspace THEN Bind(c.data) ELSE << >>

\* A design is built once and then found under its sorted conditioning set.
WithDesign(designs, c, S) ==
  [T \in DOMAIN designs \cup {S} |->
     IF T \in DOMAIN designs THEN designs[T] ELSE Design(c.data, S)]

IndexIn(seq, x) == CHOOSE i \in DOMAIN seq : seq[i] = x

\* Add request i to the group of its shape, and its design to the group's list.
Place(gs, i, target, S, design) ==
  LET same == {j \in DOMAIN gs : gs[j].cols = Columns(S)}
      all  == IF same # {} THEN gs
              ELSE Append(gs, [cols |-> Columns(S), sets |-> << >>, designs |-> << >>, reqs |-> << >>])
      j    == IF same # {} THEN CHOOSE x \in same : TRUE ELSE Len(all)
      grp  == all[j]
      new  == ~Contains(grp.sets, S)
      sets == IF new THEN Append(grp.sets, S) ELSE grp.sets
  IN  [all EXCEPT ![j] =
         [cols |-> grp.cols, sets |-> sets,
          designs |-> IF new THEN Append(grp.designs, design) ELSE grp.designs,
          reqs |-> Append(grp.reqs, [orig |-> i, target |-> target, S |-> S,
                                     design |-> IndexIn(sets, S)])]]

\* make_fastspline_batch_groups: the final design cache and the groups.
MakeGroups(c, designs0) ==
  FoldLeft(
    LAMBDA acc, i :
      LET S  == c.reqs[i][2]
          ds == WithDesign(acc.designs, c, S)
      IN  [designs |-> ds, groups |-> Place(acc.groups, i, c.reqs[i][1], S, ds[S])],
    [designs |-> designs0, groups |-> << >>], [i \in DOMAIN c.reqs |-> i])

(* The choice of one fit **************************************************)

\* One more candidate of the lambda loop: a smaller score wins, and of two
\* equal ones the smaller lambda.
Better(old, score, lambda, r) ==
  IF score = Bad THEN old
  ELSE IF \/ ~old.found \/ score < old.gcv
          \/ (score = old.gcv /\ lambda < old.lambda)
       THEN [found |-> TRUE, gcv |-> score, lambda |-> lambda, ridge |-> r]
       ELSE old

BestAtRidge(scores, r) ==
  FoldLeft(LAMBDA old, lambda : Better(old, scores[r][lambda], lambda, r),
           NotFound, [lambda \in 1 .. Lambdas |-> lambda])

\* fit_fastspline_residuals_cuda_impl: the first ridge with a finite score.
SingleFitChoice(scores) ==
  LET usable == {r \in 1 .. Ridges : BestAtRidge(scores, r).found}
  IN  IF usable = {} THEN NotFound
      ELSE BestAtRidge(scores, CHOOSE r \in usable : \A q \in usable : r <= q)

(* Calls ******************************************************************)

CpuFit(c, req) ==
  [how |-> "cpu", y |-> req[1], x |-> Design(c.data, req[2]),
   system |-> Design(c.data, req[2]), lambda |-> 0, ridge |-> 0]

DeviceFit(y, x, system, lambda, r) ==
  [how |-> "cuda", y |-> y, x |-> x, system |-> system, lambda |-> lambda, ridge |-> r]

CudaBatchResult(c, tables) ==
  LET made == MakeGroups(c, StartCache(c))
  IN  /\ calls < MaxCalls /\ pc = "idle"
      /\ calls' = calls + 1 /\ call' = c /\ table' = tables
      /\ IF c.residualOnly /\ c.workspace
         THEN bound' = <<c.data>> /\ cache' = made.designs
         ELSE UNCHANGED <<bound, cache>>
      /\ groups' = made.groups /\ g' = 1
      /\ ridge' = 0 /\ active' = {} /\ best' = << >>
      /\ fits' = [i \in DOMAIN c.reqs |-> None]
      /\ pc' = "group"

\* A design that cannot be built: the outer catch fits everything on the CPU,
\* or the call throws.  The designs built before it stay in the cache.
GroupingThrows(c, built) ==
  LET made == MakeGroups([c EXCEPT !.reqs = SubSeq(c.reqs, 1, built)], StartCache(c))
  IN  /\ calls < MaxCalls /\ pc = "idle"
      /\ calls' = calls + 1 /\ call' = c /\ table' = << >>
      /\ IF c.residualOnly /\ c.workspace
         THEN bound' = <<c.data>> /\ cache' = made.designs
         ELSE UNCHANGED <<bound, cache>>
      /\ groups' = << >> /\ g' = 1 /\ ridge' = 0 /\ active' = {} /\ best' = << >>
      /\ fits' = [i \in DOMAIN c.reqs |-> CpuFit(c, c.reqs[i])]
      /\ pc' = IF c.fallback THEN "returned" ELSE "thrown"

Group == groups[g]

\* cpu_fallback_fit for every request of the group; without fallback it throws.
FallBack ==
  /\ IF call.fallback
     THEN /\ fits' = [i \in DOMAIN fits |->
                        IF \E k \in DOMAIN Group.reqs : Group.reqs[k].orig = i
                        THEN CpuFit(call, call.reqs[i]) ELSE fits[i]]
          /\ g' = g + 1 /\ pc' = "group"
     ELSE UNCHANGED <<fits, g>> /\ pc' = "thrown"
  /\ UNCHANGED <<bound, cache, calls, call, table, groups, groupVars>>

\* fit_fastspline_residuals_cuda on a group of one; it builds its own design.
FitSingle ==
  LET req == Group.reqs[1]
      choice == SingleFitChoice(table[req.orig])
      d == Design(call.data, req.S)
  IN  /\ pc = "group" /\ g <= Len(groups) /\ Len(Group.reqs) = 1
      /\ choice.found
      /\ fits' = [fits EXCEPT ![req.orig] =
                    DeviceFit(req.target, d, d, choice.lambda, choice.ridge)]
      /\ g' = g + 1
      /\ UNCHANGED <<bound, cache, calls, call, table, groups, groupVars, pc>>

\* No finite solve, or any CUDA error, in a group of one.
SingleThrows ==
  /\ pc = "group" /\ g <= Len(groups) /\ Len(Group.reqs) = 1
  /\ FallBack

TooWide ==
  /\ pc = "group" /\ g <= Len(groups) /\ Len(Group.reqs) > 1
  /\ Group.cols > MaxColumns
  /\ FallBack

BeginTrueBatch ==
  /\ pc = "group" /\ g <= Len(groups) /\ Len(Group.reqs) > 1
  /\ Group.cols <= MaxColumns
  /\ ridge' = 1
  /\ active' = DOMAIN Group.reqs
  /\ best' = [k \in DOMAIN Group.reqs |-> NotFound]
  /\ pc' = "ridge"
  /\ UNCHANGED <<bound, cache, calls, call, table, groups, g, fits>>

Settled(ridgeBest) == {k \in active : ridgeBest[k].found}

\* The candidate systems of a ridge are factored once per design and scored
\* for every fit; the device's scores of fit k.
ScoresOf(k) == table[Group.reqs[k].orig]

RidgeAttempt ==
  LET ridgeBest == [k \in DOMAIN best |-> BestAtRidge(ScoresOf(k), ridge)]
      settled   == Settled(ridgeBest)
  IN  /\ pc = "ridge"
      /\ best' = [k \in DOMAIN best |-> IF k \in settled THEN ridgeBest[k] ELSE best[k]]
      /\ active' = active \ settled
      /\ ridge' = ridge + 1
      /\ pc' = IF active' = {} \/ ridge = Ridges THEN "select" ELSE "ridge"
      /\ UNCHANGED <<bound, cache, calls, call, table, groups, g, fits>>

\* The key under which fits share a factor.  (Mutant: the design is left out.)
MutFactorKey(k) == <<best[k].lambda, best[k].ridge>>

FactorKey(k) == <<Group.reqs[k].design, best[k].lambda, best[k].ridge>>

\* selected_factor_descriptors, each described by the fit that met it first.
FactorOf(k) ==
  CHOOSE j \in DOMAIN best :
    /\ FactorKey(j) = FactorKey(k)
    /\ \A i \in 1 .. j - 1 : FactorKey(i) # FactorKey(k)

\* The selected solve of fit k: its factor's system, its own vector and rows.
SelectedFit(k) ==
  LET j == FactorOf(k)
  IN  DeviceFit(Group.reqs[k].target, Group.designs[Group.reqs[k].design],
                Group.designs[Group.reqs[j].design], best[j].lambda, best[j].ridge)

\* The group's fits are scattered to result.fits.
SolveSelected ==
  /\ pc = "select" /\ active = {}
  /\ fits' = [i \in DOMAIN fits |->
                IF \E k \in DOMAIN best : Group.reqs[k].orig = i
                THEN SelectedFit(CHOOSE k \in DOMAIN best : Group.reqs[k].orig = i)
                ELSE fits[i]]
  /\ g' = g + 1 /\ pc' = "group"
  /\ UNCHANGED <<bound, cache, calls, call, table, groups, groupVars>>

\* A fit without a finite score, a failed selected solve, a non-finite
\* residual or a CUDA error ends the whole group.
TrueBatchThrows ==
  /\ pc \in {"ridge", "select"}
  /\ FallBack

Return ==
  /\ pc = "group" /\ g > Len(groups)
  /\ pc' = "returned"
  /\ UNCHANGED <<bound, cache, calls, call, table, groups, g, groupVars, fits>>

\* The caller takes the result; only the workspace outlives the call.
Consumed ==
  /\ pc \in {"returned", "thrown"}
  /\ call' = NoCall /\ table' = << >> /\ groups' = << >> /\ g' = 1
  /\ ridge' = 0 /\ active' = {} /\ best' = << >> /\ fits' = << >>
  /\ pc' = "idle"
  /\ UNCHANGED <<bound, cache, calls>>

\* The caller stops after its last call.
Idle ==
  /\ pc = "idle" /\ calls = MaxCalls
  /\ UNCHANGED vars

CallSet == [data : Datas, reqs : Batches, residualOnly : BOOLEAN,
            fallback : BOOLEAN, workspace : BOOLEAN]

Next ==
  \/ \E c \in CallSet :
       \/ \E tables \in [DOMAIN c.reqs -> Tables] : CudaBatchResult(c, tables)
       \/ \E built \in 0 .. Len(c.reqs) - 1 : GroupingThrows(c, built)
  \/ FitSingle \/ SingleThrows \/ TooWide
  \/ BeginTrueBatch \/ RidgeAttempt \/ SolveSelected \/ TrueBatchThrows
  \/ Return \/ Consumed \/ Idle

Spec == Init /\ [][Next]_vars

(* Properties *************************************************************)

\* A call that returns gives every request its own fit: its target, its
\* design of the call's data (also out of a cache that served other calls),
\* solved with the smoothing parameter and ridge a fit on its own would have
\* chosen, whatever the other fits of its group needed; or the CPU's fit.
EachFitOwn ==
  pc = "returned" =>
    \A i \in DOMAIN call.reqs :
      LET d == Design(call.data, call.reqs[i][2])
          f == fits[i]
      IN  /\ f # None
          /\ f.y = call.reqs[i][1] /\ f.x = d /\ f.system = d
          /\ f.how = "cuda" =>
               LET c == SingleFitChoice(table[i])
               IN  c.found /\ f.lambda = c.lambda /\ f.ridge = c.ridge

=============================================================================
