------------------------------ MODULE GcvProofs ------------------------------
(***************************************************************************)
(* Proofs about the GCV optimizers on the device, which are to perform the *)
(* host's descent: the lanes of the multi-penalty kernel, which this       *)
(* module extends, and the exact replay of the single-penalty one.         *)
(***************************************************************************)
EXTENDS MultiPenaltyGcv, SequenceTheorems, FiniteSetTheorems, TLAPS

(* The single-penalty lane and its exact replay, with variables of its own. *)
VARIABLES exactOpt, exactLane, exactResult

Single == INSTANCE SinglePenaltyGcv WITH
    opt <- exactOpt, lane <- exactLane, result <- exactResult

-----------------------------------------------------------------------------
(* One lane of the device.                                                 *)

Points0 == Points \cup {None}

LaneEvaluation ==
    [at : Points, info : {0, -1}, route : {"none", "guarded_qr", "stable_svd"},
     complete : BOOLEAN, from : Points0]

LaneState ==
    [pc : {"initial", "trial", "judge", "probe", "select", "done"},
     status : Nat, iteration : Nat, tries : Nat, coordinate : Nat,
     boundary : Nat, logSp : Points, current : LaneEvaluation,
     reduction : Nat, steepest : BOOLEAN, zero : BOOLEAN,
     converged : BOOLEAN, stepFailed : BOOLEAN, selected : BOOLEAN,
     ambiguous : BOOLEAN, undecided : BOOLEAN, disputed : BOOLEAN,
     guarded : BOOLEAN, extreme : BOOLEAN, stale : BOOLEAN,
     attempted : BOOLEAN, error : BOOLEAN]

(* The evaluation is of the parameters beside it, complete and formed from *)
(* the decomposition of that point.                                        *)
Fresh(s) ==
    /\ s.current.at = s.logSp /\ s.current.from = s.logSp
    /\ s.current.complete /\ s.current.info = 0

(* What a place in a lane's run means: before the probes, and after them   *)
(* when none was accepted, the evaluation is fresh; a lane has converged   *)
(* exactly when it has come to the probes; a guarded QR leaves its mark.   *)
PlaceInv(l, s) ==
    /\ s.pc = "initial" =>
          s.iteration = 0 /\ s.boundary = 0 /\ ~s.converged
    /\ s.pc \in {"trial", "judge"} =>
          s.iteration \in 1 .. MaxIterations /\ s.boundary = 0 /\ ~s.converged /\ Fresh(s)
    /\ s.pc \in {"probe", "select"} =>
          s.iteration > 0 /\ s.converged /\ (s.boundary = 0 => Fresh(s))
    /\ s.pc = "done" /\ s.status = 0 => s.converged /\ Fresh(s)

RouteInv(l, s) ==
    /\ s.current.info = 0 => s.current.route = "stable_svd" \/ s.guarded
    /\ Stable(l) => ~s.guarded

(* How a lane ends: only the replay selects its state, and only one that   *)
(* did not fail need have.                                                 *)
EndInv(l, s) ==
    /\ s.pc # "done" => s.status = 0 /\ ~s.selected
    /\ s.pc = "done" /\ s.status = 0 => (s.selected <=> l = "replay")
    /\ ~s.stale

LaneInv(l, s) == s \in LaneState /\ PlaceInv(l, s) /\ RouteInv(l, s) /\ EndInv(l, s)

(* A step of lane l leaves the other lane and the replay's own fields.     *)
OnlyLane(l) ==
    /\ lane' = lane
    /\ \A m \in Lanes \ {l} : opt'[m] = opt[m]
    /\ opt'[l].attempted = opt[l].attempted
    /\ opt'[l].error = opt[l].error
    /\ opt' \in [Lanes -> LaneState]

(* Between the launches and the merge the primary run is done and has not  *)
(* been told of a replay.                                                  *)
PrimaryInv ==
    /\ LaneInv("primary", opt["primary"])
    /\ ~opt["primary"].attempted /\ ~opt["primary"].error

DeviceInv ==
    /\ opt \in [Lanes -> LaneState]
    /\ lane \in {"primary", "replay", "finished"}
    /\ lane = "primary" => PrimaryInv /\ opt["replay"].pc = "done"
    /\ lane = "replay" =>
          /\ PrimaryInv /\ opt["primary"].pc = "done" /\ ~ExactPrimary
          /\ IF Replays(opt["primary"]) THEN LaneInv("replay", opt["replay"])
             ELSE opt["replay"].pc = "done"
    /\ ReportedIsEvaluated /\ ReplaysSettled /\ StableInTheEnd

-----------------------------------------------------------------------------

(* What an evaluation leaves, by its route.                                *)
LEMMA CompletedFacts ==
    ASSUME NEW p \in Points, NEW i \in {0, -1},
           NEW r \in {"none", "guarded_qr", "stable_svd"}, NEW e,
           e = [at |-> p, info |-> i, route |-> r, complete |-> FALSE, from |-> None]
    PROVE  /\ e \in LaneEvaluation
           /\ e.at = p /\ e.info = i /\ e.route = r
           /\ Completed(e, p) \in LaneEvaluation
           /\ Completed(e, p).at = p /\ Completed(e, p).from = p
           /\ Completed(e, p).complete
           /\ Completed(e, p).info = i /\ Completed(e, p).route = r
BY DEF LaneEvaluation, Completed, Points0

LEMMA EvaluationFacts ==
    ASSUME NEW l \in Lanes, NEW p \in Points, NEW e \in Evaluations(l, p)
    PROVE  /\ e \in LaneEvaluation
           /\ e.at = p
           /\ Completed(e, p) \in LaneEvaluation
           /\ Completed(e, p).at = p /\ Completed(e, p).from = p
           /\ Completed(e, p).complete
           /\ Completed(e, p).info = e.info /\ Completed(e, p).route = e.route
           /\ Finite(e) => e.route \in {"guarded_qr", "stable_svd"}
           /\ Stable(l) /\ Finite(e) => e.route = "stable_svd"
<1>1. CASE e = Broken(p)
  <2>1. e = [at |-> p, info |-> -1, route |-> "none", complete |-> FALSE, from |-> None]
    BY <1>1 DEF Broken, Incomplete
  <2>2. ~Finite(e)
    BY <2>1 DEF Finite
  <2> QED
    BY <2>1, <2>2, CompletedFacts
<1>2. ASSUME NEW r \in DecompositionRoutes(l), e = Incomplete(p, r)
      PROVE  /\ e \in LaneEvaluation
             /\ e.at = p /\ e.route = r
             /\ Completed(e, p) \in LaneEvaluation
             /\ Completed(e, p).at = p /\ Completed(e, p).from = p
             /\ Completed(e, p).complete
             /\ Completed(e, p).info = e.info /\ Completed(e, p).route = e.route
             /\ r \in {"guarded_qr", "stable_svd"}
             /\ Stable(l) => r = "stable_svd"
  <2>1. e = [at |-> p, info |-> 0, route |-> r, complete |-> FALSE, from |-> None]
    BY <1>2 DEF Incomplete
  <2>2. r \in {"guarded_qr", "stable_svd"} /\ (Stable(l) => r = "stable_svd")
    BY DEF DecompositionRoutes
  <2> QED
    BY <2>1, <2>2, CompletedFacts
<1>3. e = Broken(p) \/ \E r \in DecompositionRoutes(l) : e = Incomplete(p, r)
  BY Zenon DEF Evaluations
<1>4. CASE \E r \in DecompositionRoutes(l) : e = Incomplete(p, r)
  <2>1. PICK r \in DecompositionRoutes(l) : e = Incomplete(p, r)
    BY <1>4
  <2> QED
    BY <2>1, <1>2
<1> QED
  BY <1>1, <1>3, <1>4

-----------------------------------------------------------------------------

LEMMA BecomesFacts ==
    ASSUME opt \in [Lanes -> LaneState], NEW l \in Lanes,
           NEW t \in LaneState, NEW w, Becomes(l, t, w),
           t.attempted = opt[l].attempted, t.error = opt[l].error
    PROVE  OnlyLane(l) /\ opt'[l] = t
BY DEF Becomes, OnlyLane

(* A lane that fails reports nothing.                                      *)
LEMMA FailKeeps ==
    ASSUME opt \in [Lanes -> LaneState], NEW l \in Lanes, LaneInv(l, opt[l]),
           NEW code \in 1 .. 6, Fail(l, code)
    PROVE  OnlyLane(l) /\ LaneInv(l, opt'[l])
<1> DEFINE t == [opt[l] EXCEPT !.pc = "done", !.status = code]
<1>1. opt[l] \in LaneState /\ code \in Nat
  OBVIOUS
<1>2. /\ t \in LaneState
      /\ t.pc = "done" /\ t.status = code /\ t.stale = opt[l].stale
      /\ t.guarded = opt[l].guarded /\ t.current = opt[l].current
      /\ t.attempted = opt[l].attempted /\ t.error = opt[l].error
  BY <1>1 DEF LaneState
<1>3. Becomes(l, t, workspace)
  BY DEF Fail
<1> HIDE DEF t
<1>4. OnlyLane(l) /\ opt'[l] = t
  BY <1>2, <1>3, BecomesFacts
<1> QED
  BY <1>2, <1>4 DEF LaneInv, PlaceInv, RouteInv, EndInv

LEMMA StartKeeps ==
    ASSUME SetupAssumption, ControlAssumption,
           opt \in [Lanes -> LaneState], NEW l \in Lanes, LaneInv(l, opt[l]),
           StartLane(l)
    PROVE  OnlyLane(l) /\ LaneInv(l, opt'[l])
<1> DEFINE s == opt[l]
<1>1. /\ s \in LaneState /\ s.pc = "initial" /\ s.logSp \in Points
      /\ s.boundary = 0 /\ ~s.converged
      /\ Stable(l) => ~s.guarded
      /\ s.status = 0 /\ ~s.selected /\ ~s.stale
  BY DEF StartLane, LaneInv, PlaceInv, RouteInv, EndInv, LaneState
<1>2. PICK e \in Evaluations(l, s.logSp) :
         IF Finite(e)
         THEN Becomes(l, [Counted(s, e) EXCEPT !.current = Completed(e, s.logSp),
                                               !.iteration = 1, !.pc = "judge"],
                      s.logSp)
         ELSE Fail(l, 1)
  BY DEF StartLane
<1>3. CASE ~Finite(e)
  BY <1>2, <1>3, FailKeeps
<1>4. CASE Finite(e)
  <2> DEFINE t == [Counted(s, e) EXCEPT !.current = Completed(e, s.logSp),
                                        !.iteration = 1, !.pc = "judge"]
  <2>1. /\ Completed(e, s.logSp) \in LaneEvaluation
        /\ Completed(e, s.logSp).at = s.logSp /\ Completed(e, s.logSp).from = s.logSp
        /\ Completed(e, s.logSp).complete
        /\ Completed(e, s.logSp).info = 0 /\ Completed(e, s.logSp).route = e.route
        /\ e.route \in {"guarded_qr", "stable_svd"}
        /\ Stable(l) => e.route = "stable_svd"
    BY <1>1, <1>4, EvaluationFacts DEF Finite
  <2>2. /\ t \in LaneState
        /\ t.pc = "judge" /\ t.iteration = 1 /\ t.current = Completed(e, s.logSp)
        /\ t.logSp = s.logSp /\ t.boundary = s.boundary /\ t.converged = s.converged
        /\ t.guarded = (s.guarded \/ e.route = "guarded_qr")
        /\ t.status = s.status /\ t.selected = s.selected /\ t.stale = s.stale
        /\ t.attempted = s.attempted /\ t.error = s.error
    BY <1>1, <2>1 DEF LaneState, Counted
  <2>3. Becomes(l, t, s.logSp)
    BY <1>2, <1>4
  <2> HIDE DEF t
  <2>4. OnlyLane(l) /\ opt'[l] = t
    BY <2>2, <2>3, BecomesFacts
  <2>5. 1 \in 1 .. MaxIterations
    BY DEF ControlAssumption
  <2>6. PlaceInv(l, t)
    BY <1>1, <2>1, <2>2, <2>5 DEF PlaceInv, Fresh
  <2> QED
    BY <1>1, <2>1, <2>2, <2>4, <2>6 DEF LaneInv, RouteInv, EndInv
<1> QED
  BY <1>3, <1>4

(* The fields of the states a try leads to.                                *)
IsTried(s, n, e, t) ==
    /\ t \in LaneState
    /\ t.pc = s.pc /\ t.status = s.status /\ t.iteration = s.iteration
    /\ t.tries = n /\ t.coordinate = s.coordinate /\ t.boundary = s.boundary
    /\ t.logSp = s.logSp /\ t.current = s.current /\ t.reduction = s.reduction
    /\ t.steepest = (s.steepest \/ n = 4) /\ t.zero = s.zero
    /\ t.converged = s.converged /\ t.stepFailed = s.stepFailed
    /\ t.selected = s.selected /\ t.stale = s.stale
    /\ t.guarded = (s.guarded \/ e.route = "guarded_qr")
    /\ t.attempted = s.attempted /\ t.error = s.error

IsRejected(t, n, unmoved, r) ==
    /\ r \in LaneState
    /\ r.pc = (IF n = MaxHalving THEN "judge" ELSE "trial")
    /\ r.zero = (n = MaxHalving - 1 \/ unmoved)
    /\ r.status = t.status /\ r.iteration = t.iteration /\ r.tries = t.tries
    /\ r.coordinate = t.coordinate /\ r.boundary = t.boundary
    /\ r.logSp = t.logSp /\ r.current = t.current /\ r.reduction = t.reduction
    /\ r.steepest = t.steepest /\ r.converged = t.converged
    /\ r.stepFailed = t.stepFailed /\ r.selected = t.selected
    /\ r.stale = t.stale /\ r.guarded = t.guarded
    /\ r.attempted = t.attempted /\ r.error = t.error

IsAccepted(t, e, p, a) ==
    /\ a \in LaneState
    /\ a.pc = "judge" /\ a.logSp = p /\ a.current = Completed(e, p)
    /\ a.reduction = t.iteration
    /\ a.status = t.status /\ a.iteration = t.iteration /\ a.tries = t.tries
    /\ a.coordinate = t.coordinate /\ a.boundary = t.boundary
    /\ a.steepest = t.steepest /\ a.zero = t.zero /\ a.converged = t.converged
    /\ a.stepFailed = t.stepFailed /\ a.selected = t.selected
    /\ a.stale = t.stale /\ a.guarded = t.guarded
    /\ a.attempted = t.attempted /\ a.error = t.error

LEMMA TriedFacts ==
    ASSUME NEW l \in Lanes, NEW s \in LaneState, NEW n \in Nat, NEW d \in Int,
           NEW down \in BOOLEAN, NEW near \in BOOLEAN, NEW disagree \in BOOLEAN,
           NEW e \in LaneEvaluation
    PROVE  IsTried(s, n, e, Counted(Tried(l, s, n, d, down, near, disagree), e))
<1> DEFINE primary == l = "primary" /\ AmbiguousStep(s, n, d, down, near)
           ambiguous == s.ambiguous \/ (primary /\ d < 0 /\ disagree)
           undecided == s.undecided \/ (primary /\ d >= 0)
           u == [s EXCEPT !.tries = n, !.steepest = @ \/ n = 4,
                          !.ambiguous = ambiguous, !.undecided = undecided]
<1>1. Tried(l, s, n, d, down, near, disagree) = u
  BY DEF Tried
<1>2. ambiguous \in BOOLEAN /\ undecided \in BOOLEAN
  OBVIOUS
<1> HIDE DEF ambiguous, undecided, primary
<1>3. u \in LaneState
  BY <1>2 DEF LaneState
<1>4. /\ u.pc = s.pc /\ u.status = s.status /\ u.iteration = s.iteration
      /\ u.tries = n /\ u.coordinate = s.coordinate /\ u.boundary = s.boundary
      /\ u.logSp = s.logSp /\ u.current = s.current /\ u.reduction = s.reduction
      /\ u.steepest = (s.steepest \/ n = 4) /\ u.zero = s.zero
      /\ u.converged = s.converged /\ u.stepFailed = s.stepFailed
      /\ u.selected = s.selected /\ u.stale = s.stale /\ u.guarded = s.guarded
      /\ u.attempted = s.attempted /\ u.error = s.error
  BY DEF LaneState
<1> HIDE DEF u
<1> DEFINE t == [u EXCEPT !.guarded = @ \/ e.route = "guarded_qr"]
<1>5. t \in LaneState
  BY <1>3 DEF LaneState
<1>6. /\ t.pc = u.pc /\ t.status = u.status /\ t.iteration = u.iteration
      /\ t.tries = u.tries /\ t.coordinate = u.coordinate /\ t.boundary = u.boundary
      /\ t.logSp = u.logSp /\ t.current = u.current /\ t.reduction = u.reduction
      /\ t.steepest = u.steepest /\ t.zero = u.zero
      /\ t.converged = u.converged /\ t.stepFailed = u.stepFailed
      /\ t.selected = u.selected /\ t.stale = u.stale
      /\ t.guarded = (u.guarded \/ e.route = "guarded_qr")
      /\ t.attempted = u.attempted /\ t.error = u.error
  BY <1>3 DEF LaneState
<1>7. Counted(Tried(l, s, n, d, down, near, disagree), e) = t
  BY <1>1 DEF Counted
<1> HIDE DEF t
<1> QED
  BY <1>4, <1>5, <1>6, <1>7 DEF IsTried

LEMMA RejectedFacts ==
    ASSUME NEW t \in LaneState, NEW n \in Nat, NEW unmoved \in BOOLEAN
    PROVE  IsRejected(t, n, unmoved, Rejected(t, n, unmoved))
<1> DEFINE zero0 == (n = MaxHalving - 1 \/ unmoved)
           pc0 == IF n = MaxHalving THEN "judge" ELSE "trial"
<1>1. Rejected(t, n, unmoved) = [t EXCEPT !.zero = zero0, !.pc = pc0]
  BY DEF Rejected
<1>2. zero0 \in BOOLEAN /\ pc0 \in {"judge", "trial"}
  OBVIOUS
<1>3. /\ zero0 = (n = MaxHalving - 1 \/ unmoved)
      /\ pc0 = (IF n = MaxHalving THEN "judge" ELSE "trial")
  OBVIOUS
<1> HIDE DEF zero0, pc0
<1> DEFINE r == [t EXCEPT !.zero = zero0, !.pc = pc0]
<1>4. r \in LaneState
  BY <1>2 DEF LaneState
<1>5. /\ r.pc = pc0 /\ r.zero = zero0
      /\ r.status = t.status /\ r.iteration = t.iteration /\ r.tries = t.tries
      /\ r.coordinate = t.coordinate /\ r.boundary = t.boundary
      /\ r.logSp = t.logSp /\ r.current = t.current /\ r.reduction = t.reduction
      /\ r.steepest = t.steepest /\ r.converged = t.converged
      /\ r.stepFailed = t.stepFailed /\ r.selected = t.selected
      /\ r.stale = t.stale /\ r.guarded = t.guarded
      /\ r.attempted = t.attempted /\ r.error = t.error
  BY DEF LaneState
<1> HIDE DEF r
<1>6. IsRejected(t, n, unmoved, r)
  BY <1>3, <1>4, <1>5 DEF IsRejected
<1> QED
  BY <1>1, <1>6 DEF r

LEMMA AcceptedFacts ==
    ASSUME NEW t \in LaneState, NEW e, NEW p \in Points, e.at = p,
           Completed(e, p) \in LaneEvaluation
    PROVE  IsAccepted(t, e, p, Accepted(t, e, p))
BY DEF Accepted, LaneState, IsAccepted

(* What a try does, with the evaluation it made.                           *)
TrialStep(l, s, n, p, d, down, near, disagree, e) ==
    LET t == Counted(Tried(l, s, n, d, down, near, disagree), e)
        accepted == Accepts(l, s, n, d, down, near)
    IN
    \/ (~Finite(e) \/ accepted) /\ Fail(l, 2)
    \/ Finite(e) /\ ~accepted /\ Becomes(l, Rejected(t, n, Unmoved(s, n)), p)
    \/ Finite(e) /\ accepted /\ Becomes(l, Accepted(t, e, p), p)

LEMMA TrialKeeps ==
    ASSUME SetupAssumption, ControlAssumption, Steps \subseteq Int,
           opt \in [Lanes -> LaneState], NEW l \in Lanes, LaneInv(l, opt[l]),
           TrialLane(l)
    PROVE  OnlyLane(l) /\ LaneInv(l, opt'[l])
<1> DEFINE s == opt[l]
           n == s.tries + 1
<1>1. /\ s \in LaneState /\ s.pc = "trial" /\ s.logSp \in Points /\ n \in Nat
      /\ s.iteration \in 1 .. MaxIterations /\ s.boundary = 0 /\ ~s.converged
      /\ Fresh(s)
      /\ Stable(l) => ~s.guarded
      /\ s.current.info = 0 => s.current.route = "stable_svd" \/ s.guarded
      /\ s.status = 0 /\ ~s.selected /\ ~s.stale
  BY DEF TrialLane, LaneInv, PlaceInv, RouteInv, EndInv, LaneState
<1>2. PICK p \in Points, d \in Steps, down \in BOOLEAN, near \in BOOLEAN,
           disagree \in BOOLEAN :
        \E e \in Evaluations(l, p) : TrialStep(l, s, n, p, d, down, near, disagree, e)
  BY DEF TrialLane, TrialStep
<1>3. PICK e \in Evaluations(l, p) : TrialStep(l, s, n, p, d, down, near, disagree, e)
  BY <1>2
<1> DEFINE t == Counted(Tried(l, s, n, d, down, near, disagree), e)
<1>4. /\ e \in LaneEvaluation /\ e.at = p
      /\ Completed(e, p) \in LaneEvaluation
      /\ Completed(e, p).at = p /\ Completed(e, p).from = p
      /\ Completed(e, p).complete
      /\ Completed(e, p).info = e.info /\ Completed(e, p).route = e.route
      /\ Finite(e) => e.route \in {"guarded_qr", "stable_svd"}
      /\ Stable(l) /\ Finite(e) => e.route = "stable_svd"
  BY EvaluationFacts
<1>5. d \in Int /\ Unmoved(s, n) \in BOOLEAN
  BY DEF Unmoved
<1> HIDE DEF n
<1>6. IsTried(s, n, e, t)
  <2>1. n \in Nat /\ s \in LaneState
    BY <1>1
  <2> QED
    BY <1>4, <1>5, <2>1, TriedFacts
<1> HIDE DEF t
<1>7. CASE Fail(l, 2)
  BY <1>7, FailKeeps
<1>8. CASE Finite(e) /\ Becomes(l, Rejected(t, n, Unmoved(s, n)), p)
  <2> DEFINE r == Rejected(t, n, Unmoved(s, n))
  <2>1. IsRejected(t, n, Unmoved(s, n), r)
    <3>1. n \in Nat /\ t \in LaneState
      BY <1>1, <1>6 DEF IsTried
    <3> QED
      BY <1>5, <3>1, RejectedFacts
  <2> HIDE DEF r
  <2>2. OnlyLane(l) /\ opt'[l] = r
    BY <1>6, <1>8, <2>1, BecomesFacts DEF r, IsTried, IsRejected
  <2>3. PlaceInv(l, r)
    BY <1>1, <1>6, <2>1 DEF PlaceInv, Fresh, IsTried, IsRejected
  <2>4. RouteInv(l, r)
    <3>1. /\ r.current = s.current
          /\ r.guarded = (s.guarded \/ e.route = "guarded_qr")
      BY <1>6, <2>1 DEF IsTried, IsRejected
    <3>2. Stable(l) => e.route = "stable_svd"
      BY <1>4, <1>8
    <3> HIDE DEF s
    <3> QED
      BY <1>1, <3>1, <3>2 DEF RouteInv
  <2> QED
    BY <1>1, <1>6, <2>1, <2>2, <2>3, <2>4 DEF LaneInv, EndInv, IsTried, IsRejected
<1>9. CASE Finite(e) /\ Becomes(l, Accepted(t, e, p), p)
  <2> DEFINE a == Accepted(t, e, p)
  <2>1. IsAccepted(t, e, p, a)
    BY <1>4, <1>6, AcceptedFacts DEF IsTried
  <2> HIDE DEF a
  <2>2. OnlyLane(l) /\ opt'[l] = a
    BY <1>6, <1>9, <2>1, BecomesFacts DEF a, IsTried, IsAccepted
  <2>3. PlaceInv(l, a)
    BY <1>1, <1>4, <1>6, <1>9, <2>1 DEF PlaceInv, Fresh, Finite, IsTried, IsAccepted
  <2>4. RouteInv(l, a)
    BY <1>1, <1>4, <1>6, <1>9, <2>1 DEF RouteInv, IsTried, IsAccepted
  <2> QED
    BY <1>1, <1>6, <2>1, <2>2, <2>3, <2>4 DEF LaneInv, EndInv, IsTried, IsAccepted
<1> QED
  BY <1>3, <1>7, <1>8, <1>9 DEF TrialStep, t

(* The fields at the end of an iteration.                                  *)
IsJudged(s, c, f, g, t) ==
    /\ t \in LaneState
    /\ t.converged = c /\ t.stepFailed = f /\ t.steepest = g
    /\ t.zero = FALSE /\ t.tries = 0
    /\ t.pc = s.pc /\ t.status = s.status /\ t.iteration = s.iteration
    /\ t.coordinate = s.coordinate /\ t.boundary = s.boundary
    /\ t.logSp = s.logSp /\ t.current = s.current /\ t.reduction = s.reduction
    /\ t.selected = s.selected /\ t.stale = s.stale /\ t.guarded = s.guarded
    /\ t.attempted = s.attempted /\ t.error = s.error

LEMMA JudgedFacts ==
    ASSUME NEW s \in LaneState, NEW c \in BOOLEAN, NEW f \in BOOLEAN,
           NEW g \in BOOLEAN
    PROVE  IsJudged(s, c, f, g,
               [s EXCEPT !.converged = c, !.stepFailed = f, !.steepest = g,
                         !.zero = FALSE, !.tries = 0])
<1> DEFINE t == [s EXCEPT !.converged = c, !.stepFailed = f, !.steepest = g,
                          !.zero = FALSE, !.tries = 0]
<1>1. t \in LaneState
  BY DEF LaneState
<1>2. /\ t.converged = c /\ t.stepFailed = f /\ t.steepest = g
      /\ t.zero = FALSE /\ t.tries = 0
      /\ t.pc = s.pc /\ t.status = s.status /\ t.iteration = s.iteration
      /\ t.coordinate = s.coordinate /\ t.boundary = s.boundary
      /\ t.logSp = s.logSp /\ t.current = s.current /\ t.reduction = s.reduction
      /\ t.selected = s.selected /\ t.stale = s.stale /\ t.guarded = s.guarded
      /\ t.attempted = s.attempted /\ t.error = s.error
  BY DEF LaneState
<1> HIDE DEF t
<1>3. IsJudged(s, c, f, g, t)
  BY <1>1, <1>2 DEF IsJudged
<1> QED
  BY <1>3 DEF t

LEMMA JudgeKeeps ==
    ASSUME SetupAssumption, ControlAssumption,
           opt \in [Lanes -> LaneState], NEW l \in Lanes, LaneInv(l, opt[l]),
           JudgeLane(l)
    PROVE  OnlyLane(l) /\ LaneInv(l, opt'[l])
<1> DEFINE s == opt[l]
<1>1. /\ s \in LaneState /\ s.pc = "judge"
      /\ s.iteration \in 1 .. MaxIterations /\ s.boundary = 0 /\ ~s.converged
      /\ Fresh(s)
      /\ Stable(l) => ~s.guarded
      /\ s.current.info = 0 => s.current.route = "stable_svd" \/ s.guarded
      /\ s.status = 0 /\ ~s.selected /\ ~s.stale
  BY DEF JudgeLane, LaneInv, PlaceInv, RouteInv, EndInv
<1>2. CASE Fail(l, 3)
  BY <1>2, FailKeeps
<1>3. ASSUME NEW small \in BOOLEAN, NEW negative \in BOOLEAN,
             NEW t,
             t = [s EXCEPT !.converged = Converges(s, small),
                           !.stepFailed = (Converges(s, small) /\ Exhausted(s)),
                           !.steepest = negative, !.zero = FALSE, !.tries = 0],
             Becomes(l, IF Converges(s, small) THEN [t EXCEPT !.pc = "probe"]
                        ELSE IF s.iteration = MaxIterations
                        THEN [t EXCEPT !.pc = "done", !.status = 4]
                        ELSE [t EXCEPT !.pc = "trial", !.iteration = @ + 1],
                     workspace)
      PROVE  OnlyLane(l) /\ LaneInv(l, opt'[l])
  <2> DEFINE c == Converges(s, small)
         f == c /\ Exhausted(s)
  <2>1. c \in BOOLEAN /\ f \in BOOLEAN
    BY DEF Converges, Exhausted
  <2>2. t = [s EXCEPT !.converged = c, !.stepFailed = f,
                      !.steepest = negative, !.zero = FALSE, !.tries = 0]
    BY <1>3
  <2>3. /\ c => Becomes(l, [t EXCEPT !.pc = "probe"], workspace)
        /\ ~c /\ s.iteration = MaxIterations =>
              Becomes(l, [t EXCEPT !.pc = "done", !.status = 4], workspace)
        /\ ~c /\ s.iteration # MaxIterations =>
              Becomes(l, [t EXCEPT !.pc = "trial", !.iteration = @ + 1], workspace)
    BY <1>3
  <2> HIDE DEF c, f
  <2>4. IsJudged(s, c, f, negative, t)
    BY <1>1, <2>1, <2>2, JudgedFacts
  <2>5. CASE c
    <3> DEFINE u == [t EXCEPT !.pc = "probe"]
    <3>1. /\ u \in LaneState /\ u.pc = "probe" /\ u.converged = t.converged
          /\ u.status = t.status /\ u.iteration = t.iteration /\ u.boundary = t.boundary
          /\ u.logSp = t.logSp /\ u.current = t.current
          /\ u.selected = t.selected /\ u.stale = t.stale /\ u.guarded = t.guarded
          /\ u.attempted = t.attempted /\ u.error = t.error
      BY <2>4 DEF LaneState, IsJudged
    <3>2. Becomes(l, u, workspace)
      BY <2>3, <2>5
    <3> HIDE DEF u
    <3>3. OnlyLane(l) /\ opt'[l] = u
      BY <2>4, <3>1, <3>2, BecomesFacts DEF IsJudged
    <3>4. PlaceInv(l, u)
      BY <1>1, <2>4, <2>5, <3>1 DEF PlaceInv, Fresh, IsJudged
    <3>5. RouteInv(l, u)
      BY <1>1, <2>4, <3>1 DEF RouteInv, IsJudged
    <3> QED
      BY <1>1, <2>4, <3>1, <3>3, <3>4, <3>5 DEF LaneInv, EndInv, IsJudged
  <2>6. CASE ~c /\ s.iteration = MaxIterations
    <3> DEFINE u == [t EXCEPT !.pc = "done", !.status = 4]
    <3>1. /\ u \in LaneState /\ u.pc = "done" /\ u.status = 4
          /\ u.current = t.current
          /\ u.stale = t.stale /\ u.guarded = t.guarded
          /\ u.attempted = t.attempted /\ u.error = t.error
      BY <2>4 DEF LaneState, IsJudged
    <3>2. Becomes(l, u, workspace)
      BY <2>3, <2>6
    <3> HIDE DEF u
    <3>3. OnlyLane(l) /\ opt'[l] = u
      BY <2>4, <3>1, <3>2, BecomesFacts DEF IsJudged
    <3> QED
      BY <1>1, <2>4, <3>1, <3>3 DEF LaneInv, PlaceInv, RouteInv, EndInv, IsJudged
  <2>7. CASE ~c /\ s.iteration # MaxIterations
    <3> DEFINE i == t.iteration + 1
               u == [t EXCEPT !.pc = "trial", !.iteration = i]
    <3>1. i \in 1 .. MaxIterations /\ i \in Nat
      BY <1>1, <2>4, <2>7 DEF ControlAssumption, IsJudged
    <3>2. Becomes(l, u, workspace)
      BY <2>3, <2>7
    <3> HIDE DEF i
    <3>3. /\ u \in LaneState /\ u.pc = "trial" /\ u.converged = t.converged
          /\ u.status = t.status /\ u.iteration = i /\ u.boundary = t.boundary
          /\ u.logSp = t.logSp /\ u.current = t.current
          /\ u.selected = t.selected /\ u.stale = t.stale /\ u.guarded = t.guarded
          /\ u.attempted = t.attempted /\ u.error = t.error
      BY <2>4, <3>1 DEF LaneState, IsJudged
    <3> HIDE DEF u
    <3>4. OnlyLane(l) /\ opt'[l] = u
      BY <2>4, <3>2, <3>3, BecomesFacts DEF IsJudged
    <3> QED
      BY <1>1, <2>4, <2>7, <3>1, <3>3, <3>4
      DEF LaneInv, PlaceInv, RouteInv, EndInv, Fresh, IsJudged
  <2> QED
    BY <2>1, <2>5, <2>6, <2>7
<1>4. Fail(l, 3) \/ \E small \in BOOLEAN, negative \in BOOLEAN :
         LET t == [s EXCEPT !.converged = Converges(s, small),
                            !.stepFailed = (Converges(s, small) /\ Exhausted(s)),
                            !.steepest = negative, !.zero = FALSE, !.tries = 0]
         IN Becomes(l, IF Converges(s, small) THEN [t EXCEPT !.pc = "probe"]
                       ELSE IF s.iteration = MaxIterations
                       THEN [t EXCEPT !.pc = "done", !.status = 4]
                       ELSE [t EXCEPT !.pc = "trial", !.iteration = @ + 1],
                    workspace)
  BY Zenon DEF JudgeLane
<1> QED
  BY <1>2, <1>3, <1>4, Zenon

(* The fields of the states a probe leads to: m says whether its point was *)
(* taken, and w whether the coordinate is done with.                       *)
IsProbed(s, p, m, w, r) ==
    /\ r \in LaneState
    /\ r.logSp = (IF m THEN p ELSE s.logSp)
    /\ r.boundary = (IF m THEN s.boundary + 1 ELSE s.boundary)
    /\ r.tries = (IF w THEN 0 ELSE s.tries + 1)
    /\ r.coordinate = (IF w THEN s.coordinate + 1 ELSE s.coordinate)
    /\ r.pc = (IF w THEN IF s.coordinate = Penalties THEN "select" ELSE "probe"
               ELSE s.pc)
    /\ r.status = s.status /\ r.iteration = s.iteration /\ r.current = s.current
    /\ r.reduction = s.reduction /\ r.steepest = s.steepest /\ r.zero = s.zero
    /\ r.converged = s.converged /\ r.stepFailed = s.stepFailed
    /\ r.selected = s.selected /\ r.stale = s.stale /\ r.guarded = s.guarded
    /\ r.attempted = s.attempted /\ r.error = s.error

IsMoved(s, p, t) ==
    /\ t \in LaneState
    /\ t.logSp = p /\ t.boundary = s.boundary + 1
    /\ t.tries = s.tries /\ t.coordinate = s.coordinate /\ t.pc = s.pc
    /\ t.status = s.status /\ t.iteration = s.iteration /\ t.current = s.current
    /\ t.reduction = s.reduction /\ t.steepest = s.steepest /\ t.zero = s.zero
    /\ t.converged = s.converged /\ t.stepFailed = s.stepFailed
    /\ t.selected = s.selected /\ t.stale = s.stale /\ t.guarded = s.guarded
    /\ t.attempted = s.attempted /\ t.error = s.error

LEMMA WalkedFacts ==
    ASSUME NEW s \in LaneState
    PROVE  IsProbed(s, s.logSp, FALSE, TRUE, Walked(s))
<1> DEFINE c == s.coordinate + 1
           q == IF s.coordinate = Penalties THEN "select" ELSE "probe"
<1>1. Walked(s) = [s EXCEPT !.tries = 0, !.coordinate = c, !.pc = q]
  BY DEF Walked
<1>2. c \in Nat /\ q \in {"select", "probe"}
  BY DEF LaneState
<1>3. /\ c = s.coordinate + 1
      /\ q = (IF s.coordinate = Penalties THEN "select" ELSE "probe")
  OBVIOUS
<1> HIDE DEF c, q
<1>4. [s EXCEPT !.tries = 0, !.coordinate = c, !.pc = q] \in LaneState
  BY <1>2 DEF LaneState
<1> DEFINE r == Walked(s)
<1>5. /\ r.tries = 0 /\ r.coordinate = c /\ r.pc = q
      /\ r.logSp = s.logSp /\ r.boundary = s.boundary
      /\ r.status = s.status /\ r.iteration = s.iteration /\ r.current = s.current
      /\ r.reduction = s.reduction /\ r.steepest = s.steepest /\ r.zero = s.zero
      /\ r.converged = s.converged /\ r.stepFailed = s.stepFailed
      /\ r.selected = s.selected /\ r.stale = s.stale /\ r.guarded = s.guarded
      /\ r.attempted = s.attempted /\ r.error = s.error
  BY <1>1 DEF LaneState
<1> HIDE DEF r
<1>6. IsProbed(s, s.logSp, FALSE, TRUE, r)
  BY <1>1, <1>3, <1>4, <1>5 DEF IsProbed, r
<1> QED
  BY <1>6 DEF r

LEMMA MovedFacts ==
    ASSUME NEW s \in LaneState, NEW p \in Points
    PROVE  IsMoved(s, p, [s EXCEPT !.logSp = p, !.boundary = @ + 1])
<1> DEFINE b == s.boundary + 1
           t == [s EXCEPT !.logSp = p, !.boundary = b]
<1>1. b \in Nat
  BY DEF LaneState
<1>2. b = s.boundary + 1
  OBVIOUS
<1> HIDE DEF b
<1>3. t \in LaneState
  BY <1>1 DEF LaneState
<1>4. IsMoved(s, p, t)
  BY <1>1, <1>2, <1>3 DEF LaneState, IsMoved
<1> QED
  BY <1>2, <1>4

LEMMA ProbedFacts ==
    ASSUME NEW s \in LaneState, NEW p \in Points, NEW e, e.at = p,
           NEW accepted \in BOOLEAN
    PROVE  IsProbed(s, p, accepted, ~accepted \/ s.tries + 1 = MaxProbes,
                    Probed(s, e, accepted))
<1>1. CASE ~accepted
  <2>1. Probed(s, e, accepted) = Walked(s)
    BY <1>1 DEF Probed
  <2> QED
    BY <1>1, <2>1, WalkedFacts DEF IsProbed
<1>2. CASE accepted
  <2> DEFINE t == [s EXCEPT !.logSp = e.at, !.boundary = @ + 1]
             u == [t EXCEPT !.tries = @ + 1]
  <2>1. IsMoved(s, p, t)
    BY MovedFacts
  <2>2. Probed(s, e, accepted) = (IF s.tries + 1 = MaxProbes THEN Walked(t) ELSE u)
    BY <1>2 DEF Probed
  <2> HIDE DEF t
  <2>3. CASE s.tries + 1 = MaxProbes
    <3>1. IsProbed(t, t.logSp, FALSE, TRUE, Walked(t))
      BY <2>1, WalkedFacts DEF IsMoved
    <3> QED
      BY <1>2, <2>1, <2>2, <2>3, <3>1 DEF IsProbed, IsMoved
  <2>4. CASE s.tries + 1 # MaxProbes
    <3> DEFINE i == t.tries + 1
               v == [t EXCEPT !.tries = i]
    <3>1. i \in Nat /\ i = s.tries + 1 /\ u = v
      BY <2>1 DEF IsMoved, LaneState
    <3> HIDE DEF i, u
    <3>2. v \in LaneState
      BY <2>1, <3>1 DEF IsMoved, LaneState
    <3>3. /\ v.logSp = t.logSp /\ v.boundary = t.boundary /\ v.tries = i
          /\ v.coordinate = t.coordinate /\ v.pc = t.pc
          /\ v.status = t.status /\ v.iteration = t.iteration /\ v.current = t.current
          /\ v.reduction = t.reduction /\ v.steepest = t.steepest /\ v.zero = t.zero
          /\ v.converged = t.converged /\ v.stepFailed = t.stepFailed
          /\ v.selected = t.selected /\ v.stale = t.stale /\ v.guarded = t.guarded
          /\ v.attempted = t.attempted /\ v.error = t.error
      BY <2>1 DEF IsMoved, LaneState
    <3> HIDE DEF v
    <3>4. Probed(s, e, accepted) = v
      BY <2>2, <2>4, <3>1
    <3> QED
      BY <1>2, <2>1, <2>4, <3>1, <3>2, <3>3, <3>4 DEF IsProbed, IsMoved
  <2> QED
    BY <2>3, <2>4
<1> QED
  BY <1>1, <1>2

(* A probe's evaluation only leaves its mark.                              *)
IsMarked(s, e, t) ==
    /\ t \in LaneState
    /\ t.guarded = (s.guarded \/ e.route = "guarded_qr")
    /\ t.logSp = s.logSp /\ t.boundary = s.boundary
    /\ t.tries = s.tries /\ t.coordinate = s.coordinate /\ t.pc = s.pc
    /\ t.status = s.status /\ t.iteration = s.iteration /\ t.current = s.current
    /\ t.reduction = s.reduction /\ t.steepest = s.steepest /\ t.zero = s.zero
    /\ t.converged = s.converged /\ t.stepFailed = s.stepFailed
    /\ t.selected = s.selected /\ t.stale = s.stale
    /\ t.attempted = s.attempted /\ t.error = s.error

LEMMA CountedFacts ==
    ASSUME NEW s \in LaneState, NEW e
    PROVE  IsMarked(s, e, Counted(s, e))
<1> DEFINE g == s.guarded \/ e.route = "guarded_qr"
           t == [s EXCEPT !.guarded = g]
<1>1. g \in BOOLEAN /\ g = (s.guarded \/ e.route = "guarded_qr")
  OBVIOUS
<1>2. Counted(s, e) = t
  BY DEF Counted
<1> HIDE DEF g
<1>3. t \in LaneState
  BY <1>1 DEF LaneState
<1>4. IsMarked(s, e, t)
  BY <1>1, <1>3 DEF LaneState, IsMarked
<1> QED
  BY <1>2, <1>4

LEMMA MarkedFacts ==
    ASSUME NEW s \in LaneState, NEW e, NEW doubted \in BOOLEAN
    PROVE  IsMarked(s, e, [Counted(s, e) EXCEPT !.disputed = @ \/ doubted])
<1> DEFINE u == Counted(s, e)
           d == u.disputed \/ doubted
           t == [u EXCEPT !.disputed = d]
<1>1. IsMarked(s, e, u)
  BY CountedFacts
<1>2. d \in BOOLEAN
  OBVIOUS
<1>3. [u EXCEPT !.disputed = @ \/ doubted] = t
  OBVIOUS
<1> HIDE DEF u, d
<1>4. t \in LaneState
  BY <1>1, <1>2 DEF IsMarked, LaneState
<1>5. IsMarked(s, e, t)
  BY <1>1, <1>4 DEF IsMarked, LaneState
<1> QED
  BY <1>3, <1>5 DEF u

(* What a probe does, with the evaluation it made.                         *)
ProbeStep(l, s, p, d, steep, confirmed, doubt, e) ==
    LET pending == Pending(l, d, steep)
        accepted == IF pending THEN confirmed ELSE d < 0
        t == [Counted(s, e) EXCEPT !.disputed = @ \/ (pending /\ ~accepted /\ doubt)]
    IN
    /\ confirmed => pending /\ Noise /\ d <= 1
    /\ \/ (~Finite(e) \/ pending) /\ Fail(l, 5)
       \/ Finite(e) /\ Becomes(l, Probed(t, e, accepted), p)

LEMMA ProbeKeeps ==
    ASSUME SetupAssumption, ControlAssumption, Steps \subseteq Int,
           opt \in [Lanes -> LaneState], NEW l \in Lanes, LaneInv(l, opt[l]),
           ProbeLane(l)
    PROVE  OnlyLane(l) /\ LaneInv(l, opt'[l])
<1> DEFINE s == opt[l]
<1>1. /\ s \in LaneState /\ s.pc = "probe" /\ s.boundary \in Nat
      /\ s.iteration > 0 /\ s.converged /\ (s.boundary = 0 => Fresh(s))
      /\ Stable(l) => ~s.guarded
      /\ s.current.info = 0 => s.current.route = "stable_svd" \/ s.guarded
      /\ s.status = 0 /\ ~s.selected /\ ~s.stale
  BY DEF ProbeLane, LaneInv, PlaceInv, RouteInv, EndInv, LaneState
<1>2. CASE Fail(l, 5)
  BY <1>2, FailKeeps
<1>3. ASSUME NEW p \in Points, NEW e \in Evaluations(l, p), Finite(e),
             NEW accepted \in BOOLEAN, NEW doubted \in BOOLEAN,
             Becomes(l, Probed([Counted(s, e) EXCEPT !.disputed = @ \/ doubted],
                               e, accepted), p)
      PROVE  OnlyLane(l) /\ LaneInv(l, opt'[l])
  <2> DEFINE t == [Counted(s, e) EXCEPT !.disputed = @ \/ doubted]
             r == Probed(t, e, accepted)
             w == ~accepted \/ t.tries + 1 = MaxProbes
  <2>1. e.at = p /\ (Stable(l) => e.route = "stable_svd")
    BY <1>3, EvaluationFacts
  <2>2. IsMarked(s, e, t)
    BY <1>1, MarkedFacts
  <2> HIDE DEF t
  <2>3. IsProbed(t, p, accepted, w, r)
    BY <2>1, <2>2, ProbedFacts DEF IsMarked
  <2>4. w \in BOOLEAN
    OBVIOUS
  <2> HIDE DEF w
  <2>5. /\ r \in LaneState /\ r.pc \in {"probe", "select"}
        /\ r.logSp = (IF accepted THEN p ELSE s.logSp)
        /\ r.boundary = (IF accepted THEN s.boundary + 1 ELSE s.boundary)
        /\ r.status = 0 /\ r.iteration = s.iteration /\ r.current = s.current
        /\ r.converged /\ ~r.selected /\ ~r.stale
        /\ r.guarded = (s.guarded \/ e.route = "guarded_qr")
        /\ r.attempted = s.attempted /\ r.error = s.error
    BY <1>1, <2>2, <2>3, <2>4 DEF IsMarked, IsProbed
  <2>6. OnlyLane(l) /\ opt'[l] = r
    BY <1>3, <2>5, BecomesFacts DEF t
  <2> HIDE DEF r
  <2>7. PlaceInv(l, r)
    BY <1>1, <2>5 DEF PlaceInv, Fresh
  <2>8. RouteInv(l, r)
    BY <1>1, <2>1, <2>5 DEF RouteInv
  <2> QED
    BY <2>5, <2>6, <2>7, <2>8 DEF LaneInv, EndInv
<1>4. ASSUME NEW p \in Points \ {s.logSp}, NEW d \in Steps, NEW steep \in BOOLEAN,
             NEW confirmed \in BOOLEAN, NEW doubt \in BOOLEAN,
             NEW e \in Evaluations(l, p), Finite(e),
             LET pending == Pending(l, d, steep)
                 accepted == IF pending THEN confirmed ELSE d < 0
                 t == [Counted(s, e) EXCEPT
                          !.disputed = @ \/ (pending /\ ~accepted /\ doubt)]
             IN Becomes(l, Probed(t, e, accepted), p)
      PROVE  OnlyLane(l) /\ LaneInv(l, opt'[l])
  <2> DEFINE pending == Pending(l, d, steep)
             accepted == IF pending THEN confirmed ELSE d < 0
             doubted == pending /\ ~accepted /\ doubt
  <2>1. accepted \in BOOLEAN /\ doubted \in BOOLEAN
    <3>1. (d < 0) \in BOOLEAN
      OBVIOUS
    <3> QED
      BY <3>1
  <2>2. Becomes(l, Probed([Counted(s, e) EXCEPT !.disputed = @ \/ doubted],
                          e, accepted), p)
    BY <1>4
  <2> HIDE DEF accepted, doubted
  <2> QED
    BY <1>3, <1>4, <2>1, <2>2
<1>5. PICK p \in Points \ {s.logSp}, d \in Steps, steep \in BOOLEAN,
           confirmed \in BOOLEAN, doubt \in BOOLEAN :
        \E e \in Evaluations(l, p) : ProbeStep(l, s, p, d, steep, confirmed, doubt, e)
  BY DEF ProbeLane, ProbeStep
<1>6. PICK e \in Evaluations(l, p) : ProbeStep(l, s, p, d, steep, confirmed, doubt, e)
  BY <1>5
<1> QED
  BY <1>2, <1>4, <1>6 DEF ProbeStep

(* The selected fit.                                                       *)
LEMMA SelectKeeps ==
    ASSUME SetupAssumption, ControlAssumption,
           opt \in [Lanes -> LaneState], NEW l \in Lanes, LaneInv(l, opt[l]),
           SelectLane(l)
    PROVE  OnlyLane(l) /\ LaneInv(l, opt'[l])
<1> DEFINE s == opt[l]
<1>1. /\ s \in LaneState /\ s.pc = "select" /\ s.boundary \in Nat
      /\ s.logSp \in Points
      /\ s.iteration > 0 /\ s.converged /\ (s.boundary = 0 => Fresh(s))
      /\ Stable(l) => ~s.guarded
      /\ s.current.info = 0 => s.current.route = "stable_svd" \/ s.guarded
      /\ s.status = 0 /\ ~s.selected /\ ~s.stale
  BY DEF SelectLane, LaneInv, PlaceInv, RouteInv, EndInv, LaneState
<1>2. PICK extreme \in {FALSE, s.boundary > 0} :
        LET t == [Selected(l, s) EXCEPT !.extreme = extreme] IN
        IF s.boundary = 0 /\ ~ForceSelected
        THEN Becomes(l, t, workspace)
        ELSE \E e \in Evaluations(l, s.logSp) :
                Becomes(l, IF Finite(e)
                           THEN [Counted(t, e) EXCEPT !.current = Completed(e, s.logSp)]
                           ELSE [t EXCEPT !.status = 6], s.logSp)
  BY Zenon DEF SelectLane
<1> DEFINE c == l = "replay"
           t == [s EXCEPT !.pc = "done", !.selected = c, !.extreme = extreme]
<1>3. c \in BOOLEAN /\ extreme \in BOOLEAN /\ (c <=> l = "replay")
  <2>1. FALSE \in BOOLEAN /\ (s.boundary > 0) \in BOOLEAN
    OBVIOUS
  <2>2. extreme = FALSE \/ extreme = (s.boundary > 0)
    OBVIOUS
  <2> QED
    BY <2>1, <2>2
<1>4. [Selected(l, s) EXCEPT !.extreme = extreme] = t
  BY DEF Selected, LaneState
<1> HIDE DEF c
<1>5. t \in LaneState
  BY <1>1, <1>3 DEF LaneState
<1>6. /\ t.pc = "done" /\ t.selected = c /\ t.status = s.status
      /\ t.logSp = s.logSp /\ t.current = s.current /\ t.boundary = s.boundary
      /\ t.converged = s.converged /\ t.stale = s.stale /\ t.guarded = s.guarded
      /\ t.iteration = s.iteration
      /\ t.attempted = s.attempted /\ t.error = s.error
  BY <1>1 DEF LaneState
<1>7. \/ s.boundary = 0 /\ Becomes(l, t, workspace)
      \/ \E e \in Evaluations(l, s.logSp) :
            Becomes(l, IF Finite(e)
                       THEN [Counted(t, e) EXCEPT !.current = Completed(e, s.logSp)]
                       ELSE [t EXCEPT !.status = 6], s.logSp)
  BY <1>2, <1>4
<1> HIDE DEF t
<1>8. CASE s.boundary = 0 /\ Becomes(l, t, workspace)
  <2>1. OnlyLane(l) /\ opt'[l] = t
    BY <1>5, <1>6, <1>8, BecomesFacts
  <2>2. PlaceInv(l, t)
    BY <1>1, <1>6, <1>8 DEF PlaceInv, Fresh
  <2>3. RouteInv(l, t)
    BY <1>1, <1>6 DEF RouteInv
  <2> QED
    BY <1>1, <1>3, <1>5, <1>6, <2>1, <2>2, <2>3 DEF LaneInv, EndInv
<1>9. ASSUME NEW e \in Evaluations(l, s.logSp), Finite(e),
             Becomes(l, [Counted(t, e) EXCEPT !.current = Completed(e, s.logSp)], s.logSp)
      PROVE  OnlyLane(l) /\ LaneInv(l, opt'[l])
  <2> DEFINE u == Counted(t, e)
             k == Completed(e, s.logSp)
             v == [u EXCEPT !.current = k]
  <2>1. /\ k \in LaneEvaluation /\ k.at = s.logSp /\ k.from = s.logSp /\ k.complete
        /\ k.info = 0 /\ k.route = e.route
        /\ e.route \in {"guarded_qr", "stable_svd"}
        /\ Stable(l) => e.route = "stable_svd"
    BY <1>1, <1>9, EvaluationFacts DEF Finite
  <2>2. IsMarked(t, e, u)
    BY <1>5, CountedFacts
  <2> HIDE DEF u, k
  <2>3. v \in LaneState
    BY <2>1, <2>2 DEF IsMarked, LaneState
  <2>4. /\ v.pc = "done" /\ v.selected = c /\ v.status = 0
        /\ v.logSp = s.logSp /\ v.current = k /\ v.converged /\ v.stale = s.stale
        /\ v.guarded = (s.guarded \/ e.route = "guarded_qr")
        /\ v.attempted = s.attempted /\ v.error = s.error
    <3>1. u \in LaneState
      BY <2>2 DEF IsMarked
    <3>2. /\ v.pc = u.pc /\ v.selected = u.selected /\ v.status = u.status
          /\ v.logSp = u.logSp /\ v.current = k /\ v.converged = u.converged
          /\ v.stale = u.stale /\ v.guarded = u.guarded
          /\ v.attempted = u.attempted /\ v.error = u.error
      BY <3>1 DEF LaneState
    <3> HIDE DEF v
    <3> QED
      BY <1>1, <1>6, <2>2, <3>2 DEF IsMarked
  <2>5. OnlyLane(l) /\ opt'[l] = v
    BY <1>9, <2>3, <2>4, BecomesFacts DEF u, k
  <2> HIDE DEF v
  <2>6. PlaceInv(l, v)
    BY <2>1, <2>4 DEF PlaceInv, Fresh
  <2>7. RouteInv(l, v)
    BY <1>1, <2>1, <2>4 DEF RouteInv
  <2> QED
    BY <1>1, <1>3, <2>3, <2>4, <2>5, <2>6, <2>7 DEF LaneInv, EndInv
<1>10. CASE Becomes(l, [t EXCEPT !.status = 6], s.logSp)
  <2> DEFINE v == [t EXCEPT !.status = 6]
  <2>1. v \in LaneState
    BY <1>5 DEF LaneState
  <2>2. /\ v.pc = "done" /\ v.status = 6 /\ v.current = s.current
        /\ v.stale = s.stale /\ v.guarded = s.guarded
        /\ v.attempted = s.attempted /\ v.error = s.error
    BY <1>5, <1>6 DEF LaneState
  <2>3. OnlyLane(l) /\ opt'[l] = v
    BY <1>10, <2>1, <2>2, BecomesFacts
  <2> HIDE DEF v
  <2> QED
    BY <1>1, <2>1, <2>2, <2>3 DEF LaneInv, PlaceInv, RouteInv, EndInv
<1> QED
  BY <1>7, <1>8, <1>9, <1>10

LEMMA ClearedFacts ==
    ASSUME SetupAssumption
    PROVE  /\ Cleared \in LaneState
           /\ Cleared.pc = "initial" /\ Cleared.status = 0 /\ Cleared.iteration = 0
           /\ Cleared.boundary = 0 /\ Cleared.current.info = -1
           /\ ~Cleared.converged /\ ~Cleared.selected /\ ~Cleared.guarded
           /\ ~Cleared.stale /\ ~Cleared.attempted /\ ~Cleared.error
           /\ [Cleared EXCEPT !.attempted = TRUE] \in LaneState
           /\ [Cleared EXCEPT !.pc = "done", !.stale = TRUE, !.selected = TRUE]
                 \in LaneState
<1>1. PICK i \in {0, -1} : i = -1
  OBVIOUS
<1>0. PICK e : e = Broken(Start)
  OBVIOUS
<1>2. Broken(Start) \in LaneEvaluation /\ Broken(Start).info = -1
  <2>1. Start \in Points
    BY DEF SetupAssumption
  <2>2. e = [at |-> Start, info |-> i, route |-> "none", complete |-> FALSE,
             from |-> None]
    <3>1. e = [at |-> Start, info |-> -1, route |-> "none", complete |-> FALSE,
               from |-> None]
      BY <1>0 DEF Broken, Incomplete
    <3> QED
      BY <1>1, <3>1
  <2>3. e \in LaneEvaluation /\ e.info = i
    BY <2>1, <2>2, CompletedFacts
  <2> QED
    BY <1>0, <1>1, <2>3
<1> DEFINE b == Broken(Start)
<1> HIDE DEF b
<1>3. Cleared =
        [pc |-> "initial", status |-> 0, iteration |-> 0, tries |-> 0, coordinate |-> 1,
         boundary |-> 0, logSp |-> Start, current |-> b,
         reduction |-> 0, steepest |-> FALSE, zero |-> FALSE, converged |-> FALSE,
         stepFailed |-> FALSE,
         selected |-> FALSE, ambiguous |-> FALSE, undecided |-> FALSE,
         disputed |-> FALSE, guarded |-> FALSE, extreme |-> FALSE, stale |-> FALSE,
         attempted |-> FALSE, error |-> FALSE]
  BY DEF Cleared, b
<1>4. b \in LaneEvaluation /\ b.info = -1
  BY <1>2 DEF b
<1>5. Cleared \in LaneState
  BY <1>3, <1>4 DEF LaneState, SetupAssumption
<1>6. /\ Cleared.pc = "initial" /\ Cleared.status = 0 /\ Cleared.iteration = 0
      /\ Cleared.boundary = 0 /\ Cleared.current.info = -1
      /\ ~Cleared.converged /\ ~Cleared.selected /\ ~Cleared.guarded
      /\ ~Cleared.stale /\ ~Cleared.attempted /\ ~Cleared.error
  BY <1>3, <1>4
<1>7. /\ [Cleared EXCEPT !.attempted = TRUE] \in LaneState
      /\ [Cleared EXCEPT !.pc = "done", !.stale = TRUE, !.selected = TRUE] \in LaneState
  BY <1>5 DEF LaneState
<1> QED
  BY <1>5, <1>6, <1>7

LEMMA DeviceInit ==
    ASSUME SetupAssumption, Init
    PROVE  DeviceInv
<1> DEFINE r == [Cleared EXCEPT !.pc = "done", !.stale = TRUE, !.selected = TRUE]
<1>1. /\ opt = [l \in Lanes |-> IF l = "primary" THEN Cleared ELSE r]
      /\ lane = "primary"
  BY DEF Init
<1>2. r \in LaneState /\ r.pc = "done"
  BY ClearedFacts DEF LaneState
<1> HIDE DEF r
<1>3. /\ opt \in [Lanes -> LaneState]
      /\ opt["primary"] = Cleared /\ opt["replay"].pc = "done"
  BY <1>1, <1>2, ClearedFacts DEF Lanes
<1>4. LaneInv("primary", Cleared)
  BY ClearedFacts DEF LaneInv, PlaceInv, RouteInv, EndInv
<1> QED
  BY <1>1, <1>3, <1>4, ClearedFacts
  DEF DeviceInv, PrimaryInv, ReportedIsEvaluated, ReplaysSettled, StableInTheEnd

LaneStep(l) ==
    StartLane(l) \/ TrialLane(l) \/ JudgeLane(l) \/ ProbeLane(l) \/ SelectLane(l)

LEMMA LaneStepKeeps ==
    ASSUME SetupAssumption, ControlAssumption, Steps \subseteq Int,
           opt \in [Lanes -> LaneState], NEW l \in Lanes, LaneInv(l, opt[l]),
           LaneStep(l)
    PROVE  OnlyLane(l) /\ LaneInv(l, opt'[l])
BY StartKeeps, TrialKeeps, JudgeKeeps, ProbeKeeps, SelectKeeps DEF LaneStep

LEMMA StepOfLane ==
    ASSUME SetupAssumption, ControlAssumption, Steps \subseteq Int,
           DeviceInv, NEW l \in Lanes, LaneStep(l)
    PROVE  DeviceInv'
<1>1. lane = l /\ opt[l].pc # "done"
  BY DEF LaneStep, StartLane, TrialLane, JudgeLane, ProbeLane, SelectLane
<1>2. opt \in [Lanes -> LaneState]
  BY DEF DeviceInv
<1>3. lane' # "finished" /\ OnlyLane(l) /\ LaneInv(l, opt'[l])
  <2>1. LaneInv(l, opt[l])
    BY <1>1 DEF DeviceInv, PrimaryInv, Lanes
  <2>2. OnlyLane(l) /\ LaneInv(l, opt'[l])
    BY <1>2, <2>1, LaneStepKeeps
  <2> QED
    BY <1>1, <2>2 DEF OnlyLane, Lanes
<1>4. CASE l = "primary"
  <2>1. /\ lane' = "primary" /\ opt' \in [Lanes -> LaneState]
        /\ LaneInv("primary", opt'["primary"])
        /\ opt'["replay"] = opt["replay"]
        /\ ~opt'["primary"].attempted /\ ~opt'["primary"].error
        /\ opt["replay"].pc = "done"
    BY <1>1, <1>3, <1>4 DEF OnlyLane, DeviceInv, PrimaryInv, Lanes
  <2> QED
    BY <2>1 DEF DeviceInv, PrimaryInv, ReportedIsEvaluated, ReplaysSettled, StableInTheEnd
<1>5. CASE l = "replay"
  <2>1. /\ lane' = "replay" /\ opt' \in [Lanes -> LaneState]
        /\ LaneInv("replay", opt'["replay"])
        /\ opt'["primary"] = opt["primary"]
        /\ Replays(opt["primary"])
    BY <1>1, <1>3, <1>5 DEF OnlyLane, DeviceInv, Lanes
  <2>2. PrimaryInv /\ opt["primary"].pc = "done" /\ ~ExactPrimary
    BY <1>1, <1>5 DEF DeviceInv
  <2> QED
    BY <2>1, <2>2
    DEF DeviceInv, PrimaryInv, ReportedIsEvaluated, ReplaysSettled, StableInTheEnd
<1> QED
  BY <1>4, <1>5 DEF Lanes

LEMMA LaunchKeeps ==
    ASSUME SetupAssumption, DeviceInv, LaunchReplay
    PROVE  DeviceInv'
<1> DEFINE r == [Cleared EXCEPT !.attempted = TRUE]
<1>1. /\ lane = "primary" /\ lane' = "replay" /\ opt["primary"].pc = "done"
      /\ ~ExactPrimary
      /\ opt' = IF Replays(opt["primary"]) THEN [opt EXCEPT !["replay"] = r] ELSE opt
  BY DEF LaunchReplay
<1>2. opt \in [Lanes -> LaneState] /\ PrimaryInv /\ opt["replay"].pc = "done"
  BY <1>1 DEF DeviceInv
<1>3. /\ r \in LaneState /\ r.pc = "initial" /\ r.status = 0 /\ r.iteration = 0
      /\ r.boundary = 0 /\ r.current.info = -1
      /\ ~r.converged /\ ~r.selected /\ ~r.guarded /\ ~r.stale
  BY ClearedFacts DEF LaneState
<1> HIDE DEF r
<1>4. LaneInv("replay", r)
  BY <1>3 DEF LaneInv, PlaceInv, RouteInv, EndInv
<1>5. /\ opt' \in [Lanes -> LaneState] /\ opt'["primary"] = opt["primary"]
      /\ IF Replays(opt["primary"]) THEN opt'["replay"] = r
         ELSE opt'["replay"].pc = "done"
  BY <1>1, <1>2, <1>3 DEF Lanes
<1> QED
  BY <1>1, <1>2, <1>4, <1>5
  DEF DeviceInv, PrimaryInv, ReportedIsEvaluated, ReplaysSettled, StableInTheEnd

(* What the merge leaves of a primary run and of its replay.               *)
LEMMA MergedFacts ==
    ASSUME NEW s \in LaneState, NEW r \in LaneState, r.status = 0 => r.selected
    PROVE  /\ Merged(s, r) \in LaneState
           /\ Merged(s, r).attempted
           /\ Merged(s, r).selected <=> r.status = 0
           /\ Merged(s, r).error <=> r.status # 0
           /\ Merged(s, r).status = 0 => r.status = 0
           /\ r.status = 0 =>
                 /\ Merged(s, r).current = r.current /\ Merged(s, r).logSp = r.logSp
                 /\ Merged(s, r).stale = r.stale /\ Merged(s, r).guarded = r.guarded
<1> DEFINE picked == r.selected /\ r.status = 0
           failed == r.status # 0
           kept == IF picked THEN [r EXCEPT !.disputed = s.disputed]
                   ELSE IF failed THEN [s EXCEPT !.status = r.status]
                   ELSE s
           m == [kept EXCEPT !.attempted = TRUE, !.selected = picked, !.error = failed]
<1>1. Merged(s, r) = m
  BY DEF Merged
<1>2. /\ picked \in BOOLEAN /\ failed \in BOOLEAN
      /\ picked <=> r.status = 0
      /\ failed <=> r.status # 0
  OBVIOUS
<1>3. picked => kept = [r EXCEPT !.disputed = s.disputed]
  OBVIOUS
<1>4. failed => kept = [s EXCEPT !.status = r.status]
  OBVIOUS
<1> HIDE DEF picked, failed, kept
<1>5. CASE picked
  <2>1. kept \in LaneState
    BY <1>3, <1>5 DEF LaneState
  <2>2. /\ kept.current = r.current /\ kept.logSp = r.logSp /\ kept.status = r.status
        /\ kept.stale = r.stale /\ kept.guarded = r.guarded
    BY <1>3, <1>5 DEF LaneState
  <2>3. m \in LaneState
    BY <1>2, <2>1 DEF LaneState
  <2>4. /\ m.current = kept.current /\ m.logSp = kept.logSp /\ m.status = kept.status
        /\ m.stale = kept.stale /\ m.guarded = kept.guarded
        /\ m.attempted = TRUE /\ m.selected = picked /\ m.error = failed
    BY <2>1 DEF LaneState
  <2> HIDE DEF m
  <2> QED
    BY <1>1, <1>2, <1>5, <2>2, <2>3, <2>4
<1>6. CASE failed
  <2>1. kept \in LaneState
    BY <1>4, <1>6 DEF LaneState
  <2>2. kept.status = r.status
    BY <1>4, <1>6 DEF LaneState
  <2>3. m \in LaneState
    BY <1>2, <2>1 DEF LaneState
  <2>4. m.status = kept.status /\ m.attempted = TRUE /\ m.selected = picked /\ m.error = failed
    BY <2>1 DEF LaneState
  <2> HIDE DEF m
  <2> QED
    BY <1>1, <1>2, <1>6, <2>2, <2>3, <2>4
<1> QED
  BY <1>2, <1>5, <1>6

(* A state that may be reported.                                           *)
Reportable(s) ==
    LET output == materialize_optimizer_output(s)
    IN output.fit =>
        /\ output.evaluation.complete
        /\ output.evaluation.at = output.selected_log_sp
        /\ output.evaluation.from = output.selected_log_sp
        /\ ~output.stale /\ ~output.rankFailed

LEMMA FreshReports ==
    ASSUME NEW s, s.status = 0 => Fresh(s) /\ ~s.stale
    PROVE  Reportable(s)
<1> DEFINE fit == s.status = 0
           failed == s.current.info = -1
           o == [selected_log_sp |-> s.logSp, evaluation |-> s.current,
                 stale |-> s.stale, fit |-> fit, rankFailed |-> failed]
<1>1. fit => Fresh(s) /\ ~s.stale /\ ~failed
  BY DEF Fresh
<1>2. materialize_optimizer_output(s) = o
  BY DEF materialize_optimizer_output
<1> HIDE DEF fit, failed
<1>3. /\ o.selected_log_sp = s.logSp /\ o.evaluation = s.current
      /\ o.stale = s.stale /\ o.fit = fit /\ o.rankFailed = failed
  OBVIOUS
<1> HIDE DEF o
<1> QED
  BY <1>1, <1>2, <1>3 DEF Reportable, Fresh

LEMMA MergeKeeps ==
    ASSUME DeviceInv, merge_stability_replay_states
    PROVE  DeviceInv'
<1> DEFINE s == opt["primary"]
           r == opt["replay"]
<1>1. /\ lane = "replay" /\ lane' = "finished" /\ r.pc = "done"
      /\ opt' = IF Replays(s) THEN [opt EXCEPT !["primary"] = Merged(@, r)] ELSE opt
  BY DEF merge_stability_replay_states
<1>2. /\ opt \in [Lanes -> LaneState] /\ s \in LaneState /\ r \in LaneState
      /\ LaneInv("primary", s) /\ ~s.attempted /\ ~s.error
      /\ s.pc = "done" /\ ~ExactPrimary
      /\ Replays(s) => LaneInv("replay", r)
  BY <1>1 DEF DeviceInv, PrimaryInv, LaneInv, Lanes
<1>3. CASE ~Replays(s)
  <2>1. opt' = opt /\ reported' = s
    BY <1>1, <1>3 DEF reported
  <2>2. s.status = 0 => ~s.guarded
    BY <1>3 DEF Replays, is_stability_replay_candidate
  <2>3. s.status = 0 => Fresh(s) /\ ~s.stale /\ s.current.route = "stable_svd"
    BY <1>2, <2>2 DEF LaneInv, PlaceInv, RouteInv, EndInv, Fresh
  <2>4. ReportedIsEvaluated'
    BY <2>1, <2>3, FreshReports DEF ReportedIsEvaluated, Reportable
  <2>5. ReplaysSettled'
    BY <1>2, <2>1 DEF ReplaysSettled, ReplayReport
  <2>6. StableInTheEnd'
    BY <2>1, <2>2, <2>3 DEF StableInTheEnd
  <2> QED
    BY <1>1, <1>2, <2>1, <2>4, <2>5, <2>6 DEF DeviceInv
<1>4. CASE Replays(s)
  <2> DEFINE m == Merged(s, r)
  <2>1. /\ LaneInv("replay", r)
        /\ r.status = 0 => r.selected /\ Fresh(r) /\ ~r.stale
    BY <1>1, <1>2, <1>4 DEF LaneInv, PlaceInv, EndInv
  <2>2. ~r.guarded /\ (r.status = 0 => r.current.route = "stable_svd")
    BY <2>1 DEF LaneInv, RouteInv, Stable, Fresh
  <2>3. /\ m \in LaneState /\ m.attempted
        /\ m.selected <=> r.status = 0
        /\ m.error <=> r.status # 0
        /\ m.status = 0 => r.status = 0
        /\ r.status = 0 =>
              /\ m.current = r.current /\ m.logSp = r.logSp
              /\ m.stale = r.stale /\ m.guarded = r.guarded
    BY <1>2, <2>1, MergedFacts
  <2>4. opt' = [opt EXCEPT !["primary"] = m]
    BY <1>1, <1>4
  <2> HIDE DEF m
  <2>5. opt' \in [Lanes -> LaneState] /\ opt'["primary"] = m /\ reported' = m
    BY <1>2, <2>3, <2>4 DEF Lanes, reported
  <2>6. ReportedIsEvaluated'
    <3>1. m.status = 0 => Fresh(m) /\ ~m.stale
      BY <2>1, <2>3 DEF Fresh
    <3> QED
      BY <2>5, <3>1, FreshReports DEF ReportedIsEvaluated, Reportable
  <2>7. m.selected \in BOOLEAN /\ m.error \in BOOLEAN /\ m.attempted \in BOOLEAN
    BY <2>3 DEF LaneState
  <2>8. ReplaysSettled'
    <3>1. m.error => m.status # 0
      BY <2>3
    <3>2. m.selected # m.error
      BY <2>3, <2>7
    <3> QED
      BY <2>3, <2>5, <2>7, <3>1, <3>2 DEF ReplaysSettled, ReplayReport
  <2>9. StableInTheEnd'
    BY <2>2, <2>3, <2>5 DEF StableInTheEnd
  <2> QED
    BY <1>1, <2>5, <2>6, <2>8, <2>9 DEF DeviceInv
<1> QED
  BY <1>3, <1>4

LEMMA FinishKeeps ==
    ASSUME DeviceInv, Finish
    PROVE  DeviceInv'
<1> DEFINE s == opt["primary"]
<1>1. /\ ExactPrimary /\ lane = "primary" /\ lane' = "finished" /\ opt' = opt
      /\ s.pc = "done"
  BY DEF Finish
<1>2. LaneInv("primary", s) /\ ~s.attempted /\ ~s.error
  BY <1>1 DEF DeviceInv, PrimaryInv
<1>3. ~s.guarded /\ (s.status = 0 => Fresh(s) /\ ~s.stale /\ s.current.route = "stable_svd")
  BY <1>1, <1>2 DEF LaneInv, PlaceInv, RouteInv, EndInv, Fresh, Stable
<1>4. reported' = s
  BY <1>1 DEF reported
<1>5. ReportedIsEvaluated' /\ StableInTheEnd'
  BY <1>3, <1>4, FreshReports DEF ReportedIsEvaluated, Reportable, StableInTheEnd
<1>6. ReplaysSettled'
  BY <1>2, <1>4 DEF ReplaysSettled, ReplayReport
<1> QED
  BY <1>1, <1>5, <1>6 DEF DeviceInv

LEMMA DeviceNext ==
    ASSUME SetupAssumption, ControlAssumption, Steps \subseteq Int,
           DeviceInv, [Next]_vars
    PROVE  DeviceInv'
<1>1. CASE Next
  BY <1>1, StepOfLane, LaunchKeeps, MergeKeeps, FinishKeeps DEF Next, LaneStep
<1>2. CASE UNCHANGED vars
  BY <1>2
  DEF vars, DeviceInv, PrimaryInv, ReportedIsEvaluated, ReplaysSettled, StableInTheEnd,
      reported
<1> QED
  BY <1>1, <1>2

(* optimize_multi_penalty_targets_kernel, its replay and the merge: the    *)
(* invariant of the two lanes.  A lane's evaluation is of the parameters   *)
(* beside it wherever it may be reported, and a run that leaned on the     *)
(* guarded QR anywhere carries the mark until the replay replaces it.      *)
THEOREM DeviceInvariant ==
    ASSUME SetupAssumption, ControlAssumption, Steps \subseteq Int
    PROVE  Spec => []DeviceInv
<1>1. Init => DeviceInv
  BY DeviceInit
<1>2. DeviceInv /\ [Next]_vars => DeviceInv'
  BY DeviceNext
<1> QED
  BY <1>1, <1>2, PTL DEF Spec

(* materialize_optimizer_output: a target reported without an error has a  *)
(* complete evaluation of the parameters reported with it, from the        *)
(* decomposition of that very point and of this batch.                     *)
THEOREM ReportsOwnEvaluation ==
    ASSUME SetupAssumption, ControlAssumption, Steps \subseteq Int
    PROVE  Spec => []ReportedIsEvaluated
<1>1. DeviceInv => ReportedIsEvaluated
  BY DEF DeviceInv
<1> QED
  BY <1>1, DeviceInvariant, PTL

(* merge_stability_replay_states: every replay reported was selected or    *)
(* failed, and a failed one fails its target.                              *)
THEOREM ReplaysAreSettled ==
    ASSUME SetupAssumption, ControlAssumption, Steps \subseteq Int
    PROVE  Spec => []ReplaysSettled
<1>1. DeviceInv => ReplaysSettled
  BY DEF DeviceInv
<1> QED
  BY <1>1, DeviceInvariant, PTL

(* requires_guarded_qr_trajectory_stability_replay: no reported optimum    *)
(* rests on a guarded QR anywhere along its descent.                       *)
THEOREM NoGuardedOptimum ==
    ASSUME SetupAssumption, ControlAssumption, Steps \subseteq Int
    PROVE  Spec => []StableInTheEnd
<1>1. DeviceInv => StableInTheEnd
  BY DEF DeviceInv
<1> QED
  BY <1>1, DeviceInvariant, PTL

-----------------------------------------------------------------------------
(* The primary run and the host's descent.                                 *)

(* A primary run that is given stable decompositions only and whose        *)
(* comparisons are clear of rounding.                                      *)
ClearRun == ExactPrimary /\ 1 \notin Steps

LEMMA FailRefines ==
    ASSUME opt \in [Lanes -> LaneState], NEW code \in 1 .. 6,
           opt["primary"].pc \in {"initial", "trial", "judge", "probe", "select"},
           opt["primary"].status = 0, Fail("primary", code)
    PROVE  Host!Throw
<1> DEFINE s == reported
           t == [s EXCEPT !.pc = "done", !.status = code]
<1>1. s \in LaneState /\ s.status = 0 /\ code \in Nat /\ code # 0
      /\ s.pc \in {"initial", "trial", "judge", "probe", "select"}
  BY DEF reported, Lanes
<1>2. t \in LaneState
  BY <1>1 DEF LaneState
<1>3. opt' = [opt EXCEPT !["primary"] = t]
  BY DEF Fail, Becomes, reported
<1>4. reported' = t
  BY <1>3 DEF reported, Lanes
<1>5. /\ t.pc = "done" /\ t.status = code /\ t.iteration = s.iteration
      /\ t.tries = s.tries /\ t.coordinate = s.coordinate /\ t.boundary = s.boundary
      /\ t.logSp = s.logSp /\ t.current = s.current /\ t.reduction = s.reduction
      /\ t.steepest = s.steepest /\ t.zero = s.zero
      /\ t.converged = s.converged /\ t.stepFailed = s.stepFailed
  BY <1>1 DEF LaneState
<1> HIDE DEF s, t
<1>6. HostPc \in {"initial", "trial", "judge", "probe", "refine"} /\ HostPc' = "thrown"
  BY <1>1, <1>4, <1>5 DEF HostPc, s
<1>7. HostCurrent' = HostCurrent
  BY <1>1, <1>4, <1>5 DEF HostCurrent, s
<1> QED
  BY <1>4, <1>5, <1>6, <1>7 DEF Host!Throw, Host!progress, Host!verdict, s

LEMMA ReportedMoves ==
    ASSUME opt \in [Lanes -> LaneState], NEW t \in LaneState, NEW w,
           Becomes("primary", t, w)
    PROVE  reported' = t
BY DEF Becomes, reported, Lanes

LEMMA StartRefines ==
    ASSUME SetupAssumption, ControlAssumption, ExactPrimary,
           opt \in [Lanes -> LaneState], LaneInv("primary", opt["primary"]),
           StartLane("primary")
    PROVE  Host!BeginDescent \/ Host!Throw
<1> DEFINE s == opt["primary"]
<1>1. /\ s \in LaneState /\ s.pc = "initial" /\ s.logSp \in Points
      /\ s.iteration = 0 /\ ~s.converged /\ s.status = 0 /\ reported = s
  BY DEF StartLane, LaneInv, PlaceInv, EndInv, LaneState, reported
<1>2. PICK e \in Evaluations("primary", s.logSp) :
         IF Finite(e)
         THEN Becomes("primary",
                      [Counted(s, e) EXCEPT !.current = Completed(e, s.logSp),
                                            !.iteration = 1, !.pc = "judge"],
                      s.logSp)
         ELSE Fail("primary", 1)
  BY Zenon DEF StartLane
<1>3. CASE ~Finite(e)
  <2>1. Fail("primary", 1) /\ 1 \in 1 .. 6
    BY <1>2, <1>3
  <2> QED
    BY <1>1, <2>1, FailRefines
<1>4. CASE Finite(e)
  <2> DEFINE u == Counted(s, e)
             k == Completed(e, s.logSp)
             t == [u EXCEPT !.current = k, !.iteration = 1, !.pc = "judge"]
  <2>1. k \in LaneEvaluation /\ k.at = s.logSp /\ k.complete
    BY <1>1, EvaluationFacts DEF Lanes
  <2>2. IsMarked(s, e, u)
    BY <1>1, CountedFacts
  <2>3. Becomes("primary", t, s.logSp)
    BY <1>2, <1>4
  <2> HIDE DEF u, k
  <2>4. t \in LaneState
    BY <2>1, <2>2 DEF IsMarked, LaneState
  <2>5. /\ t.pc = "judge" /\ t.iteration = 1 /\ t.current = k
        /\ t.status = 0 /\ ~t.converged
        /\ t.tries = s.tries /\ t.coordinate = s.coordinate
        /\ t.boundary = s.boundary /\ t.logSp = s.logSp
        /\ t.reduction = s.reduction /\ t.steepest = s.steepest /\ t.zero = s.zero
        /\ t.converged = s.converged /\ t.stepFailed = s.stepFailed
    BY <1>1, <2>2 DEF IsMarked, LaneState
  <2> HIDE DEF t, s
  <2>6. reported' = t
    BY <2>3, <2>4, ReportedMoves
  <2>7. HostPc = "initial" /\ HostPc' = "judge"
    BY <1>1, <2>5, <2>6 DEF HostPc
  <2>8. HostCurrent' = HostCurrent
    <3>1. HostCurrent = [at |-> s.logSp, complete |-> TRUE]
      BY <1>1 DEF HostCurrent
    <3>2. k.complete = TRUE
      BY <2>1 DEF LaneEvaluation
    <3>3. HostCurrent' = [at |-> k.at, complete |-> k.complete]
      BY <2>5, <2>6 DEF HostCurrent
    <3> QED
      BY <2>1, <3>1, <3>2, <3>3
  <2> QED
    BY <1>1, <2>5, <2>6, <2>7, <2>8 DEF Host!BeginDescent, Host!verdict
<1> QED
  BY <1>3, <1>4

(* The evaluation a lane holds is the host's where it is fresh.            *)
LEMMA FreshView ==
    ASSUME reported \in LaneState, Fresh(reported), reported.iteration # 0,
           ~reported.converged
    PROVE  HostCurrent = Host!Evaluation(reported.logSp)
<1>1. HostCurrent = [at |-> reported.current.at, complete |-> reported.current.complete]
  BY DEF HostCurrent
<1>2. reported.current.complete = TRUE /\ reported.current.at = reported.logSp
  BY DEF LaneState, LaneEvaluation, Fresh
<1> QED
  BY <1>1, <1>2 DEF Host!Evaluation

TrialGuard(s, n, p, d, down, near) ==
    /\ Unmoved(s, n) => p = s.logSp /\ ~down
    /\ p = s.logSp => d = 0
    /\ near => Noise /\ down

LEMMA TrialChoices ==
    ASSUME NEW l, TrialLane(l)
    PROVE  \E p \in Points, d \in Steps, down, near, disagree \in BOOLEAN :
              /\ TrialGuard(opt[l], opt[l].tries + 1, p, d, down, near)
              /\ \E e \in Evaluations(l, p) :
                    TrialStep(l, opt[l], opt[l].tries + 1, p, d, down, near, disagree, e)
BY DEF TrialLane, TrialStep, TrialGuard

LEMMA TrialRefines ==
    ASSUME SetupAssumption, ControlAssumption, Steps \subseteq Int, ClearRun,
           opt \in [Lanes -> LaneState], LaneInv("primary", opt["primary"]),
           TrialLane("primary")
    PROVE  Host!Trial \/ Host!Throw
<1> DEFINE s == opt["primary"]
           n == s.tries + 1
           l == "primary"
<1>1. /\ s \in LaneState /\ s.pc = "trial" /\ s.logSp \in Points /\ n \in Nat
      /\ s.iteration \in 1 .. MaxIterations /\ ~s.converged
      /\ Fresh(s) /\ s.status = 0 /\ reported = s
  BY DEF TrialLane, LaneInv, PlaceInv, EndInv, LaneState, reported
<1>2. PICK p \in Points, d \in Steps, down \in BOOLEAN, near \in BOOLEAN,
           disagree \in BOOLEAN :
        /\ TrialGuard(s, n, p, d, down, near)
        /\ \E e \in Evaluations(l, p) : TrialStep(l, s, n, p, d, down, near, disagree, e)
  BY TrialChoices
<1>3. PICK e \in Evaluations(l, p) : TrialStep(l, s, n, p, d, down, near, disagree, e)
  BY <1>2
<1> DEFINE t == Counted(Tried(l, s, n, d, down, near, disagree), e)
<1>4. /\ e \in LaneEvaluation /\ e.at = p
      /\ Completed(e, p) \in LaneEvaluation
      /\ Completed(e, p).at = p /\ Completed(e, p).from = p
      /\ Completed(e, p).complete
  BY EvaluationFacts DEF Lanes
<1>5. d \in Int /\ Unmoved(s, n) \in BOOLEAN
  BY DEF Unmoved
<1>6. Accepts(l, s, n, d, down, near) <=> d < 0
  BY <1>2, <1>5 DEF Accepts, RoundoffDescent, TrialGuard, Noise, ClearRun
<1>7. /\ Unmoved(s, n) => p = s.logSp
      /\ p = s.logSp => d = 0
  BY <1>2 DEF TrialGuard
<1>8. Host!Unmoved(n) <=> Unmoved(s, n)
  BY <1>1 DEF Host!Unmoved, Host!Source, Unmoved, Source
<1> HIDE DEF n
<1>9. IsTried(s, n, e, t)
  <2>1. n \in Nat /\ s \in LaneState /\ l \in Lanes
    BY <1>1 DEF Lanes
  <2> QED
    BY <1>4, <1>5, <2>1, TriedFacts
<1>10. \/ Fail(l, 2)
       \/ d >= 0 /\ Becomes(l, Rejected(t, n, Unmoved(s, n)), p)
       \/ d < 0 /\ Becomes(l, Accepted(t, e, p), p)
  <2>1. \/ Fail(l, 2)
        \/ ~Accepts(l, s, n, d, down, near) /\ Becomes(l, Rejected(t, n, Unmoved(s, n)), p)
        \/ Accepts(l, s, n, d, down, near) /\ Becomes(l, Accepted(t, e, p), p)
    BY <1>3, Zenon DEF TrialStep
  <2>2. d >= 0 <=> ~(d < 0)
    BY <1>5
  <2> QED
    BY <1>6, <2>1, <2>2, Zenon
<1> HIDE DEF t
<1>11. HostPc = "trial" /\ HostCurrent = Host!Evaluation(s.logSp)
  <2>1. HostPc = "trial"
    BY <1>1 DEF HostPc
  <2>2. s.iteration # 0
    BY <1>1
  <2> QED
    BY <1>1, <2>1, <2>2, FreshView
<1>12. CASE Fail(l, 2)
  <2>1. s.pc \in {"initial", "trial", "judge", "probe", "select"} /\ 2 \in 1 .. 6
    BY <1>1
  <2> QED
    BY <1>1, <1>12, <2>1, FailRefines
<1>13. CASE d >= 0 /\ Becomes(l, Rejected(t, n, Unmoved(s, n)), p)
  <2> DEFINE r == Rejected(t, n, Unmoved(s, n))
  <2>1. IsRejected(t, n, Unmoved(s, n), r)
    <3>1. n \in Nat /\ t \in LaneState
      BY <1>1, <1>9 DEF IsTried
    <3> QED
      BY <1>5, <3>1, RejectedFacts
  <2>2. reported' = r
    BY <1>13, <2>1, ReportedMoves DEF IsRejected
  <2> HIDE DEF r, s
  <2>3. HostPc' = (IF n = MaxHalving THEN "judge" ELSE "trial")
    BY <1>1, <1>9, <2>1, <2>2 DEF HostPc, IsTried, IsRejected
  <2>4. HostCurrent' = HostCurrent
    <3>1. Fresh(r) /\ r.iteration # 0 /\ ~r.converged /\ r \in LaneState /\ r.logSp = s.logSp
      BY <1>1, <1>9, <2>1 DEF Fresh, IsTried, IsRejected
    <3>2. HostCurrent' = Host!Evaluation(r.logSp)
      <4>1. HostCurrent' = [at |-> r.current.at, complete |-> r.current.complete]
        BY <2>2, <3>1 DEF HostCurrent
      <4>2. r.current.complete = TRUE /\ r.current.at = r.logSp
        BY <3>1 DEF LaneState, LaneEvaluation, Fresh
      <4> QED
        BY <4>1, <4>2 DEF Host!Evaluation
    <3> QED
      BY <1>11, <3>1, <3>2
  <2>5. Host!Rejected(n)
    <3>1. reported'.logSp = reported.logSp /\ reported'.reduction = reported.reduction
      BY <1>1, <1>9, <2>1, <2>2 DEF IsTried, IsRejected
    <3>2. reported'.zero = (n = MaxHalving - 1 \/ Host!Unmoved(n))
      BY <1>8, <2>1, <2>2 DEF IsRejected
    <3> QED
      BY <2>3, <2>4, <3>1, <3>2 DEF Host!Rejected
  <2>6. /\ reported'.tries = n /\ reported'.steepest = (reported.steepest \/ n = 4)
        /\ reported'.iteration = reported.iteration
        /\ reported'.coordinate = reported.coordinate
        /\ reported'.boundary = reported.boundary
        /\ reported'.converged = reported.converged
        /\ reported'.stepFailed = reported.stepFailed
    BY <1>1, <1>9, <2>1, <2>2 DEF IsTried, IsRejected
  <2>7. n = reported.tries + 1
    BY <1>1 DEF n, s
  <2>8. Host!Unmoved(n) => p = reported.logSp
    BY <1>1, <1>7, <1>8
  <2>9. p = reported.logSp => d = 0
    BY <1>1, <1>7
  <2> HIDE DEF n
  <2> QED
    BY <1>11, <1>13, <2>5, <2>6, <2>7, <2>8, <2>9 DEF Host!Trial
<1>14. CASE d < 0 /\ Becomes(l, Accepted(t, e, p), p)
  <2> DEFINE a == Accepted(t, e, p)
  <2>1. IsAccepted(t, e, p, a)
    BY <1>4, <1>9, AcceptedFacts DEF IsTried
  <2>2. reported' = a
    BY <1>14, <2>1, ReportedMoves DEF IsAccepted
  <2> HIDE DEF a, s
  <2>3. HostPc' = "judge"
    BY <1>1, <1>9, <2>1, <2>2 DEF HostPc, IsTried, IsAccepted
  <2>4. HostCurrent' = Host!Evaluation(p)
    <3>1. /\ a.current = Completed(e, p) /\ a.iteration # 0 /\ ~a.converged
      BY <1>1, <1>9, <2>1 DEF IsTried, IsAccepted
    <3>2. HostCurrent' = [at |-> a.current.at, complete |-> a.current.complete]
      BY <2>2, <3>1 DEF HostCurrent
    <3>3. a.current.complete = TRUE /\ a.current.at = p
      BY <1>4, <3>1 DEF LaneEvaluation
    <3> QED
      BY <3>2, <3>3 DEF Host!Evaluation
  <2>5. Host!Accepted(p)
    <3>1. /\ reported'.logSp = p /\ reported'.reduction = reported.iteration
          /\ reported'.zero = reported.zero
      BY <1>1, <1>9, <2>1, <2>2 DEF IsTried, IsAccepted
    <3> QED
      BY <2>3, <2>4, <3>1 DEF Host!Accepted
  <2>6. /\ reported'.tries = n /\ reported'.steepest = (reported.steepest \/ n = 4)
        /\ reported'.iteration = reported.iteration
        /\ reported'.coordinate = reported.coordinate
        /\ reported'.boundary = reported.boundary
        /\ reported'.converged = reported.converged
        /\ reported'.stepFailed = reported.stepFailed
    BY <1>1, <1>9, <2>1, <2>2 DEF IsTried, IsAccepted
  <2>7. n = reported.tries + 1
    BY <1>1 DEF n, s
  <2>8. Host!Unmoved(n) => p = reported.logSp
    BY <1>1, <1>7, <1>8
  <2>9. p = reported.logSp => d = 0
    BY <1>1, <1>7
  <2> HIDE DEF n
  <2> QED
    BY <1>11, <1>14, <2>5, <2>6, <2>7, <2>8, <2>9 DEF Host!Trial
<1> QED
  BY <1>10, <1>12, <1>13, <1>14

LEMMA JudgeRefines ==
    ASSUME SetupAssumption, ControlAssumption,
           opt \in [Lanes -> LaneState], NEW l \in Lanes, l = "primary",
           LaneInv(l, opt[l]), JudgeLane(l)
    PROVE  Host!Judge \/ Host!Throw
<1> DEFINE s == opt[l]
<1>1. /\ s \in LaneState /\ s.pc = "judge"
      /\ s.iteration \in 1 .. MaxIterations /\ ~s.converged
      /\ Fresh(s) /\ s.status = 0
  <2>1. s.pc = "judge"
    BY Zenon DEF JudgeLane
  <2> QED
    BY <2>1 DEF LaneInv, PlaceInv, EndInv
<1>0. reported = s
  BY DEF reported
<1>2. CASE Fail(l, 3)
  <2>1. s.pc \in {"initial", "trial", "judge", "probe", "select"} /\ 3 \in 1 .. 6
    BY <1>0, <1>1
  <2> QED
    BY <1>0, <1>1, <1>2, <2>1, FailRefines
<1>3. HostPc = "judge" /\ HostCurrent = Host!Evaluation(s.logSp)
  <2>1. HostPc = "judge"
    BY <1>0, <1>1 DEF HostPc
  <2>2. s.iteration # 0
    BY <1>0, <1>1
  <2> QED
    BY <1>0, <1>1, <2>1, <2>2, FreshView
<1>4. ASSUME NEW small \in BOOLEAN, NEW negative \in BOOLEAN, NEW t,
             small => s.reduction # 0,
             t = [s EXCEPT !.converged = Converges(s, small),
                           !.stepFailed = (Converges(s, small) /\ Exhausted(s)),
                           !.steepest = negative, !.zero = FALSE, !.tries = 0],
             Becomes(l, IF Converges(s, small) THEN [t EXCEPT !.pc = "probe"]
                        ELSE IF s.iteration = MaxIterations
                        THEN [t EXCEPT !.pc = "done", !.status = 4]
                        ELSE [t EXCEPT !.pc = "trial", !.iteration = @ + 1],
                     workspace)
      PROVE  Host!Judge
  <2> DEFINE c == Converges(s, small)
             f == c /\ Exhausted(s)
  <2>1. c \in BOOLEAN /\ f \in BOOLEAN
    BY DEF Converges, Exhausted
  <2>2. t = [s EXCEPT !.converged = c, !.stepFailed = f,
                      !.steepest = negative, !.zero = FALSE, !.tries = 0]
    BY <1>4
  <2>3. /\ c => Becomes(l, [t EXCEPT !.pc = "probe"], workspace)
        /\ ~c /\ s.iteration = MaxIterations =>
              Becomes(l, [t EXCEPT !.pc = "done", !.status = 4], workspace)
        /\ ~c /\ s.iteration # MaxIterations =>
              Becomes(l, [t EXCEPT !.pc = "trial", !.iteration = @ + 1], workspace)
    BY <1>4
  <2>4. Host!Converges(small) = c /\ (Host!Converges(small) /\ Host!Exhausted) = f
    BY <1>0, <1>1 DEF Host!Converges, Host!Exhausted, Converges, Exhausted
  <2> HIDE DEF c, f
  <2>5. IsJudged(s, c, f, negative, t)
    <3>1. s \in LaneState /\ negative \in BOOLEAN
      BY <1>1
    <3>2. IsJudged(s, c, f, negative,
              [s EXCEPT !.converged = c, !.stepFailed = f, !.steepest = negative,
                        !.zero = FALSE, !.tries = 0])
      BY <2>1, <3>1, JudgedFacts, Zenon
    <3> QED
      BY <2>2, <3>2, Zenon
  <2> DEFINE i == t.iteration + 1
  <2>6. PICK u \in LaneState :
          /\ reported' = u
          /\ u.status = (IF ~c /\ s.iteration = MaxIterations THEN 4 ELSE 0)
          /\ u.pc = (IF c THEN "probe"
                     ELSE IF s.iteration = MaxIterations THEN "done" ELSE "trial")
          /\ u.iteration = (IF ~c /\ s.iteration # MaxIterations THEN i ELSE t.iteration)
          /\ u.tries = t.tries /\ u.coordinate = t.coordinate
          /\ u.boundary = t.boundary /\ u.logSp = t.logSp /\ u.current = t.current
          /\ u.reduction = t.reduction /\ u.steepest = t.steepest /\ u.zero = t.zero
          /\ u.converged = t.converged /\ u.stepFailed = t.stepFailed
    <3>1. CASE c
      <4> DEFINE u == [t EXCEPT !.pc = "probe"]
      <4>1. u \in LaneState
        BY <2>5 DEF LaneState, IsJudged
      <4>2. reported' = u
        BY <2>3, <3>1, <4>1, ReportedMoves
      <4>3. /\ u.status = t.status /\ u.pc = "probe" /\ u.iteration = t.iteration
            /\ u.tries = t.tries /\ u.coordinate = t.coordinate
            /\ u.boundary = t.boundary /\ u.logSp = t.logSp /\ u.current = t.current
            /\ u.reduction = t.reduction /\ u.steepest = t.steepest /\ u.zero = t.zero
            /\ u.converged = t.converged /\ u.stepFailed = t.stepFailed
        BY <2>5 DEF LaneState, IsJudged
      <4> HIDE DEF u
      <4>4. t.status = 0
        BY <1>0, <1>1, <2>5 DEF IsJudged
      <4> QED
        BY <3>1, <4>1, <4>2, <4>3, <4>4
    <3>2. CASE ~c /\ s.iteration = MaxIterations
      <4> DEFINE u == [t EXCEPT !.pc = "done", !.status = 4]
      <4>1. u \in LaneState
        BY <2>5 DEF LaneState, IsJudged
      <4>2. reported' = u
        BY <2>3, <3>2, <4>1, ReportedMoves
      <4>3. /\ u.status = 4 /\ u.pc = "done" /\ u.iteration = t.iteration
            /\ u.tries = t.tries /\ u.coordinate = t.coordinate
            /\ u.boundary = t.boundary /\ u.logSp = t.logSp /\ u.current = t.current
            /\ u.reduction = t.reduction /\ u.steepest = t.steepest /\ u.zero = t.zero
            /\ u.converged = t.converged /\ u.stepFailed = t.stepFailed
        BY <2>5 DEF LaneState, IsJudged
      <4> HIDE DEF u
      <4> QED
        BY <3>2, <4>1, <4>2, <4>3
    <3>3. CASE ~c /\ s.iteration # MaxIterations
      <4> DEFINE u == [t EXCEPT !.pc = "trial", !.iteration = i]
      <4>1. i \in Nat
        BY <2>5 DEF LaneState, IsJudged
      <4>2. Becomes(l, u, workspace)
        BY <2>3, <3>3
      <4> HIDE DEF i
      <4>3. u \in LaneState
        BY <2>5, <4>1 DEF LaneState, IsJudged
      <4>4. reported' = u
        BY <4>2, <4>3, ReportedMoves
      <4>5. /\ u.status = t.status /\ u.pc = "trial" /\ u.iteration = i
            /\ u.tries = t.tries /\ u.coordinate = t.coordinate
            /\ u.boundary = t.boundary /\ u.logSp = t.logSp /\ u.current = t.current
            /\ u.reduction = t.reduction /\ u.steepest = t.steepest /\ u.zero = t.zero
            /\ u.converged = t.converged /\ u.stepFailed = t.stepFailed
        BY <2>5, <4>1 DEF LaneState, IsJudged
      <4> HIDE DEF u
      <4>6. t.status = 0
        BY <1>0, <1>1, <2>5 DEF IsJudged
      <4> QED
        BY <3>3, <4>3, <4>4, <4>5, <4>6
    <3> QED
      BY <3>1, <3>2, <3>3, <2>1
  <2>7. i = s.iteration + 1
    BY <2>5 DEF IsJudged
  <2> HIDE DEF i, s
  <2>8. HostPc' = (IF c THEN "probe"
                   ELSE IF s.iteration = MaxIterations THEN "thrown" ELSE "trial")
    BY <2>1, <2>6 DEF HostPc
  <2>9. /\ u.logSp = s.logSp /\ u.reduction = s.reduction /\ u.coordinate = s.coordinate
        /\ u.boundary = s.boundary /\ u.zero = FALSE /\ u.tries = 0
        /\ u.converged = c /\ u.stepFailed = f /\ u.steepest = negative
        /\ u.iteration = (IF ~c /\ s.iteration # MaxIterations THEN s.iteration + 1
                          ELSE s.iteration)
        /\ u.current = s.current
    BY <2>5, <2>6, <2>7 DEF IsJudged
  <2>10. HostCurrent' = HostCurrent
    <3>1. s.current.complete = TRUE /\ s.current.at = s.logSp
      BY <1>0, <1>1 DEF LaneState, LaneEvaluation, Fresh
    <3>2. \/ HostCurrent' = [at |-> u.logSp, complete |-> TRUE]
          \/ HostCurrent' = [at |-> u.current.at, complete |-> u.current.complete]
      BY <2>6 DEF HostCurrent
    <3> QED
      BY <1>3, <2>9, <3>1, <3>2 DEF Host!Evaluation
  <2>11. /\ reported'.converged = Host!Converges(small)
         /\ reported'.stepFailed = (Host!Converges(small) /\ Host!Exhausted)
         /\ reported'.steepest = negative
         /\ reported'.zero = FALSE /\ reported'.tries = 0
         /\ UNCHANGED <<reported.coordinate, reported.boundary, reported.logSp,
                        HostCurrent, reported.reduction>>
    BY <1>0, <1>1, <2>4, <2>6, <2>9, <2>10
  <2>12. \/ Host!Converges(small) /\ HostPc' = "probe"
               /\ reported'.iteration = reported.iteration
         \/ ~Host!Converges(small) /\ reported.iteration < MaxIterations
               /\ HostPc' = "trial" /\ reported'.iteration = reported.iteration + 1
         \/ ~Host!Converges(small) /\ reported.iteration = MaxIterations
               /\ HostPc' = "thrown" /\ reported'.iteration = reported.iteration
    <3>1. s.iteration \in Int /\ MaxIterations \in Int /\ s.iteration <= MaxIterations
      BY <1>0, <1>1 DEF ControlAssumption
    <3> QED
      BY <1>0, <1>1, <2>1, <2>4, <2>6, <2>8, <2>9, <3>1
  <2>13. small => reported.reduction # 0
    BY <1>0, <1>1, <1>4
  <2> QED
    BY <1>3, <2>11, <2>12, <2>13 DEF Host!Judge
<1>5. Fail(l, 3) \/ \E small \in BOOLEAN, negative \in BOOLEAN :
         LET t == [s EXCEPT !.converged = Converges(s, small),
                            !.stepFailed = (Converges(s, small) /\ Exhausted(s)),
                            !.steepest = negative, !.zero = FALSE, !.tries = 0]
         IN /\ small => s.reduction # 0
            /\ Becomes(l, IF Converges(s, small) THEN [t EXCEPT !.pc = "probe"]
                          ELSE IF s.iteration = MaxIterations
                          THEN [t EXCEPT !.pc = "done", !.status = 4]
                          ELSE [t EXCEPT !.pc = "trial", !.iteration = @ + 1],
                       workspace)
  BY Zenon DEF JudgeLane
<1> QED
  BY <1>2, <1>4, <1>5, Zenon

(* A probe of the primary run is a probe of the host.                      *)
LEMMA ProbeChoices ==
    ASSUME NEW l, ProbeLane(l)
    PROVE  \E p \in Points \ {opt[l].logSp}, d \in Steps,
              steep, confirmed, doubt \in BOOLEAN :
              \E e \in Evaluations(l, p) :
                 ProbeStep(l, opt[l], p, d, steep, confirmed, doubt, e)
BY DEF ProbeLane, ProbeStep

LEMMA ProbeRefines ==
    ASSUME SetupAssumption, ControlAssumption, Steps \subseteq Int, ClearRun,
           opt \in [Lanes -> LaneState], LaneInv("primary", opt["primary"]),
           ProbeLane("primary")
    PROVE  Host!Probe \/ Host!Throw
<1> DEFINE s == opt["primary"]
           l == "primary"
<1>1. /\ s \in LaneState /\ s.pc = "probe" /\ s.iteration > 0 /\ s.converged
      /\ s.status = 0
  <2>1. s.pc = "probe"
    BY Zenon DEF ProbeLane
  <2> QED
    BY <2>1 DEF LaneInv, PlaceInv, EndInv
<1>2. reported = s
  BY DEF reported
<1>3. PICK p \in Points \ {s.logSp}, d \in Steps, steep \in BOOLEAN,
           confirmed \in BOOLEAN, doubt \in BOOLEAN :
        \E e \in Evaluations(l, p) : ProbeStep(l, s, p, d, steep, confirmed, doubt, e)
  BY ProbeChoices
<1>4. PICK e \in Evaluations(l, p) : ProbeStep(l, s, p, d, steep, confirmed, doubt, e)
  BY <1>3
<1> DEFINE accepted == d < 0
           t == [Counted(s, e) EXCEPT !.disputed = @ \/ FALSE]
           r == Probed(t, e, accepted)
           w == ~accepted \/ t.tries + 1 = MaxProbes
<1>5. Fail(l, 5) \/ Becomes(l, r, p)
  <2>1. ~Pending(l, d, steep)
    BY DEF Pending, Stable, ClearRun
  <2>2. ProbeStep(l, s, p, d, steep, confirmed, doubt, e) =>
           \/ Fail(l, 5)
           \/ Becomes(l, Probed([Counted(s, e) EXCEPT !.disputed = @ \/ FALSE], e, d < 0), p)
    <3> DEFINE pending == Pending(l, d, steep)
               taken == IF pending THEN confirmed ELSE d < 0
               doubted == pending /\ ~taken /\ doubt
    <3>1. doubted = FALSE /\ taken = (d < 0)
      BY <2>1
    <3>2. ProbeStep(l, s, p, d, steep, confirmed, doubt, e) =>
             \/ Fail(l, 5)
             \/ Becomes(l, Probed([Counted(s, e) EXCEPT !.disputed = @ \/ doubted], e, taken), p)
      BY Zenon DEF ProbeStep
    <3> HIDE DEF doubted, taken
    <3> QED
      BY <3>1, <3>2, Zenon
  <2> QED
    BY <1>4, <2>2, Zenon
<1>6. e.at = p
  BY EvaluationFacts DEF Lanes
<1>7. IsMarked(s, e, t)
  BY <1>1, MarkedFacts, Zenon
<1> HIDE DEF t
<1>8. accepted \in BOOLEAN /\ w \in BOOLEAN
  <2>1. (d < 0) \in BOOLEAN
    OBVIOUS
  <2> QED
    BY <2>1
<1>9. IsProbed(t, p, accepted, w, r)
  <2>1. t \in LaneState
    BY <1>7 DEF IsMarked
  <2> QED
    BY <1>6, <1>8, <2>1, ProbedFacts, Zenon
<1>10. CASE Fail(l, 5)
  <2>1. s.pc \in {"initial", "trial", "judge", "probe", "select"} /\ 5 \in 1 .. 6
    BY <1>1
  <2> QED
    BY <1>1, <1>10, <2>1, FailRefines
<1>11. CASE Becomes(l, r, p)
  <2> HIDE DEF r
  <2>1. reported' = r
    BY <1>9, <1>11, ReportedMoves DEF IsProbed
  <2>2. w <=> ~accepted \/ s.tries + 1 = MaxProbes
    BY <1>7 DEF IsMarked
  <2> HIDE DEF w, s
  <2>3. /\ r.logSp = (IF accepted THEN p ELSE s.logSp)
        /\ r.boundary = (IF accepted THEN s.boundary + 1 ELSE s.boundary)
        /\ r.tries = (IF w THEN 0 ELSE s.tries + 1)
        /\ r.coordinate = (IF w THEN s.coordinate + 1 ELSE s.coordinate)
        /\ r.pc = (IF w THEN IF s.coordinate = Penalties THEN "select" ELSE "probe"
                   ELSE "probe")
        /\ r.status = 0 /\ r.iteration = s.iteration
        /\ r.reduction = s.reduction /\ r.steepest = s.steepest /\ r.zero = s.zero
        /\ r.converged = s.converged /\ r.stepFailed = s.stepFailed
    BY <1>1, <1>7, <1>9 DEF IsMarked, IsProbed
  <2>4. /\ HostPc = "probe"
        /\ HostPc' = (IF w THEN IF s.coordinate = Penalties THEN "refine" ELSE "probe"
                      ELSE "probe")
    BY <1>1, <1>2, <2>1, <2>3 DEF HostPc
  <2>5. /\ HostCurrent = Host!Evaluation(s.logSp)
        /\ HostCurrent' = Host!Evaluation(r.logSp)
    BY <1>1, <1>2, <2>1, <2>3, <2>4 DEF HostCurrent, Host!Evaluation
  <2>6. UNCHANGED <<reported.iteration, Host!verdict>>
    BY <1>2, <2>1, <2>3 DEF Host!verdict
  <2>7. w => Host!NextCoordinate
    BY <1>2, <2>1, <2>3, <2>4 DEF Host!NextCoordinate
  <2>8. ~w => /\ reported'.tries = reported.tries + 1
              /\ UNCHANGED <<reported.coordinate, HostPc>>
    BY <1>2, <2>1, <2>3, <2>4
  <2>9. p \in Points /\ p # reported.logSp
    BY <1>2 DEF s
  <2>10. CASE accepted
    <3>1. reported'.logSp = p /\ HostCurrent' = Host!Evaluation(p)
          /\ reported'.boundary = reported.boundary + 1
      BY <1>2, <2>1, <2>3, <2>5, <2>10
    <3>2. IF reported.tries + 1 = MaxProbes THEN Host!NextCoordinate
          ELSE reported'.tries = reported.tries + 1
               /\ UNCHANGED <<reported.coordinate, HostPc>>
      BY <1>2, <2>2, <2>7, <2>8, <2>10
    <3> QED
      BY <2>4, <2>6, <2>9, <2>10, <3>1, <3>2 DEF Host!Probe
  <2>11. CASE ~accepted
    <3>1. UNCHANGED <<reported.logSp, HostCurrent, reported.boundary>>
      BY <1>2, <2>1, <2>3, <2>5, <2>11
    <3>2. d >= 0 /\ Host!NextCoordinate
      BY <2>2, <2>7, <2>11
    <3> QED
      BY <2>4, <2>6, <2>9, <3>1, <3>2 DEF Host!Probe
  <2> QED
    BY <2>10, <2>11
<1> QED
  BY <1>5, <1>10, <1>11

(* The selected fit.                                                       *)
LEMMA SelectRefines ==
    ASSUME SetupAssumption, ControlAssumption,
           opt \in [Lanes -> LaneState], LaneInv("primary", opt["primary"]),
           LaneInv("primary", opt'["primary"]), OnlyLane("primary"),
           SelectLane("primary")
    PROVE  Host!Refine \/ Host!Throw
<1> DEFINE s == opt["primary"]
           l == "primary"
<1>1. /\ s \in LaneState /\ s.pc = "select" /\ s.iteration > 0 /\ s.converged
      /\ s.status = 0 /\ s.logSp \in Points
  <2>1. s.pc = "select"
    BY Zenon DEF SelectLane
  <2> QED
    BY <2>1 DEF LaneInv, PlaceInv, EndInv, LaneState
<1>2. reported = s
  BY DEF reported
<1>3. PICK extreme \in {FALSE, s.boundary > 0} :
        LET t == [Selected(l, s) EXCEPT !.extreme = extreme] IN
        IF s.boundary = 0 /\ ~ForceSelected
        THEN Becomes(l, t, workspace)
        ELSE \E e \in Evaluations(l, s.logSp) :
                Becomes(l, IF Finite(e)
                           THEN [Counted(t, e) EXCEPT !.current = Completed(e, s.logSp)]
                           ELSE [t EXCEPT !.status = 6], s.logSp)
  BY Zenon DEF SelectLane
<1> DEFINE c == l = "replay"
           t == [s EXCEPT !.pc = "done", !.selected = c, !.extreme = extreme]
<1>4. c \in BOOLEAN /\ extreme \in BOOLEAN
  <2>1. FALSE \in BOOLEAN /\ (s.boundary > 0) \in BOOLEAN
    OBVIOUS
  <2>2. extreme = FALSE \/ extreme = (s.boundary > 0)
    OBVIOUS
  <2> QED
    BY <2>1, <2>2
<1>5. [Selected(l, s) EXCEPT !.extreme = extreme] = t
  BY <1>1 DEF Selected, LaneState
<1> HIDE DEF c
<1>6. t \in LaneState
  BY <1>1, <1>4 DEF LaneState
<1>7. /\ t.pc = "done" /\ t.status = 0 /\ t.iteration = s.iteration
      /\ t.tries = s.tries /\ t.coordinate = s.coordinate /\ t.boundary = s.boundary
      /\ t.logSp = s.logSp /\ t.reduction = s.reduction
      /\ t.steepest = s.steepest /\ t.zero = s.zero
      /\ t.converged = s.converged /\ t.stepFailed = s.stepFailed
  BY <1>1 DEF LaneState
<1>8. \/ Becomes(l, t, workspace)
      \/ \E e \in Evaluations(l, s.logSp) :
            Becomes(l, IF Finite(e)
                       THEN [Counted(t, e) EXCEPT !.current = Completed(e, s.logSp)]
                       ELSE [t EXCEPT !.status = 6], s.logSp)
  BY <1>3, <1>5, Zenon
<1> HIDE DEF t
(* However it was evaluated, only the evaluation and the status differ.    *)
<1>9. PICK u \in LaneState :
        /\ reported' = u
        /\ u.pc = "done" /\ u.status \in {0, 6} /\ u.iteration = s.iteration
        /\ u.tries = s.tries /\ u.coordinate = s.coordinate /\ u.boundary = s.boundary
        /\ u.logSp = s.logSp /\ u.reduction = s.reduction
        /\ u.steepest = s.steepest /\ u.zero = s.zero
        /\ u.converged = s.converged /\ u.stepFailed = s.stepFailed
  <2>1. CASE Becomes(l, t, workspace)
    <3>1. reported' = t
      BY <1>6, <2>1, ReportedMoves
    <3> QED
      BY <1>6, <1>7, <3>1
  <2>2. ASSUME NEW e \in Evaluations(l, s.logSp),
               Becomes(l, [Counted(t, e) EXCEPT !.current = Completed(e, s.logSp)],
                       s.logSp)
        PROVE  \E u \in LaneState :
                 /\ reported' = u
                 /\ u.pc = "done" /\ u.status \in {0, 6} /\ u.iteration = s.iteration
                 /\ u.tries = s.tries /\ u.coordinate = s.coordinate
                 /\ u.boundary = s.boundary
                 /\ u.logSp = s.logSp /\ u.reduction = s.reduction
                 /\ u.steepest = s.steepest /\ u.zero = s.zero
                 /\ u.converged = s.converged /\ u.stepFailed = s.stepFailed
    <3> DEFINE m == Counted(t, e)
               k == Completed(e, s.logSp)
               v == [m EXCEPT !.current = k]
    <3>1. k \in LaneEvaluation
      BY <1>1, EvaluationFacts DEF Lanes
    <3>2. IsMarked(t, e, m)
      BY <1>6, CountedFacts, Zenon
    <3>3. Becomes(l, v, s.logSp)
      BY <2>2, Zenon
    <3> HIDE DEF m, k
    <3>4. v \in LaneState
      BY <3>1, <3>2 DEF IsMarked, LaneState
    <3>5. /\ v.pc = "done" /\ v.status = 0 /\ v.iteration = s.iteration
          /\ v.tries = s.tries /\ v.coordinate = s.coordinate /\ v.boundary = s.boundary
          /\ v.logSp = s.logSp /\ v.reduction = s.reduction
          /\ v.steepest = s.steepest /\ v.zero = s.zero
          /\ v.converged = s.converged /\ v.stepFailed = s.stepFailed
      BY <1>7, <3>2 DEF IsMarked, LaneState
    <3> HIDE DEF v
    <3>6. reported' = v
      BY <3>3, <3>4, ReportedMoves
    <3> QED
      BY <3>4, <3>5, <3>6
  <2>3. CASE Becomes(l, [t EXCEPT !.status = 6], s.logSp)
    <3> DEFINE v == [t EXCEPT !.status = 6]
    <3>1. v \in LaneState
      BY <1>6 DEF LaneState
    <3>2. /\ v.pc = "done" /\ v.status = 6 /\ v.iteration = s.iteration
          /\ v.tries = s.tries /\ v.coordinate = s.coordinate /\ v.boundary = s.boundary
          /\ v.logSp = s.logSp /\ v.reduction = s.reduction
          /\ v.steepest = s.steepest /\ v.zero = s.zero
          /\ v.converged = s.converged /\ v.stepFailed = s.stepFailed
      BY <1>6, <1>7 DEF LaneState
    <3>3. reported' = v
      BY <2>3, <3>1, ReportedMoves
    <3> HIDE DEF v
    <3> QED
      BY <3>1, <3>2, <3>3
  <2> QED
    BY <1>8, <2>1, <2>2, <2>3, Zenon
<1> HIDE DEF s
<1>10. reported'.pc = "done" /\ reported'.status = 0 => Fresh(reported')
  BY DEF reported, LaneInv, PlaceInv
<1>11. HostPc = "refine" /\ HostPc' = (IF u.status = 0 THEN "done" ELSE "thrown")
  BY <1>1, <1>2, <1>9 DEF HostPc
<1>12. HostCurrent = [at |-> s.logSp, complete |-> TRUE]
  BY <1>1, <1>2 DEF HostCurrent
<1>13. HostCurrent' = HostCurrent
  <2>1. CASE u.status = 0
    <3>1. HostCurrent' = [at |-> u.current.at, complete |-> u.current.complete]
      BY <1>1, <1>9, <2>1 DEF HostCurrent
    <3>2. u.current.at = s.logSp /\ u.current.complete = TRUE
      BY <1>9, <1>10, <2>1 DEF Fresh, LaneState, LaneEvaluation
    <3> QED
      BY <1>12, <3>1, <3>2
  <2>2. CASE u.status # 0
    BY <1>1, <1>9, <1>12, <2>2 DEF HostCurrent
  <2> QED
    BY <2>1, <2>2
<1>14. UNCHANGED <<Host!progress, reported.logSp, HostCurrent, Host!verdict>>
  BY <1>2, <1>9, <1>13 DEF Host!progress, Host!verdict
<1> QED
  BY <1>11, <1>14 DEF Host!Refine, Host!Throw

(* The primary run of a clear target is a descent of the host.             *)
LEMMA LaneRefines ==
    ASSUME SetupAssumption, ControlAssumption, Steps \subseteq Int, ClearRun,
           opt \in [Lanes -> LaneState], LaneInv("primary", opt["primary"]),
           LaneStep("primary")
    PROVE  Host!Next
<1>1. "primary" \in Lanes
  BY DEF Lanes
<1>2. OnlyLane("primary") /\ LaneInv("primary", opt'["primary"])
  BY <1>1, LaneStepKeeps
<1>3. ExactPrimary
  BY DEF ClearRun
<1>4. CASE StartLane("primary")
  BY <1>3, <1>4, StartRefines DEF Host!Next
<1>5. CASE TrialLane("primary")
  BY <1>5, TrialRefines DEF Host!Next
<1>6. CASE JudgeLane("primary")
  BY <1>1, <1>6, JudgeRefines DEF Host!Next
<1>7. CASE ProbeLane("primary")
  BY <1>7, ProbeRefines DEF Host!Next
<1>8. CASE SelectLane("primary")
  BY <1>2, <1>8, SelectRefines DEF Host!Next
<1> QED
  BY <1>4, <1>5, <1>6, <1>7, <1>8 DEF LaneStep

LEMMA NextRefines ==
    ASSUME SetupAssumption, ControlAssumption, Steps \subseteq Int, ClearRun,
           DeviceInv, [Next]_vars
    PROVE  [Host!Next]_(Host!vars)
<1> DEFINE steady == UNCHANGED Host!vars
<1>1. ASSUME NEW l \in Lanes, LaneStep(l)
      PROVE  Host!Next
  <2>1. lane = l
    BY <1>1 DEF LaneStep, StartLane, TrialLane, JudgeLane, ProbeLane, SelectLane
  <2>2. l = "primary"
    BY <2>1 DEF DeviceInv, ClearRun, Lanes
  <2>3. opt \in [Lanes -> LaneState] /\ LaneInv("primary", opt["primary"])
    BY <2>1, <2>2 DEF DeviceInv, PrimaryInv
  <2>4. LaneStep("primary")
    BY <1>1, <2>2
  <2> QED
    BY <2>3, <2>4, LaneRefines
<1>2. ~LaunchReplay /\ ~merge_stability_replay_states
  BY DEF LaunchReplay, merge_stability_replay_states, DeviceInv, ClearRun
<1>3. ASSUME UNCHANGED opt
      PROVE  steady
  BY <1>3
  DEF Host!vars, Host!progress, Host!verdict, reported, HostPc, HostCurrent
<1>4. Finish \/ UNCHANGED vars => UNCHANGED opt
  BY DEF Finish, vars
<1> QED
  BY <1>1, <1>2, <1>3, <1>4 DEF Next, LaneStep

LEMMA InitRefines ==
    ASSUME SetupAssumption, Init
    PROVE  Host!Init
<1>1. reported = Cleared
  <2>1. PICK f : opt = [l \in Lanes |-> IF l = "primary" THEN Cleared ELSE f]
    BY Zenon DEF Init
  <2> QED
    BY <2>1 DEF reported, Lanes
<1>2. /\ Cleared.pc = "initial" /\ Cleared.status = 0 /\ Cleared.iteration = 0
      /\ Cleared.tries = 0 /\ Cleared.coordinate = 1 /\ Cleared.boundary = 0
      /\ Cleared.logSp = Start /\ Cleared.reduction = 0
      /\ Cleared.steepest = FALSE /\ Cleared.zero = FALSE
      /\ Cleared.converged = FALSE /\ Cleared.stepFailed = FALSE
  BY DEF Cleared
<1>3. Start \in Points
  BY DEF SetupAssumption
<1>4. HostPc = "initial" /\ HostCurrent = Host!Evaluation(Start)
  BY <1>1, <1>2 DEF HostPc, HostCurrent, Host!Evaluation
<1> QED
  BY <1>1, <1>2, <1>3, <1>4 DEF Host!Init

(* optimize_multi_penalty_targets_kernel against                           *)
(* multi_penalty_gcv_optimize_cpp: where no comparison of scores is within *)
(* rounding, the primary run of a target takes the host's descent step by  *)
(* step, through every try, test and probe, and selects what it selects.   *)
THEOREM DeviceImplementsHost ==
    ASSUME SetupAssumption, ControlAssumption, Steps \subseteq Int,
           ExactPrimary, 1 \notin Steps
    PROVE  Spec => RefinesHost
<1>1. ClearRun
  BY DEF ClearRun
<1>2. Init => Host!Init
  BY InitRefines
<1>3. DeviceInv /\ [Next]_vars => [Host!Next]_(Host!vars)
  BY <1>1, NextRefines
<1> QED
  BY <1>2, <1>3, DeviceInvariant, PTL DEF Spec, Host!Spec, RefinesHost

-----------------------------------------------------------------------------
(* One target of the single-penalty optimizer.                             *)

SingleState ==
    [pc : {"initial", "trial", "judge", "probe", "finalize", "limit", "invalid", "done"},
     iteration : Nat, tries : Nat, logSp : Points,
     current : [at : Points, complete : {TRUE}], reduction : Nat,
     steepest : BOOLEAN, zero : BOOLEAN, converged : BOOLEAN, stepFailed : BOOLEAN,
     boundary : Nat, iterationFlat : BOOLEAN, flat : BOOLEAN, endpointRisk : BOOLEAN]

SingleControl ==
    /\ Start \in Points
    /\ MaxHalving \in Nat /\ MaxIterations \in Nat \ {0} /\ MaxProbes \in Nat
    /\ Steps \subseteq Int

(* The fields of the states a try leads to: the step is taken to p, or     *)
(* halved.                                                                 *)
IsUnmoved(s, u) ==
    /\ u.logSp = s.logSp /\ u.current = s.current /\ u.reduction = s.reduction
    /\ u.boundary = s.boundary

IsTaken(s, n, p, u) ==
    /\ u \in SingleState
    /\ u.pc = "judge" /\ u.tries = n /\ u.steepest = (s.steepest \/ n = 4)
    /\ u.logSp = p /\ u.current = Single!Evaluation(p) /\ u.reduction = s.iteration
    /\ u.iteration = s.iteration /\ u.zero = s.zero /\ u.converged = s.converged
    /\ u.stepFailed = s.stepFailed /\ u.boundary = s.boundary
    /\ u.iterationFlat = s.iterationFlat /\ u.flat = s.flat

IsHalved(s, n, unmoved, unresolved, u) ==
    /\ u \in SingleState
    /\ u.pc = (IF unresolved \/ n = MaxHalving THEN "judge" ELSE "trial")
    /\ u.tries = n /\ u.steepest = (s.steepest \/ n = 4)
    /\ u.zero = (n = MaxHalving - 1 \/ unmoved)
    /\ u.iterationFlat = unresolved /\ u.flat = (s.flat \/ unresolved)
    /\ IsUnmoved(s, u)
    /\ u.iteration = s.iteration /\ u.converged = s.converged
    /\ u.stepFailed = s.stepFailed

(* At the end of an iteration: c says whether it converged.                *)
IsSettled(s, c, negative, u) ==
    /\ u \in SingleState
    /\ u.pc = (IF c THEN "probe" ELSE IF s.iteration = MaxIterations THEN "limit"
               ELSE "trial")
    /\ u.iteration = (IF ~c /\ s.iteration # MaxIterations THEN s.iteration + 1
                      ELSE s.iteration)
    /\ u.converged = c /\ u.stepFailed = (c /\ s.tries = MaxHalving)
    /\ u.steepest = negative /\ u.zero = FALSE /\ u.tries = 0
    /\ u.iterationFlat = FALSE /\ u.flat = s.flat
    /\ IsUnmoved(s, u)

(* The rest of a state when only its place changes.                        *)
IsPlaced(s, pl, u) ==
    /\ u \in SingleState
    /\ u.pc = pl
    /\ u.iteration = s.iteration /\ u.tries = s.tries
    /\ u.steepest = s.steepest /\ u.zero = s.zero /\ u.converged = s.converged
    /\ u.stepFailed = s.stepFailed
    /\ u.iterationFlat = s.iterationFlat /\ u.flat = s.flat
    /\ IsUnmoved(s, u)

LEMMA PlacedFacts ==
    ASSUME NEW s \in SingleState,
           NEW pl \in {"initial", "trial", "judge", "probe", "finalize", "limit",
                       "invalid", "done"}
    PROVE  IsPlaced(s, pl, [s EXCEPT !.pc = pl])
BY DEF SingleState, IsPlaced, IsUnmoved

(* Try n is counted, with the risk it takes near an end of the spectrum.   *)
Counting(s, n, risk) ==
    [[s EXCEPT !.tries = n, !.steepest = @ \/ n = 4]
        EXCEPT !.endpointRisk = @ \/ risk]

LEMMA TakenFacts ==
    ASSUME NEW s \in SingleState, NEW n \in Nat, NEW p \in Points, NEW risk \in BOOLEAN
    PROVE  IsTaken(s, n, p, Single!Accepted(Counting(s, n, risk), p))
<1> DEFINE st == s.steepest \/ n = 4
           v == [s EXCEPT !.tries = n, !.steepest = st]
           er == v.endpointRisk \/ risk
           t == [v EXCEPT !.endpointRisk = er]
           k == Single!Evaluation(p)
           a == [t EXCEPT !.logSp = p, !.current = k, !.reduction = t.iteration,
                          !.pc = "judge"]
<1>1. Single!Accepted(Counting(s, n, risk), p) = a
  BY DEF Single!Accepted, Counting
<1>2. k \in [at : Points, complete : {TRUE}]
  BY DEF Single!Evaluation
<1>3. st \in BOOLEAN /\ st = (s.steepest \/ n = 4) /\ er \in BOOLEAN
  OBVIOUS
<1> HIDE DEF st, er, k
<1>4. v \in SingleState
  BY <1>3 DEF SingleState
<1>5. /\ v.tries = n /\ v.steepest = st /\ v.iteration = s.iteration /\ v.zero = s.zero
      /\ v.converged = s.converged /\ v.stepFailed = s.stepFailed
      /\ v.boundary = s.boundary /\ v.iterationFlat = s.iterationFlat /\ v.flat = s.flat
  BY DEF SingleState
<1> HIDE DEF v
<1>6. t \in SingleState
  BY <1>3, <1>4 DEF SingleState
<1>7. /\ t.tries = v.tries /\ t.steepest = v.steepest /\ t.iteration = v.iteration
      /\ t.zero = v.zero
      /\ t.converged = v.converged /\ t.stepFailed = v.stepFailed
      /\ t.boundary = v.boundary /\ t.iterationFlat = v.iterationFlat /\ t.flat = v.flat
  BY <1>4 DEF SingleState
<1> HIDE DEF t
<1>8. a \in SingleState
  BY <1>2, <1>6 DEF SingleState
<1>9. /\ a.pc = "judge" /\ a.logSp = p /\ a.current = k /\ a.reduction = t.iteration
      /\ a.tries = t.tries /\ a.steepest = t.steepest /\ a.iteration = t.iteration
      /\ a.zero = t.zero
      /\ a.converged = t.converged /\ a.stepFailed = t.stepFailed
      /\ a.boundary = t.boundary /\ a.iterationFlat = t.iterationFlat /\ a.flat = t.flat
  BY <1>6 DEF SingleState
<1> HIDE DEF a
<1>10. IsTaken(s, n, p, a)
  BY <1>3, <1>5, <1>7, <1>8, <1>9 DEF IsTaken, k
<1> QED
  BY <1>1, <1>10

LEMMA HalvedFacts ==
    ASSUME NEW s \in SingleState, NEW n \in Nat, NEW risk \in BOOLEAN,
           NEW unmoved \in BOOLEAN, NEW unresolved \in BOOLEAN
    PROVE  IsHalved(s, n, unmoved, unresolved,
               Single!Rejected(Counting(s, n, risk), n, unmoved, unresolved))
<1> DEFINE st == s.steepest \/ n = 4
           v == [s EXCEPT !.tries = n, !.steepest = st]
           er == v.endpointRisk \/ risk
           t == [v EXCEPT !.endpointRisk = er]
           zero0 == n = MaxHalving - 1 \/ unmoved
           flat0 == t.flat \/ unresolved
           pc0 == IF unresolved \/ n = MaxHalving THEN "judge" ELSE "trial"
           a == [t EXCEPT !.zero = zero0, !.iterationFlat = unresolved,
                          !.flat = flat0, !.pc = pc0]
<1>1. Single!Rejected(Counting(s, n, risk), n, unmoved, unresolved) = a
  BY DEF Single!Rejected, Counting
<1>0. zero0 \in BOOLEAN /\ flat0 \in BOOLEAN /\ pc0 \in {"judge", "trial"}
  OBVIOUS
<1>2. /\ zero0 = (n = MaxHalving - 1 \/ unmoved)
      /\ flat0 = (t.flat \/ unresolved)
      /\ pc0 = (IF unresolved \/ n = MaxHalving THEN "judge" ELSE "trial")
  OBVIOUS
<1>3. st \in BOOLEAN /\ st = (s.steepest \/ n = 4) /\ er \in BOOLEAN
  OBVIOUS
<1> HIDE DEF st, er, zero0, flat0, pc0
<1>4. v \in SingleState
  BY <1>3 DEF SingleState
<1>5. /\ v.tries = n /\ v.steepest = st /\ v.iteration = s.iteration
      /\ v.converged = s.converged /\ v.stepFailed = s.stepFailed /\ v.flat = s.flat
      /\ IsUnmoved(s, v)
  BY DEF SingleState, IsUnmoved
<1> HIDE DEF v
<1>6. t \in SingleState
  BY <1>3, <1>4 DEF SingleState
<1>7. /\ t.tries = v.tries /\ t.steepest = v.steepest /\ t.iteration = v.iteration
      /\ t.converged = v.converged /\ t.stepFailed = v.stepFailed /\ t.flat = v.flat
      /\ IsUnmoved(v, t)
  BY <1>4 DEF SingleState, IsUnmoved
<1> HIDE DEF t
<1>8. a \in SingleState
  BY <1>0, <1>6 DEF SingleState
<1>9. /\ a.zero = zero0 /\ a.iterationFlat = unresolved /\ a.flat = flat0 /\ a.pc = pc0
      /\ a.tries = t.tries /\ a.steepest = t.steepest /\ a.iteration = t.iteration
      /\ a.converged = t.converged /\ a.stepFailed = t.stepFailed
      /\ IsUnmoved(t, a)
  BY <1>6 DEF SingleState, IsUnmoved
<1> HIDE DEF a
<1>10. IsHalved(s, n, unmoved, unresolved, a)
  BY <1>2, <1>3, <1>5, <1>7, <1>8, <1>9 DEF IsHalved, IsUnmoved
<1> QED
  BY <1>1, <1>10

(* A probe that is not better ends the walk; one that is moves the point.  *)
IsWalkedOff(s, u) ==
    /\ u \in SingleState
    /\ u.pc = "finalize" /\ u.tries = 0
    /\ u.iteration = s.iteration /\ u.steepest = s.steepest /\ u.zero = s.zero
    /\ u.converged = s.converged /\ u.stepFailed = s.stepFailed
    /\ u.iterationFlat = s.iterationFlat /\ u.flat = s.flat
    /\ IsUnmoved(s, u)

IsStepped(s, p, u) ==
    /\ u \in SingleState
    /\ u.pc = (IF s.tries + 1 = MaxProbes THEN "finalize" ELSE "probe")
    /\ u.tries = (IF s.tries + 1 = MaxProbes THEN 0 ELSE s.tries + 1)
    /\ u.logSp = p /\ u.current = Single!Evaluation(p) /\ u.boundary = s.boundary + 1
    /\ u.iteration = s.iteration /\ u.reduction = s.reduction
    /\ u.steepest = s.steepest /\ u.zero = s.zero
    /\ u.converged = s.converged /\ u.stepFailed = s.stepFailed
    /\ u.iterationFlat = s.iterationFlat /\ u.flat = s.flat

IsContinued(t, i, pl, u) ==
    /\ u \in SingleState /\ u.pc = pl /\ u.iteration = i
    /\ u.converged = t.converged /\ u.stepFailed = t.stepFailed
    /\ u.steepest = t.steepest /\ u.zero = t.zero /\ u.tries = t.tries
    /\ u.iterationFlat = t.iterationFlat /\ u.flat = t.flat /\ IsUnmoved(t, u)

LEMMA ContinuedFacts ==
    ASSUME NEW t \in SingleState, NEW i \in Nat, NEW pl \in {"probe", "limit", "trial"}
    PROVE  IsContinued(t, i, pl, [t EXCEPT !.pc = pl, !.iteration = i])
BY DEF SingleState, IsUnmoved, IsContinued

Settling(s, c, f, negative) ==
    [s EXCEPT !.converged = c, !.stepFailed = f, !.steepest = negative,
              !.zero = FALSE, !.tries = 0, !.iterationFlat = FALSE]

SettledTo(s, c, f, negative) ==
    LET t == Settling(s, c, f, negative) IN
    IF c THEN [t EXCEPT !.pc = "probe"]
    ELSE IF s.iteration = MaxIterations THEN [t EXCEPT !.pc = "limit"]
    ELSE [t EXCEPT !.pc = "trial", !.iteration = @ + 1]

LEMMA SettlingTyped ==
    ASSUME NEW s \in SingleState, NEW c \in BOOLEAN, NEW f \in BOOLEAN,
           NEW negative \in BOOLEAN
    PROVE  Settling(s, c, f, negative) \in SingleState
<1> DEFINE v == [s EXCEPT !.converged = c, !.stepFailed = f, !.steepest = negative]
           w == [v EXCEPT !.zero = FALSE, !.tries = 0]
<1>1. v \in SingleState
  BY DEF SingleState
<1>2. Settling(s, c, f, negative) = [w EXCEPT !.iterationFlat = FALSE]
  BY Zenon DEF Settling
<1> HIDE DEF v
<1>3. w \in SingleState
  BY <1>1 DEF SingleState
<1> HIDE DEF w
<1>4. [w EXCEPT !.iterationFlat = FALSE] \in SingleState
  BY <1>3 DEF SingleState
<1> QED
  BY <1>2, <1>4, Zenon

LEMMA SettledFacts ==
    ASSUME NEW s \in SingleState, NEW c \in BOOLEAN, NEW f \in BOOLEAN,
           f = (c /\ s.tries = MaxHalving), NEW negative \in BOOLEAN
    PROVE  IsSettled(s, c, negative, SettledTo(s, c, f, negative))
<1> DEFINE t == Settling(s, c, f, negative)
           u == SettledTo(s, c, f, negative)
<1>a. t = [s EXCEPT !.converged = c, !.stepFailed = f, !.steepest = negative,
                    !.zero = FALSE, !.tries = 0, !.iterationFlat = FALSE]
  BY DEF Settling
<1>b. u = IF c THEN [t EXCEPT !.pc = "probe"]
          ELSE IF s.iteration = MaxIterations THEN [t EXCEPT !.pc = "limit"]
          ELSE [t EXCEPT !.pc = "trial", !.iteration = @ + 1]
  BY Zenon DEF SettledTo
<1> HIDE DEF t, u
<1>1. t \in SingleState
  BY SettlingTyped, Zenon DEF t
<1>2. /\ t.converged = c /\ t.stepFailed = f /\ t.steepest = negative
      /\ t.zero = FALSE /\ t.tries = 0 /\ t.iterationFlat = FALSE
      /\ t.iteration = s.iteration /\ t.flat = s.flat /\ IsUnmoved(s, t)
  BY <1>a DEF SingleState, IsUnmoved
<1> DEFINE i == IF ~c /\ s.iteration # MaxIterations THEN s.iteration + 1 ELSE s.iteration
           pl == IF c THEN "probe" ELSE IF s.iteration = MaxIterations THEN "limit"
                 ELSE "trial"
<1>4. i \in Nat /\ pl \in {"probe", "limit", "trial"}
  BY DEF SingleState
<1>5. u = [t EXCEPT !.pc = pl, !.iteration = i]
  <2>1. t.iteration = s.iteration
    BY <1>2
  <2>2. CASE c
    BY <1>1, <1>b, <2>1, <2>2 DEF SingleState
  <2>3. CASE ~c /\ s.iteration = MaxIterations
    BY <1>1, <1>b, <2>1, <2>3 DEF SingleState
  <2>4. CASE ~c /\ s.iteration # MaxIterations
    BY <1>1, <1>b, <2>1, <2>4 DEF SingleState
  <2> QED
    BY <2>2, <2>3, <2>4
<1>6. /\ i = (IF ~c /\ s.iteration # MaxIterations THEN s.iteration + 1 ELSE s.iteration)
      /\ pl = (IF c THEN "probe" ELSE IF s.iteration = MaxIterations THEN "limit"
               ELSE "trial")
  OBVIOUS
<1> HIDE DEF i, pl
<1>7. IsContinued(t, i, pl, u)
  <2>1. IsContinued(t, i, pl, [t EXCEPT !.pc = pl, !.iteration = i])
    BY <1>1, <1>4, ContinuedFacts, Zenon
  <2> QED
    BY <1>5, <2>1, Zenon
<1>8. IsSettled(s, c, negative, u)
  BY <1>2, <1>6, <1>7 DEF IsSettled, IsContinued, IsUnmoved
<1> QED
  BY <1>8 DEF u

LEMMA WalkedOffFacts ==
    ASSUME NEW s \in SingleState
    PROVE  IsWalkedOff(s, [s EXCEPT !.pc = "finalize", !.tries = 0])
BY DEF SingleState, IsWalkedOff, IsUnmoved

LEMMA SteppedFacts ==
    ASSUME NEW s \in SingleState, NEW p \in Points
    PROVE  IsStepped(s, p,
              [s EXCEPT !.logSp = p, !.current = Single!Evaluation(p),
                        !.boundary = @ + 1,
                        !.tries = IF @ + 1 = MaxProbes THEN 0 ELSE @ + 1,
                        !.pc = IF s.tries + 1 = MaxProbes THEN "finalize" ELSE "probe"])
<1> DEFINE b == s.boundary + 1
           i == IF s.tries + 1 = MaxProbes THEN 0 ELSE s.tries + 1
           pl == IF s.tries + 1 = MaxProbes THEN "finalize" ELSE "probe"
           k == Single!Evaluation(p)
           u == [s EXCEPT !.logSp = p, !.current = k, !.boundary = b, !.tries = i,
                          !.pc = pl]
<1>1. b \in Nat /\ i \in Nat /\ pl \in {"finalize", "probe"}
  BY DEF SingleState
<1>2. k \in [at : Points, complete : {TRUE}]
  BY DEF Single!Evaluation
<1>3. /\ b = s.boundary + 1
      /\ i = (IF s.tries + 1 = MaxProbes THEN 0 ELSE s.tries + 1)
      /\ pl = (IF s.tries + 1 = MaxProbes THEN "finalize" ELSE "probe")
      /\ k = Single!Evaluation(p)
  OBVIOUS
<1>4. [s EXCEPT !.logSp = p, !.current = Single!Evaluation(p), !.boundary = @ + 1,
                !.tries = IF @ + 1 = MaxProbes THEN 0 ELSE @ + 1,
                !.pc = IF s.tries + 1 = MaxProbes THEN "finalize" ELSE "probe"] = u
  OBVIOUS
<1> HIDE DEF b, i, pl, k
<1>5. u \in SingleState
  BY <1>1, <1>2 DEF SingleState
<1>6. /\ u.pc = pl /\ u.tries = i /\ u.logSp = p /\ u.current = k /\ u.boundary = b
      /\ u.iteration = s.iteration /\ u.reduction = s.reduction
      /\ u.steepest = s.steepest /\ u.zero = s.zero
      /\ u.converged = s.converged /\ u.stepFailed = s.stepFailed
      /\ u.iterationFlat = s.iterationFlat /\ u.flat = s.flat
  BY DEF SingleState
<1> HIDE DEF u
<1>7. IsStepped(s, p, u)
  BY <1>3, <1>5, <1>6 DEF IsStepped
<1> QED
  BY <1>4, <1>7

(* What each step of an optimizer does to its fields.                      *)
LEMMA SingleTrialMoves ==
    ASSUME SingleControl, exactOpt \in SingleState, Single!Trial
    PROVE  /\ exactOpt.pc = "trial" /\ UNCHANGED <<exactLane, exactResult>>
           /\ \/ exactLane = "exact" /\ IsPlaced(exactOpt, "invalid", exactOpt')
              \/ \E p \in Points, d \in Steps, unresolved \in BOOLEAN :
                    LET n == exactOpt.tries + 1 IN
                    /\ Single!Unmoved(n) => p = exactOpt.logSp
                    /\ p = exactOpt.logSp => d = 0
                    /\ unresolved => exactLane = "spectral"
                    /\ \/ d < 0 /\ IsTaken(exactOpt, n, p, exactOpt')
                       \/ d >= 0 /\ IsHalved(exactOpt, n, Single!Unmoved(n), unresolved,
                                             exactOpt')
<1> DEFINE s == exactOpt
           n == s.tries + 1
           v == [s EXCEPT !.tries = n, !.steepest = @ \/ n = 4]
           Moves(p, d, unresolved, risk) ==
               LET t == [v EXCEPT !.endpointRisk = @ \/ risk] IN
               /\ Single!Unmoved(n) => p = s.logSp
               /\ p = s.logSp => d = 0
               /\ unresolved \/ risk => exactLane = "spectral" /\ Single!Newton(n)
               /\ \/ d < 0 /\ Single!Becomes(Single!Accepted(t, p))
                  \/ d >= 0 /\ Single!Becomes(Single!Rejected(t, n, Single!Unmoved(n),
                                                              unresolved))
<1>1. /\ s.pc = "trial"
      /\ \/ exactLane = "exact" /\ Single!Invalid
         \/ \E p \in Points, d \in Steps, unresolved, risk \in BOOLEAN :
               Moves(p, d, unresolved, risk)
  BY Zenon DEF Single!Trial
<1>2. n \in Nat /\ Single!Unmoved(n) \in BOOLEAN
  BY DEF SingleState, Single!Unmoved
<1>3. CASE exactLane = "exact" /\ Single!Invalid
  <2>1. IsPlaced(s, "invalid", [s EXCEPT !.pc = "invalid"])
    BY PlacedFacts
  <2> QED
    BY <1>1, <1>3, <2>1, Zenon DEF Single!Invalid, Single!Becomes
<1>4. ASSUME NEW p \in Points, NEW d \in Steps, NEW unresolved \in BOOLEAN,
             NEW risk \in BOOLEAN, Moves(p, d, unresolved, risk)
      PROVE  /\ UNCHANGED <<exactLane, exactResult>>
             /\ Single!Unmoved(n) => p = s.logSp
             /\ p = s.logSp => d = 0
             /\ unresolved => exactLane = "spectral"
             /\ \/ d < 0 /\ IsTaken(s, n, p, exactOpt')
                \/ d >= 0 /\ IsHalved(s, n, Single!Unmoved(n), unresolved, exactOpt')
  <2> DEFINE a == Single!Accepted(Counting(s, n, risk), p)
             r == Single!Rejected(Counting(s, n, risk), n, Single!Unmoved(n), unresolved)
  <2>1. IsTaken(s, n, p, a)
    BY <1>2, TakenFacts, Zenon
  <2>2. IsHalved(s, n, Single!Unmoved(n), unresolved, r)
    BY <1>2, HalvedFacts, Zenon
  <2>3. /\ Single!Unmoved(n) => p = s.logSp
        /\ p = s.logSp => d = 0
        /\ unresolved => exactLane = "spectral"
        /\ \/ d < 0 /\ Single!Becomes(a)
           \/ d >= 0 /\ Single!Becomes(r)
    BY <1>4, Zenon DEF Counting
  <2> HIDE DEF a, r
  <2> QED
    BY <2>1, <2>2, <2>3, Zenon DEF Single!Becomes
<1>5. CASE \E p \in Points, d \in Steps, unresolved, risk \in BOOLEAN :
              Moves(p, d, unresolved, risk)
  <2>1. PICK p \in Points, d \in Steps, unresolved \in BOOLEAN, risk \in BOOLEAN :
          Moves(p, d, unresolved, risk)
    BY <1>5, Zenon
  <2> HIDE DEF Moves
  <2> QED
    BY <1>1, <1>4, <2>1, Zenon
<1> QED
  BY <1>1, <1>3, <1>5, Zenon

LEMMA SingleJudgeMoves ==
    ASSUME SingleControl, exactOpt \in SingleState, Single!Judge
    PROVE  /\ exactOpt.pc = "judge" /\ UNCHANGED <<exactLane, exactResult>>
           /\ \E small, negative \in BOOLEAN :
                 /\ small => exactOpt.reduction # 0
                 /\ IsSettled(exactOpt, Single!Converges(small), negative, exactOpt')
<1> DEFINE s == exactOpt
<1>1. /\ s.pc = "judge"
      /\ \E small, negative \in BOOLEAN :
            /\ small => s.reduction # 0
            /\ Single!Becomes(SettledTo(s, Single!Converges(small),
                                        Single!Converges(small) /\ Single!Exhausted,
                                        negative))
  BY Zenon DEF Single!Judge, SettledTo, Settling
<1>2. PICK small \in BOOLEAN, negative \in BOOLEAN :
        /\ small => s.reduction # 0
        /\ Single!Becomes(SettledTo(s, Single!Converges(small),
                                    Single!Converges(small) /\ Single!Exhausted,
                                    negative))
  BY <1>1, Zenon
<1> DEFINE c == Single!Converges(small)
           f == c /\ Single!Exhausted
<1>3. c \in BOOLEAN /\ f \in BOOLEAN /\ f = (c /\ s.tries = MaxHalving)
  BY DEF Single!Converges, Single!Exhausted
<1>4. Single!Becomes(SettledTo(s, c, f, negative))
  BY <1>2, Zenon
<1>5. c = Single!Converges(small)
  OBVIOUS
<1> HIDE DEF c, f
<1>6. IsSettled(s, c, negative, SettledTo(s, c, f, negative))
  BY <1>3, SettledFacts
<1>7. /\ exactOpt' = SettledTo(s, c, f, negative)
      /\ UNCHANGED <<exactLane, exactResult>>
  BY <1>4, Zenon DEF Single!Becomes
<1>8. IsSettled(s, c, negative, exactOpt')
  BY <1>6, <1>7, Zenon
<1>9. IsSettled(s, Single!Converges(small), negative, exactOpt')
  BY <1>5, <1>8, Zenon
<1> QED
  BY <1>1, <1>2, <1>7, <1>9, Zenon

LEMMA SingleProbeMoves ==
    ASSUME SingleControl, exactOpt \in SingleState, Single!Probe
    PROVE  /\ exactOpt.pc = "probe" /\ UNCHANGED <<exactLane, exactResult>>
           /\ \/ exactLane = "exact" /\ IsPlaced(exactOpt, "invalid", exactOpt')
              \/ \E p \in Points \ {exactOpt.logSp}, d \in Steps :
                    \/ d >= 0 /\ IsWalkedOff(exactOpt, exactOpt')
                    \/ d < 0 /\ IsStepped(exactOpt, p, exactOpt')
<1> DEFINE s == exactOpt
           off == [s EXCEPT !.pc = "finalize", !.tries = 0]
           on(p) == [s EXCEPT !.logSp = p, !.current = Single!Evaluation(p),
                        !.boundary = @ + 1,
                        !.tries = IF @ + 1 = MaxProbes THEN 0 ELSE @ + 1,
                        !.pc = IF s.tries + 1 = MaxProbes THEN "finalize" ELSE "probe"]
<1>1. /\ s.pc = "probe"
      /\ \/ exactLane = "exact" /\ Single!Invalid
         \/ \E p \in Points \ {s.logSp}, d \in Steps :
               Single!Becomes(IF d >= 0 THEN off ELSE on(p))
  BY Zenon DEF Single!Probe
<1>2. CASE exactLane = "exact" /\ Single!Invalid
  <2>1. IsPlaced(s, "invalid", [s EXCEPT !.pc = "invalid"])
    BY PlacedFacts
  <2> QED
    BY <1>1, <1>2, <2>1, Zenon DEF Single!Invalid, Single!Becomes
<1>3. CASE \E p \in Points \ {s.logSp}, d \in Steps :
              Single!Becomes(IF d >= 0 THEN off ELSE on(p))
  <2>1. PICK p \in Points \ {s.logSp}, d \in Steps :
          Single!Becomes(IF d >= 0 THEN off ELSE on(p))
    BY <1>3, Zenon
  <2>2. IsWalkedOff(s, off)
    BY WalkedOffFacts
  <2>3. p \in Points
    OBVIOUS
  <2>4. IsStepped(s, p, on(p))
    BY <2>3, SteppedFacts, Zenon
  <2> DEFINE w == IF d >= 0 THEN off ELSE on(p)
             m == on(p)
  <2>5. (d >= 0 => w = off) /\ (~(d >= 0) => w = m)
    BY Zenon
  <2>6. exactOpt' = w /\ UNCHANGED <<exactLane, exactResult>>
    BY <2>1, Zenon DEF Single!Becomes
  <2>7. d >= 0 \/ (d < 0 /\ ~(d >= 0))
    BY DEF SingleControl
  <2>8. IsStepped(s, p, m)
    BY <2>4, Zenon
  <2> HIDE DEF w, off, on, m
  <2>9. \/ d >= 0 /\ IsWalkedOff(s, exactOpt')
        \/ d < 0 /\ IsStepped(s, p, exactOpt')
    BY <2>2, <2>5, <2>6, <2>7, <2>8, Zenon
  <2> QED
    BY <1>1, <2>6, <2>9, Zenon
<1> QED
  BY <1>1, <1>2, <1>3, Zenon

LEMMA SingleInitialMoves ==
    ASSUME SingleControl, exactOpt \in SingleState, Single!Initial
    PROVE  /\ exactOpt.pc = "initial" /\ exactLane # "finished"
           /\ UNCHANGED <<exactLane, exactResult>>
           /\ \/ IsPlaced(exactOpt, "invalid", exactOpt')
              \/ IsPlaced([exactOpt EXCEPT !.iteration = 1], "judge", exactOpt')
<1> DEFINE s == exactOpt
<1>1. /\ s.pc = "initial" /\ exactLane # "finished"
      /\ \/ Single!Becomes([s EXCEPT !.iteration = 1, !.pc = "judge"])
         \/ Single!Becomes([s EXCEPT !.pc = "invalid"])
  BY Zenon DEF Single!Initial, Single!Invalid
<1>2. IsPlaced(s, "invalid", [s EXCEPT !.pc = "invalid"])
  BY PlacedFacts
<1> DEFINE t == [s EXCEPT !.iteration = 1]
           u == [s EXCEPT !.iteration = 1, !.pc = "judge"]
<1>3. IsPlaced(t, "judge", u)
  <2>1. u \in SingleState
    BY DEF SingleState
  <2> QED
    BY <2>1 DEF SingleState, IsPlaced, IsUnmoved
<1> HIDE DEF u
<1> QED
  BY <1>1, <1>2, <1>3, Zenon DEF Single!Becomes, u

(* An optimizer's evaluation is of its parameters.  A reduction is of the  *)
(* iteration that ends unless no step of it was taken, which ends it as    *)
(* failed or flat; a flat iteration leaves its mark, which only the        *)
(* spectral run can have.                                                  *)
SingleRunInv(s) ==
    /\ s.current = Single!Evaluation(s.logSp)
    /\ s.pc \in {"trial", "judge"} => s.iteration \in 1 .. MaxIterations
    /\ s.pc \in {"initial", "trial"} => ~s.iterationFlat
    /\ s.iterationFlat => s.flat
    /\ s.pc = "judge" /\ s.iteration > 1 /\ s.tries # MaxHalving /\ ~s.flat =>
          s.reduction = s.iteration
    /\ s.pc \in {"probe", "finalize"} /\ ~s.stepFailed /\ ~s.flat =>
          s.reduction = s.iteration

SingleInv ==
    /\ exactOpt \in SingleState
    /\ exactLane \in {"spectral", "exact", "finished"}
    /\ exactLane # "finished" => exactOpt.pc # "done" /\ SingleRunInv(exactOpt)
    /\ exactLane = "exact" => ~exactOpt.flat
    /\ exactLane = "finished" => exactOpt.pc \in {"done", "limit", "invalid"}
    /\ Single!ConvergedIsFresh

LEMMA SingleCleared ==
    ASSUME SingleControl
    PROVE  /\ Single!Cleared \in SingleState
           /\ Single!Cleared.pc = "initial" /\ ~Single!Cleared.flat
           /\ SingleRunInv(Single!Cleared)
<1> DEFINE k == Single!Evaluation(Start)
<1>1. k \in [at : Points, complete : {TRUE}]
  BY DEF Single!Evaluation, SingleControl
<1>2. Single!Cleared =
        [pc |-> "initial", iteration |-> 0, tries |-> 0, logSp |-> Start,
         current |-> k, reduction |-> 0, steepest |-> FALSE,
         zero |-> FALSE, converged |-> FALSE, stepFailed |-> FALSE,
         boundary |-> 0, iterationFlat |-> FALSE, flat |-> FALSE,
         endpointRisk |-> FALSE]
  BY DEF Single!Cleared
<1>3. k = Single!Evaluation(Start)
  OBVIOUS
<1> HIDE DEF k
<1>4. Single!Cleared \in SingleState
  BY <1>1, <1>2 DEF SingleState, SingleControl
<1>5. /\ Single!Cleared.pc = "initial" /\ ~Single!Cleared.flat
      /\ ~Single!Cleared.iterationFlat
      /\ Single!Cleared.logSp = Start /\ Single!Cleared.current = k
  BY <1>2
<1> QED
  BY <1>3, <1>4, <1>5 DEF SingleRunInv

LEMMA SingleRunKeeps ==
    ASSUME SingleControl, exactOpt \in SingleState, SingleRunInv(exactOpt),
           exactLane = "exact" => ~exactOpt.flat,
           Single!Initial \/ Single!Trial \/ Single!Judge \/ Single!Probe
    PROVE  /\ UNCHANGED <<exactLane, exactResult>>
           /\ exactOpt.pc \in {"initial", "trial", "judge", "probe"}
           /\ exactOpt' \in SingleState /\ exactOpt'.pc # "done"
           /\ SingleRunInv(exactOpt')
           /\ exactLane = "exact" => ~exactOpt'.flat
<1> DEFINE s == exactOpt
           u == exactOpt'
<1>1. s \in SingleState /\ SingleRunInv(s)
  OBVIOUS
<1>2. ASSUME NEW t \in SingleState, NEW v \in SingleState,
             SingleRunInv(t), IsPlaced(t, "invalid", v)
      PROVE  v.pc # "done" /\ SingleRunInv(v) /\ v.flat = t.flat
  BY <1>2 DEF IsPlaced, IsUnmoved, SingleRunInv
<1>3. CASE Single!Initial
  <2>1. /\ s.pc = "initial" /\ UNCHANGED <<exactLane, exactResult>>
        /\ \/ IsPlaced(s, "invalid", u)
           \/ IsPlaced([s EXCEPT !.iteration = 1], "judge", u)
    BY <1>3, SingleInitialMoves, Zenon
  <2>2. CASE IsPlaced(s, "invalid", u)
    BY <1>1, <1>2, <2>1, <2>2 DEF IsPlaced
  <2>3. CASE IsPlaced([s EXCEPT !.iteration = 1], "judge", u)
    <3> DEFINE t == [s EXCEPT !.iteration = 1]
    <3>1. /\ t.iteration = 1 /\ t.tries = s.tries /\ t.current = s.current
          /\ t.logSp = s.logSp /\ t.iterationFlat = s.iterationFlat /\ t.flat = s.flat
      BY <1>1 DEF SingleState
    <3>2. IsPlaced(t, "judge", u)
      BY <2>3
    <3> HIDE DEF t
    <3>3. /\ u \in SingleState /\ u.pc = "judge" /\ u.iteration = 1
          /\ u.current = s.current /\ u.logSp = s.logSp
          /\ u.iterationFlat = s.iterationFlat /\ u.flat = s.flat
      BY <3>1, <3>2 DEF IsPlaced, IsUnmoved
    <3>4. 1 \in 1 .. MaxIterations
      BY DEF SingleControl
    <3> QED
      BY <1>1, <2>1, <3>3, <3>4 DEF SingleRunInv
  <2> QED
    BY <2>1, <2>2, <2>3
<1>4. CASE Single!Trial
  <2> DEFINE n == s.tries + 1
  <2>1. /\ s.pc = "trial" /\ UNCHANGED <<exactLane, exactResult>>
        /\ \/ exactLane = "exact" /\ IsPlaced(s, "invalid", u)
           \/ \E p \in Points, d \in Steps, unresolved \in BOOLEAN :
                 /\ unresolved => exactLane = "spectral"
                 /\ \/ IsTaken(s, n, p, u)
                    \/ IsHalved(s, n, Single!Unmoved(n), unresolved, u)
    BY <1>4, SingleTrialMoves, Zenon
  <2>2. CASE IsPlaced(s, "invalid", u)
    BY <1>1, <1>2, <2>1, <2>2 DEF IsPlaced
  <2>3. ASSUME NEW p \in Points, IsTaken(s, n, p, u)
        PROVE  u \in SingleState /\ u.pc = "judge" /\ SingleRunInv(u) /\ u.flat = s.flat
    BY <1>1, <2>1, <2>3 DEF IsTaken, SingleRunInv
  <2>4. ASSUME NEW unresolved \in BOOLEAN, NEW unmoved,
               unresolved => exactLane = "spectral",
               IsHalved(s, n, unmoved, unresolved, u)
        PROVE  /\ u \in SingleState /\ u.pc \in {"judge", "trial"} /\ SingleRunInv(u)
               /\ exactLane = "exact" => ~u.flat
    <3>1. /\ u \in SingleState /\ s.flat \in BOOLEAN
          /\ u.pc = (IF unresolved \/ n = MaxHalving THEN "judge" ELSE "trial")
          /\ u.tries = n /\ u.iterationFlat = unresolved
          /\ u.flat = (s.flat \/ unresolved)
          /\ u.iteration = s.iteration /\ u.logSp = s.logSp /\ u.current = s.current
      BY <1>1, <2>4 DEF IsHalved, IsUnmoved, SingleState
    <3>2. u.pc \in {"judge", "trial"}
      BY <3>1
    <3>3. u.iteration \in 1 .. MaxIterations /\ u.current = Single!Evaluation(u.logSp)
      BY <1>1, <2>1, <3>1 DEF SingleRunInv
    <3>4. exactLane = "exact" => ~u.flat
      BY <2>4, <3>1
    <3> QED
      BY <3>1, <3>2, <3>3, <3>4 DEF SingleRunInv
  <2> HIDE DEF n
  <2> QED
    BY <1>1, <2>1, <2>2, <2>3, <2>4
<1>5. CASE Single!Judge
  <2>1. /\ s.pc = "judge" /\ UNCHANGED <<exactLane, exactResult>>
        /\ \E small, negative \in BOOLEAN :
              IsSettled(s, Single!Converges(small), negative, u)
    BY <1>5, SingleJudgeMoves, Zenon
  <2>2. PICK small \in BOOLEAN, negative \in BOOLEAN :
          IsSettled(s, Single!Converges(small), negative, u)
    BY <2>1, Zenon
  <2>3. Single!Converges(small) =>
          s.iteration > 3 /\ (small \/ s.tries = MaxHalving \/ s.iterationFlat)
    BY DEF Single!Converges, Single!Exhausted
  <2> DEFINE c == Single!Converges(small)
  <2>4. /\ u \in SingleState /\ c \in BOOLEAN
        /\ u.pc = (IF c THEN "probe"
                   ELSE IF s.iteration = MaxIterations THEN "limit" ELSE "trial")
        /\ u.iteration = (IF ~c /\ s.iteration # MaxIterations THEN s.iteration + 1
                          ELSE s.iteration)
        /\ u.stepFailed = (c /\ s.tries = MaxHalving)
        /\ ~u.iterationFlat /\ u.flat = s.flat /\ u.reduction = s.reduction
        /\ u.logSp = s.logSp /\ u.current = s.current
    BY <2>2 DEF IsSettled, IsUnmoved, Single!Converges
  <2>5. s.iteration \in 1 .. MaxIterations /\ MaxIterations \in Nat
    BY <1>1, <2>1 DEF SingleRunInv, SingleControl
  <2>6. c => s.iteration > 3
    BY <2>3
  <2> HIDE DEF c
  <2>7. u.pc \in {"probe", "limit", "trial"} /\ (u.pc = "probe" <=> c)
    BY <2>4
  <2>8. u.pc = "trial" => u.iteration \in 1 .. MaxIterations
    BY <2>4, <2>5
  <2>9. c /\ ~u.stepFailed /\ ~u.flat => u.reduction = u.iteration
    <3>1. /\ s.iteration > 1 /\ s.tries # MaxHalving /\ ~s.flat =>
                s.reduction = s.iteration
      BY <1>1, <2>1 DEF SingleRunInv
    <3>2. c /\ ~u.stepFailed => s.tries # MaxHalving
      BY <2>4, Zenon
    <3>3. c => s.iteration > 1 /\ u.iteration = s.iteration
      BY <2>4, <2>5, <2>6
    <3> QED
      BY <2>4, <3>1, <3>2, <3>3, Zenon
  <2>10. u.current = Single!Evaluation(u.logSp)
    BY <1>1, <2>4 DEF SingleRunInv
  <2> QED
    BY <2>1, <2>4, <2>7, <2>8, <2>9, <2>10 DEF SingleRunInv
<1>6. CASE Single!Probe
  <2>1. /\ s.pc = "probe" /\ UNCHANGED <<exactLane, exactResult>>
        /\ \/ IsPlaced(s, "invalid", u)
           \/ IsWalkedOff(s, u)
           \/ \E p \in Points : IsStepped(s, p, u)
    BY <1>6, SingleProbeMoves, Zenon
  <2>2. CASE IsPlaced(s, "invalid", u)
    BY <1>1, <1>2, <2>1, <2>2 DEF IsPlaced
  <2>3. CASE IsWalkedOff(s, u)
    BY <1>1, <2>1, <2>3 DEF IsWalkedOff, IsUnmoved, SingleRunInv
  <2>4. ASSUME NEW p \in Points, IsStepped(s, p, u)
        PROVE  u \in SingleState /\ u.pc # "done" /\ SingleRunInv(u) /\ u.flat = s.flat
    <3>1. u.pc \in {"probe", "finalize"}
      BY <2>4 DEF IsStepped
    <3> QED
      BY <1>1, <2>1, <2>4, <3>1 DEF IsStepped, SingleRunInv
  <2> QED
    BY <2>1, <2>2, <2>3, <2>4
<1> QED
  BY <1>3, <1>4, <1>5, <1>6, Zenon

LEMMA SingleSpectralEnds ==
    ASSUME SingleControl, SingleInv, Single!FinalizeSpectral
    PROVE  SingleInv'
<1> DEFINE s == exactOpt
           r == Single!Result(s)
<1>1. /\ exactLane = "spectral" /\ s.pc \in {"finalize", "limit", "invalid"}
      /\ exactResult' = r
      /\ \E numerical \in BOOLEAN :
            IF Single!mark_spectral_exact_replay(r, s.endpointRisk, numerical)
            THEN exactLane' = "exact" /\ exactOpt' = Single!Cleared
            ELSE exactLane' = "finished" /\ exactOpt' = [s EXCEPT !.pc = "done"]
  BY Zenon DEF Single!FinalizeSpectral, Single!Ended
<1>2. PICK numerical \in BOOLEAN :
        IF Single!mark_spectral_exact_replay(r, s.endpointRisk, numerical)
        THEN exactLane' = "exact" /\ exactOpt' = Single!Cleared
        ELSE exactLane' = "finished" /\ exactOpt' = [s EXCEPT !.pc = "done"]
  BY <1>1, Zenon
<1> DEFINE marked == Single!mark_spectral_exact_replay(r, s.endpointRisk, numerical)
<1>3. CASE marked
  <2>1. exactLane' = "exact" /\ exactOpt' = Single!Cleared
    BY <1>2, <1>3, Zenon
  <2>2. (SingleRunInv(exactOpt))'
    BY <2>1, SingleCleared, Zenon
  <2>3. /\ exactOpt' \in SingleState /\ exactOpt'.pc # "done" /\ ~exactOpt'.flat
    BY <2>1, SingleCleared
  <2> QED
    BY <2>1, <2>2, <2>3 DEF SingleInv, Single!ConvergedIsFresh
<1>4. CASE ~marked
  <2>1. exactLane' = "finished" /\ exactOpt' = [s EXCEPT !.pc = "done"]
    BY <1>2, <1>4, Zenon
  <2>2. s \in SingleState /\ SingleRunInv(s)
    BY <1>1 DEF SingleInv
  <2>3. IsPlaced(s, "done", exactOpt')
    BY <2>1, <2>2, PlacedFacts, Zenon
  <2>4. r.fullyConverged /\ ~(r.boundary > 0)
    BY <1>4, Zenon DEF Single!mark_spectral_exact_replay
  <2>5. /\ r.fullyConverged = (s.pc = "finalize" /\ ~s.stepFailed /\ ~s.flat)
        /\ r.boundary = s.boundary /\ r.logSp = s.logSp /\ r.current = s.current
        /\ r.fresh = (s.reduction = s.iteration) /\ r.exact = (exactLane = "exact")
    BY DEF Single!Result
  <2>6. s.boundary = 0
    BY <2>2, <2>4, <2>5 DEF SingleState
  <2>7. r.fresh
    BY <2>2, <2>4, <2>5 DEF SingleRunInv
  <2>8. s.current.at = s.logSp
    BY <2>2 DEF SingleRunInv, Single!Evaluation
  <2> HIDE DEF r
  <2>9. Single!ConvergedIsFresh'
    BY <1>1, <2>4, <2>5, <2>6, <2>7, <2>8 DEF Single!ConvergedIsFresh
  <2> QED
    BY <2>1, <2>3, <2>9 DEF SingleInv, IsPlaced
<1> QED
  BY <1>3, <1>4

LEMMA SingleExactEnds ==
    ASSUME SingleControl, SingleInv, Single!FinalizeExact
    PROVE  SingleInv'
<1> DEFINE s == exactOpt
           r == Single!Result(s)
<1>1. /\ exactLane = "exact" /\ s.pc \in {"finalize", "limit", "invalid"}
      /\ exactResult' = r /\ exactLane' = "finished"
      /\ exactOpt' = IF s.pc = "finalize" THEN [s EXCEPT !.pc = "done"] ELSE s
  BY Zenon DEF Single!FinalizeExact, Single!Ended
<1>2. s \in SingleState /\ SingleRunInv(s)
  BY <1>1 DEF SingleInv
<1>3. exactOpt' \in SingleState /\ exactOpt'.pc \in {"done", "limit", "invalid"}
  <2>1. CASE s.pc = "finalize"
    <3>1. IsPlaced(s, "done", [s EXCEPT !.pc = "done"])
      BY <1>2, PlacedFacts, Zenon
    <3>2. IsPlaced(s, "done", exactOpt')
      BY <1>1, <2>1, <3>1, Zenon
    <3> QED
      BY <3>2 DEF IsPlaced
  <2>2. CASE s.pc # "finalize"
    BY <1>1, <1>2, <2>2
  <2> QED
    BY <2>1, <2>2
<1>4. /\ r.fullyConverged = (s.pc = "finalize" /\ ~s.stepFailed /\ ~s.flat)
      /\ r.logSp = s.logSp /\ r.current = s.current
      /\ r.fresh = (s.reduction = s.iteration) /\ r.exact = (exactLane = "exact")
  BY DEF Single!Result
<1>5. r.fullyConverged => r.fresh
  BY <1>2, <1>4 DEF SingleRunInv
<1>6. s.current.at = s.logSp
  BY <1>2 DEF SingleRunInv, Single!Evaluation
<1> HIDE DEF r
<1>7. Single!ConvergedIsFresh'
  BY <1>1, <1>4, <1>5, <1>6 DEF Single!ConvergedIsFresh
<1> QED
  BY <1>1, <1>3, <1>7 DEF SingleInv

LEMMA SingleNextInv ==
    ASSUME SingleControl, SingleInv, [Single!Next]_(Single!vars)
    PROVE  SingleInv'
<1>1. CASE Single!Initial \/ Single!Trial \/ Single!Judge \/ Single!Probe
  <2>1. exactOpt.pc \in {"initial", "trial", "judge", "probe"}
    BY <1>1, Zenon DEF Single!Initial, Single!Trial, Single!Judge, Single!Probe
  <2>2. exactOpt \in SingleState /\ exactLane # "finished"
    BY <2>1 DEF SingleInv
  <2>3. SingleRunInv(exactOpt) /\ (exactLane = "exact" => ~exactOpt.flat)
    BY <2>2 DEF SingleInv
  <2>4. /\ UNCHANGED <<exactLane, exactResult>>
        /\ exactOpt' \in SingleState /\ exactOpt'.pc # "done"
        /\ SingleRunInv(exactOpt')
        /\ exactLane = "exact" => ~exactOpt'.flat
    BY <1>1, <2>2, <2>3, SingleRunKeeps, Zenon
  <2>5. (SingleRunInv(exactOpt))'
    BY <2>4 DEF SingleRunInv
  <2> QED
    BY <2>2, <2>4, <2>5 DEF SingleInv, Single!ConvergedIsFresh
<1>2. CASE UNCHANGED Single!vars
  BY <1>2 DEF Single!vars, SingleInv, SingleRunInv, Single!ConvergedIsFresh
<1> QED
  BY <1>1, <1>2, SingleSpectralEnds, SingleExactEnds DEF Single!Next

LEMMA SingleInitInv ==
    ASSUME SingleControl, Single!Init
    PROVE  SingleInv
<1>1. exactOpt = Single!Cleared /\ exactLane = "spectral"
  BY Zenon DEF Single!Init
<1>2. SingleRunInv(exactOpt)
  BY <1>1, SingleCleared, Zenon
<1> QED
  BY <1>1, <1>2, SingleCleared DEF SingleInv, Single!ConvergedIsFresh

(* optimize_targets_kernel, mark_spectral_exact_replay_kernel: a result    *)
(* that says it converged took a step in its last iteration and is of the  *)
(* parameters it reports; only an exact run reports anything else, or a    *)
(* move to the boundary, whatever the numbers of halvings and probes.      *)
THEOREM SingleConvergedIsFresh ==
    ASSUME SingleControl
    PROVE  Single!Spec => []Single!ConvergedIsFresh
<1>1. Single!Init => SingleInv
  BY SingleInitInv
<1>2. SingleInv /\ [Single!Next]_(Single!vars) => SingleInv'
  BY SingleNextInv
<1>3. SingleInv => Single!ConvergedIsFresh
  BY DEF SingleInv
<1> QED
  BY <1>1, <1>2, <1>3, PTL DEF Single!Spec

(* While the exact run goes on the host sees its state; before, it sees    *)
(* the state every run starts from.                                        *)
LEMMA ExactView ==
    ASSUME exactLane = "exact", UNCHANGED exactLane
    PROVE  Single!shown = exactOpt /\ Single!shown' = exactOpt'
BY DEF Single!shown, Single!replayed

LEMMA ExactThrows ==
    ASSUME exactLane = "exact", UNCHANGED exactLane,
           exactOpt.pc \in {"initial", "trial", "judge", "probe"},
           IsPlaced(exactOpt, "invalid", exactOpt')
    PROVE  Single!Host!Throw
BY ExactView
DEF IsPlaced, IsUnmoved, Single!Host!Throw, Single!Host!progress, Single!Host!verdict,
    Single!HostPc, Single!HostCoordinate

LEMMA ExactInitialRefines ==
    ASSUME SingleControl, exactOpt \in SingleState, exactLane = "exact", Single!Initial
    PROVE  Single!Host!BeginDescent \/ Single!Host!Throw
<1> DEFINE s == exactOpt
           t == [s EXCEPT !.iteration = 1]
           u == exactOpt'
<1>1. /\ s.pc = "initial" /\ UNCHANGED exactLane
      /\ \/ IsPlaced(s, "invalid", u)
         \/ IsPlaced(t, "judge", u)
  BY SingleInitialMoves, Zenon
<1>2. CASE IsPlaced(s, "invalid", u)
  BY <1>1, <1>2, ExactThrows
<1>3. CASE IsPlaced(t, "judge", u)
  <2>1. /\ t.iteration = 1 /\ t.tries = s.tries /\ t.current = s.current
        /\ t.logSp = s.logSp /\ t.reduction = s.reduction /\ t.steepest = s.steepest
        /\ t.zero = s.zero /\ t.converged = s.converged /\ t.stepFailed = s.stepFailed
        /\ t.boundary = s.boundary
    BY DEF SingleState
  <2>2. IsPlaced(t, "judge", u)
    BY <1>3
  <2> HIDE DEF t
  <2>3. /\ u.pc = "judge" /\ u.iteration = 1 /\ u.tries = s.tries /\ u.current = s.current
        /\ u.logSp = s.logSp /\ u.reduction = s.reduction /\ u.steepest = s.steepest
        /\ u.zero = s.zero /\ u.converged = s.converged /\ u.stepFailed = s.stepFailed
        /\ u.boundary = s.boundary
    BY <2>1, <2>2 DEF IsPlaced, IsUnmoved
  <2> QED
    BY <1>1, <2>3, ExactView
    DEF Single!Host!BeginDescent, Single!Host!verdict, Single!HostPc,
        Single!HostCoordinate
<1> QED
  BY <1>1, <1>2, <1>3

LEMMA ExactTrialRefines ==
    ASSUME SingleControl, exactOpt \in SingleState, exactLane = "exact", Single!Trial
    PROVE  Single!Host!Trial \/ Single!Host!Throw
<1> DEFINE s == exactOpt
           u == exactOpt'
           n == s.tries + 1
<1>1. /\ s.pc = "trial" /\ UNCHANGED exactLane
      /\ \/ IsPlaced(s, "invalid", u)
         \/ \E p \in Points, d \in Steps :
               /\ Single!Unmoved(n) => p = s.logSp
               /\ p = s.logSp => d = 0
               /\ \/ d < 0 /\ IsTaken(s, n, p, u)
                  \/ d >= 0 /\ IsHalved(s, n, Single!Unmoved(n), FALSE, u)
  BY SingleTrialMoves, Zenon
<1>2. CASE IsPlaced(s, "invalid", u)
  BY <1>1, <1>2, ExactThrows
<1>3. ASSUME NEW p \in Points, NEW d \in Steps,
             Single!Unmoved(n) => p = s.logSp,
             p = s.logSp => d = 0,
             \/ d < 0 /\ IsTaken(s, n, p, u)
             \/ d >= 0 /\ IsHalved(s, n, Single!Unmoved(n), FALSE, u)
      PROVE  Single!Host!Trial
  <2>1. Single!shown = s /\ Single!shown' = u
    BY <1>1, ExactView
  <2>2. Single!Host!Unmoved(n) = Single!Unmoved(n)
    BY <2>1 DEF Single!Host!Unmoved, Single!Host!Source, Single!Unmoved
  <2>3. /\ u.tries = n /\ u.steepest = (s.steepest \/ n = 4)
        /\ u.iteration = s.iteration /\ u.boundary = s.boundary
        /\ u.converged = s.converged /\ u.stepFailed = s.stepFailed
        /\ u.pc \in {"trial", "judge"}
    BY <1>3 DEF IsTaken, IsHalved, IsUnmoved
  <2>4. \/ d < 0 /\ Single!Host!Accepted(p)
        \/ d >= 0 /\ Single!Host!Rejected(n)
    <3>1. CASE d < 0 /\ IsTaken(s, n, p, u)
      BY <2>1, <3>1
      DEF IsTaken, Single!Host!Accepted, Single!Host!Evaluation, Single!Evaluation,
          Single!HostPc
    <3>2. CASE d >= 0 /\ IsHalved(s, n, Single!Unmoved(n), FALSE, u)
      <4> HIDE DEF n
      <4>1. /\ u.logSp = s.logSp /\ u.current = s.current /\ u.reduction = s.reduction
            /\ u.zero = (n = MaxHalving - 1 \/ Single!Host!Unmoved(n))
            /\ u.pc = (IF n = MaxHalving THEN "judge" ELSE "trial")
        BY <2>2, <3>2, Zenon DEF IsHalved, IsUnmoved
      <4>2. Single!HostPc' = (IF n = MaxHalving THEN "judge" ELSE "trial")
        BY <2>1, <4>1 DEF Single!HostPc
      <4> QED
        BY <2>1, <3>2, <4>1, <4>2 DEF Single!Host!Rejected
    <3> QED
      BY <1>3, <3>1, <3>2
  <2>5. Single!HostPc = "trial" /\ UNCHANGED Single!HostCoordinate
    BY <1>1, <2>1, <2>3 DEF Single!HostPc, Single!HostCoordinate
  <2> QED
    BY <1>3, <2>1, <2>2, <2>3, <2>4, <2>5 DEF Single!Host!Trial
<1> QED
  BY <1>1, <1>2, <1>3, Zenon

LEMMA ExactJudgeRefines ==
    ASSUME SingleControl, exactOpt \in SingleState, SingleRunInv(exactOpt),
           ~exactOpt.flat, exactLane = "exact", Single!Judge
    PROVE  Single!Host!Judge
<1> DEFINE s == exactOpt
           u == exactOpt'
<1>1. /\ s.pc = "judge" /\ UNCHANGED exactLane
      /\ \E small, negative \in BOOLEAN :
            /\ small => s.reduction # 0
            /\ IsSettled(s, Single!Converges(small), negative, u)
  BY SingleJudgeMoves, Zenon
<1>2. PICK small \in BOOLEAN, negative \in BOOLEAN :
        /\ small => s.reduction # 0
        /\ IsSettled(s, Single!Converges(small), negative, u)
  BY <1>1, Zenon
<1>3. Single!shown = s /\ Single!shown' = u
  BY <1>1, ExactView
<1>4. s.iteration \in 1 .. MaxIterations /\ ~s.iterationFlat
  BY <1>1 DEF SingleRunInv
<1> DEFINE c == Single!Converges(small)
           f == c /\ s.tries = MaxHalving
<1>5. Single!Host!Converges(small) = c /\ (Single!Host!Converges(small) /\ Single!Host!Exhausted) = f
  BY <1>3, <1>4
  DEF Single!Host!Converges, Single!Host!Exhausted, Single!Converges, Single!Exhausted
<1>6. c \in BOOLEAN /\ f \in BOOLEAN /\ f = (c /\ s.tries = MaxHalving)
  BY DEF Single!Converges
<1>7. IsSettled(s, c, negative, u)
  BY <1>2
<1> HIDE DEF c, f
<1>8. /\ u.pc = (IF c THEN "probe" ELSE IF s.iteration = MaxIterations THEN "limit"
                 ELSE "trial")
      /\ u.iteration = (IF ~c /\ s.iteration # MaxIterations THEN s.iteration + 1
                        ELSE s.iteration)
      /\ u.converged = c /\ u.stepFailed = f /\ u.steepest = negative /\ u.zero = FALSE
      /\ u.tries = 0 /\ u.logSp = s.logSp /\ u.current = s.current
      /\ u.reduction = s.reduction /\ u.boundary = s.boundary
  BY <1>6, <1>7 DEF IsSettled, IsUnmoved
<1>9. /\ Single!HostPc = "judge" /\ UNCHANGED Single!HostCoordinate
      /\ Single!HostPc' = (IF c THEN "probe" ELSE IF s.iteration = MaxIterations
                           THEN "thrown" ELSE "trial")
  BY <1>1, <1>3, <1>6, <1>8 DEF Single!HostPc, Single!HostCoordinate
<1>10. \/ c /\ Single!HostPc' = "probe" /\ u.iteration = s.iteration
       \/ ~c /\ s.iteration < MaxIterations
             /\ Single!HostPc' = "trial" /\ u.iteration = s.iteration + 1
       \/ ~c /\ s.iteration = MaxIterations
             /\ Single!HostPc' = "thrown" /\ u.iteration = s.iteration
  <2>1. MaxIterations \in Nat
    BY DEF SingleControl
  <2> QED
    BY <1>4, <1>6, <1>8, <1>9, <2>1
<1> QED
  BY <1>2, <1>3, <1>5, <1>8, <1>9, <1>10 DEF Single!Host!Judge

LEMMA ExactProbeRefines ==
    ASSUME SingleControl, exactOpt \in SingleState, exactLane = "exact", Single!Probe
    PROVE  Single!Host!Probe \/ Single!Host!Throw
<1> DEFINE s == exactOpt
           u == exactOpt'
<1>1. /\ s.pc = "probe" /\ UNCHANGED exactLane
      /\ \/ IsPlaced(s, "invalid", u)
         \/ \E p \in Points \ {s.logSp}, d \in Steps :
               \/ d >= 0 /\ IsWalkedOff(s, u)
               \/ d < 0 /\ IsStepped(s, p, u)
  BY SingleProbeMoves, Zenon
<1>2. CASE IsPlaced(s, "invalid", u)
  BY <1>1, <1>2, ExactThrows
<1>3. ASSUME NEW p \in Points \ {s.logSp}, NEW d \in Steps,
             \/ d >= 0 /\ IsWalkedOff(s, u)
             \/ d < 0 /\ IsStepped(s, p, u)
      PROVE  Single!Host!Probe
  <2>1. Single!shown = s /\ Single!shown' = u
    BY <1>1, ExactView
  <2>2. Single!HostPc = "probe" /\ Single!HostCoordinate = 1
    BY <1>1, <2>1 DEF Single!HostPc, Single!HostCoordinate
  <2>3. CASE d >= 0 /\ IsWalkedOff(s, u)
    <3>1. Single!HostPc' = "refine" /\ Single!HostCoordinate' = 2
      BY <2>1, <2>3 DEF IsWalkedOff, Single!HostPc, Single!HostCoordinate
    <3>2. Single!Host!NextCoordinate
      BY <2>1, <2>2, <2>3, <3>1 DEF IsWalkedOff, Single!Host!NextCoordinate
    <3>3. UNCHANGED <<Single!shown.logSp, Single!shown.current, Single!shown.boundary>>
      BY <2>1, <2>3 DEF IsWalkedOff, IsUnmoved
    <3>4. UNCHANGED <<Single!shown.iteration, Single!Host!verdict>>
      BY <2>1, <2>3 DEF IsWalkedOff, IsUnmoved, Single!Host!verdict
    <3> QED
      BY <2>1, <2>2, <2>3, <3>2, <3>3, <3>4 DEF Single!Host!Probe
  <2>4. CASE d < 0 /\ IsStepped(s, p, u)
    <3>1. /\ u.logSp = p /\ u.current = Single!Host!Evaluation(p)
          /\ u.boundary = s.boundary + 1
      BY <2>4 DEF IsStepped, Single!Evaluation, Single!Host!Evaluation
    <3>2. UNCHANGED <<Single!shown.iteration, Single!Host!verdict>>
      BY <2>1, <2>4 DEF IsStepped, Single!Host!verdict
    <3>3. CASE s.tries + 1 = MaxProbes
      <4>1. u.pc = "finalize" /\ u.tries = 0
        BY <2>4, <3>3 DEF IsStepped
      <4>2. Single!HostPc' = "refine" /\ Single!HostCoordinate' = 2
        BY <2>1, <4>1 DEF Single!HostPc, Single!HostCoordinate
      <4>3. Single!Host!NextCoordinate
        BY <2>1, <2>2, <4>1, <4>2 DEF Single!Host!NextCoordinate
      <4> QED
        BY <2>1, <2>2, <2>4, <3>1, <3>2, <3>3, <4>3 DEF Single!Host!Probe
    <3>4. CASE s.tries + 1 # MaxProbes
      <4>1. u.pc = "probe" /\ u.tries = s.tries + 1
        BY <2>4, <3>4 DEF IsStepped
      <4>2. UNCHANGED <<Single!HostCoordinate, Single!HostPc>>
        BY <2>1, <2>2, <4>1 DEF Single!HostPc, Single!HostCoordinate
      <4> QED
        BY <2>1, <2>2, <2>4, <3>1, <3>2, <3>4, <4>1, <4>2 DEF Single!Host!Probe
    <3> QED
      BY <3>3, <3>4
  <2> QED
    BY <1>3, <2>3, <2>4
<1> QED
  BY <1>1, <1>2, <1>3, Zenon

LEMMA ExactNextRefines ==
    ASSUME SingleControl, SingleInv, [Single!Next]_(Single!vars)
    PROVE  [Single!Host!Next]_(Single!Host!vars)
<1> DEFINE s == exactOpt
           steady == UNCHANGED Single!Host!vars
<1>1. ASSUME UNCHANGED Single!shown
      PROVE  steady
  BY <1>1
  DEF Single!Host!vars, Single!Host!progress, Single!Host!verdict, Single!HostPc,
      Single!HostCoordinate
<1>2. CASE Single!Initial \/ Single!Trial \/ Single!Judge \/ Single!Probe
  <2>1. s.pc \in {"initial", "trial", "judge", "probe"}
    BY <1>2, Zenon DEF Single!Initial, Single!Trial, Single!Judge, Single!Probe
  <2>2. /\ s \in SingleState /\ SingleRunInv(s) /\ exactLane # "finished"
        /\ exactLane = "exact" => ~s.flat
    BY <2>1 DEF SingleInv
  <2>3. UNCHANGED <<exactLane, exactResult>>
    BY <1>2, <2>2, SingleRunKeeps, Zenon
  <2>4. CASE exactLane = "exact"
    BY <1>2, <2>2, <2>4, ExactInitialRefines, ExactTrialRefines, ExactJudgeRefines,
       ExactProbeRefines
    DEF Single!Host!Next
  <2>5. CASE exactLane # "exact"
    <3>1. UNCHANGED Single!shown
      BY <2>2, <2>3, <2>5 DEF Single!shown, Single!replayed
    <3> QED
      BY <1>1, <3>1
  <2> QED
    BY <2>4, <2>5
<1>3. CASE Single!FinalizeSpectral
  <2>1. /\ exactLane = "spectral" /\ exactResult' = Single!Result(s)
        /\ \/ exactLane' = "exact" /\ exactOpt' = Single!Cleared
           \/ exactLane' = "finished"
    BY <1>3, Zenon DEF Single!FinalizeSpectral
  <2>2. Single!Result(s).exact = FALSE
    BY <2>1 DEF Single!Result
  <2>3. UNCHANGED Single!shown
    BY <2>1, <2>2 DEF Single!shown, Single!replayed
  <2> QED
    BY <1>1, <2>3
<1>4. CASE Single!FinalizeExact
  <2>1. /\ exactLane = "exact" /\ s.pc \in {"finalize", "limit", "invalid"}
        /\ exactResult' = Single!Result(s) /\ exactLane' = "finished"
        /\ exactOpt' = IF s.pc = "finalize" THEN [s EXCEPT !.pc = "done"] ELSE s
    BY <1>4, Zenon DEF Single!FinalizeExact, Single!Ended
  <2>2. Single!Result(s).exact = TRUE
    BY <2>1 DEF Single!Result
  <2>3. Single!shown = s /\ Single!shown' = exactOpt'
    BY <2>1, <2>2 DEF Single!shown, Single!replayed
  <2>4. CASE s.pc = "finalize"
    <3>1. s \in SingleState
      BY DEF SingleInv
    <3>2. IsPlaced(s, "done", [s EXCEPT !.pc = "done"])
      BY <3>1, PlacedFacts, Zenon
    <3>3. IsPlaced(s, "done", exactOpt')
      BY <2>1, <2>4, <3>2, Zenon
    <3>4. Single!Host!Refine
      BY <2>3, <2>4, <3>3
      DEF IsPlaced, IsUnmoved, Single!Host!Refine, Single!Host!progress,
          Single!Host!verdict, Single!HostPc, Single!HostCoordinate
    <3> QED
      BY <3>4 DEF Single!Host!Next
  <2>5. CASE s.pc # "finalize"
    BY <1>1, <2>1, <2>3, <2>5
  <2> QED
    BY <2>4, <2>5
<1>5. CASE UNCHANGED Single!vars
  <2>1. UNCHANGED Single!shown
    BY <1>5 DEF Single!vars, Single!shown, Single!replayed
  <2> QED
    BY <1>1, <2>1
<1> QED
  BY <1>2, <1>3, <1>4, <1>5 DEF Single!Next

LEMMA ExactInitRefines ==
    ASSUME SingleControl, Single!Init
    PROVE  Single!Host!Init
<1>1. Single!shown = Single!Cleared
  BY Zenon DEF Single!Init, Single!shown
<1>2. /\ Single!Cleared.pc = "initial" /\ Single!Cleared.iteration = 0
      /\ Single!Cleared.tries = 0 /\ Single!Cleared.boundary = 0
      /\ Single!Cleared.logSp = Start /\ Single!Cleared.reduction = 0
      /\ Single!Cleared.steepest = FALSE /\ Single!Cleared.zero = FALSE
      /\ Single!Cleared.converged = FALSE /\ Single!Cleared.stepFailed = FALSE
      /\ Single!Cleared.current = Single!Host!Evaluation(Start)
  BY DEF Single!Cleared, Single!Evaluation, Single!Host!Evaluation
<1>3. Single!HostPc = "initial" /\ Single!HostCoordinate = 1
  BY <1>1, <1>2 DEF Single!HostPc, Single!HostCoordinate
<1>4. Start \in Points
  BY DEF SingleControl
<1> QED
  BY <1>1, <1>2, <1>3, <1>4 DEF Single!Host!Init

(* replay_magic_exact_optimizer_target against                             *)
(* multi_penalty_gcv_optimize_cpp: the exact run of a single-penalty       *)
(* target, whatever the spectral run before it did, takes the host's       *)
(* descent with one penalty step by step: it starts from the same state,   *)
(* and nothing the spectral run knew, a flat objective or a suspect        *)
(* endpoint, decides a step of it.                                         *)
THEOREM ExactReplayImplementsHost ==
    ASSUME SingleControl
    PROVE  Single!Spec => Single!ExactRefinesHost
<1>1. Single!Init => Single!Host!Init
  BY ExactInitRefines
<1>2. Single!Init => SingleInv
  BY SingleInitInv
<1>3. SingleInv /\ [Single!Next]_(Single!vars) => SingleInv'
  BY SingleNextInv
<1>4. SingleInv /\ [Single!Next]_(Single!vars) => [Single!Host!Next]_(Single!Host!vars)
  BY ExactNextRefines
<1> QED
  BY <1>1, <1>2, <1>3, <1>4, PTL DEF Single!Spec, Single!Host!Spec, Single!ExactRefinesHost
=============================================================================
