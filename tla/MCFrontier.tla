----------------------------- MODULE MCFrontier -----------------------------
(* A strict one-call run and its ledger, one at a time: `subject` says      *)
(* which.                                                                   *)
(*                                                                          *)
(* "frontier" and "permuted": the frontier in both of its selection modes,  *)
(* waves of two groups over the positive misses and the strict order of R's *)
(* permutation stream.  "ledger": two calls of one process on four levels,  *)
(* under options that take every route of the accounting.                   *)
EXTENDS SkeletonFrontier

CONSTANTS Subjects, LedgerOptions

VARIABLES
    subject,
    o, call, results, states, fresh, replay, ledgerLevel, next, gone, works,
    comps, unbuilt, mres, mcomp, arena, seen, skipped, ran, d, n, ledgerPc

Permuted == INSTANCE SkeletonFrontier WITH
    WaveCapacity <- 1, PositiveMissOnly <- FALSE, LegacyRPermutation <- TRUE

LastTwoPairs == {<<1, 3>>, <<2, 3>>}

-----------------------------------------------------------------------------
AB == {"a", "b"}
BC == {"b", "c"}
\* Two edges share the sets p and u; the fourth level holds two groups.
LedgerPlan ==
    [l \in 0..3 |->
        CASE l = 0 -> [e \in {AB, BC} |-> <<"">>]
          [] l = 1 -> [e \in {AB, BC} |-> <<"p">>]
          [] l = 2 -> [e \in {AB} |-> <<"q">>]
          [] l = 3 -> [e \in {AB, BC} |->
                          IF e = AB THEN <<"u", "v">> ELSE <<"u">>]]

Plain == [method |-> "dcc.gamma", exact |-> FALSE, reuse |-> FALSE,
          keys |-> FALSE, parity |-> FALSE, cache |-> FALSE,
          compCapacity |-> 99, bypass |-> FALSE, lanes |-> 0, wave |-> 1,
          positive |-> FALSE, level |-> FALSE, structured |-> FALSE,
          l2 |-> FALSE, slots |-> {}, workers |-> FALSE, pipeline |-> FALSE,
          delay |-> 0, traced |-> 0, statusWait |-> FALSE,
          properties |-> FALSE, gammaRoute |-> "stable-svd",
          drawRoute |-> "stable-svd", wait |-> FALSE, overlap |-> FALSE,
          inline |-> FALSE, methodCapacity |-> 2, capacity |-> 99,
          first |-> 3, deleted |-> {}]
Lanes == [Plain EXCEPT !.cache = TRUE, !.bypass = TRUE, !.lanes = 8]
Reuse == [Plain EXCEPT !.exact = TRUE, !.reuse = TRUE]
Prefilled == [Lanes EXCEPT !.exact = TRUE, !.reuse = TRUE, !.level = TRUE]
Slotted == [Prefilled EXCEPT !.structured = TRUE, !.l2 = TRUE,
                !.slots = {3, 4, 5, 6}, !.workers = TRUE,
                !.statusWait = TRUE, !.properties = TRUE]
Hsic == [Plain EXCEPT !.method = "hsic.gamma"]
HsicPerm == [Plain EXCEPT !.method = "hsic.perm"]
EveryRoute ==
    {Plain, [Plain EXCEPT !.deleted = {<<0, "", BC>>}, !.first = 1],
     [Lanes EXCEPT !.wave = 2], [Lanes EXCEPT !.wave = 2, !.positive = TRUE],
     [Plain EXCEPT !.cache = TRUE, !.compCapacity = 2],
     Reuse, [Reuse EXCEPT !.traced = 1, !.capacity = 2],
     [Reuse EXCEPT !.parity = TRUE, !.keys = TRUE, !.first = 1],
     [Plain EXCEPT !.traced = 4],
     [Plain EXCEPT !.exact = TRUE, !.keys = TRUE],
     Prefilled, [Slotted EXCEPT !.deleted = {<<3, "u", AB>>}],
     Hsic, [Hsic EXCEPT !.first = 0, !.wait = TRUE,
                        !.gammaRoute = "qr-through-2"],
     [Plain EXCEPT !.method = "dcc.perm", !.overlap = TRUE,
                   !.drawRoute = "qr-through-2"],
     [HsicPerm EXCEPT !.inline = TRUE, !.wait = TRUE],
     [HsicPerm EXCEPT !.deleted = {<<1, "p", AB>>}]}
HsicOnly == {Hsic}

Ledger == INSTANCE RunLedger WITH
    Plan <- LedgerPlan, OptionSets <- LedgerOptions, Calls <- 2,
    level <- ledgerLevel, wave <- works, pending <- unbuilt, pc <- ledgerPc

ASSUME Ledger!PlanAssumption

ledgerVars == <<o, call, results, states, fresh, replay, ledgerLevel, next,
                gone, works, comps, unbuilt, mres, mcomp, arena, seen,
                skipped, ran, d, n, ledgerPc>>
all == <<subject, vars, ledgerVars>>

-----------------------------------------------------------------------------
MCInit ==
    /\ subject \in Subjects
    /\ Init /\ Ledger!Init
    /\ subject # "ledger" => o = CHOOSE x \in LedgerOptions : TRUE

OneSubject(s, step, rest) == subject = s /\ step /\ UNCHANGED <<subject, rest>>

FrontierStep == OneSubject("frontier", Next, ledgerVars)
PermutedStep == OneSubject("permuted", Permuted!Next, ledgerVars)
LedgerStep == OneSubject("ledger", Ledger!Next, vars)

MCSpec ==
    /\ MCInit
    /\ [][FrontierStep \/ PermutedStep \/ LedgerStep]_all
    /\ WF_all(/\ subject = "frontier" /\ Progress
              /\ UNCHANGED <<subject, ledgerVars>>)
    /\ WF_all(/\ subject = "permuted" /\ Permuted!Progress
              /\ UNCHANGED <<subject, ledgerVars>>)

-----------------------------------------------------------------------------
\* In permutation mode a task runs only when every task before it in pcalg
\* order has run or lost its edge: the tests draw from R's stream in order.
PermutedStreamOrder == [][subject = "permuted" => StreamOrderKept]_all

\* The call ends: the frontier never stalls with edges still active.
FrontierEnds ==
    <>(subject \in {"frontier", "permuted"} => status # "running")

\* A call that did its work is refused by its final accounting exactly when
\* some of it was answered or paid for on a route the gates do not expect; a
\* call on empty caches that hold one level is not; the rows of every level
\* add up; and a repeated call of a deterministic method runs nothing.
LedgerSound == Ledger!LedgerSound

\* The documented replay: a second call after one complete call on the same
\* data replays its cached results, so its accounting does not refuse it.
ReplayAccepted == Ledger!ReplayAccepted
=============================================================================
