------------------------------- MODULE Bundle -------------------------------
(***************************************************************************)
(* The affine bundle kept by a BState (bsolver_core.c) and the interval    *)
(* decision bs_insert_certified (bsolver.c) makes about one more row.      *)
(*                                                                         *)
(* A row is a member of Rows; what the code measures in floating point is  *)
(* abstracted to what the decision needs.  Rank and Consistent are the     *)
(* facts of linear algebra about a set of rows, relative to the published  *)
(* thresholds; the a-posteriori interval of dependency_distance_interval   *)
(* may be too wide to decide but is taken to enclose the distance, so it   *)
(* never lies on the wrong side.  That soundness of the interval is the    *)
(* one numerical assumption of the model.                                  *)
(***************************************************************************)
EXTENDS Integers

CONSTANTS
  Rows,          \* the rows, each with its right-hand side, a caller may offer
  N,             \* the number of columns
  Rank(_),       \* rank of a set of rows
  Consistent(_), \* a set of rows has a common solution
  QInit,         \* rows reserved by the first growth of Q (8 in the code)
  QFactor        \* growth factor of Q's capacity afterwards (4 in the code)

ASSUME SizeAssumption ==
  /\ N \in Nat \ {0}
  /\ QInit \in Nat \ {0}
  /\ QFactor \in Nat \ {0, 1}

\* The rank of row vectors is the rank of a matroid on N columns.
ASSUME RankAssumption ==
  /\ Rank({}) = 0
  /\ \A S \in SUBSET Rows : Rank(S) \in 0..N
  /\ \A S, T \in SUBSET Rows : S \subseteq T => Rank(S) <= Rank(T)
  /\ \A S \in SUBSET Rows, a \in Rows :
        Rank(S \union {a}) \in {Rank(S), Rank(S) + 1}
  /\ \A S, T \in SUBSET Rows, a \in Rows :
        (S \subseteq T /\ Rank(S \union {a}) = Rank(S))
           => Rank(T \union {a}) = Rank(T)

\* A part of a solvable system is solvable; an independent row can always be
\* met; a row met by the rows that span it is met by all their solutions.
ASSUME ConsistentAssumption ==
  /\ \A S \in SUBSET Rows : Consistent(S) \in BOOLEAN
  /\ Consistent({})
  /\ \A S, T \in SUBSET Rows : (S \subseteq T /\ Consistent(T)) => Consistent(S)
  /\ \A S \in SUBSET Rows, a \in Rows :
        (Consistent(S) /\ Rank(S \union {a}) = Rank(S) + 1)
           => Consistent(S \union {a})
  /\ \A S, T \in SUBSET Rows, a \in Rows :
        (/\ S \subseteq T
         /\ Consistent(T)
         /\ Rank(S \union {a}) = Rank(S)
         /\ Consistent(S \union {a}))
           => Consistent(T \union {a})

(***************************************************************************)
(* BState: the rows whose directions form the orthonormal basis Q (their   *)
(* affine hull is x plus the complement of Q), their number r, the rows    *)
(* Q has room for, and the flag a contradiction raises.                    *)
(***************************************************************************)
BState == [basis : SUBSET Rows, r : 0..N, qcap : 0..N, inconsistent : BOOLEAN]

\* bs_init_adaptive: no row of Q is allocated yet.
EmptyAdaptive == [basis |-> {}, r |-> 0, qcap |-> 0, inconsistent |-> FALSE]

Zero(a)         == Rank({a}) = 0
Dependent(s, a) == Rank(s.basis \union {a}) = Rank(s.basis)
\* The verdict of |rho| <= ct for a row of the span: x meets the row.
Met(s, a)       == Consistent(s.basis \union {a})

\* Where [mu_lo, mu_hi] lies against the growth and dependence thresholds.
DistanceInterval(s, a) ==
  {"between"} \union (IF Dependent(s, a) THEN {"below"} ELSE {"above"})

\* Faulty variants, kept to show that the properties notice them: growth
\* without the cap at n, and the n*n allocation the adaptive bundle avoids.
NextCapacityUncapped(q) == IF q < QInit THEN QInit ELSE q * QFactor
NextCapacityWhole(q)    == N

\* The capacity bs_reserve_row asks realloc for when Q is full.
NextCapacity(q) ==
  IF q < QInit THEN (IF N < QInit THEN N ELSE QInit)
  ELSE IF q > N \div QFactor THEN N
  ELSE q * QFactor

\* A return code, the bundle it leaves, and which allocation failed on the way.
Outcome(rc, s, failed) == [rc |-> rc, s |-> s, failed |-> failed]
Allocations == {"none", "basis", "svd_scratch"}

WithRow(s, a, q) ==
  [basis |-> s.basis \union {a}, r |-> s.r + 1, qcap |-> q, inconsistent |-> FALSE]
Contradicted(s) ==
  [basis |-> s.basis, r |-> s.r, qcap |-> s.qcap, inconsistent |-> TRUE]

(***************************************************************************)
(* The growth branch.  With room in Q the row is stored at once; else      *)
(* bs_reserve_row has realloc enlarge Q, or fails and touches nothing.     *)
(***************************************************************************)
Reallocated(s, a) ==
  IF NextCapacity(s.qcap) > s.qcap
  THEN {Outcome("GROW", WithRow(s, a, NextCapacity(s.qcap)), "none")}
  ELSE {}

\* Faulty variant: the row count is raised before the storage is there.
GrownBeforeReserve(s, a) ==
  IF s.r >= N THEN {Outcome("DEFER", s, "none")}
  ELSE IF s.r < s.qcap THEN {Outcome("GROW", WithRow(s, a, s.qcap), "none")}
  ELSE {Outcome("NOMEM", WithRow(s, a, s.qcap), "basis")} \union Reallocated(s, a)

Grown(s, a) ==
  IF s.r >= N THEN {Outcome("DEFER", s, "none")}
  ELSE IF s.r < s.qcap THEN {Outcome("GROW", WithRow(s, a, s.qcap), "none")}
  ELSE {Outcome("NOMEM", s, "basis")} \union Reallocated(s, a)

(***************************************************************************)
(* local_dependency_svd, asked before a contradiction is declared at r < N.*)
(* It repeats the dependence test with a stricter threshold and may find   *)
(* the row grey.  Its scratch may also not be had, which it reports as     *)
(* grey as well.                                                           *)
(***************************************************************************)
LocalSvd(s, a) ==
  {"grey", "no_scratch"} \union (IF Dependent(s, a) THEN {"dependent"} ELSE {})

Arbitrated(s, verdict) ==
  IF verdict = "dependent" THEN Outcome("CONTRA", Contradicted(s), "none")
  ELSE IF verdict = "no_scratch" THEN Outcome("DEFER", s, "svd_scratch")
  ELSE Outcome("DEFER", s, "none")

\* Faulty variant: a dependent row is absorbed without testing x against it.
ReducedUnchecked(s, a) == {Outcome("ABSORB", s, "none")}

\* The dependence branch: a row of the span is absorbed when x meets it.
Reduced(s, a) ==
  IF Met(s, a) THEN {Outcome("ABSORB", s, "none")}
  ELSE IF s.r = N THEN {Outcome("CONTRA", Contradicted(s), "none")}
  ELSE {Arbitrated(s, verdict) : verdict \in LocalSvd(s, a)}

\* A row of zeros carries only its right-hand side.
ZeroRow(s, a) ==
  IF Consistent({a}) THEN {Outcome("ABSORB", s, "none")}
                     ELSE {Outcome("CONTRA", Contradicted(s), "none")}

\* Faulty variant: the two-way test of bs_insert, which calls every row it
\* cannot grow dependent.
DecidedTwoWay(mu, s, a) ==
  IF mu = "above" THEN Grown(s, a) ELSE Reduced(s, a)

\* What the position of the interval decides; in between, nothing is decided.
Decided(mu, s, a) ==
  IF mu = "above" THEN Grown(s, a)
  ELSE IF mu = "below" THEN Reduced(s, a)
  ELSE {Outcome("DEFER", s, "none")}

\* bs_insert_certified: every outcome the call may have on this row.
InsertCertified(s, a) ==
  IF s.inconsistent THEN {Outcome("CONTRA", s, "none")}
  ELSE IF Zero(a) THEN ZeroRow(s, a)
  ELSE UNION {Decided(mu, s, a) : mu \in DistanceInterval(s, a)}
=============================================================================
