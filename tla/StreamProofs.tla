---------------------------- MODULE StreamProofs ----------------------------
(***************************************************************************)
(* Theorems about Stream, for every set of rows, every number of columns   *)
(* and every rank and solvability that satisfy the assumptions of Bundle.  *)
(***************************************************************************)
EXTENDS Stream, TLAPS

USE SizeAssumption, MaxSeenAssumption

(***************************************************************************)
(* Storage.                                                                *)
(***************************************************************************)
\* When every reserved row is in use and one more exists, bs_reserve_row asks
\* for more than it has and never for more than n rows: growth cannot get
\* stuck while memory is available, and stays proportional to the rank.
LEMMA CapacityGrows ==
  ASSUME NEW q \in 0..N, q < N
  PROVE  /\ NextCapacity(q) \in 0..N
         /\ NextCapacity(q) > q
         /\ NextCapacity(q) <= QInit \/ NextCapacity(q) < QFactor * (q + 1)
<1>1. N \div QFactor \in Nat /\ N < QFactor * ((N \div QFactor) + 1)
      /\ QFactor * (N \div QFactor) <= N
  OBVIOUS
<1>2. CASE q < QInit
  BY <1>2 DEF NextCapacity
<1>3. CASE q >= QInit /\ q > N \div QFactor
  <2>1. QFactor * ((N \div QFactor) + 1) <= QFactor * (q + 1)
    BY <1>1, <1>3
  <2> QED BY <1>1, <1>3, <2>1 DEF NextCapacity
<1>4. CASE q >= QInit /\ q <= N \div QFactor
  <2>1. QFactor * q <= QFactor * (N \div QFactor)
    BY <1>1, <1>4
  <2>2. QFactor * q >= 2 * q
    BY <1>4
  <2> QED BY <1>1, <1>4, <2>1, <2>2 DEF NextCapacity
<1> QED BY <1>2, <1>3, <1>4, <1>1

(***************************************************************************)
(* One row.                                                                *)
(***************************************************************************)
\* The bundle of a new stream is well formed.
LEMMA EmptyOK == BundleOK(EmptyAdaptive)
BY RankAssumption, ConsistentAssumption DEF BundleOK, BState, EmptyAdaptive

\* A growth either stores the row, in storage still proportional to the new
\* rank, or changes nothing and says that memory was short.
LEMMA GrownOutcome ==
  ASSUME NEW b, BundleOK(b), NEW a \in Rows, ~Dependent(b, a), ~b.inconsistent,
         NEW o \in Grown(b, a)
  PROVE  \/ /\ o.rc = "GROW"
            /\ o.failed = "none"
            /\ BundleOK(o.s)
            /\ o.s.basis = b.basis \union {a}
            /\ o.s.r = b.r + 1
            /\ o.s.qcap >= b.qcap
            /\ ~o.s.inconsistent
         \/ o.rc = "NOMEM" /\ o.s = b /\ o.failed = "basis"
<1>1. b.basis \in SUBSET Rows /\ b.r \in 0..N /\ b.qcap \in 0..N
  BY DEF BundleOK, BState
<1>2. Rank(b.basis \union {a}) = b.r + 1 /\ b.r < N
  BY <1>1, RankAssumption DEF BundleOK, Dependent
<1>3. Consistent(b.basis \union {a})
  BY <1>1, <1>2, ConsistentAssumption DEF BundleOK
<1>4. ASSUME NEW q \in 0..N, q > b.r, q >= b.qcap,
             q <= QInit \/ q < QFactor * (b.r + 1),
             o = Outcome("GROW", WithRow(b, a, q), "none")
      PROVE  /\ o.rc = "GROW"
             /\ o.failed = "none"
             /\ BundleOK(o.s)
             /\ o.s.basis = b.basis \union {a}
             /\ o.s.r = b.r + 1
             /\ o.s.qcap >= b.qcap
             /\ ~o.s.inconsistent
  <2>1. o.rc = "GROW" /\ o.failed = "none" /\ o.s = WithRow(b, a, q)
    BY <1>4 DEF Outcome
  <2>2. o.s = [basis |-> b.basis \union {a}, r |-> b.r + 1, qcap |-> q,
               inconsistent |-> FALSE]
    BY <2>1 DEF WithRow
  <2>3. o.s \in BState
    BY <1>1, <1>2, <2>2 DEF BState
  <2>4. /\ o.s.basis = b.basis \union {a} /\ o.s.r = b.r + 1 /\ o.s.qcap = q
        /\ o.s.inconsistent = FALSE
    BY <2>2
  <2>5. BundleOK(o.s)
    <3>1. Rank(o.s.basis) = o.s.r /\ Consistent(o.s.basis)
      BY <1>2, <1>3, <2>4
    <3>2. o.s.r <= o.s.qcap /\ (o.s.qcap <= QInit \/ o.s.qcap < QFactor * o.s.r)
      BY <1>1, <1>4, <2>4
    <3> QED BY <2>3, <3>1, <3>2 DEF BundleOK
  <2> QED BY <1>4, <2>1, <2>4, <2>5
<1>5. CASE b.r < b.qcap
  <2>1. o = Outcome("GROW", WithRow(b, a, b.qcap), "none")
    BY <1>1, <1>2, <1>5 DEF Grown
  <2>2. b.qcap <= QInit \/ b.qcap < QFactor * (b.r + 1)
    BY <1>1 DEF BundleOK
  <2> QED BY <1>1, <1>4, <1>5, <2>1, <2>2
<1>6. CASE b.r >= b.qcap
  <2>1. b.r = b.qcap
    BY <1>1, <1>6 DEF BundleOK
  <2> DEFINE c == NextCapacity(b.qcap)
  <2>2. c \in 0..N /\ c > b.qcap /\ (c <= QInit \/ c < QFactor * (b.r + 1))
    BY <1>1, <1>2, <2>1, CapacityGrows
  <2>3. \/ o = Outcome("NOMEM", b, "basis")
        \/ o = Outcome("GROW", WithRow(b, a, c), "none")
    BY <1>1, <1>2, <1>6 DEF Grown, Reallocated
  <2> HIDE DEF c
  <2>4. CASE o = Outcome("NOMEM", b, "basis")
    BY <2>4 DEF Outcome
  <2>5. CASE o = Outcome("GROW", WithRow(b, a, c), "none")
    BY <1>1, <1>4, <2>1, <2>2, <2>5
  <2> QED BY <2>3, <2>4, <2>5
<1> QED BY <1>1, <1>5, <1>6

\* Every outcome of bs_insert_certified on an open bundle, with what it says
\* about the row and what it leaves of the bundle.
LEMMA InsertOutcome ==
  ASSUME NEW b, BundleOK(b), ~b.inconsistent, NEW a \in Rows,
         NEW o \in InsertCertified(b, a)
  PROVE  /\ o.failed \in Allocations
         /\ BundleOK(o.s)
         /\ \/ /\ o.rc = "GROW"
               /\ o.s.basis = b.basis \union {a}
               /\ o.s.r = b.r + 1
               /\ o.s.qcap >= b.qcap
               /\ ~o.s.inconsistent
            \/ o.rc = "NOMEM" /\ o.s = b
            \/ o.rc = "DEFER" /\ o.s = b
            \/ /\ o.rc = "ABSORB" /\ o.s = b
               /\ Dependent(b, a)
               /\ Consistent(b.basis \union {a})
            \/ /\ o.rc = "CONTRA" /\ o.s = Contradicted(b)
               /\ Dependent(b, a)
               /\ ~Consistent(b.basis \union {a})
<1>1. /\ b.basis \in SUBSET Rows /\ b.r \in 0..N /\ b.qcap \in 0..N
      /\ b.inconsistent = FALSE
  BY DEF BundleOK, BState
<1>2. BundleOK(Contradicted(b))
  BY <1>1 DEF BundleOK, BState, Contradicted
<1>3. ASSUME o = Outcome("ABSORB", b, "none") \/ o = Outcome("CONTRA", Contradicted(b), "none"),
             Dependent(b, a),
             o = Outcome("ABSORB", b, "none") => Consistent(b.basis \union {a}),
             o = Outcome("CONTRA", Contradicted(b), "none") => ~Consistent(b.basis \union {a})
      PROVE  /\ o.failed \in Allocations
             /\ BundleOK(o.s)
             /\ \/ /\ o.rc = "ABSORB" /\ o.s = b
                   /\ Consistent(b.basis \union {a})
                \/ /\ o.rc = "CONTRA" /\ o.s = Contradicted(b)
                   /\ ~Consistent(b.basis \union {a})
  <2>1. CASE o = Outcome("ABSORB", b, "none")
    <3>1. o.rc = "ABSORB" /\ o.s = b /\ o.failed = "none"
      BY <2>1 DEF Outcome
    <3> QED BY <1>3, <2>1, <3>1 DEF Allocations
  <2>2. CASE o = Outcome("CONTRA", Contradicted(b), "none")
    <3>1. o.rc = "CONTRA" /\ o.s = Contradicted(b) /\ o.failed = "none"
      BY <2>2 DEF Outcome
    <3> QED BY <1>2, <1>3, <2>2, <3>1 DEF Allocations
  <2> QED BY <1>3, <2>1, <2>2
<1>4. ASSUME NEW f \in Allocations, o = Outcome("DEFER", b, f)
      PROVE  o.failed \in Allocations /\ BundleOK(o.s) /\ o.rc = "DEFER" /\ o.s = b
  BY <1>4 DEF Outcome
<1>5. CASE Zero(a)
  <2>1. Rank({} \union {a}) = Rank({}) /\ {} \union {a} = {a}
    BY RankAssumption, <1>5 DEF Zero
  <2>2. Dependent(b, a)
    BY <1>1, <2>1, RankAssumption DEF Dependent
  <2>3. Consistent({a}) => Consistent(b.basis \union {a})
    BY <1>1, <2>1, ConsistentAssumption DEF BundleOK
  <2>4. ~Consistent({a}) => ~Consistent(b.basis \union {a})
    <3>1. {a} \subseteq b.basis \union {a} /\ {a} \in SUBSET Rows
          /\ b.basis \union {a} \in SUBSET Rows
      BY <1>1
    <3> QED BY <3>1, ConsistentAssumption
  <2>5. o \in ZeroRow(b, a)
    BY <1>1, <1>5 DEF InsertCertified
  <2>6. CASE Consistent({a})
    <3>1. o = Outcome("ABSORB", b, "none")
      BY <2>5, <2>6 DEF ZeroRow
    <3>2. o # Outcome("CONTRA", Contradicted(b), "none")
      BY <3>1 DEF Outcome
    <3> QED BY <1>3, <2>2, <2>3, <2>6, <3>1, <3>2
  <2>7. CASE ~Consistent({a})
    <3>1. o = Outcome("CONTRA", Contradicted(b), "none")
      BY <2>5, <2>7 DEF ZeroRow
    <3>2. o # Outcome("ABSORB", b, "none")
      BY <3>1 DEF Outcome
    <3> QED BY <1>3, <2>2, <2>4, <2>7, <3>1, <3>2
  <2> QED BY <2>6, <2>7
<1>6. CASE ~Zero(a)
  <2>1. PICK mu \in DistanceInterval(b, a) : o \in Decided(mu, b, a)
    BY <1>1, <1>6 DEF InsertCertified
  <2>2. \/ mu = "between"
        \/ mu = "below" /\ Dependent(b, a)
        \/ mu = "above" /\ ~Dependent(b, a)
    BY <2>1 DEF DistanceInterval
  <2>3. CASE mu = "between"
    <3>1. o = Outcome("DEFER", b, "none") /\ "none" \in Allocations
      BY <2>1, <2>3 DEF Decided, Allocations
    <3> QED BY <1>4, <3>1
  <2>4. CASE mu = "above" /\ ~Dependent(b, a)
    <3>1. o \in Grown(b, a)
      BY <2>1, <2>4 DEF Decided
    <3> QED BY <3>1, <2>4, GrownOutcome DEF Allocations
  <2>5. CASE mu = "below" /\ Dependent(b, a)
    <3>1. o \in Reduced(b, a)
      BY <2>1, <2>5 DEF Decided
    <3>2. CASE Met(b, a)
      <4>1. o = Outcome("ABSORB", b, "none")
        BY <3>1, <3>2 DEF Reduced
      <4>2. o # Outcome("CONTRA", Contradicted(b), "none")
        BY <4>1 DEF Outcome
      <4>3. Consistent(b.basis \union {a})
        BY <3>2 DEF Met
      <4> QED BY <1>3, <2>5, <4>1, <4>2, <4>3
    <3>3. CASE ~Met(b, a)
      <4>1. ~Consistent(b.basis \union {a})
        BY <3>3 DEF Met
      <4>2. \/ o = Outcome("CONTRA", Contradicted(b), "none")
            \/ \E f \in Allocations : o = Outcome("DEFER", b, f)
        BY <3>1, <3>3 DEF Reduced, LocalSvd, Arbitrated, Allocations
      <4>3. CASE o = Outcome("CONTRA", Contradicted(b), "none")
        <5>1. o # Outcome("ABSORB", b, "none")
          BY <4>3 DEF Outcome
        <5> QED BY <1>3, <2>5, <4>1, <4>3, <5>1
      <4>4. CASE \E f \in Allocations : o = Outcome("DEFER", b, f)
        BY <1>4, <4>4
      <4> QED BY <4>2, <4>3, <4>4
    <3> QED BY <3>2, <3>3
  <2> QED BY <2>2, <2>3, <2>4, <2>5
<1> QED BY <1>5, <1>6

(***************************************************************************)
(* The stream.                                                             *)
(***************************************************************************)
LEMMA InitInv == Init => StreamInv
<1> SUFFICES ASSUME Init PROVE StreamInv
  OBVIOUS
<1>1. s \in BState /\ s.basis = {} /\ s.r = 0 /\ s.inconsistent = FALSE
  BY DEF Init, EmptyAdaptive, BState
<1>2. Resolved = {} /\ Processed = {}
  BY <1>1 DEF Init, Resolved, Processed
<1>3. TypeOK
  BY <1>1 DEF Init, TypeOK, Answers
<1>4. BundleOK(s)
  BY EmptyOK DEF Init
<1> QED BY <1>1, <1>2, <1>3, <1>4, RankAssumption, ConsistentAssumption
        DEF Init, StreamInv, ClosureAgrees, NothingLeft

\* Creating and destroying leave the invariant of an empty stream.
LEMMA StartOverInv ==
  ASSUME StartOver, live' \in BOOLEAN, ret' \in Answers
  PROVE  StreamInv'
<1>1. s' \in BState /\ s'.basis = {} /\ s'.r = 0 /\ s'.inconsistent = FALSE
  BY DEF StartOver, EmptyAdaptive, BState
<1>2. Resolved' = {} /\ Processed' = {}
  BY <1>1 DEF StartOver, Resolved, Processed
<1>3. TypeOK'
  BY <1>1 DEF StartOver, TypeOK
<1>4. BundleOK(s)'
  BY EmptyOK DEF StartOver
<1> QED BY <1>1, <1>2, <1>3, <1>4, RankAssumption, ConsistentAssumption
        DEF StartOver, StreamInv, ClosureAgrees, NothingLeft

\* Calls that only answer the caller.
LEMMA AnswerOnlyInv ==
  ASSUME StreamInv, UNCHANGED state, ret' \in Answers
  PROVE  StreamInv'
BY DEF StreamInv, TypeOK, BundleOK, Resolved, Processed, ClosureAgrees,
       NothingLeft, state, counters, history

\* What the five outcomes of a counted insert do to the sets of rows.
LEMMA CountedInv ==
  ASSUME StreamInv, NEW a \in Rows, InsertCounted(a)
  PROVE  StreamInv'
<1> USE DEF StreamInv
<1>1. ~closed /\ ~s.inconsistent /\ refuted = {} /\ live /\ live' = live
  BY DEF InsertCounted, ClosureAgrees
<1>2. PICK o \in InsertCertified(s, a) :
         /\ o.rc # "NOMEM"
         /\ s' = o.s
         /\ seen' = seen + 1
         /\ closed' = (o.rc = "CONTRA")
         /\ deferred' = IF o.rc = "DEFER" THEN deferred + 1 ELSE deferred
         /\ absorbs' = IF o.rc = "ABSORB" THEN absorbs + 1 ELSE absorbs
         /\ absorbed' = IF o.rc = "ABSORB" THEN absorbed \union {a} ELSE absorbed
         /\ declined' = IF o.rc = "DEFER" THEN declined \union {a} ELSE declined
         /\ refuted' = IF o.rc = "CONTRA" THEN refuted \union {a} ELSE refuted
         /\ ret' = Inserted(a, o.rc, o.failed)
  BY DEF InsertCounted
<1>3. /\ o.failed \in Allocations
      /\ BundleOK(o.s)
      /\ \/ /\ o.rc = "GROW"
            /\ o.s.basis = s.basis \union {a}
            /\ o.s.r = s.r + 1
            /\ o.s.qcap >= s.qcap
            /\ ~o.s.inconsistent
         \/ o.rc = "DEFER" /\ o.s = s
         \/ /\ o.rc = "ABSORB" /\ o.s = s
            /\ Dependent(s, a)
            /\ Consistent(s.basis \union {a})
         \/ /\ o.rc = "CONTRA" /\ o.s = Contradicted(s)
            /\ Dependent(s, a)
            /\ ~Consistent(s.basis \union {a})
  BY <1>1, <1>2, InsertOutcome
<1>4. TypeOK'
  <2>1. ret' \in [call : {"insert"}, row : Rows, rc : InsertCodes, failed : Allocations]
    BY <1>2, <1>3 DEF Inserted, InsertCodes
  <2>2. s' \in BState /\ closed' \in BOOLEAN
    BY <1>2, <1>3 DEF BundleOK
  <2>3. seen' \in Nat /\ deferred' \in Nat /\ absorbs' \in Nat
    BY <1>2 DEF TypeOK
  <2>4. /\ absorbed' \in SUBSET Rows
        /\ declined' \in SUBSET Rows
        /\ refuted' \in SUBSET Rows
    BY <1>2 DEF TypeOK
  <2> QED BY <1>1, <2>1, <2>2, <2>3, <2>4 DEF TypeOK, Answers
<1>5. /\ s.basis \in SUBSET Rows /\ Resolved \in SUBSET Rows
      /\ Processed \in SUBSET Rows /\ s.basis \subseteq Resolved
      /\ Resolved \subseteq Processed
      /\ s.r \in 0..N /\ deferred \in Nat /\ absorbs \in Nat /\ seen \in Nat
  BY DEF TypeOK, BState, Resolved, Processed
<1>6. seen = s.r + absorbs + deferred
  <2>1. closed = FALSE
    BY <1>1 DEF TypeOK
  <2> QED BY <1>5, <2>1
<1>7. Rank(Processed \union {a}) <= Rank(Processed) + 1
      /\ Rank(Processed \union {a}) \in Nat /\ Rank(Processed) \in Nat
  BY <1>5, RankAssumption
<1>8. CASE o.rc = "GROW"
  <2>1. /\ s'.basis = s.basis \union {a} /\ s'.r = s.r + 1 /\ ~s'.inconsistent
        /\ closed' = FALSE /\ refuted' = {}
        /\ UNCHANGED <<deferred, absorbs, absorbed, declined>>
    BY <1>1, <1>2, <1>3, <1>8
  <2>2. Resolved' = Resolved \union {a} /\ Processed' = Processed \union {a}
    BY <1>1, <2>1 DEF Resolved, Processed
  <2>3. Rank(s'.basis) = s.r + 1
    BY <1>2, <1>3, <2>1 DEF BundleOK
  <2>4. Rank(Resolved') = s.r + 1 /\ Consistent(Resolved')
    <3>1. Rank(s'.basis) <= Rank(Resolved')
      BY <1>5, <2>1, <2>2, RankAssumption
    <3>2. Rank(Resolved') \in {Rank(Resolved), Rank(Resolved) + 1}
      BY <1>5, <2>2, RankAssumption
    <3>3. Rank(Resolved') = Rank(Resolved) + 1
      BY <1>5, <2>3, <3>1, <3>2
    <3> QED BY <1>5, <2>2, <3>3, ConsistentAssumption
  <2> QED BY <1>1, <1>2, <1>3, <1>4, <1>5, <1>6, <1>7, <2>1, <2>2, <2>4
          DEF ClosureAgrees
<1>9. CASE o.rc = "DEFER"
  <2>1. /\ s' = s /\ closed' = FALSE /\ refuted' = {}
        /\ deferred' = deferred + 1 /\ declined' = declined \union {a}
        /\ UNCHANGED <<absorbs, absorbed>>
    BY <1>1, <1>2, <1>3, <1>9
  <2>2. Resolved' = Resolved /\ Processed' = Processed \union {a}
    BY <1>1, <2>1 DEF Resolved, Processed
  <2> QED BY <1>1, <1>2, <1>3, <1>4, <1>5, <1>6, <1>7, <2>1, <2>2
          DEF ClosureAgrees
<1>10. CASE o.rc = "ABSORB"
  <2>1. /\ s' = s /\ closed' = FALSE /\ refuted' = {}
        /\ absorbs' = absorbs + 1 /\ absorbed' = absorbed \union {a}
        /\ UNCHANGED <<deferred, declined>>
        /\ Dependent(s, a) /\ Consistent(s.basis \union {a})
    BY <1>1, <1>2, <1>3, <1>10
  <2>2. Resolved' = Resolved \union {a} /\ Processed' = Processed \union {a}
    BY <1>1, <2>1 DEF Resolved, Processed
  <2>3. Rank(Resolved') = s.r /\ Rank(Processed') = Rank(Processed)
    BY <1>5, <2>1, <2>2, RankAssumption DEF Dependent
  <2>4. Consistent(Resolved')
    BY <1>5, <2>1, <2>2, ConsistentAssumption DEF Dependent
  <2> QED BY <1>1, <1>2, <1>3, <1>4, <1>5, <1>6, <2>1, <2>2, <2>3, <2>4
          DEF ClosureAgrees
<1>11. CASE o.rc = "CONTRA"
  <2>1. /\ s' = Contradicted(s) /\ closed' = TRUE /\ refuted' = {a}
        /\ UNCHANGED <<deferred, declined, absorbs, absorbed>>
        /\ Dependent(s, a) /\ ~Consistent(s.basis \union {a})
    BY <1>1, <1>2, <1>3, <1>11
  <2>2. s'.basis = s.basis /\ s'.r = s.r /\ s'.inconsistent = TRUE
    BY <2>1 DEF Contradicted
  <2>3. Resolved' = Resolved /\ Processed' = Processed \union {a}
    BY <1>1, <2>1, <2>2 DEF Resolved, Processed
  <2>4. Rank(Processed') = Rank(Processed)
    BY <1>5, <2>1, <2>3, RankAssumption DEF Dependent
  <2>5. ~Consistent(Processed')
    <3>1. s.basis \union {a} \subseteq Processed' /\ Processed' \in SUBSET Rows
          /\ s.basis \union {a} \in SUBSET Rows
      BY <1>5, <2>3
    <3> QED BY <2>1, <3>1, ConsistentAssumption
  <2> QED BY <1>1, <1>2, <1>3, <1>4, <1>5, <1>6, <2>1, <2>2, <2>3, <2>4, <2>5
          DEF ClosureAgrees
<1> QED BY <1>3, <1>8, <1>9, <1>10, <1>11

(***************************************************************************)
(* The theorems.                                                           *)
(***************************************************************************)
LEMMA NextInv == StreamInv /\ [Next]_vars => StreamInv'
<1> SUFFICES ASSUME StreamInv, [Next]_vars PROVE StreamInv'
  OBVIOUS
<1>1. CASE CreateOk
  BY <1>1, StartOverInv DEF CreateOk, Created, Answers
<1>2. CASE CreateFails
  BY <1>2, AnswerOnlyInv DEF CreateFails, Created, Answers
<1>3. CASE Destroy
  BY <1>3, StartOverInv DEF Destroy, Answers
<1>4. CASE InsertInvalid
  BY <1>4, AnswerOnlyInv DEF InsertInvalid, Answers
<1>5. ASSUME NEW a \in Rows, InsertClosed(a) PROVE StreamInv'
  <2>1. ret' \in [call : {"insert"}, row : Rows, rc : InsertCodes, failed : Allocations]
    BY <1>5 DEF InsertClosed, Inserted, InsertCodes, Allocations
  <2> QED BY <1>5, <2>1, AnswerOnlyInv DEF InsertClosed, Answers
<1>6. ASSUME NEW a \in Rows, InsertNoMemory(a) PROVE StreamInv'
  <2>1. PICK o \in InsertCertified(s, a) :
           o.rc = "NOMEM" /\ s' = o.s /\ ret' = Inserted(a, "ENOMEM", o.failed)
    BY <1>6 DEF InsertNoMemory
  <2>2. ~s.inconsistent
    BY <1>6 DEF InsertNoMemory, StreamInv, ClosureAgrees
  <2>3. o.s = s /\ o.failed \in Allocations
    BY <2>1, <2>2, InsertOutcome DEF StreamInv
  <2>4. ret' \in [call : {"insert"}, row : Rows, rc : InsertCodes, failed : Allocations]
    BY <2>1, <2>3 DEF Inserted, InsertCodes
  <2>5. UNCHANGED state
    BY <1>6, <2>1, <2>3 DEF InsertNoMemory, state
  <2> QED BY <2>4, <2>5, AnswerOnlyInv DEF Answers
<1>7. ASSUME NEW a \in Rows, InsertCounted(a) PROVE StreamInv'
  BY <1>7, CountedInv
<1>8. CASE Status
  <2>1. ret' \in [call : {"status"}, cls : Classes, certainty : Certainties,
                  rank : 0..N, lo : 0..N, hi : 0..N]
    <3>1. s.r \in 0..N /\ RankHi \in 0..N
      BY DEF StreamInv, TypeOK, BState, RankHi
    <3>2. Class \in Classes
      BY DEF Class, Classes
    <3> QED BY <1>8, <3>1, <3>2 DEF Status, Certainties, Classes
  <2> QED BY <1>8, <2>1, AnswerOnlyInv DEF Status, Answers
<1>9. CASE Solution
  <2>1. SolutionGiven \in BOOLEAN
    BY DEF SolutionGiven
  <2> QED BY <1>9, <2>1, AnswerOnlyInv DEF Solution, Solved, Answers
<1>10. CASE UNCHANGED vars
  BY <1>10, AnswerOnlyInv DEF StreamInv, TypeOK, vars, state, counters, history
<1> QED BY <1>1, <1>2, <1>3, <1>4, <1>5, <1>6, <1>7, <1>8, <1>9, <1>10 DEF Next

\* The inductive invariant holds throughout, whatever order rows, failures
\* and restarts come in.
THEOREM StreamInvariant == Spec => []StreamInv
BY InitInv, NextInv, PTL DEF Spec

\* Type correctness of the stream, its counters and its answers.
THEOREM StreamTypes == Spec => []TypeOK
<1>1. StreamInv => TypeOK
  BY DEF StreamInv
<1> QED BY <1>1, StreamInvariant, PTL

\* Both ends of the documented rank interval are sound: the rank of all rows
\* processed lies in [r, min(n, r + deferred)].
THEOREM RankInterval == Spec => []RankIntervalSound
<1>1. StreamInv => RankIntervalSound
  <2> SUFFICES ASSUME StreamInv PROVE Rank(Processed) \in s.r..RankHi
    BY DEF RankIntervalSound
  <2>1. /\ Processed \in SUBSET Rows /\ s.basis \in SUBSET Rows
        /\ s.basis \subseteq Processed /\ s.r \in 0..N /\ deferred \in Nat
    BY DEF StreamInv, TypeOK, BState, Processed
  <2>2. Rank(Processed) \in 0..N /\ Rank(s.basis) <= Rank(Processed)
    BY <2>1, RankAssumption
  <2> QED BY <2>1, <2>2 DEF StreamInv, BundleOK, RankHi
<1> QED BY <1>1, StreamInvariant, PTL

\* UNIQUE, INFINITE and INCONSISTENT are never claimed of processed rows that
\* do not have that status, and a solution handed out solves all of them.
THEOREM Verdicts == Spec => []VerdictSound
<1>1. StreamInv => VerdictSound
  <2> SUFFICES ASSUME StreamInv PROVE VerdictSound
    OBVIOUS
  <2>1. ~closed /\ deferred = 0 => Processed = Resolved
    BY DEF StreamInv, ClosureAgrees, Processed, Resolved
  <2>2. Rank(Resolved) = s.r /\ Consistent(Resolved) /\ s.r \in 0..N
        /\ closed = s.inconsistent /\ (closed => ~Consistent(Processed))
        /\ deferred \in Nat
    BY DEF StreamInv, ClosureAgrees, TypeOK, BState
  <2> QED BY <2>1, <2>2 DEF VerdictSound, Class, SolutionGiven
<1> QED BY <1>1, StreamInvariant, PTL

\* Every processed row is in the basis, absorbed, deferred, or the one that
\* closed the stream; a row refused for want of memory is none of these.
THEOREM Accounting == Spec => []RowsAccounted
<1>1. StreamInv => RowsAccounted
  BY DEF StreamInv, ClosureAgrees, RowsAccounted
<1> QED BY <1>1, StreamInvariant, PTL

\* Storage of the basis is proportional to the rank, for every n.
THEOREM Storage == Spec => []StorageProportional
<1>1. StreamInv => StorageProportional
  BY DEF StreamInv, BundleOK, BState, StorageProportional
<1> QED BY <1>1, StreamInvariant, PTL

(***************************************************************************)
(* Retrying after ENOMEM.                                                  *)
(***************************************************************************)
\* The row refused for want of memory was independent and Q was full.
Refused(a) ==
  /\ a \in Rows
  /\ ~s.inconsistent
  /\ ~Dependent(s, a)
  /\ ~Zero(a)
  /\ s.r = s.qcap
  /\ s.r < N

RetryInv == (ret.call = "insert" /\ ret.rc = "ENOMEM") => Refused(ret.row)

\* ENOMEM comes out of the growth branch only.
LEMMA NoMemoryRefuses ==
  ASSUME NEW a \in Rows, BundleOK(s), ~s.inconsistent,
         NEW o \in InsertCertified(s, a), o.rc = "NOMEM"
  PROVE  Refused(a)
<1>1. s.basis \in SUBSET Rows /\ s.r \in 0..N /\ s.qcap \in 0..N /\ s.r <= s.qcap
      /\ s.inconsistent = FALSE /\ Rank(s.basis) = s.r
  BY DEF BundleOK, BState
<1>2. ~Zero(a)
  BY <1>1 DEF InsertCertified, ZeroRow, Outcome
<1>3. PICK mu \in DistanceInterval(s, a) : o \in Decided(mu, s, a)
  BY <1>1, <1>2 DEF InsertCertified
<1>4. o \notin Reduced(s, a)
  <2>1. ASSUME o \in Reduced(s, a) PROVE FALSE
    <3>1. \/ o = Outcome("ABSORB", s, "none")
          \/ o = Outcome("CONTRA", Contradicted(s), "none")
          \/ \E f \in Allocations : o = Outcome("DEFER", s, f)
      BY <2>1 DEF Reduced, LocalSvd, Arbitrated, Allocations
    <3> QED BY <3>1 DEF Outcome
  <2> QED BY <2>1
<1>5. o \in Grown(s, a) /\ ~Dependent(s, a)
  BY <1>3, <1>4 DEF Decided, DistanceInterval, Outcome
<1>6. s.r < N
  BY <1>1, <1>5, RankAssumption DEF Dependent
<1>7. ~(s.r < s.qcap)
  BY <1>1, <1>5, <1>6 DEF Grown, Outcome
<1> QED BY <1>1, <1>2, <1>5, <1>6, <1>7 DEF Refused

\* A growth without memory leaves the row one that is still to be taken.
LEMMA RetryStep == StreamInv /\ RetryInv /\ [Next]_vars => RetryInv'
<1> SUFFICES ASSUME StreamInv, RetryInv, [Next]_vars,
                    ret'.call = "insert", ret'.rc = "ENOMEM"
             PROVE  Refused(ret.row)'
  BY DEF RetryInv
<1>1. CASE UNCHANGED vars
  BY <1>1 DEF vars, RetryInv, Refused
<1>2. CASE \E a \in Rows : InsertNoMemory(a)
  <2>1. PICK a \in Rows : InsertNoMemory(a)
    BY <1>2
  <2>2. PICK o \in InsertCertified(s, a) :
           o.rc = "NOMEM" /\ s' = o.s /\ ret' = Inserted(a, "ENOMEM", o.failed)
    BY <2>1 DEF InsertNoMemory
  <2>3. BundleOK(s) /\ ~s.inconsistent
    BY <2>1 DEF InsertNoMemory, StreamInv, ClosureAgrees
  <2>4. s' = s /\ ret'.row = a
    BY <2>2, <2>3, InsertOutcome DEF Inserted
  <2> QED BY <2>2, <2>3, <2>4, NoMemoryRefuses DEF Refused
<1>3. ASSUME NEW a \in Rows, InsertCounted(a) PROVE FALSE
  <2>1. PICK o \in InsertCertified(s, a) :
           o.rc # "NOMEM" /\ ret' = Inserted(a, o.rc, o.failed)
    BY <1>3 DEF InsertCounted
  <2>2. BundleOK(s) /\ ~s.inconsistent
    BY <1>3 DEF InsertCounted, StreamInv, ClosureAgrees
  <2>3. o.rc \in {"GROW", "DEFER", "ABSORB", "CONTRA"}
    BY <2>1, <2>2, InsertOutcome
  <2> QED BY <2>1, <2>3 DEF Inserted
<1>4. ~CreateOk /\ ~CreateFails /\ ~Destroy /\ ~InsertInvalid
      /\ ~(\E a \in Rows : InsertClosed(a)) /\ ~Status /\ ~Solution
  BY DEF CreateOk, CreateFails, Destroy, InsertInvalid, InsertClosed, Status,
         Solution, Created, Solved, Inserted, Rejected, NoAnswer
<1> QED BY <1>1, <1>2, <1>3, <1>4 DEF Next

\* A row refused with ENOMEM, offered again at once, grows the basis when
\* memory is available, and is never absorbed or declared contradictory.
THEOREM Retry == Spec => []RetryGrows
<1>1. Init => RetryInv
  BY DEF Init, RetryInv, NoAnswer
<1>2. StreamInv /\ RetryInv => RetryGrows
  <2> SUFFICES ASSUME StreamInv, RetryInv, ret.call = "insert", ret.rc = "ENOMEM"
               PROVE  RetryGrows
    BY DEF RetryGrows
  <2> DEFINE a == ret.row
             b == WithRow(s, a, NextCapacity(s.qcap))
  <2>1. Refused(a)
    BY DEF RetryInv
  <2>2. s.r \in 0..N /\ s.qcap \in 0..N
    BY DEF StreamInv, TypeOK, BState
  <2>3. NextCapacity(s.qcap) > s.qcap
    BY <2>1, <2>2, CapacityGrows DEF Refused
  <2>4. InsertCertified(s, a) =
           UNION {Decided(mu, s, a) : mu \in {"between", "above"}}
    BY <2>1 DEF InsertCertified, Refused, DistanceInterval
  <2>5. Decided("above", s, a) =
           {Outcome("NOMEM", s, "basis"), Outcome("GROW", b, "none")}
    BY <2>1, <2>2, <2>3 DEF Decided, Grown, Reallocated, Refused
  <2>6. Decided("between", s, a) = {Outcome("DEFER", s, "none")}
    BY DEF Decided
  <2>7. Outcome("GROW", b, "none").rc = "GROW"
        /\ Outcome("GROW", b, "none").s.basis = s.basis \union {a}
    BY DEF Outcome, WithRow
  <2>8. \A o \in InsertCertified(s, a) : o.rc \in {"GROW", "NOMEM", "DEFER"}
    BY <2>4, <2>5, <2>6 DEF Outcome
  <2>9. Outcome("GROW", b, "none") \in InsertCertified(s, a)
    BY <2>4, <2>5
  <2> QED BY <2>7, <2>8, <2>9 DEF RetryGrows
<1> QED BY <1>1, <1>2, RetryStep, StreamInvariant, PTL DEF Spec

(***************************************************************************)
(* What a step may never do.                                               *)
(***************************************************************************)
\* While a stream lives its knowledge only accumulates, a closed stream is
\* final, and a refused call changes nothing.
THEOREM Monotone == Spec => KnowledgeMonotone
<1> DEFINE Kept ==
      (live /\ live') =>
        /\ s.basis \subseteq s'.basis
        /\ s.qcap <= s'.qcap
        /\ seen <= seen' /\ deferred <= deferred'
        /\ closed => UNCHANGED <<s, counters>>
        /\ (ret'.call = "insert" /\ ret'.rc \in {"ENOMEM", "EINVAL"})
              => UNCHANGED <<s, counters>>
<1>1. StreamInv /\ [Next]_vars => [Kept]_vars
  <2> SUFFICES ASSUME StreamInv, Next, live, live' PROVE Kept
    BY DEF Kept
  <2>1. s.qcap \in 0..N /\ seen \in Nat /\ deferred \in Nat
    BY DEF StreamInv, TypeOK, BState
  <2>2. ASSUME UNCHANGED <<s, counters>> PROVE Kept
    BY <2>1, <2>2 DEF counters
  <2>3. ASSUME NEW a \in Rows, InsertCounted(a) PROVE Kept
    <3>1. PICK o \in InsertCertified(s, a) :
             /\ o.rc # "NOMEM" /\ s' = o.s /\ seen' = seen + 1
             /\ deferred' = IF o.rc = "DEFER" THEN deferred + 1 ELSE deferred
             /\ ret' = Inserted(a, o.rc, o.failed)
      BY <2>3 DEF InsertCounted
    <3>2. BundleOK(s) /\ ~s.inconsistent /\ ~closed
      BY <2>3 DEF InsertCounted, StreamInv, ClosureAgrees
    <3>3. /\ o.rc \in {"GROW", "DEFER", "ABSORB", "CONTRA"}
          /\ s.basis \subseteq o.s.basis
          /\ s.qcap <= o.s.qcap
      <4>1. o.rc # "CONTRA" =>
               /\ o.rc \in {"GROW", "DEFER", "ABSORB"}
               /\ o.s = s \/ (o.s.basis = s.basis \union {a} /\ s.qcap <= o.s.qcap)
        BY <3>1, <3>2, InsertOutcome
      <4>2. o.rc = "CONTRA" => o.s = Contradicted(s)
        BY <3>1, <3>2, InsertOutcome
      <4>3. Contradicted(s).basis = s.basis /\ Contradicted(s).qcap = s.qcap
        BY DEF Contradicted
      <4> QED BY <2>1, <4>1, <4>2, <4>3
    <3>4. ret'.rc = o.rc
      BY <3>1 DEF Inserted
    <3> QED BY <2>1, <3>1, <3>2, <3>3, <3>4
  <2>4. ASSUME NEW a \in Rows, InsertNoMemory(a) PROVE Kept
    <3>1. PICK o \in InsertCertified(s, a) : o.rc = "NOMEM" /\ s' = o.s
      BY <2>4 DEF InsertNoMemory
    <3>2. BundleOK(s) /\ ~s.inconsistent
      BY <2>4 DEF InsertNoMemory, StreamInv, ClosureAgrees
    <3>3. s' = s
      BY <3>1, <3>2, InsertOutcome
    <3> QED BY <2>2, <2>4, <3>3 DEF InsertNoMemory
  <2>5. ~CreateOk /\ ~CreateFails /\ ~Destroy
    BY DEF CreateOk, CreateFails, Destroy
  <2>6. CASE InsertInvalid \/ (\E a \in Rows : InsertClosed(a)) \/ Status \/ Solution
    BY <2>2, <2>6 DEF InsertInvalid, InsertClosed, Status, Solution, state
  <2> QED BY <2>3, <2>4, <2>5, <2>6 DEF Next
<1> QED BY <1>1, StreamInvariant, PTL DEF Spec, KnowledgeMonotone

(***************************************************************************)
(* The stream implements its contract.                                     *)
(***************************************************************************)
\* The class is supported by the processed rows and the reported interval.
LEMMA ClassSupported ==
  StreamInv => Contract!Supported(Class, Processed, s.r, RankHi)
<1> SUFFICES ASSUME StreamInv
             PROVE  Contract!Supported(Class, Processed, s.r, RankHi)
  OBVIOUS
<1>1. /\ Processed \in SUBSET Rows /\ s.basis \in SUBSET Rows
      /\ s.basis \subseteq Processed /\ s.r \in 0..N /\ deferred \in Nat
      /\ Rank(s.basis) = s.r /\ Rank(Resolved) = s.r /\ Consistent(Resolved)
      /\ Rank(Processed) <= s.r + deferred
      /\ closed = s.inconsistent /\ (closed => ~Consistent(Processed))
  BY DEF StreamInv, TypeOK, BState, BundleOK, Processed, ClosureAgrees
<1>2. Rank(Processed) \in s.r..RankHi
  BY <1>1, RankAssumption DEF RankHi
<1>3. ~closed /\ deferred = 0 => Processed = Resolved /\ RankHi = s.r
  BY <1>1 DEF StreamInv, ClosureAgrees, Processed, Resolved, RankHi
<1>4. CASE closed
  BY <1>1, <1>2, <1>4 DEF Class, Contract!Supported
<1>5. CASE ~closed /\ deferred > 0
  BY <1>1, <1>2, <1>5 DEF Class, Contract!Supported
<1>6. CASE ~closed /\ deferred = 0 /\ s.r >= N
  BY <1>1, <1>2, <1>3, <1>6 DEF Class, Contract!Supported
<1>7. CASE ~closed /\ deferred = 0 /\ s.r < N
  BY <1>1, <1>2, <1>3, <1>7 DEF Class, Contract!Supported
<1> QED BY <1>1, <1>4, <1>5, <1>6, <1>7

\* A counted insert is the contract's answer about one more row.
LEMMA CountedAnswers ==
  ASSUME StreamInv, NEW a \in Rows, InsertCounted(a)
  PROVE  Contract!Answer(a)
<1>1. StreamInv'
  BY CountedInv
<1>2. Contract!Supported(Class', Processed', s'.r, RankHi')
  <2>1. (StreamInv => Contract!Supported(Class, Processed, s.r, RankHi))'
    BY ClassSupported, PTL
  <2> QED BY <1>1, <2>1
<1>3. PICK o \in InsertCertified(s, a) :
         /\ o.rc # "NOMEM"
         /\ s' = o.s
         /\ closed' = (o.rc = "CONTRA")
         /\ deferred' = IF o.rc = "DEFER" THEN deferred + 1 ELSE deferred
         /\ absorbed' = IF o.rc = "ABSORB" THEN absorbed \union {a} ELSE absorbed
         /\ declined' = IF o.rc = "DEFER" THEN declined \union {a} ELSE declined
         /\ refuted' = IF o.rc = "CONTRA" THEN refuted \union {a} ELSE refuted
  BY DEF InsertCounted
<1>4. live /\ live' = live /\ ~closed /\ ~s.inconsistent /\ refuted = {}
      /\ s.r \in 0..N /\ deferred \in Nat /\ BundleOK(s)
  BY DEF InsertCounted, StreamInv, ClosureAgrees, TypeOK, BState
<1>5. \/ /\ o.rc = "GROW" /\ s'.basis = s.basis \union {a} /\ s'.r = s.r + 1
      \/ o.rc \in {"DEFER", "ABSORB"} /\ s' = s
      \/ o.rc = "CONTRA" /\ s'.basis = s.basis /\ s'.r = s.r
  <2>1. Contradicted(s).basis = s.basis /\ Contradicted(s).r = s.r
    BY DEF Contradicted
  <2> QED BY <1>3, <1>4, <2>1, InsertOutcome
<1>6. Processed' = Processed \union {a}
  BY <1>3, <1>4, <1>5 DEF Processed
<1>7. s'.r \in {s.r, s.r + 1} /\ RankHi' \in {RankHi, RankHi + 1}
  BY <1>3, <1>4, <1>5 DEF RankHi
<1>8. Class # "INCONSISTENT"
  BY <1>4 DEF Class
<1>9. Class = "UNDECIDABLE" => Class' \in {"UNDECIDABLE", "INCONSISTENT"}
  <2>1. Class = "UNDECIDABLE" => deferred > 0
    BY <1>4 DEF Class
  <2>2. deferred' >= deferred
    BY <1>3, <1>4
  <2> QED BY <1>3, <1>4, <2>1, <2>2 DEF Class
<1> QED BY <1>2, <1>4, <1>6, <1>7, <1>8, <1>9 DEF Contract!Answer

\* Every behaviour of the stream, seen through the rows it has answered for,
\* the rank interval and the class, is a behaviour of StreamContract.
THEOREM Implementation == Spec => ImplementsContract
<1>1. Init => Contract!Init
  <2> SUFFICES ASSUME Init PROVE Contract!Init
    OBVIOUS
  <2>1. s.basis = {} /\ s.r = 0 /\ s.inconsistent = FALSE
    BY DEF Init, EmptyAdaptive
  <2>2. Processed = {} /\ RankHi = 0 /\ Class = "INFINITE"
    BY <2>1 DEF Init, Processed, RankHi, Class
  <2> QED BY <2>1, <2>2 DEF Init, Contract!Init, Contract!Blank
<1>2. StreamInv /\ [Next]_vars => [Contract!Next]_Contract!contractVars
  <2> SUFFICES ASSUME StreamInv, [Next]_vars
               PROVE  [Contract!Next]_Contract!contractVars
    OBVIOUS
  <2>1. ASSUME UNCHANGED <<live, s, counters, absorbed, declined, refuted>>
        PROVE  UNCHANGED Contract!contractVars
    BY <2>1 DEF Contract!contractVars, Processed, RankHi, Class, counters
  <2>2. ASSUME StartOver
        PROVE  Processed' = {} /\ s'.r = 0 /\ RankHi' = 0 /\ Class' = "INFINITE"
    <3>1. s'.basis = {} /\ s'.r = 0 /\ s'.inconsistent = FALSE
      BY <2>2 DEF StartOver, EmptyAdaptive
    <3> QED BY <2>2, <3>1 DEF StartOver, Processed, RankHi, Class
  <2>3. live \/ (s.r = 0 /\ RankHi = 0 /\ Class = "INFINITE" /\ Processed = {})
    <3>1. ~live => s.basis = {} /\ s.r = 0 /\ s.inconsistent = FALSE
      BY DEF StreamInv, NothingLeft, EmptyAdaptive
    <3> QED BY <3>1 DEF StreamInv, NothingLeft, Processed, RankHi, Class
  <2>4. CASE CreateOk
    BY <2>2, <2>3, <2>4 DEF CreateOk, Contract!Next, Contract!Open
  <2>5. CASE Destroy
    BY <2>2, <2>5 DEF Destroy, Contract!Next, Contract!Close
  <2>6. ASSUME NEW a \in Rows, InsertCounted(a) PROVE Contract!Next
    BY <2>6, CountedAnswers DEF Contract!Next
  <2>7. ASSUME NEW a \in Rows, InsertNoMemory(a)
        PROVE  UNCHANGED Contract!contractVars
    <3>1. PICK o \in InsertCertified(s, a) : o.rc = "NOMEM" /\ s' = o.s
      BY <2>7 DEF InsertNoMemory
    <3>2. BundleOK(s) /\ ~s.inconsistent
      BY <2>7 DEF InsertNoMemory, StreamInv, ClosureAgrees
    <3>3. s' = s
      BY <3>1, <3>2, InsertOutcome
    <3> QED BY <2>1, <2>7, <3>3 DEF InsertNoMemory, history
  <2>8. CASE \/ CreateFails \/ InsertInvalid \/ Status \/ Solution
             \/ (\E a \in Rows : InsertClosed(a)) \/ UNCHANGED vars
    BY <2>1, <2>8 DEF CreateFails, InsertInvalid, Status, Solution, InsertClosed,
       state, counters, history, vars
  <2> QED BY <2>4, <2>5, <2>6, <2>7, <2>8 DEF Next
<1> QED BY <1>1, <1>2, StreamInvariant, PTL DEF Spec, ImplementsContract, Contract!Spec
=============================================================================
