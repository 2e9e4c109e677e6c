---------------------------- MODULE VerifierProofs ----------------------------
(***************************************************************************)
(* Theorems about Verifiers and CandidateCheck, for every number of rows,  *)
(* every size of the team, every mix of rows and of the callers' rounding  *)
(* modes.                                                                  *)
(*                                                                         *)
(* What an accepted radius bounds is decided row by row; the lemmas on the *)
(* classes of numbers say what a row's radius keeps of the row.  The team  *)
(* is the hard part: Region says that the rows of every worker that has    *)
(* reached the barrier are weighed, and that a worker without buffers has  *)
(* left its mark; that the shares leave no row out is arithmetic.          *)
(***************************************************************************)
EXTENDS CandidateCheck, FiniteSetTheorems, TLAPS

-----------------------------------------------------------------------------
(***************************************************************************)
(* Classes of numbers.                                                     *)
(***************************************************************************)
Class == {"zero", "fin", "inf"}

\* An upper bound of infinity is infinite, and only zero is bounded by zero.
LEMMA AtLeastKeeps ==
  ASSUME NEW v \in Class, NEW u \in AtLeast(v)
  PROVE  u \in Class /\ (v = "inf" => u = "inf") /\ (u = "zero" => v = "zero")
<1>1. CASE v = "zero"
  BY <1>1 DEF AtLeast, Class
<1>2. CASE v = "fin"
  BY <1>2 DEF AtLeast, Class
<1>3. CASE v = "inf"
  BY <1>3 DEF AtLeast, Class
<1> QED BY <1>1, <1>2, <1>3 DEF Class

\* A product of bounds is a NaN only for zero times infinity.
LEMMA ProductKeeps ==
  ASSUME NEW a \in Class, NEW b \in Class, NEW p \in Product(a, b)
  PROVE  /\ p \in Number
         /\ ~(a = "inf" /\ b = "zero") /\ ~(a = "zero" /\ b = "inf") => p # "nan"
         /\ a = "inf" /\ b = "fin" => p = "inf"
         /\ p = "zero" => a = "zero" \/ b = "zero"
BY DEF Product, Class, Number

\* A sum of bounds is a NaN only if a summand is.
LEMMA SumKeeps ==
  ASSUME NEW a \in Number, NEW b \in Number, NEW s \in Sum(a, b)
  PROVE  /\ s \in Number
         /\ s = "nan" => "nan" \in {a, b}
         /\ "nan" \notin {a, b} /\ "inf" \in {a, b} => s = "inf"
         /\ s = "zero" => a = "zero" /\ b = "zero"
BY DEF Sum, Number

\* A norm of two bounds hides neither a NaN nor an infinity.
LEMMA HypotKeeps ==
  ASSUME NEW a \in Number, NEW b \in Number, NEW s \in Hypot(a, b)
  PROVE  /\ s \in Number
         /\ "nan" \notin {a, b} =>
              /\ s # "nan"
              /\ "inf" \in {a, b} => s = "inf"
              /\ s = "zero" => a = "zero" /\ b = "zero"
<1>1. CASE {a, b} \subseteq {"zero", "nan"}
  BY <1>1 DEF Hypot, Number
<1>2. CASE ~({a, b} \subseteq {"zero", "nan"})
  BY <1>2, SumKeeps DEF Hypot
<1> QED BY <1>1, <1>2

\* A quotient by a source norm keeps an infinite change infinite.
LEMMA QuotientKeeps ==
  ASSUME NEW pert \in Number, NEW src \in {"zero", "fin"}, NEW q \in Quotient(pert, src)
  PROVE  /\ q \in Number
         /\ pert # "nan" => /\ q # "nan"
                            /\ pert = "inf" => q = "inf"
                            /\ q = "zero" => pert = "zero"
BY DEF Quotient, Number

\* A row whose bounds multiply to an ordinary number has a radius that forgets
\* nothing: an infinite bound shows, and only a row that is right costs nothing.
LEMMA RadiusKeeps ==
  ASSUME NEW e \in Class, NEW res \in Class, NEW src \in {"zero", "fin"}, NEW xn \in Class,
         NEW q \in Radius(e, res, src, xn)
  PROVE  /\ q \in Number
         /\ Finite(xn) /\ (e = "inf" => xn = "fin") =>
              /\ q # "nan"
              /\ "inf" \in {e, res} => q = "inf"
              /\ q = "zero" => e = "zero" /\ res = "zero"
<1>1. PICK pert \in UNION {Hypot(e, db) : db \in UNION {Sum(res, p) : p \in Product(e, xn)}} :
         q \in Quotient(pert, src)
  BY DEF Radius
<1>2. PICK db \in UNION {Sum(res, p) : p \in Product(e, xn)} : pert \in Hypot(e, db)
  BY <1>1
<1>3. PICK p \in Product(e, xn) : db \in Sum(res, p)
  BY <1>2
<1>4. e \in Number /\ res \in Number /\ p \in Number /\ db \in Number /\ pert \in Number
  <2>1. e \in Number /\ res \in Number
    BY DEF Class, Number
  <2>2. p \in Number
    BY <1>3, ProductKeeps
  <2>3. db \in Number
    BY <1>3, <2>1, <2>2, SumKeeps
  <2> QED BY <1>2, <2>1, <2>2, <2>3, HypotKeeps
<1>5. q \in Number
  BY <1>1, <1>4, QuotientKeeps
<1>6. ASSUME Finite(xn), e = "inf" => xn = "fin"
      PROVE  /\ q # "nan"
             /\ "inf" \in {e, res} => q = "inf"
             /\ q = "zero" => e = "zero" /\ res = "zero"
  <2>1. p # "nan"
    BY <1>3, <1>6, ProductKeeps DEF Finite
  <2>2. e # "nan" /\ res # "nan"
    BY DEF Class
  <2>3. /\ db # "nan" /\ (res = "inf" => db = "inf") /\ (db = "zero" => res = "zero")
    BY <1>3, <1>4, <2>1, <2>2, SumKeeps
  <2>4. /\ pert # "nan" /\ ("inf" \in {e, db} => pert = "inf")
        /\ pert = "zero" => e = "zero" /\ db = "zero"
    BY <1>2, <1>4, <2>2, <2>3, HypotKeeps
  <2> QED BY <1>1, <1>4, <2>3, <2>4, QuotientKeeps
<1> QED BY <1>5, <1>6

\* The same of what the two verifiers make of a row of the source.
RowType == [err : Class, res : Class, src : {"zero", "fin"}]

Told(row, q) == /\ q # "nan"
                /\ "inf" \in {row.err, row.res} => q = "inf"
                /\ q = "zero" => ~NeedsChange(row)

\* The radius of an infinite witness's row, for an x of finite norm.
LEMMA InfiniteRadiusTells ==
  ASSUME NEW row \in RowType, NEW xn \in Class, NEW q \in InfiniteRadius(row, xn)
  PROVE  q \in Number /\ (xn = "fin" => Told(row, q))
<1>1. PICK e \in AtLeast(row.err), res \in AtLeast(row.res) : q \in Radius(e, res, row.src, xn)
  BY DEF InfiniteRadius
<1>2. row.err \in Class /\ row.res \in Class /\ row.src \in {"zero", "fin"}
  BY DEF RowType
<1>3. /\ e \in Class /\ res \in Class
      /\ (row.err = "inf" => e = "inf") /\ (row.res = "inf" => res = "inf")
      /\ (e = "zero" => row.err = "zero") /\ (res = "zero" => row.res = "zero")
  BY <1>1, <1>2, AtLeastKeeps
<1> QED BY <1>1, <1>2, <1>3, RadiusKeeps DEF Told, NeedsChange, Finite

\* The radius of a unique witness's row.
LEMMA UniqueRadiusTells ==
  ASSUME NEW row \in RowType, NEW xn \in Class, NEW q \in UniqueRadius(row, xn)
  PROVE  q \in Number /\ Told(row, q)
<1>1. PICK e \in AtLeast(row.err), res \in AtLeast(row.res) :
         q \in IF Finite(e) /\ Finite(res) /\ Finite(xn)
               THEN Radius(e, res, row.src, xn) ELSE {"inf"}
  BY DEF UniqueRadius
<1>2. row.err \in Class /\ row.res \in Class /\ row.src \in {"zero", "fin"}
  BY DEF RowType
<1>3. /\ e \in Class /\ res \in Class
      /\ (row.err = "inf" => e = "inf") /\ (row.res = "inf" => res = "inf")
      /\ (e = "zero" => row.err = "zero") /\ (res = "zero" => row.res = "zero")
  BY <1>1, <1>2, AtLeastKeeps
<1>4. CASE Finite(e) /\ Finite(res) /\ Finite(xn)
  BY <1>1, <1>2, <1>3, <1>4, RadiusKeeps DEF Told, NeedsChange, Finite
<1>5. CASE ~(Finite(e) /\ Finite(res) /\ Finite(xn))
  BY <1>1, <1>5 DEF Told, Number
<1> QED BY <1>4, <1>5

\* The maximum of radii that are numbers, when it is accepted.
LEMMA GreatestTells ==
  ASSUME NEW q \in [Row -> Number], NEW rows \in [Row -> RowType],
         \A i \in Row : Told(rows[i], q[i]),
         Finite(Greatest(q))
  PROVE  /\ \A i \in Row : rows[i].err # "inf" /\ rows[i].res # "inf"
         /\ Greatest(q) = "zero" => \A i \in Row : ~NeedsChange(rows[i])
<1>1. \A i \in Row : q[i] # "inf"
  BY DEF Greatest, Finite
<1>2. Greatest(q) = "zero" => \A i \in Row : q[i] = "zero"
  BY <1>1 DEF Greatest, Told, Number
<1> QED BY <1>1, <1>2 DEF Told

\* The maximum of the rows is a bound, never a NaN.
LEMMA GreatestType ==
  ASSUME NEW q
  PROVE  Greatest(q) \in Number /\ Greatest(q) \in Class
BY DEF Greatest, Number, Class

-----------------------------------------------------------------------------
(***************************************************************************)
(* The shares of schedule(static).                                         *)
(***************************************************************************)
LEMMA QuotientBelow ==
  ASSUME NEW a \in Nat, NEW m \in Nat \ {0}, NEW k \in Nat, a < m * k
  PROVE  a \div m \in 0 .. k - 1
<1> DEFINE q == a \div m
<1>1. q \in Int /\ m * q <= a /\ 0 <= q
  OBVIOUS
<1>2. q < k
  <2> HIDE DEF q
  <2> SUFFICES ASSUME q >= k PROVE FALSE
    BY <1>1
  <2>1. m * q >= m * k
    BY <1>1
  <2> QED BY <1>1, <2>1
<1> QED BY <1>1, <1>2

\* No row is left out, whatever the number of workers.
LEMMA SharesCover ==
  ASSUME NEW k \in 1 .. MaxWorkers, team = 0 .. k - 1
  PROVE  \A i \in Row : \E t \in team : i \in Share(t)
<1>1. M \in Nat \ {0} /\ k \in Nat \ {0}
  BY SizesAssumption
<1>2. Cardinality(team) = k
  BY <1>1, FS_Interval
<1>3. ASSUME NEW i \in Row
      PROVE  \E t \in team : i \in Share(t)
  <2>1. i - 1 \in Nat /\ i - 1 < M
    BY <1>1 DEF Row
  <2>2. (i - 1) * k \in Nat /\ (i - 1) * k < M * k
    BY <1>1, <2>1
  <2>3. ((i - 1) * k) \div M \in team
    BY <1>1, <2>2, QuotientBelow
  <2> QED BY <1>2, <2>3 DEF Share
<1> QED BY <1>3

\* No row is dealt to two workers.
LEMMA SharesApart ==
  ASSUME NEW i \in Row, NEW t, NEW u, i \in Share(t), i \in Share(u)
  PROVE  t = u
BY DEF Share

-----------------------------------------------------------------------------
(***************************************************************************)
(* The maxima of a candidate's report.                                     *)
(***************************************************************************)
Bounds == {"zero", "fin", "within", "beyond", "inf"}

\* How the classes are ordered.
LEMMA OrderIs ==
  /\ Order["zero"] = 0 /\ Order["fin"] = 1 /\ Order["within"] = 1
  /\ Order["beyond"] = 2 /\ Order["inf"] = 3
BY DEF Order

\* A maximum belongs to the classes it is taken over and bounds each of them.
LEMMA LargestBounds ==
  ASSUME NEW S \in SUBSET Bounds, S # {}
  PROVE  Largest(S) \in S /\ \A u \in S : Order[u] <= Order[Largest(S)]
<1>1. \E v \in S : \A u \in S : Order[u] <= Order[v]
  <2>1. CASE "inf" \in S
    BY <2>1, OrderIs DEF Bounds
  <2>2. CASE "inf" \notin S /\ "beyond" \in S
    BY <2>2, OrderIs DEF Bounds
  <2>3. CASE "inf" \notin S /\ "beyond" \notin S /\ "within" \in S
    BY <2>3, OrderIs DEF Bounds
  <2>4. CASE "inf" \notin S /\ "beyond" \notin S /\ "within" \notin S /\ "fin" \in S
    BY <2>4, OrderIs DEF Bounds
  <2>5. CASE "inf" \notin S /\ "beyond" \notin S /\ "within" \notin S /\ "fin" \notin S
    <3>1. "zero" \in S /\ \A u \in S : u = "zero"
      BY <2>5 DEF Bounds
    <3> QED BY <3>1, OrderIs
  <2> QED BY <2>1, <2>2, <2>3, <2>4, <2>5
<1> QED BY <1>1 DEF Largest

CandidateRow == {row \in [err : {"zero", "within", "beyond"}, res : Class,
                         den : {"zero", "fin"}] : row.res = "zero" => row.err = "zero"}

\* What a row reports bounds what is true of it.
LEMMA RowReportTells ==
  ASSUME NEW row \in CandidateRow, NEW w \in RowReports(row)
  PROVE  /\ w.res \in Class /\ w.err \in {"zero", "within", "beyond", "inf"}
         /\ Order[row.res] <= Order[w.res]
         /\ Order[row.err] <= Order[w.err]
<1>1. PICK res \in AtLeast(row.res), low \in DenominatorLow(row) :
         w \in [res : {res}, err : ErrorUp(row, res, low)]
  <2>1. PICK S \in {[res : {res}, err : ErrorUp(row, res, low)] :
                     res \in AtLeast(row.res), low \in DenominatorLow(row)} : w \in S
    BY DEF RowReports
  <2>2. PICK res \in AtLeast(row.res), low \in DenominatorLow(row) :
           S = [res : {res}, err : ErrorUp(row, res, low)]
    BY <2>1
  <2>3. w \in [res : {res}, err : ErrorUp(row, res, low)]
    BY <2>1, <2>2
  <2> QED BY <2>3
<1>2. row.res \in Class /\ row.err \in {"zero", "within", "beyond"}
  BY DEF CandidateRow
<1>3. res \in Class /\ (row.res = "inf" => res = "inf") /\ (res = "zero" => row.res = "zero")
  BY <1>1, <1>2, AtLeastKeeps
<1>4. w.res = res /\ w.err \in ErrorUp(row, res, low)
  BY <1>1
<1>5. w.res \in Class /\ Order[row.res] <= Order[w.res]
  BY <1>2, <1>3, <1>4, OrderIs DEF Class
<1>6. CASE res = "inf" \/ (res # "zero" /\ low = "zero")
  <2>1. w.err = "inf"
    BY <1>4, <1>6 DEF ErrorUp
  <2> QED BY <1>2, <1>5, <2>1, OrderIs
<1>7. CASE res = "zero"
  <2>1. w.err = "zero" /\ row.err = "zero"
    BY <1>3, <1>4, <1>7 DEF ErrorUp, CandidateRow
  <2> QED BY <1>5, <2>1, OrderIs
<1>8. CASE res = "fin" /\ low # "zero"
  <2>1. w.err \in QuotientUp(row.err)
    BY <1>4, <1>8 DEF ErrorUp
  <2>2. CASE row.err = "beyond"
    BY <1>5, <2>1, <2>2, OrderIs DEF QuotientUp
  <2>3. CASE row.err # "beyond"
    BY <1>2, <1>5, <2>1, <2>3, OrderIs DEF QuotientUp
  <2> QED BY <2>2, <2>3
<1> QED BY <1>3, <1>6, <1>7, <1>8 DEF Class

-----------------------------------------------------------------------------
(***************************************************************************)
(* The inductive invariant.                                                *)
(***************************************************************************)
Typed ==
    /\ code \in 0 .. 7 /\ eta \in Number
    /\ mode \in [Threads -> Modes] /\ callMode \in Modes
    /\ pool \subseteq Threads /\ 0 \in pool /\ team \subseteq pool
    /\ stage \in [Threads -> {"out", "rows", "barrier", "left"}]
    /\ env \in [Threads -> Modes]
    /\ ok \in [Threads -> BOOLEAN] /\ failed \in BOOLEAN
    /\ rowEta \in [Row -> Number \cup {"unset"}]
    /\ residualUp \in Class /\ errorUp \in {"zero", "within", "beyond", "inf"}
    /\ verdict \in {"within", "not_established", "unavailable"}

\* Where the call is, what it was given and with which mode it began.
Placed ==
    \/ pc = "idle" /\ obj = Freed
    \/ pc = "called" /\ obj \in Objects /\ mode[0] = callMode
    \/ pc = "team" /\ obj \in Objects /\ obj.kind = "unique"
    \/ pc = "returned" /\ obj \in Objects
    \/ pc = "check" /\ obj \in Candidates /\ mode[0] = callMode
    \/ pc = "checked" /\ obj \in Candidates

NoTeam == team = {} /\ \A t \in Threads : stage[t] = "out"

\* What worker t of the team has done and left undone.
Worker(t) ==
    /\ stage[t] # "out" /\ ~ok[t] => failed
    /\ stage[t] \in {"rows", "barrier"} /\ ~ok[t] => mode[t] = env[t]
    /\ stage[t] \in {"barrier", "left"} =>
         \A i \in Share(t) :
            rowEta[i] \in IF ok[t] THEN UniqueRadius(obj.row[i], obj.xn) ELSE {"inf"}

Region ==
    /\ \E k \in 1 .. MaxWorkers : team = 0 .. k - 1
    /\ \A t \in Threads \ team : stage[t] = "out"
    /\ \A t \in team : Worker(t)
    /\ failed => \E t \in team : stage[t] # "out" /\ ~ok[t]

Teamed == IF pc = "team" THEN Region ELSE NoTeam

VerifierInv == Typed /\ Placed /\ Teamed /\ RadiusBounds /\ CandidateBounds

-----------------------------------------------------------------------------
\* There is a row, and a thread to look at it.
LEMMA Sizes == /\ M \in Nat \ {0} /\ MaxWorkers \in Nat \ {0}
               /\ 0 \in Threads /\ 1 \in Row /\ CallerModes \subseteq Modes
BY SizesAssumption, ModesAssumption DEF Threads, Row, Modes

\* What an object to verify consists of.
LEMMA ObjectTypes ==
  ASSUME NEW o \in Objects
  PROVE  /\ o.kind \in {"unique", "infinite", "inconsistent"}
         /\ o.kind \in {"unique", "infinite"} => o.xn \in Class /\ o.row \in [Row -> RowType]
         /\ o.kind = "inconsistent" => o.yb \in {"zero", "fin"} /\ o.aty \in {"zero", "fin"}
<1>1. RowKinds \subseteq RowType
  BY RowsAssumption DEF RowType, Class
<1>2. CASE o \in [kind : {"unique", "infinite"}, xn : {"zero", "fin", "inf"},
                  row : [Row -> RowKinds]]
  BY <1>1, <1>2 DEF Class
<1>3. CASE o \in [kind : {"inconsistent"}, yb : {"zero", "fin"}, aty : {"zero", "fin"}]
  BY <1>3
<1> QED BY <1>2, <1>3 DEF Objects

\* What a candidate consists of.
LEMMA CandidateTypes ==
  ASSUME NEW o \in Candidates
  PROVE  o.kind = "candidate" /\ o.row \in [Row -> CandidateRow]
<1>1. CandidateRows \subseteq CandidateRow
  BY CandidateAssumption, CandidateTruth DEF CandidateRow, Class
<1> QED BY <1>1 DEF Candidates

\* A call that is not accepted, or not a verifier's, owes no bound.
LEMMA NothingAccepted ==
  pc # "returned" \/ code # 0 => RadiusBounds
BY DEF RadiusBounds, UniqueBounds, InconsistentBounds, OrdinaryInfiniteBounds, Accepted

\* A check under way has reported nothing.
LEMMA NothingReported == pc # "checked" => CandidateBounds
BY DEF CandidateBounds

\* The rest of the state between calls, and while one thread verifies.
LEMMA AlonePreserves ==
  ASSUME VerifierInv, pc # "team", pc' # "team",
         UNCHANGED <<pool, team, stage, env, ok>>
  PROVE  Teamed'
BY DEF VerifierInv, Teamed, NoTeam
-----------------------------------------------------------------------------
(***************************************************************************)
(* The steps.                                                              *)
(***************************************************************************)
LEMMA CallPreserves ==
  ASSUME VerifierInv, NEW o, NEW md \in CallerModes,
         \/ (o \in Objects /\ Call(o, md) /\ UNCHANGED report)
         \/ (o \in Candidates /\ CallCandidate(o, md))
  PROVE  VerifierInv'
<1>1. /\ pc = "idle" /\ obj' = o /\ callMode' = md /\ mode' = [mode EXCEPT ![0] = md]
      /\ (o \in Objects /\ pc' = "called") \/ (o \in Candidates /\ pc' = "check")
      /\ (code' = 1 /\ eta' = "inf") \/ UNCHANGED <<code, eta>>
      /\ UNCHANGED <<region, rowEta, report>>
  <2>1. CASE o \in Objects /\ Call(o, md) /\ UNCHANGED report
    BY <2>1 DEF Call
  <2>2. CASE o \in Candidates /\ CallCandidate(o, md)
    BY <2>2 DEF CallCandidate
  <2> QED BY <2>1, <2>2
<1>2. Typed'
  <2>1. mode' \in [Threads -> Modes] /\ callMode' \in Modes
    BY <1>1, Sizes DEF VerifierInv, Typed
  <2> QED BY <1>1, <2>1 DEF VerifierInv, Typed, region, report, Number
<1>3. Placed'
  <2>1. mode'[0] = callMode'
    BY <1>1, Sizes DEF VerifierInv, Typed
  <2> QED BY <1>1, <2>1 DEF Placed
<1>4. Teamed'
  BY <1>1, AlonePreserves DEF region
<1>5. RadiusBounds' /\ CandidateBounds'
  <2>1. (pc # "returned" /\ pc # "checked")'
    BY <1>1
  <2> QED BY <2>1, NothingAccepted, NothingReported, PTL
<1> QED BY <1>2, <1>3, <1>4, <1>5 DEF VerifierInv

\* Objects are freed and reports are read between calls.
LEMMA DonePreserves ==
  ASSUME VerifierInv, (Free /\ UNCHANGED report) \/ CandidateRead
  PROVE  VerifierInv'
<1>1. /\ pc # "team" /\ pc' = "idle" /\ obj' = Freed /\ code' = 1
      /\ eta' = "inf" \/ UNCHANGED eta
      /\ UNCHANGED <<callMode, mode, pool, team, stage, env, ok>>
      /\ failed' = FALSE \/ UNCHANGED failed
      /\ rowEta' = Unset \/ UNCHANGED rowEta
      /\ Unavailable \/ UNCHANGED <<residualUp, errorUp, verdict>>
  BY DEF Free, CandidateRead, region, report
<1>2. Typed'
  <2>1. Unset \in [Row -> Number \cup {"unset"}]
    BY DEF Unset
  <2>2. rowEta' \in [Row -> Number \cup {"unset"}] /\ code' \in 0 .. 7 /\ eta' \in Number
    BY <1>1, <2>1 DEF VerifierInv, Typed, Number
  <2>3. /\ residualUp' \in Class /\ errorUp' \in {"zero", "within", "beyond", "inf"}
        /\ verdict' \in {"within", "not_established", "unavailable"}
    BY <1>1 DEF VerifierInv, Typed, Unavailable, Class
  <2>4. failed' \in BOOLEAN
    BY <1>1, Zenon DEF VerifierInv, Typed
  <2> QED BY <1>1, <2>2, <2>3, <2>4 DEF VerifierInv, Typed
<1>3. Placed'
  BY <1>1 DEF Placed, Freed
<1>4. Teamed'
  BY <1>1, AlonePreserves
<1>5. RadiusBounds' /\ CandidateBounds'
  <2>1. (pc # "returned" /\ pc # "checked")'
    BY <1>1
  <2> QED BY <2>1, NothingAccepted, NothingReported, PTL
<1> QED BY <1>2, <1>3, <1>4, <1>5 DEF VerifierInv

\* The exits that refuse.
LEMMA RefusalPreserves ==
  ASSUME VerifierInv, Reject \/ UniqueNoMemory \/ InconsistentOpen, UNCHANGED report
  PROVE  VerifierInv'
<1>1. /\ pc = "called" /\ pc' = "returned" /\ code' \in 1 .. 6 /\ eta' = "inf"
      /\ UNCHANGED <<obj, callMode, region, rowEta, report>>
      /\ mode' = [mode EXCEPT ![0] = callMode] \/ UNCHANGED mode
  <2>1. CASE Reject
    BY <2>1 DEF Reject, Return
  <2>2. CASE UniqueNoMemory
    BY <2>2 DEF UniqueNoMemory, Return
  <2>3. CASE InconsistentOpen
    BY <2>3 DEF InconsistentOpen, Return
  <2> QED BY <2>1, <2>2, <2>3
<1>2. Typed'
  BY <1>1, Sizes DEF VerifierInv, Typed, region, report, Number
<1>3. Placed'
  BY <1>1 DEF VerifierInv, Placed
<1>4. Teamed'
  BY <1>1, AlonePreserves DEF region
<1>5. RadiusBounds' /\ CandidateBounds'
  <2>1. (code # 0 /\ pc # "checked")'
    BY <1>1
  <2> QED BY <2>1, NothingAccepted, NothingReported, PTL
<1> QED BY <1>2, <1>3, <1>4, <1>5 DEF VerifierInv

\* The verifiers of one thread, when they have weighed everything.
LEMMA ScanPreserves ==
  ASSUME VerifierInv, InfiniteScan \/ InconsistentScan, UNCHANGED report
  PROVE  VerifierInv'
<1>1. /\ pc = "called" /\ pc' = "returned" /\ obj \in Objects
      /\ UNCHANGED <<obj, callMode, region, rowEta, report>>
      /\ mode' = [mode EXCEPT ![0] = callMode]
  BY DEF InfiniteScan, InconsistentScan, Return, VerifierInv, Placed
<1>2. code' \in 0 .. 7 /\ eta' \in Number /\ RadiusBounds'
  <2>1. CASE InfiniteScan
    <3>1. /\ obj.kind = "infinite" /\ obj.xn \in Class /\ obj.row \in [Row -> RowType]
      BY <1>1, <2>1, ObjectTypes DEF InfiniteScan
    <3>2. PICK q \in [Row -> Number] :
             /\ \A i \in Row : q[i] \in InfiniteRadius(obj.row[i], obj.xn)
             /\ code' = Verdict(Greatest(q), 4) /\ eta' = Greatest(q)
      BY <2>1 DEF InfiniteScan, Return
    <3>3. code' \in 0 .. 7 /\ eta' \in Number /\ (code' = 0 => Finite(eta'))
      BY <3>2, GreatestType DEF Verdict
    <3>4. OrdinaryInfiniteBounds'
      <4>1. SUFFICES ASSUME code' = 0, obj.xn = "fin"
                     PROVE  /\ \A i \in Row : obj.row[i].err # "inf" /\ obj.row[i].res # "inf"
                            /\ eta' = "zero" => \A i \in Row : ~NeedsChange(obj.row[i])
        BY <1>1, <3>3 DEF OrdinaryInfiniteBounds, Accepted, RowsBound
      <4>2. \A i \in Row : Told(obj.row[i], q[i])
        BY <3>1, <3>2, <4>1, InfiniteRadiusTells
      <4> QED BY <3>1, <3>2, <3>3, <4>1, <4>2, GreatestTells
    <3> QED BY <1>1, <3>1, <3>3, <3>4
          DEF RadiusBounds, UniqueBounds, InconsistentBounds, Accepted
  <2>2. CASE InconsistentScan
    <3>1. obj.kind = "inconsistent" /\ obj.yb = "fin" /\ obj.aty \in Class
      BY <1>1, <2>2, ObjectTypes DEF InconsistentScan, Class
    <3>2. PICK h \in AtLeast(obj.aty), dens \in {"zero", "fin"} :
             Finite(h) /\ \E q \in Quotient(h, dens) : Return(Verdict(q, 6), q)
      BY <2>2 DEF InconsistentScan
    <3>3. PICK q \in Quotient(h, dens) : Return(Verdict(q, 6), q)
      BY <3>2
    <3>4. h \in Number /\ h # "nan" /\ (h = "zero" => obj.aty = "zero")
      BY <3>1, <3>2, AtLeastKeeps DEF Number, Class
    <3>5. q \in Number /\ (q = "zero" => obj.aty = "zero")
      BY <3>3, <3>4, QuotientKeeps
    <3>6. code' = Verdict(q, 6) /\ eta' = q
      BY <3>3 DEF Return
    <3> QED BY <1>1, <3>1, <3>5, <3>6
          DEF RadiusBounds, UniqueBounds, InconsistentBounds, OrdinaryInfiniteBounds,
              Accepted, Verdict
  <2> QED BY <2>1, <2>2
<1>3. Typed'
  BY <1>1, <1>2, Sizes DEF VerifierInv, Typed, region, report
<1>4. Placed' /\ Teamed'
  BY <1>1, AlonePreserves DEF region, Placed
<1>5. CandidateBounds'
  BY <1>1 DEF CandidateBounds
<1> QED BY <1>2, <1>3, <1>4, <1>5 DEF VerifierInv

\* A team is formed; its workers have seen no row.
LEMMA ForkPreserves ==
  ASSUME VerifierInv, UniqueFork, UNCHANGED report
  PROVE  VerifierInv'
<1>1. /\ pc = "called" /\ pc' = "team" /\ obj \in Objects /\ obj.kind = "unique"
      /\ UNCHANGED <<obj, code, eta, callMode, stage, env, ok, rowEta, report>>
      /\ failed' = FALSE
      /\ \A t \in Threads : stage[t] = "out"
  BY DEF UniqueFork, VerifierInv, Placed, Teamed, NoTeam
<1>2. PICK k \in 1 .. MaxWorkers : team' = 0 .. k - 1 /\ pool' = pool \cup team'
  BY DEF UniqueFork
<1>3. team' \subseteq Threads
  BY <1>2, Sizes DEF Threads
<1>4. mode' \in [Threads -> Modes]
  <2>1. AfterNorm \in Modes
    BY Sizes DEF AfterNorm, Modes, VerifierInv, Typed
  <2>2. mode' = [t \in Threads |->
                   IF t = 0 \/ t \in pool' \ pool THEN AfterNorm ELSE mode[t]]
    BY DEF UniqueFork
  <2> QED BY <2>1, <2>2 DEF VerifierInv, Typed
<1>5. Typed'
  <2>1. pool' \subseteq Threads /\ 0 \in pool' /\ team' \subseteq pool'
    BY <1>2, <1>3 DEF VerifierInv, Typed
  <2> QED BY <1>1, <1>4, <2>1 DEF VerifierInv, Typed, report
<1>6. Placed'
  BY <1>1 DEF Placed
<1>7. Teamed'
  <2>1. \A t \in team' : stage'[t] = "out"
    BY <1>1, <1>3
  <2>2. \A t \in team' : Worker(t)'
    BY <2>1 DEF Worker
  <2> QED BY <1>1, <1>2, <2>2 DEF Teamed, Region
<1>8. RadiusBounds' /\ CandidateBounds'
  <2>1. (pc # "returned" /\ pc # "checked")'
    BY <1>1
  <2> QED BY <2>1, NothingAccepted, NothingReported, PTL
<1> QED BY <1>5, <1>6, <1>7, <1>8 DEF VerifierInv

\* The steps of a worker change what it is in, and leave the other workers alone.
LEMMA WorkerPreserves ==
  ASSUME VerifierInv, NEW t \in Threads,
         WorkerSetup(t) \/ WorkerRows(t) \/ WorkerLeave(t), UNCHANGED report
  PROVE  VerifierInv'
<1>1. /\ pc = "team" /\ t \in team /\ obj \in Objects /\ obj.kind = "unique"
      /\ UNCHANGED <<pc, obj, code, eta, callMode, pool, team, report>>
  BY DEF WorkerSetup, WorkerRows, WorkerLeave, call, VerifierInv, Placed
<1>2. obj.xn \in Class /\ obj.row \in [Row -> RowType]
  BY <1>1, ObjectTypes
<1>3. Region
  BY <1>1 DEF VerifierInv, Teamed
<1>8. RadiusBounds' /\ CandidateBounds'
  <2>1. (pc # "returned" /\ pc # "checked")'
    BY <1>1
  <2> QED BY <2>1, NothingAccepted, NothingReported, PTL
<1>4. CASE WorkerSetup(t)
  <2>1. PICK got \in BOOLEAN : ok' = [ok EXCEPT ![t] = got] /\ failed' = (failed \/ ~got)
    BY <1>4 DEF WorkerSetup
  <2>2. /\ env' = [env EXCEPT ![t] = mode[t]] /\ stage[t] = "out"
        /\ stage' = [stage EXCEPT ![t] = "rows"]
        /\ UNCHANGED <<mode, rowEta>>
    BY <1>4 DEF WorkerSetup
  <2>3. /\ stage'[t] = "rows" /\ env'[t] = mode[t] /\ ok'[t] = got
        /\ \A u \in Threads \ {t} : stage'[u] = stage[u] /\ env'[u] = env[u] /\ ok'[u] = ok[u]
    BY <2>1, <2>2 DEF VerifierInv, Typed
  <2>4. Typed'
    <3>1. ok' \in [Threads -> BOOLEAN]
      BY <2>1 DEF VerifierInv, Typed
    <3>2. failed' \in BOOLEAN
      BY <2>1
    <3>3. env' \in [Threads -> Modes] /\ stage' \in [Threads -> {"out", "rows", "barrier", "left"}]
      BY <2>2 DEF VerifierInv, Typed
    <3> QED BY <1>1, <2>2, <3>1, <3>2, <3>3 DEF VerifierInv, Typed, report
  <2>5. Worker(t)'
    BY <1>1, <2>1, <2>2, <2>3 DEF Worker
  <2>6. ASSUME NEW u \in team, u # t
        PROVE  Worker(u)'
    <3>1. Worker(u) /\ u \in Threads
      BY <1>3, <2>6 DEF Region, VerifierInv, Typed
    <3>2. Share(u)' = Share(u)
      BY <1>1 DEF Share
    <3> QED BY <1>1, <2>1, <2>2, <2>3, <2>6, <3>1, <3>2 DEF Worker
  <2>7. failed' => \E u \in team' : stage'[u] # "out" /\ ~ok'[u]
    <3>1. CASE ~got
      BY <1>1, <2>3, <3>1
    <3>2. CASE failed
      <4>1. PICK u \in team : stage[u] # "out" /\ ~ok[u]
        BY <1>3, <3>2 DEF Region
      <4>2. u # t /\ u \in Threads
        BY <2>2, <4>1 DEF VerifierInv, Typed
      <4> QED BY <1>1, <2>3, <4>1, <4>2
    <3> QED BY <2>1, <3>1, <3>2
  <2>8. Region'
    <3>1. \A u \in Threads \ team' : stage'[u] = "out"
      BY <1>1, <1>3, <2>3 DEF Region
    <3> QED BY <1>1, <1>3, <2>5, <2>6, <2>7, <3>1 DEF Region
  <2> QED BY <1>1, <1>8, <2>4, <2>8 DEF VerifierInv, Placed, Teamed
<1>5. ASSUME Typed', UNCHANGED <<env, ok, failed>>,
             stage' = [stage EXCEPT ![t] = IF stage[t] = "rows" THEN "barrier" ELSE "left"],
             stage[t] \in {"rows", "barrier"}, Worker(t)',
             \A u \in team \ {t} : /\ mode'[u] = mode[u]
                                   /\ \A i \in Share(u) : rowEta'[i] = rowEta[i]
      PROVE  VerifierInv'
  <2>1. /\ stage'[t] \in {"barrier", "left"}
        /\ \A u \in Threads \ {t} : stage'[u] = stage[u]
    BY <1>5 DEF VerifierInv, Typed
  <2>2. ASSUME NEW u \in team, u # t
        PROVE  Worker(u)'
    <3>1. Worker(u) /\ u \in Threads
      BY <1>3, <2>2 DEF Region, VerifierInv, Typed
    <3>2. Share(u)' = Share(u)
      BY <1>1 DEF Share
    <3> QED BY <1>1, <1>5, <2>1, <2>2, <3>1, <3>2 DEF Worker
  <2>3. failed' => \E u \in team' : stage'[u] # "out" /\ ~ok'[u]
    <3>1. SUFFICES ASSUME failed PROVE \E u \in team' : stage'[u] # "out" /\ ~ok'[u]
      BY <1>5
    <3>2. PICK u \in team : stage[u] # "out" /\ ~ok[u]
      BY <1>3, <3>1 DEF Region
    <3>3. stage'[u] # "out" /\ u \in Threads
      BY <2>1, <3>2 DEF VerifierInv, Typed
    <3> QED BY <1>1, <1>5, <3>2, <3>3
  <2>4. Region'
    <3>1. \A u \in Threads \ team' : stage'[u] = "out"
      BY <1>1, <1>3, <2>1 DEF Region
    <3> QED BY <1>1, <1>3, <1>5, <2>2, <2>3, <3>1 DEF Region
  <2> QED BY <1>1, <1>8, <1>5, <2>4 DEF VerifierInv, Placed, Teamed
<1>6. CASE WorkerRows(t)
  <2>1. /\ stage[t] = "rows" /\ stage' = [stage EXCEPT ![t] = "barrier"]
        /\ UNCHANGED <<env, ok, failed>>
    BY <1>6 DEF WorkerRows
  <2>2. PICK q \in [Share(t) -> Number] :
           /\ \A i \in Share(t) :
                 q[i] \in IF ok[t] THEN UniqueRadius(obj.row[i], obj.xn) ELSE {"inf"}
           /\ rowEta' = [i \in Row |-> IF i \in Share(t) THEN q[i] ELSE rowEta[i]]
    BY <1>6 DEF WorkerRows
  <2>3. \E last \in {"up", "down"} :
           mode' = IF ok[t] /\ Finite(obj.xn) /\ Share(t) # {}
                   THEN [mode EXCEPT ![t] = last] ELSE mode
    BY <1>6 DEF WorkerRows
  <2>4. /\ mode' \in [Threads -> Modes] /\ (~ok[t] => mode' = mode)
        /\ \A u \in Threads \ {t} : mode'[u] = mode[u]
    BY <2>3 DEF VerifierInv, Typed, Modes
  <2>5. Share(t) \subseteq Row /\ Share(t)' = Share(t)
    BY <1>1 DEF Share
  <2>6. Typed'
    <3>1. rowEta' \in [Row -> Number \cup {"unset"}]
      BY <2>2, <2>5 DEF VerifierInv, Typed
    <3>2. stage' \in [Threads -> {"out", "rows", "barrier", "left"}]
      BY <2>1 DEF VerifierInv, Typed
    <3> QED BY <1>1, <2>1, <2>4, <3>1, <3>2 DEF VerifierInv, Typed, report
  <2>7. Worker(t)'
    <3>1. stage'[t] = "barrier" /\ ok'[t] = ok[t]
      BY <2>1 DEF VerifierInv, Typed
    <3>2. Worker(t)
      BY <1>1, <1>3 DEF Region
    <3>3. \A i \in Share(t) : rowEta'[i] = q[i]
      BY <2>2, <2>5
    <3> QED BY <1>1, <2>1, <2>2, <2>4, <2>5, <3>1, <3>2, <3>3 DEF Worker
  <2>8. \A u \in team \ {t} : /\ mode'[u] = mode[u]
                               /\ \A i \in Share(u) : rowEta'[i] = rowEta[i]
    <3>1. \A u \in team : u \in Threads /\ Share(u) \subseteq Row
      BY DEF Share, VerifierInv, Typed
    <3> QED BY <2>2, <2>4, <3>1, SharesApart
  <2> QED BY <1>5, <2>1, <2>6, <2>7, <2>8
<1>7. CASE WorkerLeave(t)
  <2>1. /\ stage[t] = "barrier" /\ stage' = [stage EXCEPT ![t] = "left"]
        /\ mode' = IF ok[t] THEN [mode EXCEPT ![t] = env[t]] ELSE mode
        /\ UNCHANGED <<env, ok, failed, rowEta>>
    BY <1>7 DEF WorkerLeave
  <2>2. /\ mode' \in [Threads -> Modes]
        /\ \A u \in Threads \ {t} : mode'[u] = mode[u]
    BY <2>1 DEF VerifierInv, Typed
  <2>3. Typed'
    BY <1>1, <2>1, <2>2 DEF VerifierInv, Typed, report
  <2>4. Worker(t)'
    <3>1. stage'[t] = "left" /\ Share(t)' = Share(t) /\ Worker(t)
      BY <1>1, <1>3, <2>1 DEF VerifierInv, Typed, Share, Region
    <3> QED BY <1>1, <2>1, <3>1 DEF Worker
  <2>5. \A u \in team \ {t} : /\ mode'[u] = mode[u]
                               /\ \A i \in Share(u) : rowEta'[i] = rowEta[i]
    BY <2>1, <2>2 DEF VerifierInv, Typed
  <2> QED BY <1>5, <2>1, <2>3, <2>4, <2>5
<1> QED BY <1>4, <1>6, <1>7

\* When every worker has left, every row has a value, whatever the shares are.
LEMMA AllWeighed ==
  ASSUME VerifierInv, pc = "team", \A t \in team : stage[t] = "left"
  PROVE  /\ rowEta \in [Row -> Number]
         /\ ~failed => \A i \in Row : Told(obj.row[i], rowEta[i])
<1>1. obj.xn \in Class /\ obj.row \in [Row -> RowType] /\ Region
  BY ObjectTypes DEF VerifierInv, Placed, Teamed
<1>2. \A i \in Row : \E t \in team : i \in Share(t)
  BY <1>1, SharesCover DEF Region
<1>3. ASSUME NEW i \in Row
      PROVE  rowEta[i] \in Number /\ (~failed => Told(obj.row[i], rowEta[i]))
  <2>1. PICK t \in team : i \in Share(t)
    BY <1>2
  <2>2. /\ rowEta[i] \in IF ok[t] THEN UniqueRadius(obj.row[i], obj.xn) ELSE {"inf"}
        /\ ~failed => ok[t]
    BY <1>1, <2>1 DEF Region, Worker
  <2>3. CASE ok[t]
    BY <1>1, <2>2, <2>3, UniqueRadiusTells
  <2>4. CASE ~ok[t]
    BY <2>2, <2>4 DEF Number
  <2> QED BY <2>3, <2>4
<1> QED BY <1>3 DEF VerifierInv, Typed

\* The team is joined and the maximum taken.
LEMMA JoinPreserves ==
  ASSUME VerifierInv, UniqueJoin, UNCHANGED report
  PROVE  VerifierInv'
<1>1. /\ pc = "team" /\ pc' = "returned" /\ obj \in Objects /\ obj.kind = "unique"
      /\ \A t \in team : stage[t] = "left"
      /\ UNCHANGED <<obj, callMode, pool, failed, report>>
      /\ mode' = [mode EXCEPT ![0] = callMode]
      /\ team' = {} /\ stage' = NoOne("out") /\ env' = NoOne("nearest")
      /\ ok' = NoOne(FALSE) /\ rowEta' = Unset
  BY DEF UniqueJoin, Return, VerifierInv, Placed
<1>2. /\ failed => code' = 6 /\ eta' = "inf"
      /\ ~failed => code' = Verdict(Greatest(rowEta), 7) /\ eta' = Greatest(rowEta)
  BY DEF UniqueJoin, Return
<1>3. obj.row \in [Row -> RowType]
  BY <1>1, ObjectTypes
<1>4. code' \in 0 .. 7 /\ eta' \in Number
  BY <1>2, GreatestType DEF Verdict, Number
<1>5. Typed'
  <2>1. /\ mode' \in [Threads -> Modes]
        /\ stage' \in [Threads -> {"out", "rows", "barrier", "left"}]
        /\ env' \in [Threads -> Modes] /\ ok' \in [Threads -> BOOLEAN]
        /\ rowEta' \in [Row -> Number \cup {"unset"}]
    BY <1>1, Sizes DEF VerifierInv, Typed, NoOne, Unset, Modes
  <2> QED BY <1>1, <1>4, <2>1 DEF VerifierInv, Typed, report
<1>6. Placed' /\ Teamed'
  BY <1>1 DEF Placed, Teamed, NoTeam, NoOne
<1>7. RadiusBounds'
  <2>1. CASE code' # 0
    <3>1. (code # 0)'
      BY <2>1
    <3> QED BY <3>1, NothingAccepted, PTL
  <2>2. CASE code' = 0
    <3>1. ~failed /\ Finite(Greatest(rowEta)) /\ eta' = Greatest(rowEta)
      BY <1>2, <2>2 DEF Verdict
    <3>2. rowEta \in [Row -> Number] /\ \A i \in Row : Told(obj.row[i], rowEta[i])
      BY <1>1, <3>1, AllWeighed
    <3>3. /\ \A i \in Row : obj.row[i].err # "inf" /\ obj.row[i].res # "inf"
          /\ Greatest(rowEta) = "zero" => \A i \in Row : ~NeedsChange(obj.row[i])
      BY <1>3, <3>1, <3>2, GreatestTells
    <3> QED BY <1>1, <3>1, <3>3
          DEF RadiusBounds, UniqueBounds, InconsistentBounds, OrdinaryInfiniteBounds,
              Accepted, RowsBound
  <2> QED BY <2>1, <2>2
<1>8. CandidateBounds'
  BY <1>1 DEF CandidateBounds
<1> QED BY <1>5, <1>6, <1>7, <1>8 DEF VerifierInv

\* A failed candidate check leaves no evidence.
LEMMA NoEvidence ==
  ASSUME obj \in Candidates, residualUp = "inf", errorUp = "inf", verdict = "unavailable"
  PROVE  CandidateBounds
<1>1. \A i \in Row : obj.row[i].err \in Bounds /\ obj.row[i].res \in Bounds
  BY CandidateTypes DEF CandidateRow, Bounds, Class
<1>2. \A u \in Bounds : Order[u] <= 3
  BY OrderIs DEF Bounds
<1> QED BY <1>1, <1>2, OrderIs DEF CandidateBounds, Proven

\* A candidate check that fails.
LEMMA CandidateFailsPreserves ==
  ASSUME VerifierInv, CandidateFails
  PROVE  VerifierInv'
<1>1. /\ pc = "check" /\ pc' = "checked" /\ obj \in Candidates /\ code' \in 1 .. 3
      /\ UNCHANGED <<obj, eta, callMode, region, rowEta, mode>>
      /\ residualUp' = "inf" /\ errorUp' = "inf" /\ verdict' = "unavailable"
  BY DEF CandidateFails, Answer, Unavailable, VerifierInv, Placed
<1>2. Typed'
  BY <1>1 DEF VerifierInv, Typed, region, Class
<1>3. Placed' /\ Teamed'
  BY <1>1, AlonePreserves DEF region, Placed
<1>4. RadiusBounds' /\ CandidateBounds'
  <2>1. (/\ pc # "returned" /\ obj \in Candidates
         /\ residualUp = "inf" /\ errorUp = "inf" /\ verdict = "unavailable")'
    BY <1>1
  <2> QED BY <2>1, NothingAccepted, NoEvidence, PTL
<1> QED BY <1>2, <1>3, <1>4 DEF VerifierInv

\* A candidate check that weighs its rows.
LEMMA CandidateWeighedPreserves ==
  ASSUME VerifierInv, CandidateWeighed
  PROVE  VerifierInv'
<1>1. /\ pc = "check" /\ pc' = "checked" /\ obj \in Candidates
      /\ UNCHANGED <<obj, eta, callMode, region, rowEta>>
  BY DEF CandidateWeighed, Answer, VerifierInv, Placed
<1>2. obj.row \in [Row -> CandidateRow]
  BY <1>1, CandidateTypes
<1>3. mode' \in [Threads -> Modes] /\ code' \in 0 .. 7
  BY Sizes DEF CandidateWeighed, Answer, VerifierInv, Typed, Modes
<1>4. PICK w \in [Row -> [res : {"zero", "fin", "inf"},
                          err : {"zero", "within", "beyond", "inf"}]] :
         /\ \A i \in Row : w[i] \in RowReports(obj.row[i])
         /\ \/ /\ Answer(0)
               /\ Report(Largest({w[i].res : i \in Row}), Largest({w[i].err : i \in Row}))
            \/ Answer(3) /\ Unavailable
  BY DEF CandidateWeighed
<1>5. CASE Answer(3) /\ Unavailable
  <2>1. residualUp' = "inf" /\ errorUp' = "inf" /\ verdict' = "unavailable"
    BY <1>5 DEF Unavailable
  <2>2. Typed'
    BY <1>1, <1>3, <2>1 DEF VerifierInv, Typed, region, Class
  <2>3. Placed' /\ Teamed'
    BY <1>1, AlonePreserves DEF region, Placed
  <2>4. RadiusBounds' /\ CandidateBounds'
    <3>1. (/\ pc # "returned" /\ obj \in Candidates
           /\ residualUp = "inf" /\ errorUp = "inf" /\ verdict = "unavailable")'
      BY <1>1, <2>1
    <3> QED BY <3>1, NothingAccepted, NoEvidence, PTL
  <2> QED BY <2>2, <2>3, <2>4 DEF VerifierInv
<1>6. CASE /\ Answer(0)
           /\ Report(Largest({w[i].res : i \in Row}), Largest({w[i].err : i \in Row}))
  <2> DEFINE S == {w[i].res : i \in Row}
             E == {w[i].err : i \in Row}
  <2>1. /\ S \in SUBSET Class /\ S # {}
        /\ E \in SUBSET {"zero", "within", "beyond", "inf"} /\ E # {}
    BY <1>4, Sizes DEF Class
  <2>2. /\ Largest(S) \in S /\ \A u \in S : Order[u] <= Order[Largest(S)]
        /\ Largest(E) \in E /\ \A u \in E : Order[u] <= Order[Largest(E)]
    BY <2>1, LargestBounds DEF Bounds, Class
  <2>3. /\ residualUp' = Largest(S) /\ errorUp' = Largest(E) /\ code' = 0
        /\ verdict' = IF "inf" \in {Largest(S), Largest(E)} THEN "unavailable"
                      ELSE IF Largest(E) = "beyond" THEN "not_established" ELSE "within"
    BY <1>6 DEF Answer, Report
  <2>4. ASSUME NEW i \in Row
        PROVE  /\ Order[obj.row[i].err] <= Order[errorUp']
               /\ Order[obj.row[i].res] <= Order[residualUp']
    <3>1. /\ Order[obj.row[i].res] <= Order[w[i].res]
          /\ Order[obj.row[i].err] <= Order[w[i].err]
      BY <1>2, <1>4, RowReportTells
    <3>2. Order[w[i].res] <= Order[residualUp'] /\ Order[w[i].err] <= Order[errorUp']
      BY <2>2, <2>3
    <3>3. /\ obj.row[i].err \in Bounds /\ obj.row[i].res \in Bounds
          /\ w[i].res \in Bounds /\ w[i].err \in Bounds
          /\ residualUp' \in Bounds /\ errorUp' \in Bounds
      BY <1>2, <1>4, <2>1, <2>2, <2>3 DEF CandidateRow, Bounds, Class
    <3>4. \A u \in Bounds : Order[u] \in 0 .. 3
      BY OrderIs DEF Bounds
    <3> QED BY <3>1, <3>2, <3>3, <3>4
  <2>5. verdict' = "within" => \A i \in Row : obj.row[i].err # "beyond"
    <3> SUFFICES ASSUME verdict' = "within", NEW i \in Row, obj.row[i].err = "beyond"
                 PROVE  FALSE
      OBVIOUS
    <3>1. errorUp' \in {"zero", "within"}
      BY <2>1, <2>2, <2>3
    <3>2. Order["beyond"] <= Order[errorUp']
      BY <2>4
    <3> QED BY <3>1, <3>2, OrderIs
  <2>6. CandidateBounds'
    BY <1>1, <2>3, <2>4, <2>5 DEF CandidateBounds, Proven
  <2>7. Typed'
    <3>1. /\ residualUp' \in Class /\ errorUp' \in {"zero", "within", "beyond", "inf"}
          /\ verdict' \in {"within", "not_established", "unavailable"}
      BY <2>1, <2>2, <2>3
    <3> QED BY <1>1, <1>3, <3>1 DEF VerifierInv, Typed, region
  <2>8. Placed' /\ Teamed'
    BY <1>1, AlonePreserves DEF region, Placed
  <2>9. RadiusBounds'
    <3>1. (pc # "returned")'
      BY <1>1
    <3> QED BY <3>1, NothingAccepted, PTL
  <2> QED BY <2>6, <2>7, <2>8, <2>9 DEF VerifierInv
<1> QED BY <1>4, <1>5, <1>6
\* Before the first call nothing is reported and all modes are the callers'.
LEMMA InitEstablishes == CheckInit => VerifierInv
<1> SUFFICES ASSUME CheckInit PROVE VerifierInv
  OBVIOUS
<1>1. Typed
  <2>1. callMode \in Modes /\ pool \subseteq Threads
    BY Sizes DEF CheckInit, Init
  <2>2. /\ mode \in [Threads -> Modes] /\ env \in [Threads -> Modes]
        /\ stage \in [Threads -> {"out", "rows", "barrier", "left"}]
        /\ ok \in [Threads -> BOOLEAN] /\ rowEta \in [Row -> Number \cup {"unset"}]
    BY <2>1 DEF CheckInit, Init, NoOne, Unset, Modes
  <2>3. failed \in BOOLEAN
    BY Zenon DEF CheckInit, Init
  <2>4. 0 \in pool /\ team \subseteq pool /\ code \in 0 .. 7
    BY DEF CheckInit, Init
  <2> QED BY <2>1, <2>2, <2>3, <2>4 DEF CheckInit, Init, Typed, Number, Class
<1>2. Placed /\ Teamed
  BY DEF CheckInit, Init, Placed, Teamed, NoTeam, NoOne
<1>3. RadiusBounds /\ CandidateBounds
  BY NothingAccepted, NothingReported DEF CheckInit, Init
<1> QED BY <1>1, <1>2, <1>3 DEF VerifierInv

\* Every step of verifiers and candidate checks keeps the invariant.
LEMMA StepPreserves == VerifierInv /\ [CheckNext]_checkVars => VerifierInv'
<1> SUFFICES ASSUME VerifierInv, [CheckNext]_checkVars PROVE VerifierInv'
  OBVIOUS
<1>1. ASSUME NEW o \in Objects, NEW md \in CallerModes, Call(o, md), UNCHANGED report
      PROVE  VerifierInv'
  BY <1>1, CallPreserves
<1>2. ASSUME NEW o \in Candidates, NEW md \in CallerModes, CallCandidate(o, md)
      PROVE  VerifierInv'
  BY <1>2, CallPreserves
<1>3. CASE (Free /\ UNCHANGED report) \/ CandidateRead
  BY <1>3, DonePreserves
<1>4. CASE (Reject \/ UniqueNoMemory \/ InconsistentOpen) /\ UNCHANGED report
  BY <1>4, RefusalPreserves
<1>5. CASE (InfiniteScan \/ InconsistentScan) /\ UNCHANGED report
  BY <1>5, ScanPreserves
<1>6. CASE UniqueFork /\ UNCHANGED report
  BY <1>6, ForkPreserves
<1>7. ASSUME NEW t \in Threads, WorkerSetup(t) \/ WorkerRows(t) \/ WorkerLeave(t),
             UNCHANGED report
      PROVE  VerifierInv'
  BY <1>7, WorkerPreserves
<1>8. CASE UniqueJoin /\ UNCHANGED report
  BY <1>8, JoinPreserves
<1>9. CASE CandidateFails
  BY <1>9, CandidateFailsPreserves
<1>10. CASE CandidateWeighed
  BY <1>10, CandidateWeighedPreserves
<1>11. CASE UNCHANGED checkVars
  <2>1. UNCHANGED <<pc, obj, code, eta, callMode, pool, team, stage, env, ok, failed,
                    mode, rowEta, residualUp, errorUp, verdict>>
    BY <1>11 DEF checkVars, vars, call, region, report
  <2>2. Typed' /\ Placed'
    BY <2>1 DEF VerifierInv, Typed, Placed
  <2>3. Teamed'
    BY <2>1 DEF VerifierInv, Teamed, NoTeam, Region, Worker, Share
  <2>4. RadiusBounds' /\ CandidateBounds'
    BY <2>1 DEF VerifierInv, RadiusBounds, UniqueBounds, InconsistentBounds,
       OrdinaryInfiniteBounds, Accepted, RowsBound, CandidateBounds
  <2> QED BY <2>2, <2>3, <2>4 DEF VerifierInv
<1> QED BY <1>1, <1>2, <1>3, <1>4, <1>5, <1>6, <1>7, <1>8, <1>9, <1>10, <1>11
        DEF CheckNext, Next, CallerStep, VerifierStep

-----------------------------------------------------------------------------
(***************************************************************************)
(* The theorems.                                                           *)
(***************************************************************************)

\* In every state a call is where its object and its rounding mode say, and the
\* team has weighed the rows of the workers at the barrier.
THEOREM VerifierInvariant == CheckSpec => []VerifierInv
BY InitEstablishes, StepPreserves, PTL DEF CheckSpec

\* Types; and no row_eta is read that nothing has initialised, however many
\* rows and workers there are.  (bs_verify_unique's schedule(static))
THEOREM VerifierTypes == CheckSpec => []CheckTypeOK
<1>1. VerifierInv => CheckTypeOK
  <2> SUFFICES ASSUME VerifierInv PROVE CheckTypeOK
    OBVIOUS
  <2>1. pc = "team" /\ (\A t \in team : stage[t] = "left") => rowEta \in [Row -> Number]
    BY AllWeighed
  <2> QED BY <2>1 DEF VerifierInv, Typed, Placed, CheckTypeOK, RegionTypes, Class
<1> QED BY <1>1, VerifierInvariant, PTL

\* The radius of an accepted object is one the source supports.
\* (bs_verify_unique, bs_verify_infinite, bs_verify_inconsistent)
THEOREM VerifierRadius == CheckSpec => []RadiusBounds
<1>1. VerifierInv => RadiusBounds
  BY DEF VerifierInv
<1> QED BY <1>1, VerifierInvariant, PTL

\* The bounds a candidate's report gives bound every row, and its verdict is
\* theirs.  (abs_check_candidate)
THEOREM CandidateReport == CheckSpec => []CandidateBounds
<1>1. VerifierInv => CandidateBounds
  BY DEF VerifierInv
<1> QED BY <1>1, VerifierInvariant, PTL

\* A worker without buffers ends the call in the code of a shortage.
\* (worker_setup_failed)
THEOREM VerifierShortage == CheckSpec => SetupFailureIsReported
<1>1. VerifierInv /\ [CheckNext]_checkVars =>
        [pc = "team" /\ pc' = "returned" /\ (\E t \in team : ~ok[t])
         => code' = 6 /\ eta' = "inf"]_vars
  <2> SUFFICES ASSUME VerifierInv, CheckNext, pc = "team", pc' = "returned",
                      NEW t \in team, ~ok[t]
               PROVE  code' = 6 /\ eta' = "inf"
    BY DEF checkVars
  <2>1. UniqueJoin
    BY DEF CheckNext, Next, CallerStep, VerifierStep, Free, Call, Reject, UniqueNoMemory,
       UniqueFork, WorkerSetup, WorkerRows, WorkerLeave, InfiniteScan, InconsistentOpen,
       InconsistentScan, CallCandidate, CandidateFails, CandidateWeighed, CandidateRead, call
  <2>2. stage[t] = "left" /\ Worker(t)
    BY <2>1 DEF UniqueJoin, VerifierInv, Teamed, Region
  <2>3. failed
    BY <2>2 DEF Worker
  <2> QED BY <2>1, <2>3 DEF UniqueJoin, Return
<1> QED BY <1>1, VerifierInvariant, PTL DEF CheckSpec, SetupFailureIsReported

\* Every thread gets its rounding mode back, whatever way the call is left.
\* (fesetround at each exit; the workers' worker_env)
THEOREM VerifierModes == CheckSpec => ModesRestored
<1>1. VerifierInv /\ [CheckNext]_checkVars =>
        [/\ pc' = "returned" => mode'[0] = callMode'
         /\ pc' = "checked" /\ code' # 3 => mode'[0] = callMode'
         /\ \A t \in Threads \ {0} :
              stage[t] = "barrier" /\ stage'[t] = "left" => mode'[t] = env[t]]_checkVars
  <2> SUFFICES ASSUME VerifierInv, CheckNext
               PROVE  /\ pc' = "returned" => mode'[0] = callMode'
                      /\ pc' = "checked" /\ code' # 3 => mode'[0] = callMode'
                      /\ \A t \in Threads \ {0} :
                           stage[t] = "barrier" /\ stage'[t] = "left" => mode'[t] = env[t]
    OBVIOUS
  <2>1. /\ pc' = "returned" => mode'[0] = callMode'
        /\ pc' = "checked" /\ code' # 3 => mode'[0] = callMode'
    <3>1. mode \in [Threads -> Modes] /\ 0 \in Threads
      BY Sizes DEF VerifierInv, Typed
    <3>2. CASE Reject \/ UniqueNoMemory \/ CandidateFails
      <4>1. UNCHANGED <<mode, callMode>> /\ pc \in {"called", "check"}
        BY <3>2 DEF Reject, UniqueNoMemory, CandidateFails, Return, Answer
      <4> QED BY <4>1 DEF VerifierInv, Placed
    <3>3. CASE UniqueJoin \/ InfiniteScan \/ InconsistentOpen \/ InconsistentScan
      <4>1. mode' = [mode EXCEPT ![0] = callMode] /\ callMode' = callMode
        BY <3>3 DEF UniqueJoin, InfiniteScan, InconsistentOpen, InconsistentScan, Return
      <4> QED BY <3>1, <4>1
    <3>4. CASE CandidateWeighed
      <4>1. /\ callMode' = callMode /\ pc' = "checked"
            /\ code' # 3 => mode' = [mode EXCEPT ![0] = callMode]
        BY <3>4 DEF CandidateWeighed, Answer
      <4> QED BY <3>1, <4>1
    <3>5. CASE ~(Reject \/ UniqueNoMemory \/ CandidateFails \/ UniqueJoin \/ InfiniteScan
                 \/ InconsistentOpen \/ InconsistentScan \/ CandidateWeighed)
      <4>1. pc' \in {"idle", "called", "team", "check"}
        BY <3>5 DEF CheckNext, Next, CallerStep, VerifierStep, Free, Call, UniqueFork,
           WorkerSetup, WorkerRows, WorkerLeave, CallCandidate, CandidateRead, call
      <4> QED BY <4>1
    <3> QED BY <3>2, <3>3, <3>4, <3>5
  <2>2. ASSUME NEW t \in Threads, stage[t] = "barrier", stage'[t] = "left"
        PROVE  mode'[t] = env[t]
    <3>1. CASE \E u \in Threads : WorkerLeave(u)
      <4>1. PICK u \in Threads : WorkerLeave(u)
        BY <3>1
      <4>2. /\ u \in team /\ stage' = [stage EXCEPT ![u] = "left"] /\ pc = "team"
            /\ mode' = IF ok[u] THEN [mode EXCEPT ![u] = env[u]] ELSE mode
        BY <4>1 DEF WorkerLeave
      <4>3. u = t
        BY <2>2, <4>2 DEF VerifierInv, Typed
      <4>4. ~ok[t] => mode[t] = env[t]
        BY <2>2, <4>2, <4>3 DEF VerifierInv, Teamed, Region, Worker
      <4> QED BY <4>2, <4>3, <4>4 DEF VerifierInv, Typed
    <3>2. CASE \E u \in Threads : WorkerSetup(u) \/ WorkerRows(u)
      <4>1. PICK u \in Threads : \/ stage' = [stage EXCEPT ![u] = "rows"]
                                 \/ stage' = [stage EXCEPT ![u] = "barrier"]
        BY <3>2 DEF WorkerSetup, WorkerRows
      <4> QED BY <2>2, <4>1 DEF VerifierInv, Typed
    <3>3. CASE UniqueJoin
      <4>1. stage'[t] = "out"
        BY <3>3 DEF UniqueJoin, NoOne
      <4> QED BY <2>2, <4>1
    <3>4. CASE ~UniqueJoin /\ \A u \in Threads :
                  ~(WorkerSetup(u) \/ WorkerRows(u) \/ WorkerLeave(u))
      <4>1. UNCHANGED stage
        BY <3>4 DEF CheckNext, Next, CallerStep, VerifierStep, Free, Call, Reject,
           UniqueNoMemory, UniqueFork, InfiniteScan, InconsistentOpen, InconsistentScan,
           CallCandidate, CandidateFails, CandidateWeighed, CandidateRead, Answer, region
      <4> QED BY <2>2, <4>1
    <3> QED BY <3>1, <3>2, <3>3, <3>4
  <2> QED BY <2>1, <2>2
<1> QED BY <1>1, VerifierInvariant, PTL DEF CheckSpec, ModesRestored
=============================================================================
