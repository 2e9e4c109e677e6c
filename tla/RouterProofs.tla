---------------------------- MODULE RouterProofs ----------------------------
(***************************************************************************)
(* Theorems about Router, for every number of columns, every threshold of  *)
(* rank, every system, and whatever allocations fail on the way.           *)
(*                                                                         *)
(* The properties speak of the answer.  They become inductive once it is   *)
(* said what a result means while the call is under way (Sound), what the  *)
(* places of a route may rely on (Grounded, Asking), and what of it the    *)
(* arbitration has taken over (Owned).                                     *)
(***************************************************************************)
EXTENDS Router, TLAPS

\* The places of a route before it has returned, the reset apart.
Searching == {"probe", "lu", "auto", "auto_core", "global", "formation", "core",
              "closure", "block", "block_prefix", "tail", "block_sketch", "scan",
              "proof", "round", "block_core", "block_verify"}

\* A rank that a route builds on is one that the source has, and rows reach the
\* proof only after a scan that an unsolvable source does not pass.
Grounded ==
  /\ pre <= sys.rank
  /\ pc \in {"core", "block_verify"} => cand <= sys.rank
  /\ pc = "proof" => sys.cons

\* A certificate is of a solution; an interval of the source encloses its rank.
Measured ==
  /\ berr.good => berr.valid /\ sys.cons
  /\ src.lo >= 0 => src.lo <= sys.rank /\ sys.rank <= src.hi

\* What a result means, before it is arbitrated: a UNIQUE only that the rank is
\* full, since a reset of full rank leaves its grey rows unexamined.
Sound ==
  /\ R.cls = "UNIQUE" => R.rank = N /\ sys.rank = N
  /\ R.cls = "INFINITE" => sys.cons /\ R.rank <= sys.rank
  /\ R.cls = "INFINITE" /\ ~R.random => R.rank = sys.rank /\ sys.rank < N
  /\ R.cls = "INCONSISTENT" => ~sys.cons
  /\ R.random => R.cls = "INFINITE"
  /\ R.cls = "FAIL" => failed # {}

\* The source QRCP: who may ask, and how often it was asked.
Asking ==
  /\ pc = "qrcp" => caller # "none"
  /\ pc \in Searching \/ (pc = "qrcp" /\ caller \in {"formation", "reset"}) => calls = 0
  /\ pc \in {"reset", "qrcp", "routed", "sampled"} => calls <= 1
  /\ calls <= 2

\* What the arbitration owns: the results of QRCP and of the sampled rows; and
\* every other result that needed them is gone once they have answered.
Owned ==
  /\ R.by = "qrcp" => src.lo >= 0
  /\ R.by \in {"qrcp", "sampled"} /\ R.cls = "INCONSISTENT" => R.rank = sys.rank
  /\ R.by = "sampled" => R.cls # "UNDECIDABLE" /\ pc \in {"answer", "idle"}
  /\ pc = "sampled" \/ (pc = "qrcp" /\ caller = "arbitrate") => R.cls # "UNIQUE"
  /\ pc = "gate" => R.by = "qrcp" \/ "qrcp" \in failed
  /\ pc \in {"answer", "idle"} =>
       /\ R.cls = "UNIQUE" => berr.valid /\ berr.good
       /\ R.cls \in {"INCONSISTENT", "UNDECIDABLE"} =>
            R.by \in {"qrcp", "sampled"} \/ "qrcp" \in failed

RouterInv ==
  /\ TypeOK /\ Grounded /\ Measured /\ Sound /\ Asking /\ Owned
  /\ IntervalSound

USE RouterAssumption DEF Sizes, Routes, Residuals, Callers, Classes, Makers, Resources

-----------------------------------------------------------------------------
(***************************************************************************)
(* Shapes of a step of a route.  Each of them keeps the invariant as long  *)
(* as the state outside the route stays in order.                          *)
(***************************************************************************)
ResultType == [cls : Classes \union {"none"}, rank : 0..N, random : BOOLEAN, by : Makers]
BerrType   == [valid : BOOLEAN, good : BOOLEAN, of : Makers]

\* What a result of class cls, rank r and randomness says of the system.
Means(res) ==
  /\ res.cls = "UNIQUE" => res.rank = N /\ sys.rank = N
  /\ res.cls = "INFINITE" => sys.cons /\ res.rank <= sys.rank
  /\ res.cls = "INFINITE" /\ ~res.random => res.rank = sys.rank /\ sys.rank < N
  /\ res.cls = "INCONSISTENT" => ~sys.cons
  /\ res.random => res.cls = "INFINITE"

\* Certificate and source interval after a step.
BerrKept == berr' \in BerrType /\ (berr'.good => berr'.valid /\ sys.cons)
SrcKept  == /\ src' \in Intervals
            /\ src'.lo >= 0 => src'.lo <= sys.rank /\ sys.rank <= src'.hi
            /\ src.lo >= 0 => src'.lo >= 0
MemoryKept == failed \subseteq failed' /\ failed' \subseteq Resources

\* What every step of a route does to the state outside it.
Kept ==
  /\ UNCHANGED outside
  /\ MemoryKept
  /\ grey' \in BOOLEAN /\ coreSeen' \in BOOLEAN
  /\ BerrKept /\ SrcKept

LocalTypes ==
  /\ route \in Routes
  /\ pre \in 0..N /\ cand \in 0..N /\ floor \in 0..N
  /\ doubt \in BOOLEAN /\ rr \in Residuals
  /\ round \in 0..MaxRounds + 1
  /\ caller \in Callers

\* The system's rank fits its columns and its rows.
LEMMA SystemFacts ==
  ASSUME sys \in Systems
  PROVE  /\ sys.rank \in 0..N /\ sys.cap \in 0..N /\ sys.rank <= sys.cap
         /\ sys.cons \in BOOLEAN /\ sys.size \in Sizes
BY DEF Systems

\* A scan leaves a good certificate only of a solution.
LEMMA ScannedKeeps ==
  ASSUME NEW x \in Makers, NEW bad \in BOOLEAN, Scanned(x, bad), ~bad => sys.cons
  PROVE  BerrKept /\ (bad => ~berr'.good)
BY DEF Scanned, BerrKept, BerrType

\* What a step leaves alone stays in order.
LEMMA Unchanged ==
  ASSUME RouterInv
  PROVE  /\ berr' = berr => BerrKept
         /\ src' = src => SrcKept
         /\ failed' = failed => MemoryKept
         /\ grey \in BOOLEAN /\ coreSeen \in BOOLEAN
BY SystemFacts DEF RouterInv, TypeOK, Measured, BerrKept, BerrType, SrcKept, MemoryKept

\* Fresh locals are well typed.
LEMMA FreshLocals ==
  ASSUME NEW r \in Routes, NEW who \in Callers, NEW f \in 0..N, Locals(r, who, f)
  PROVE  LocalTypes'
<1>1. 0 \in 0..N /\ 0 \in 0..MaxRounds + 1
  BY DEF MaxRounds
<1>2. route' \in Routes /\ caller' \in Callers /\ floor' \in 0..N
  BY DEF Locals
<1>3. pre' \in 0..N /\ cand' \in 0..N /\ round' \in 0..MaxRounds + 1
  BY <1>1 DEF Locals
<1>4. doubt' \in BOOLEAN /\ rr' \in Residuals
  BY DEF Locals
<1> QED BY <1>2, <1>3, <1>4 DEF LocalTypes

\* A step from one place of a route to another.
LEMMA SearchPreserves ==
  ASSUME RouterInv, pc \in Searching, Kept, UNCHANGED R,
         pc' \in Searching, LocalTypes', Grounded'
  PROVE  RouterInv'
<1>1. pc' \in Locations /\ pc' \notin {"reset", "qrcp", "routed", "sampled", "gate",
                                       "answer", "idle"}
  BY DEF Searching, Locations
<1>2. calls = 0 /\ calls' = 0 /\ sys' = sys /\ interval' = interval
  BY DEF RouterInv, Asking, Kept, outside
<1>3. TypeOK'
  BY <1>1, <1>2 DEF RouterInv, TypeOK, LocalTypes, Kept, BerrKept, BerrType, SrcKept,
     MemoryKept
<1>4. Measured'
  BY <1>2 DEF Measured, Kept, BerrKept, SrcKept
<1>5. Sound'
  BY <1>2 DEF RouterInv, Sound, Kept, MemoryKept
<1>6. Asking'
  BY <1>1, <1>2 DEF Asking
<1>7. Owned'
  BY <1>1, <1>2 DEF RouterInv, Owned, Kept, SrcKept, Searching
<1>8. IntervalSound'
  BY <1>1 DEF IntervalSound, Answered
<1> QED BY <1>3, <1>4, <1>5, <1>6, <1>7, <1>8 DEF RouterInv

\* A route, or the reset, returns a result that says what is true.
LEMMA GivePreserves ==
  ASSUME RouterInv, pc \in Searching \union {"reset"}, Kept,
         NEW r \in ResultType, Give(r), Means(r),
         r.by \notin {"qrcp", "sampled"},
         r.cls = "FAIL" => failed' # {}
  PROVE  RouterInv'
<1>1. pc' = "routed" /\ R' = r /\ pre' = 0
  BY DEF Give, NoLocals, Enter, Locals
<1>2. calls \in Nat /\ calls <= 1 /\ calls' = calls /\ sys' = sys /\ interval' = interval
  BY DEF RouterInv, TypeOK, Asking, Kept, outside, Searching
<1>3. TypeOK'
  <2>1. LocalTypes'
    BY FreshLocals DEF Give, NoLocals, Enter
  <2>2. pc' \in Locations
    BY <1>1 DEF Locations
  <2> QED BY <2>1, <2>2, <1>1, <1>2 DEF RouterInv, TypeOK, LocalTypes, ResultType, Kept,
       BerrKept, BerrType, SrcKept, MemoryKept
<1>4. Grounded' /\ Measured'
  <2>1. sys.rank \in 0..N
    BY SystemFacts DEF RouterInv, TypeOK
  <2>2. Grounded'
    BY <2>1, <1>1, <1>2 DEF Grounded
  <2>3. Measured'
    BY <1>2 DEF Measured, Kept, BerrKept, SrcKept
  <2> QED BY <2>2, <2>3
<1>5. Sound'
  BY <1>1, <1>2 DEF Sound, Means
<1>6. Asking' /\ Owned' /\ IntervalSound'
  BY <1>1, <1>2 DEF Asking, Owned, IntervalSound, Answered, Searching
<1> QED BY <1>3, <1>4, <1>5, <1>6 DEF RouterInv

\* A route asks the source QRCP: it was not asked before.
LEMMA AskPreserves ==
  ASSUME RouterInv, pc \in Searching, Kept, UNCHANGED R,
         NEW who \in {"formation", "reset"}, NEW f \in 0..N, AskQrcp(who, f)
  PROVE  RouterInv'
<1>1. pc' = "qrcp" /\ caller' = who /\ pre' = 0
  BY DEF AskQrcp, Locals
<1>2. calls = 0 /\ calls' = 0 /\ sys' = sys /\ interval' = interval
  BY DEF RouterInv, Asking, Kept, outside
<1>3. TypeOK'
  <2>1. LocalTypes'
    BY FreshLocals DEF AskQrcp
  <2>2. pc' \in Locations
    BY <1>1 DEF Locations
  <2> QED BY <2>1, <2>2, <1>1, <1>2 DEF RouterInv, TypeOK, LocalTypes, ResultType, Kept,
       BerrKept, BerrType, SrcKept, MemoryKept
<1>4. Grounded' /\ Measured'
  <2>1. sys.rank \in 0..N
    BY SystemFacts DEF RouterInv, TypeOK
  <2>2. Grounded'
    BY <2>1, <1>1, <1>2 DEF Grounded
  <2>3. Measured'
    BY <1>2 DEF Measured, Kept, BerrKept, SrcKept
  <2> QED BY <2>2, <2>3
<1>5. Sound'
  BY <1>2 DEF RouterInv, Sound, Kept, MemoryKept
<1>6. Asking' /\ Owned' /\ IntervalSound'
  BY <1>1, <1>2 DEF RouterInv, Asking, Owned, IntervalSound, Answered, Searching, Kept, SrcKept
<1> QED BY <1>3, <1>4, <1>5, <1>6 DEF RouterInv

\* A route gives up and all source rows are inserted again.
LEMMA AgainPreserves ==
  ASSUME RouterInv, pc \in Searching, Kept, UNCHANGED R, StartAgain
  PROVE  RouterInv'
<1>1. pc' = "reset" /\ pre' = 0
  BY DEF StartAgain, NoLocals, Enter, Locals
<1>2. calls = 0 /\ calls' = 0 /\ sys' = sys /\ interval' = interval
  BY DEF RouterInv, Asking, Kept, outside
<1>3. TypeOK'
  <2>1. LocalTypes'
    BY FreshLocals DEF StartAgain, NoLocals, Enter
  <2>2. pc' \in Locations
    BY <1>1 DEF Locations
  <2> QED BY <2>1, <2>2, <1>1, <1>2 DEF RouterInv, TypeOK, LocalTypes, ResultType, Kept,
       BerrKept, BerrType, SrcKept, MemoryKept
<1>4. Grounded' /\ Measured'
  <2>1. sys.rank \in 0..N
    BY SystemFacts DEF RouterInv, TypeOK
  <2>2. Grounded'
    BY <2>1, <1>1, <1>2 DEF Grounded
  <2>3. Measured'
    BY <1>2 DEF Measured, Kept, BerrKept, SrcKept
  <2> QED BY <2>2, <2>3
<1>5. Sound'
  BY <1>2 DEF RouterInv, Sound, Kept, MemoryKept
<1>6. Asking' /\ Owned' /\ IntervalSound'
  BY <1>1, <1>2 DEF RouterInv, Asking, Owned, IntervalSound, Answered, Searching, Kept, SrcKept
<1> QED BY <1>3, <1>4, <1>5, <1>6 DEF RouterInv
-----------------------------------------------------------------------------
(***************************************************************************)
(* What the helpers of the actions leave, and what their results mean.     *)
(***************************************************************************)
LEMMA SourceRowsKeep ==
  ASSUME RouterInv, SourceRows
  PROVE  grey' \in BOOLEAN /\ MemoryKept
BY DEF SourceRows, MemoryKept, RouterInv, TypeOK

\* A doubt about the core costs a decomposition, or the memory for one.
LEMMA DoubtKeeps ==
  ASSUME RouterInv, NEW d \in BOOLEAN, DoubtCost(d)
  PROVE  coreSeen' \in BOOLEAN /\ MemoryKept
BY DEF DoubtCost, Starved, MemoryKept, RouterInv, TypeOK

\* What is missing is remembered.
LEMMA StarvedKeeps ==
  ASSUME RouterInv, NEW what \in Resources, Starved(what)
  PROVE  MemoryKept /\ failed' # {}
BY DEF Starved, MemoryKept, RouterInv, TypeOK

\* What a scan leaves is typed, and good only of a solvable source.
LEMMA ScansKeep ==
  ASSUME RouterInv, NEW x \in Makers
  PROVE  /\ ScanDecides(x) => BerrKept /\ (~sys.cons => ~berr'.good)
         /\ ScanPasses(x) => sys.cons /\ BerrKept
         /\ ScanFails(x) => BerrKept
BY ScannedKeeps, SystemFacts DEF ScanDecides, ScanPasses, ScanFails, RouterInv, TypeOK

\* The rank of a system is within its rows and columns.
LEMMA SystemTyped ==
  ASSUME RouterInv
  PROVE  /\ sys.rank \in 0..N /\ sys.cap \in 0..N /\ sys.rank <= sys.cap
         /\ sys.cons \in BOOLEAN
BY SystemFacts DEF RouterInv, TypeOK

\* Locals that a step leaves alone.
LEMMA LocalsKept ==
  ASSUME RouterInv
  PROVE  LocalTypes /\ (UNCHANGED local => LocalTypes')
BY DEF RouterInv, TypeOK, LocalTypes, local

\* A result a route may return.
Fair(res) == res \in ResultType /\ Means(res)

\* A failure claims nothing.
LEMMA FailureIsFair == Fair(BS_FAIL_RESULT) /\ BS_FAIL_RESULT.by = "none"
BY DEF Fair, Means, ResultType, BS_FAIL_RESULT, Result

\* A refusal claims nothing but a rank to report.
LEMMA UndecidedIsFair ==
  ASSUME NEW r \in 0..N
  PROVE  Fair(Undecided(r)) /\ Undecided(r).by = "none" /\ Undecided(r).cls # "FAIL"
BY DEF Fair, Means, ResultType, Undecided, Result

\* A contradiction of an unsolvable source is true.
LEMMA RefutedIsFair ==
  ASSUME NEW r \in 0..N, NEW by \in Makers, ~sys.cons
  PROVE  LET res == Result("INCONSISTENT", r, FALSE, by)
         IN  Fair(res) /\ res.by = by /\ res.cls # "FAIL"
BY DEF Fair, Means, ResultType, Result

\* A randomised INFINITE claims solvability and at most the rank.
LEMMA RandomIsFair ==
  ASSUME NEW r \in 0..N, NEW by \in Makers, sys.cons, r <= sys.rank
  PROVE  LET res == Result("INFINITE", r, TRUE, by)
         IN  Fair(res) /\ res.by = by /\ res.cls # "FAIL"
BY DEF Fair, Means, ResultType, Result

\* An accepted candidate of a rank the source has is true.
LEMMA AcceptedIsFair ==
  ASSUME RouterInv, NEW r \in 0..N, NEW by \in Makers, sys.cons, r <= sys.rank
  PROVE  Fair(Accepted(r, by)) /\ Accepted(r, by).by = by /\ Accepted(r, by).cls # "FAIL"
<1>1. sys.rank \in 0..N
  BY SystemTyped
<1>2. CASE r = N
  <2>1. Accepted(r, by) = Result("UNIQUE", r, FALSE, by) /\ sys.rank = N
    <3>1. (r # N) = FALSE /\ Full(r) = "UNIQUE" /\ sys.rank = N
      BY <1>1, <1>2 DEF Full
    <3> QED BY <3>1, Zenon DEF Accepted
  <2> QED BY <2>1, <1>2 DEF Fair, Means, ResultType, Result
<1>3. CASE r # N
  <2>1. Accepted(r, by) = Result("INFINITE", r, TRUE, by)
    BY <1>3 DEF Accepted, Full
  <2> QED BY <2>1, RandomIsFair
<1> QED BY <1>2, <1>3

\* A decision at the rank of the source is true.
LEMMA DecidedIsFair ==
  ASSUME RouterInv, NEW by \in Makers
  PROVE  LET res == Decided(sys.rank, by)
         IN  Fair(res) /\ res.by = by /\ res.cls # "FAIL"
<1>1. sys.rank \in 0..N /\ sys.cons \in BOOLEAN
  BY SystemTyped
<1>2. CASE ~sys.cons
  BY <1>1, <1>2 DEF Fair, Means, ResultType, Decided, Result
<1>3. CASE sys.cons /\ sys.rank = N
  BY <1>1, <1>3 DEF Fair, Means, ResultType, Decided, Full, Result
<1>4. CASE sys.cons /\ sys.rank # N
  BY <1>1, <1>4 DEF Fair, Means, ResultType, Decided, Full, Result
<1> QED BY <1>1, <1>2, <1>3, <1>4

\* A route without memory gives FAIL.
LEMMA ShortagePreserves ==
  ASSUME RouterInv, pc \in Searching \union {"reset"},
         NEW what \in Resources, OutOfMemory(what), UNCHANGED <<tls, outside>>
  PROVE  RouterInv'
<1>1. Kept /\ failed' # {}
  BY StarvedKeeps, Unchanged DEF OutOfMemory, Kept, tls
<1>2. Give(BS_FAIL_RESULT)
  BY DEF OutOfMemory
<1> QED BY <1>1, <1>2, FailureIsFair, GivePreserves DEF Fair

-----------------------------------------------------------------------------
(***************************************************************************)
(* The choice of route.                                                    *)
(***************************************************************************)
LEMMA ChoosePreserves ==
  ASSUME RouterInv, Choose
  PROVE  RouterInv'
<1>1. CASE ProbeFails
  BY <1>1, ShortagePreserves DEF ProbeFails, Searching
<1>2. CASE ProbeRefutes
  <2>1. PICK r \in 0..sys.rank : Give(Result("INCONSISTENT", r, FALSE, "prefix"))
    BY <1>2 DEF ProbeRefutes
  <2>2. r \in 0..N /\ ~sys.cons /\ pc \in Searching
    BY <1>2, SystemTyped DEF ProbeRefutes, Searching
  <2>3. Kept
    BY <1>2, SourceRowsKeep, Unchanged DEF ProbeRefutes, Kept
  <2> QED BY <2>1, <2>2, <2>3, RefutedIsFair, GivePreserves DEF Fair
<1>3. CASE ProbeGrows
  <2>1. pc \in Searching /\ pc' \in Searching /\ Kept /\ UNCHANGED <<local, R>> /\ pc' = "lu"
    BY <1>3, Unchanged DEF ProbeGrows, Searching, Kept, tls
  <2>2. Grounded'
    BY <2>1 DEF RouterInv, Grounded, Kept, local, outside
  <2> QED BY <2>1, <2>2, LocalsKept, SearchPreserves
<1>4. CASE ProbeStops
  <2>1. pc \in Searching /\ pc' \in Searching /\ UNCHANGED <<local, R>> /\ pc' = "auto"
    BY <1>4 DEF ProbeStops, Searching
  <2>2. Kept
    BY <1>4, SourceRowsKeep, Unchanged DEF ProbeStops, Kept
  <2>3. Grounded'
    BY <2>1, <2>2 DEF RouterInv, Grounded, Kept, local, outside
  <2> QED BY <2>1, <2>2, <2>3, LocalsKept, SearchPreserves
<1>5. CASE LuFails
  BY <1>5, ShortagePreserves DEF LuFails, Searching
<1>6. CASE LuDeclines
  <2>1. /\ pc \in Searching /\ pc' \in {"block", "auto"} /\ Kept /\ UNCHANGED R
        /\ Locals(pc', "none", 0)
    BY <1>6, Unchanged DEF LuDeclines, Searching, Kept, tls, Enter
  <2>2. LocalTypes'
    <3>1. "none" \in Routes /\ pc' \in Routes /\ 0 \in 0..N
      BY <2>1
    <3> QED BY <2>1, <3>1, FreshLocals
  <2>3. Grounded' /\ pc' \in Searching
    BY <2>1, SystemTyped DEF Grounded, Kept, outside, Searching, Locals
  <2> QED BY <2>1, <2>2, <2>3, SearchPreserves
<1>7. CASE LuAnswers
  <2>1. pc \in Searching /\ Kept /\ sys.rank = N
    BY <1>7, ScansKeep, Unchanged DEF LuAnswers, Searching, Kept
  <2>2. CASE Give(Decided(N, "lu"))
    BY <2>1, <2>2, DecidedIsFair, GivePreserves DEF Fair
  <2>3. CASE pc' = "global" /\ Enter("global") /\ UNCHANGED R
    <3>1. LocalTypes' /\ pre' = 0
      <4>1. Locals("global", "none", 0) /\ 0 \in 0..N
        BY <2>3 DEF Enter
      <4>2. LocalTypes'
        BY <4>1, FreshLocals
      <4> QED BY <4>1, <4>2 DEF Locals
    <3>2. Grounded' /\ pc' \in Searching
      BY <2>1, <2>3, <3>1, SystemTyped DEF Grounded, Kept, outside, Searching
    <3> QED BY <2>1, <2>3, <3>1, <3>2, SearchPreserves
  <2> QED BY <1>7, <2>2, <2>3 DEF LuAnswers
<1> QED BY <1>1, <1>2, <1>3, <1>4, <1>5, <1>6, <1>7 DEF Choose
-----------------------------------------------------------------------------
(***************************************************************************)
(* solve_auto_qr and solve_global_qr up to their core.                     *)
(***************************************************************************)
LEMMA AutoPreserves ==
  ASSUME RouterInv, AutoRoute
  PROVE  RouterInv'
<1>1. CASE AutoFails
  BY <1>1, ShortagePreserves DEF AutoFails, Searching
<1>2. CASE AutoRefutes
  <2>1. PICK r \in 0..sys.rank : Give(Result("INCONSISTENT", r, FALSE, "prefix"))
    BY <1>2 DEF AutoRefutes
  <2>2. r \in 0..N /\ ~sys.cons /\ pc \in Searching
    BY <1>2, SystemTyped DEF AutoRefutes, Searching
  <2>3. Kept
    BY <1>2, Unchanged DEF AutoRefutes, Kept, tls
  <2> QED BY <2>1, <2>2, <2>3, RefutedIsFair, GivePreserves DEF Fair
<1>3. CASE AutoPrefixFull
  <2>1. pc \in Searching /\ Kept /\ sys.rank = N /\ Give(Decided(N, "prefix"))
    BY <1>3, ScansKeep, Unchanged DEF AutoPrefixFull, Searching, Kept
  <2> QED BY <2>1, DecidedIsFair, GivePreserves DEF Fair
<1>4. CASE AutoPrefixStops
  <2>1. pc \in Searching /\ pc' = "auto_core" /\ UNCHANGED R
    BY <1>4 DEF AutoPrefixStops, Searching
  <2>2. Kept
    BY <1>4, SourceRowsKeep, Unchanged DEF AutoPrefixStops, Kept
  <2>3. pre' \in 0..N /\ pre' <= sys.rank
    BY <1>4, SystemTyped DEF AutoPrefixStops
  <2>4. LocalTypes'
    BY <1>4, <2>3, LocalsKept DEF AutoPrefixStops, LocalTypes
  <2>5. Grounded' /\ pc' \in Searching
    BY <2>1, <2>2, <2>3 DEF Grounded, Kept, outside, Searching
  <2> QED BY <2>1, <2>2, <2>4, <2>5, SearchPreserves
<1>5. CASE AutoCore
  <2>1. PICK c \in 0..N, d \in BOOLEAN, certified \in BOOLEAN, res \in Residuals :
           /\ certified => c <= sys.rank
           /\ cand' = c
           /\ CoreState(d, res)
           /\ pc' = IF c <= pre \/ certified THEN "core" ELSE "formation"
           /\ floor' = pre
    BY <1>5 DEF AutoCore
  <2>2. /\ pc \in Searching /\ pc' \in Searching /\ pc' # "proof"
        /\ UNCHANGED <<route, pre, round, caller, R>>
    BY <1>5, <2>1 DEF AutoCore, Searching
  <2>3. Kept
    BY <1>5, <2>1, DoubtKeeps, Unchanged DEF AutoCore, CoreState, Kept
  <2>4. LocalTypes'
    BY <2>1, <2>2, LocalsKept DEF CoreState, LocalTypes
  <2>5. pre \in 0..N /\ pre <= sys.rank /\ sys.rank \in 0..N
    BY SystemTyped DEF RouterInv, TypeOK, Grounded
  <2>6. Grounded'
    BY <2>1, <2>2, <2>3, <2>5 DEF Grounded, Kept, outside
  <2> QED BY <2>2, <2>3, <2>4, <2>6, SearchPreserves
<1>6. CASE AutoCoreLost
  <2>1. PICK r \in 0..sys.rank :
           \/ Give(Undecided(r)) /\ grey' = TRUE /\ src' = [lo |-> r, hi |-> N]
           \/ /\ cand' = r
              /\ floor' = pre
              /\ doubt' \in BOOLEAN
              /\ rr' = "tiny"
              /\ grey' \in {grey, TRUE}
              /\ pc' = IF r <= pre THEN "core" ELSE "formation"
              /\ UNCHANGED <<route, pre, round, caller, src, R>>
    BY <1>6 DEF AutoCoreLost
  <2>2. pc \in Searching /\ r \in 0..N /\ sys.rank \in 0..N
    BY <1>6, SystemTyped DEF AutoCoreLost, Searching
  <2>3. MemoryKept /\ coreSeen' \in BOOLEAN /\ BerrKept /\ UNCHANGED outside
    BY <1>6, StarvedKeeps, Unchanged DEF AutoCoreLost
  <2>4. CASE Give(Undecided(r)) /\ grey' = TRUE /\ src' = [lo |-> r, hi |-> N]
    <3>1. SrcKept
      BY <2>2, <2>4 DEF SrcKept, Intervals
    <3>2. Kept
      BY <2>3, <2>4, <3>1 DEF Kept
    <3> QED BY <2>2, <2>4, <3>2, UndecidedIsFair, GivePreserves DEF Fair
  <2>5. CASE /\ cand' = r /\ floor' = pre /\ doubt' \in BOOLEAN /\ rr' = "tiny"
             /\ grey' \in {grey, TRUE}
             /\ pc' = IF r <= pre THEN "core" ELSE "formation"
             /\ UNCHANGED <<route, pre, round, caller, src, R>>
    <3>1. Kept
      BY <2>3, <2>5, Unchanged DEF Kept
    <3>2. LocalTypes'
      BY <2>2, <2>5, LocalsKept DEF LocalTypes
    <3>3. pc' \in Searching /\ Grounded'
      BY <2>2, <2>5, <3>1 DEF RouterInv, Grounded, Kept, outside, Searching
    <3> QED BY <2>2, <2>5, <3>1, <3>2, <3>3, SearchPreserves
  <2> QED BY <2>1, <2>4, <2>5
<1> QED BY <1>1, <1>2, <1>3, <1>4, <1>5, <1>6 DEF AutoRoute

\* The global route.
LEMMA GlobalPreserves ==
  ASSUME RouterInv, GlobalRoute
  PROVE  RouterInv'
<1>1. CASE GlobalFails
  BY <1>1, ShortagePreserves DEF GlobalFails, Searching
<1>2. CASE GlobalCore
  <2>1. PICK c \in 0..N, d \in BOOLEAN, certified \in BOOLEAN, res \in Residuals :
           /\ certified => c <= sys.rank
           /\ cand' = c
           /\ CoreState(d, res)
           /\ pc' = IF c = 0 \/ certified THEN "core" ELSE "formation"
    BY <1>2 DEF GlobalCore
  <2>2. /\ pc \in Searching /\ pc' \in Searching /\ pc' # "proof"
        /\ UNCHANGED <<route, pre, floor, round, caller, R>>
    BY <1>2, <2>1 DEF GlobalCore, Searching
  <2>3. Kept
    BY <1>2, <2>1, DoubtKeeps, Unchanged DEF GlobalCore, CoreState, Kept
  <2>4. LocalTypes'
    BY <2>1, <2>2, LocalsKept DEF CoreState, LocalTypes
  <2>5. Grounded'
    BY <2>1, <2>2, <2>3, SystemTyped DEF RouterInv, Grounded, Kept, outside
  <2> QED BY <2>2, <2>3, <2>4, <2>5, SearchPreserves
<1>3. CASE GlobalCoreLost
  <2>1. pc \in Searching /\ Kept /\ UNCHANGED R /\ StartAgain
    BY <1>3, StarvedKeeps, Unchanged DEF GlobalCoreLost, Searching, Kept
  <2> QED BY <2>1, AgainPreserves
<1> QED BY <1>1, <1>2, <1>3 DEF GlobalRoute

-----------------------------------------------------------------------------
(***************************************************************************)
(* The core, its checks, and the closure.                                  *)
(***************************************************************************)
LEMMA CorePreserves ==
  ASSUME RouterInv, Core
  PROVE  RouterInv'
<1>0. pre \in 0..N /\ cand \in 0..N /\ floor \in 0..N /\ pre <= sys.rank /\ 0 \in 0..N
  BY DEF RouterInv, TypeOK, Grounded
<1>1. CASE Formation
  <2>1. pc \in Searching /\ Kept /\ UNCHANGED R
    BY <1>1, Unchanged DEF Formation, Searching, Kept, tls
  <2>2. CASE AskQrcp("formation", floor)
    BY <1>0, <2>1, <2>2, AskPreserves
  <2>3. CASE /\ pc' = "closure" /\ caller' = "formation"
             /\ UNCHANGED <<route, pre, cand, floor, doubt, rr, round>>
    <3>1. LocalTypes'
      BY <2>3, LocalsKept DEF LocalTypes
    <3>2. pc' \in Searching /\ Grounded'
      BY <2>1, <2>3 DEF RouterInv, Grounded, Kept, outside, Searching
    <3> QED BY <2>1, <3>1, <3>2, SearchPreserves
  <2> QED BY <1>1, <2>2, <2>3 DEF Formation
<1>2. CASE CoreDoubted
  <2>1. pc \in Searching /\ Kept
    BY <1>2, Unchanged DEF CoreDoubted, Searching, Kept, tls
  <2>2. CASE Give(Undecided(cand))
    BY <1>0, <2>1, <2>2, UndecidedIsFair, GivePreserves DEF Fair
  <2>3. CASE pc' = "closure" /\ UNCHANGED <<local, R>>
    <3>1. pc' \in Searching /\ Grounded'
      BY <2>1, <2>3 DEF RouterInv, Grounded, Kept, outside, local, Searching
    <3> QED BY <2>1, <2>3, <3>1, LocalsKept, SearchPreserves
  <2> QED BY <1>2, <2>2, <2>3 DEF CoreDoubted
<1>3. CASE CoreLoose
  <2>1. pc \in Searching /\ Kept /\ UNCHANGED R
    BY <1>3, Unchanged DEF CoreLoose, Searching, Kept, tls
  <2> QED BY <1>0, <1>3, <2>1, AskPreserves, AgainPreserves DEF CoreLoose
<1>4. CASE CoreAccepted
  <2>1. pc \in Searching /\ Kept /\ sys.cons /\ Give(Accepted(cand, "core"))
    BY <1>4, ScansKeep, Unchanged DEF CoreAccepted, Searching, Kept
  <2>2. cand <= sys.rank
    BY <1>4 DEF CoreAccepted, RouterInv, Grounded
  <2> QED BY <1>0, <2>1, <2>2, AcceptedIsFair, GivePreserves DEF Fair
<1>5. CASE CoreRejected
  <2>1. pc \in Searching /\ Kept /\ UNCHANGED R
    BY <1>5, ScansKeep, Unchanged DEF CoreRejected, Searching, Kept
  <2> QED BY <1>0, <1>5, <2>1, AskPreserves, AgainPreserves DEF CoreRejected
<1>6. CASE ClosureHolds
  <2>1. pc \in Searching /\ Kept /\ Give(Decided(sys.rank, "closure"))
    BY <1>6, ScansKeep, Unchanged DEF ClosureHolds, Searching, Kept
  <2> QED BY <2>1, DecidedIsFair, GivePreserves DEF Fair
<1>7. CASE ClosureRefutes
  <2>1. pc \in Searching /\ Kept /\ ~sys.cons
        /\ Give(Result("INCONSISTENT", pre, FALSE, "closure"))
    BY <1>7, Unchanged DEF ClosureRefutes, Searching, Kept, tls
  <2> QED BY <1>0, <2>1, RefutedIsFair, GivePreserves DEF Fair
<1>8. CASE ClosureOpen
  <2>1. MemoryKept
    BY <1>8 DEF ClosureOpen, MemoryKept, RouterInv, TypeOK
  <2>2. pc \in Searching /\ Kept
    BY <1>8, <2>1, Unchanged DEF ClosureOpen, Searching, Kept, tls
  <2>3. CASE AskQrcp("formation", floor) /\ UNCHANGED R
    BY <1>0, <2>2, <2>3, AskPreserves
  <2>4. CASE Give(Undecided(cand))
    BY <1>0, <2>2, <2>4, UndecidedIsFair, GivePreserves DEF Fair
  <2> QED BY <1>8, <2>3, <2>4 DEF ClosureOpen
<1> QED BY <1>1, <1>2, <1>3, <1>4, <1>5, <1>6, <1>7, <1>8 DEF Core
-----------------------------------------------------------------------------
(***************************************************************************)
(* solve_blockprefix_qr.                                                   *)
(***************************************************************************)
LEMMA CheckedPreserves ==
  ASSUME RouterInv, pc \in Searching, UNCHANGED <<tls, outside, R>>,
         NEW c \in 0..N, NEW k \in 0..MaxRounds + 1, Checked(c, k)
  PROVE  RouterInv'
<1>1. MemoryKept
  BY Unchanged DEF Checked, MemoryKept, RouterInv, TypeOK
<1>2. Kept
  BY <1>1, Unchanged DEF Kept, tls
<1>3. CASE StartAgain
  BY <1>2, <1>3, AgainPreserves
<1>4. CASE /\ pc' \in {"scan", "round"} /\ cand' = c /\ round' = k
           /\ UNCHANGED <<route, pre, floor, doubt, rr, caller, failed>>
  <2>1. LocalTypes'
    BY <1>4, LocalsKept DEF LocalTypes
  <2>2. pc' \in Searching /\ Grounded'
    BY <1>2, <1>4 DEF RouterInv, Grounded, Kept, outside, Searching
  <2> QED BY <1>2, <2>1, <2>2, SearchPreserves
<1> QED BY <1>3, <1>4 DEF Checked

\* The prefix of the block route.
LEMMA BlockPrefixPreserves ==
  ASSUME RouterInv, BlockPrefix
  PROVE  RouterInv'
<1>1. PICK c \in 0..N, d \in BOOLEAN, certified \in BOOLEAN, res \in Residuals :
         /\ certified => c <= sys.rank
         /\ IF c = 0 \/ certified
            THEN /\ pc' = "block_prefix" /\ pre' = c
                 /\ CoreState(d, res)
                 /\ UNCHANGED <<route, cand, floor, round, caller>>
            ELSE AskQrcp("formation", 0) /\ DoubtCost(d)
  BY DEF BlockPrefix
<1>2. pc \in Searching /\ UNCHANGED R /\ 0 \in 0..N
  BY DEF BlockPrefix, Searching
<1>3. Kept
  BY <1>1, DoubtKeeps, Unchanged DEF BlockPrefix, CoreState, Kept
<1>4. CASE AskQrcp("formation", 0)
  BY <1>2, <1>3, <1>4, AskPreserves
<1>5. CASE /\ c = 0 \/ certified
           /\ pc' = "block_prefix" /\ pre' = c
           /\ CoreState(d, res)
           /\ UNCHANGED <<route, cand, floor, round, caller>>
  <2>1. LocalTypes'
    BY <1>5, LocalsKept DEF CoreState, LocalTypes
  <2>2. pc' \in Searching /\ Grounded'
    BY <1>1, <1>3, <1>5, SystemTyped DEF Grounded, Kept, outside, Searching
  <2> QED BY <1>2, <1>3, <2>1, <2>2, SearchPreserves
<1> QED BY <1>1, <1>4, <1>5

\* The answer of the tail.
LEMMA TailPreserves ==
  ASSUME RouterInv, TailAnswers
  PROVE  RouterInv'
<1>1. PICK r \in pre..sys.rank :
         \/ /\ ~sys.cons /\ UNCHANGED berr
            /\ IF r <= pre THEN Give(Result("INCONSISTENT", r, FALSE, "tail"))
                           ELSE AskQrcp("formation", pre) /\ UNCHANGED R
         \/ /\ r = N /\ ScanDecides("tail")
            /\ IF r <= pre THEN Give(Decided(r, "tail"))
                           ELSE AskQrcp("formation", pre) /\ UNCHANGED R
         \/ /\ r < N /\ ScanPasses("tail")
            /\ IF r <= pre THEN Give(Result("INFINITE", r, TRUE, "tail"))
                           ELSE AskQrcp("formation", pre) /\ UNCHANGED R
  BY DEF TailAnswers
<1>2. pc \in Searching
  BY DEF TailAnswers, Searching
<1>3. /\ pre \in 0..N /\ sys.rank \in 0..N /\ r \in 0..N /\ r <= sys.rank
      /\ r = N => sys.rank = N
  BY SystemTyped DEF RouterInv, TypeOK
<1>4. Kept
  BY <1>1, ScansKeep, Unchanged DEF TailAnswers, Kept
<1>5. CASE AskQrcp("formation", pre) /\ UNCHANGED R
  BY <1>2, <1>3, <1>4, <1>5, AskPreserves
<1>6. CASE ~sys.cons /\ Give(Result("INCONSISTENT", r, FALSE, "tail"))
  BY <1>2, <1>3, <1>4, <1>6, RefutedIsFair, GivePreserves DEF Fair
<1>7. CASE r = N /\ Give(Decided(r, "tail"))
  <2>1. Give(Decided(sys.rank, "tail"))
    BY <1>3, <1>7
  <2> QED BY <1>2, <1>4, <2>1, DecidedIsFair, GivePreserves DEF Fair
<1>8. CASE ScanPasses("tail") /\ Give(Result("INFINITE", r, TRUE, "tail"))
  <2>1. sys.cons
    BY <1>8 DEF ScanPasses
  <2> QED BY <1>2, <1>3, <1>4, <1>8, <2>1, RandomIsFair, GivePreserves DEF Fair
<1> QED BY <1>1, <1>5, <1>6, <1>7, <1>8

\* The core of the block route.
LEMMA BlockCorePreserves ==
  ASSUME RouterInv, BlockCore
  PROVE  RouterInv'
<1>1. PICK c \in 0..N, lo \in 0..sys.rank, d \in BOOLEAN, res \in Residuals :
         /\ lo <= c
         /\ IF lo < c
            THEN AskQrcp("formation", lo)
            ELSE /\ pc' = "block_verify" /\ cand' = c /\ floor' = lo
                 /\ doubt' = (c = 0 /\ d) /\ rr' = res
                 /\ UNCHANGED <<route, pre, round, caller>>
  BY DEF BlockCore
<1>2. pc \in Searching /\ UNCHANGED R /\ lo \in 0..N /\ sys.rank \in 0..N
  BY SystemTyped DEF BlockCore, Searching
<1>3. MemoryKept
  BY DEF BlockCore, MemoryKept, RouterInv, TypeOK
<1>4. Kept
  BY <1>3, Unchanged DEF BlockCore, Kept
<1>5. CASE AskQrcp("formation", lo)
  BY <1>2, <1>4, <1>5, AskPreserves
<1>6. CASE /\ ~(lo < c)
           /\ pc' = "block_verify" /\ cand' = c /\ floor' = lo
           /\ doubt' = (c = 0 /\ d) /\ rr' = res
           /\ UNCHANGED <<route, pre, round, caller>>
  <2>1. LocalTypes'
    BY <1>2, <1>6, LocalsKept DEF LocalTypes
  <2>2. pc' \in Searching /\ Grounded'
    BY <1>1, <1>2, <1>4, <1>6 DEF RouterInv, Grounded, Kept, outside, Searching
  <2> QED BY <1>2, <1>4, <2>1, <2>2, SearchPreserves
<1> QED BY <1>1, <1>5, <1>6

\* The block route.
LEMMA BlockPreserves ==
  ASSUME RouterInv, BlockRoute
  PROVE  RouterInv'
<1>0. /\ pre \in 0..N /\ cand \in 0..N /\ floor \in 0..N /\ pre <= sys.rank /\ 0 \in 0..N
      /\ round \in 0..MaxRounds + 1
  BY DEF RouterInv, TypeOK, Grounded
<1>1. CASE BlockFails
  BY <1>1, ShortagePreserves DEF BlockFails, Searching
<1>2. CASE BlockZeroRow
  <2>1. pc \in Searching /\ Kept /\ ~sys.cons /\ Give(Result("INCONSISTENT", 0, FALSE, "prefix"))
    BY <1>2, Unchanged DEF BlockZeroRow, Searching, Kept, tls
  <2> QED BY <1>0, <2>1, RefutedIsFair, GivePreserves DEF Fair
<1>3. CASE BlockPrefix
  BY <1>3, BlockPrefixPreserves
<1>4. CASE BlockPrefixDoubted
  <2>1. pc \in Searching /\ Kept /\ Give(Undecided(pre))
    BY <1>4, Unchanged DEF BlockPrefixDoubted, Searching, Kept, tls
  <2> QED BY <1>0, <2>1, UndecidedIsFair, GivePreserves DEF Fair
<1>5. CASE BlockPrefixFull
  <2>1. pc \in Searching /\ Kept /\ Give(Decided(N, "prefix")) /\ pre = N
    BY <1>5, ScansKeep, Unchanged DEF BlockPrefixFull, Searching, Kept
  <2>2. sys.rank = N
    BY <1>0, <2>1, SystemTyped
  <2> QED BY <2>1, <2>2, DecidedIsFair, GivePreserves DEF Fair
<1>6. CASE BlockPrefixStops
  <2>1. /\ pc \in Searching /\ pc' \in {"tail", "block_sketch"} /\ Kept
        /\ UNCHANGED <<local, R>>
    BY <1>6, Unchanged DEF BlockPrefixStops, Searching, Kept, tls
  <2>2. pc' \in Searching /\ Grounded'
    BY <2>1 DEF RouterInv, Grounded, Kept, outside, local, Searching
  <2> QED BY <2>1, <2>2, LocalsKept, SearchPreserves
<1>7. CASE TailFails
  BY <1>7, ShortagePreserves DEF TailFails, Searching
<1>8. CASE TailDeclines
  <2>1. pc \in Searching /\ pc' = "block_sketch" /\ UNCHANGED <<local, R>>
    BY <1>8 DEF TailDeclines, Searching
  <2>2. Kept
    BY <1>8, SourceRowsKeep, ScansKeep, Unchanged DEF TailDeclines, Kept
  <2>3. pc' \in Searching /\ Grounded'
    BY <2>1, <2>2 DEF RouterInv, Grounded, Kept, outside, local, Searching
  <2> QED BY <2>1, <2>2, <2>3, LocalsKept, SearchPreserves
<1>9. CASE TailAnswers
  BY <1>9, TailPreserves
<1>10. CASE BlockProofRowsFail
  <2>1. pc \in Searching /\ Kept /\ Give(Undecided(pre))
    BY <1>10, StarvedKeeps, Unchanged DEF BlockProofRowsFail, Searching, Kept, tls
  <2> QED BY <1>0, <2>1, UndecidedIsFair, GivePreserves DEF Fair
<1>11. CASE BlockInsert
  <2>1. PICK c \in pre..N : Checked(c, 1)
    BY <1>11 DEF BlockInsert
  <2>2. pc \in Searching /\ c \in 0..N /\ 1 \in 0..MaxRounds + 1
    BY <1>0, <1>11 DEF BlockInsert, Searching, MaxRounds
  <2> QED BY <1>11, <2>1, <2>2, CheckedPreserves DEF BlockInsert
<1>12. CASE BlockInsertGrey
  <2>1. MemoryKept
    BY <1>12 DEF BlockInsertGrey, MemoryKept, RouterInv, TypeOK
  <2>2. /\ pc \in Searching /\ pc' = "block_core" /\ Kept /\ UNCHANGED R
        /\ Locals("block", "none", 0)
    BY <1>12, <2>1, Unchanged DEF BlockInsertGrey, Searching, Kept, tls, Enter
  <2>3. LocalTypes'
    BY <1>0, <2>2, FreshLocals
  <2>4. pc' \in Searching /\ Grounded'
    BY <2>2, SystemTyped DEF Grounded, Kept, outside, Locals, Searching
  <2> QED BY <2>2, <2>3, <2>4, SearchPreserves
<1>13. CASE BlockScanned
  <2>1. pc \in Searching /\ Kept /\ UNCHANGED <<local, R>>
    BY <1>13, ScansKeep, Unchanged DEF BlockScanned, Searching, Kept
  <2>2. pc' \in {"proof", "round"} /\ (pc' = "proof" => sys.cons)
    BY <1>13 DEF BlockScanned, ScanPasses
  <2>3. pc' \in Searching /\ Grounded'
    BY <2>1, <2>2 DEF RouterInv, Grounded, Kept, outside, local, Searching
  <2> QED BY <2>1, <2>3, LocalsKept, SearchPreserves
<1>14. CASE BlockProved
  <2>1. pc \in Searching /\ Kept /\ cand <= sys.rank /\ Give(Accepted(cand, "insertion"))
    BY <1>14, Unchanged DEF BlockProved, Searching, Kept
  <2>2. sys.cons
    BY <1>14 DEF BlockProved, RouterInv, Grounded
  <2> QED BY <1>0, <2>1, <2>2, AcceptedIsFair, GivePreserves DEF Fair
<1>15. CASE BlockUnproved
  <2>1. MemoryKept
    BY <1>15 DEF BlockUnproved, MemoryKept, RouterInv, TypeOK
  <2>2. pc \in Searching /\ Kept /\ UNCHANGED R /\ AskQrcp("reset", 0)
    BY <1>15, <2>1, Unchanged DEF BlockUnproved, Searching, Kept
  <2> QED BY <1>0, <2>2, AskPreserves
<1>16. CASE BlockRoundsSpent
  <2>1. pc \in Searching /\ Kept /\ UNCHANGED R /\ StartAgain
    BY <1>16, Unchanged DEF BlockRoundsSpent, Searching, Kept, tls
  <2> QED BY <2>1, AgainPreserves
<1>17. CASE BlockRoundFull
  <2>1. pc \in Searching /\ Kept /\ UNCHANGED R
    BY <1>17, ScansKeep, Unchanged DEF BlockRoundFull, Searching, Kept
  <2>2. CASE StartAgain
    BY <2>1, <2>2, AgainPreserves
  <2>3. CASE ScanPasses("insertion") /\ pc' = "proof" /\ UNCHANGED local
    <3>1. pc' \in Searching /\ Grounded'
      BY <2>1, <2>3 DEF ScanPasses, RouterInv, Grounded, Kept, outside, local, Searching
    <3> QED BY <2>1, <2>3, <3>1, LocalsKept, SearchPreserves
  <2> QED BY <1>17, <2>2, <2>3 DEF BlockRoundFull
<1>18. CASE BlockRoundFails
  <2>1. pc \in Searching /\ Kept /\ UNCHANGED R /\ StartAgain
    BY <1>18, StarvedKeeps, Unchanged DEF BlockRoundFails, Searching, Kept, tls
  <2> QED BY <2>1, AgainPreserves
<1>19. CASE BlockRound
  <2>1. PICK c \in cand..N : Checked(c, round + 1)
    BY <1>19 DEF BlockRound
  <2>2. pc \in Searching /\ c \in 0..N /\ round + 1 \in 0..MaxRounds + 1
    BY <1>0, <1>19 DEF BlockRound, Searching, MaxRounds
  <2> QED BY <1>19, <2>1, <2>2, CheckedPreserves DEF BlockRound
<1>20. CASE BlockCore
  BY <1>20, BlockCorePreserves
<1>21. CASE BlockCoreDoubted
  <2>1. pc \in Searching /\ Kept /\ Give(Undecided(floor))
    BY <1>21, Unchanged DEF BlockCoreDoubted, Searching, Kept, tls
  <2> QED BY <1>0, <2>1, UndecidedIsFair, GivePreserves DEF Fair
<1>22. CASE BlockCoreAccepted
  <2>1. pc \in Searching /\ Kept /\ sys.cons /\ Give(Accepted(cand, "core"))
    BY <1>22, ScansKeep, Unchanged DEF BlockCoreAccepted, Searching, Kept
  <2>2. cand <= sys.rank
    BY <1>22 DEF BlockCoreAccepted, RouterInv, Grounded
  <2> QED BY <1>0, <2>1, <2>2, AcceptedIsFair, GivePreserves DEF Fair
<1>23. CASE BlockCoreRejected
  <2>1. pc \in Searching /\ Kept /\ UNCHANGED R /\ StartAgain
    BY <1>23, ScansKeep, Unchanged DEF BlockCoreRejected, Searching, Kept
  <2> QED BY <2>1, AgainPreserves
<1> QED BY <1>1, <1>2, <1>3, <1>4, <1>5, <1>6, <1>7, <1>8, <1>9, <1>10, <1>11, <1>12,
     <1>13, <1>14, <1>15, <1>16, <1>17, <1>18, <1>19, <1>20, <1>21, <1>22, <1>23
     DEF BlockRoute

\* The reset.
LEMMA ResetPreserves ==
  ASSUME RouterInv, Reset
  PROVE  RouterInv'
<1>1. CASE ResetFails
  BY <1>1, ShortagePreserves DEF ResetFails
<1>2. CASE ResetRefutes
  <2>1. PICK r \in 0..sys.rank : Give(Result("INCONSISTENT", r, FALSE, "reset"))
    BY <1>2 DEF ResetRefutes
  <2>2. r \in 0..N /\ ~sys.cons /\ pc = "reset"
    BY <1>2, SystemTyped DEF ResetRefutes
  <2>3. Kept
    BY <1>2, SourceRowsKeep, Unchanged DEF ResetRefutes, Kept
  <2> QED BY <2>1, <2>2, <2>3, RefutedIsFair, GivePreserves DEF Fair
<1>3. CASE ResetResolves
  <2>1. /\ pc = "reset"
        /\ sys.cons \/ sys.rank = N
        /\ Give(Result(Full(sys.rank), sys.rank, FALSE, "reset"))
    BY <1>3 DEF ResetResolves
  <2>2. Kept
    BY <1>3, SourceRowsKeep, Unchanged DEF ResetResolves, Kept
  <2>3. LET res == Result(Full(sys.rank), sys.rank, FALSE, "reset")
        IN  Fair(res) /\ res.by = "reset" /\ res.cls # "FAIL"
    <3>1. sys.rank \in 0..N
      BY SystemTyped
    <3>2. CASE sys.rank = N
      BY <3>1, <3>2 DEF Fair, Means, ResultType, Full, Result
    <3>3. CASE sys.rank # N
      BY <2>1, <3>1, <3>3 DEF Fair, Means, ResultType, Full, Result
    <3> QED BY <3>2, <3>3
  <2> QED BY <2>1, <2>2, <2>3, GivePreserves DEF Fair
<1>4. CASE ResetGrey
  <2>1. PICK r \in 0..sys.rank : Give(Undecided(r)) /\ src' = [lo |-> r, hi |-> N]
    BY <1>4 DEF ResetGrey
  <2>2. r \in 0..N /\ pc = "reset" /\ sys.rank \in 0..N
    BY <1>4, SystemTyped DEF ResetGrey
  <2>3. SrcKept
    BY <2>1, <2>2 DEF SrcKept, Intervals
  <2>4. Kept
    BY <1>4, <2>3, SourceRowsKeep, Unchanged DEF ResetGrey, Kept
  <2> QED BY <2>1, <2>2, <2>4, UndecidedIsFair, GivePreserves DEF Fair
<1> QED BY <1>1, <1>2, <1>3, <1>4 DEF Reset
-----------------------------------------------------------------------------
(***************************************************************************)
(* source_qrcp_trusted and what solve_router does with a result.           *)
(***************************************************************************)

\* The parts that no place claims: fresh locals and an ordered environment.
LEMMA SettledTypes ==
  ASSUME RouterInv, pc' \in Locations, LocalTypes', UNCHANGED sys, BerrKept, SrcKept,
         MemoryKept, grey' \in BOOLEAN, coreSeen' \in BOOLEAN, calls' \in Nat,
         R' \in ResultType, interval' \in Intervals
  PROVE  TypeOK' /\ Measured'
BY DEF RouterInv, TypeOK, LocalTypes, ResultType, BerrKept, BerrType, SrcKept, MemoryKept,
   Measured

\* The answer of the source QRCP, to a route or to the arbitration.
LEMMA QrcpAnswerPreserves ==
  ASSUME RouterInv, pc = "qrcp", Asked, NEW r \in ResultType, QrcpAnswers(r), Means(r),
         BerrKept, SrcKept, src'.lo >= 0, MemoryKept, coreSeen' \in BOOLEAN,
         grey' \in BOOLEAN, r.by = "qrcp", r.cls # "FAIL",
         r.cls = "INCONSISTENT" => r.rank = sys.rank
  PROVE  RouterInv'
<1>1. /\ pc' \in {"gate", "routed"} /\ R' = r
      /\ Locals("none", "none", 0)
  BY DEF QrcpAnswers, NoLocals, Enter
<1>2. /\ sys' = sys /\ interval' = interval /\ calls' = calls + 1
      /\ calls \in Nat /\ calls <= 1
      /\ caller \in {"formation", "reset"} => calls = 0
  BY DEF Asked, RouterInv, TypeOK, Asking
<1>3. caller \in {"arbitrate", "quality"} \/ caller \in {"formation", "reset"}
  BY DEF RouterInv, TypeOK, Asking
<1>4. pc' = "routed" => calls' <= 1
  BY <1>2, <1>3 DEF QrcpAnswers
<1>5. LocalTypes' /\ pre' = 0
  <2>1. 0 \in 0..N /\ "none" \in Routes /\ "none" \in Callers
    OBVIOUS
  <2>2. LocalTypes'
    BY <1>1, <2>1, FreshLocals
  <2> QED BY <1>1, <2>2 DEF Locals
<1>6. TypeOK' /\ Measured'
  <2>1. pc' \in Locations /\ calls' \in Nat /\ interval' \in Intervals
    BY <1>1, <1>2 DEF RouterInv, TypeOK, Locations
  <2> QED BY <1>1, <1>2, <1>5, <2>1, SettledTypes
<1>7. Grounded'
  BY <1>1, <1>2, <1>5, SystemTyped DEF Grounded
<1>8. Sound'
  BY <1>1, <1>2 DEF Sound, Means
<1>9. Asking'
  BY <1>1, <1>2, <1>4 DEF Asking, Searching
<1>10. Owned' /\ IntervalSound'
  BY <1>1, <1>2 DEF Owned, IntervalSound, Answered
<1> QED BY <1>6, <1>7, <1>8, <1>9, <1>10 DEF RouterInv

\* The source QRCP without memory.
LEMMA QrcpFailsPreserves ==
  ASSUME RouterInv, QrcpFails
  PROVE  RouterInv'
<1>1. /\ pc = "qrcp" /\ calls' = calls + 1 /\ calls \in Nat /\ calls <= 1
      /\ sys' = sys /\ interval' = interval
      /\ caller \in {"formation", "reset", "arbitrate", "quality"}
      /\ caller \in {"formation", "reset"} => calls = 0
  BY DEF QrcpFails, Asked, RouterInv, TypeOK, Asking
<1>2. /\ pc' \in {"routed", "reset", "answer", "gate"}
      /\ pc' = "answer" => caller = "arbitrate"
      /\ pc' \in {"routed", "reset"} => caller \in {"formation", "reset"}
  BY <1>1 DEF QrcpFails
<1>3. MemoryKept /\ "qrcp" \in failed'
  BY DEF QrcpFails, Starved, MemoryKept, RouterInv, TypeOK
<1>4. R' = R \/ R' = Undecided(floor)
  BY DEF QrcpFails
<1>5. LocalTypes' /\ pre' = 0
  <2>1. Locals("none", "none", 0) /\ 0 \in 0..N /\ "none" \in Routes /\ "none" \in Callers
    BY DEF QrcpFails, NoLocals, Enter
  <2>2. LocalTypes'
    BY <2>1, FreshLocals
  <2> QED BY <2>1, <2>2 DEF Locals
<1>6. SrcKept
  <2>1. CASE src' = src
    BY <2>1, Unchanged
  <2>2. CASE src' = [lo |-> sys.rank, hi |-> sys.rank]
    BY <2>2, SystemTyped DEF SrcKept, Intervals
  <2> QED BY <2>1, <2>2 DEF QrcpFails
<1>7. floor \in 0..N /\ R \in ResultType
  BY DEF RouterInv, TypeOK, ResultType
<1>8. TypeOK' /\ Measured'
  <2>1. pc' \in Locations /\ calls' \in Nat /\ interval' \in Intervals
    BY <1>1, <1>2 DEF RouterInv, TypeOK, Locations
  <2>2. R' \in ResultType
    BY <1>4, <1>7, UndecidedIsFair DEF Fair
  <2>3. BerrKept /\ grey' \in BOOLEAN /\ coreSeen' \in BOOLEAN
    BY Unchanged DEF QrcpFails
  <2> QED BY <1>1, <1>3, <1>5, <1>6, <2>1, <2>2, <2>3, SettledTypes
<1>9. Grounded'
  BY <1>1, <1>2, <1>5, SystemTyped DEF Grounded
<1>10. Sound'
  <2>1. CASE R' = R
    BY <2>1, <1>1, <1>3 DEF RouterInv, Sound
  <2>2. CASE R' = Undecided(floor)
    BY <2>2 DEF Undecided, Result, Sound
  <2> QED BY <1>4, <2>1, <2>2
<1>11. Asking'
  BY <1>1, <1>2 DEF Asking, Searching
<1>12. Owned'
  <2>1. CASE R' = Undecided(floor)
    BY <2>1, <1>2, <1>3 DEF Undecided, Result, Owned
  <2>2. CASE R' = R
    BY <2>2, <1>1, <1>2, <1>3, <1>6 DEF RouterInv, Owned, SrcKept
  <2> QED BY <1>4, <2>1, <2>2
<1>13. IntervalSound'
  BY <1>2 DEF IntervalSound, Answered
<1> QED BY <1>8, <1>9, <1>10, <1>11, <1>12, <1>13 DEF RouterInv

\* The source QRCP.
LEMMA QrcpPreserves ==
  ASSUME RouterInv, Qrcp
  PROVE  RouterInv'
<1>1. CASE QrcpFails
  BY <1>1, QrcpFailsPreserves
<1>2. CASE QrcpUndecided
  <2>1. PICK lo \in 0..sys.rank, hi \in sys.rank..sys.cap :
           /\ src' = [lo |-> lo, hi |-> hi]
           /\ QrcpAnswers(Result("UNDECIDABLE", lo, FALSE, "qrcp"))
    BY <1>2 DEF QrcpUndecided
  <2>2. /\ sys.rank \in 0..N /\ sys.cap \in 0..N /\ lo \in 0..N /\ hi \in 0..N
        /\ lo <= sys.rank /\ sys.rank <= hi
    BY SystemTyped
  <2>3. SrcKept /\ src'.lo >= 0
    BY <2>1, <2>2 DEF SrcKept, Intervals
  <2>4. BerrKept /\ MemoryKept /\ grey' \in BOOLEAN /\ coreSeen' \in BOOLEAN
    BY <1>2, Unchanged DEF QrcpUndecided
  <2>5. LET res == Result("UNDECIDABLE", lo, FALSE, "qrcp")
        IN  Fair(res) /\ res.by = "qrcp" /\ res.cls = "UNDECIDABLE"
    BY <2>2 DEF Fair, Means, ResultType, Result
  <2> QED BY <1>2, <2>1, <2>3, <2>4, <2>5, QrcpAnswerPreserves DEF QrcpUndecided, Fair
<1>3. CASE QrcpResolves
  <2>1. SrcKept /\ src'.lo >= 0
    BY <1>3, SystemTyped DEF QrcpResolves, SrcKept, Intervals
  <2>2. BerrKept /\ MemoryKept /\ grey' \in BOOLEAN /\ coreSeen' \in BOOLEAN
    BY <1>3, ScansKeep, Unchanged DEF QrcpResolves
  <2>3. LET res == Decided(sys.rank, "qrcp")
        IN  Fair(res) /\ res.by = "qrcp" /\ res.cls # "FAIL" /\ res.rank = sys.rank
    BY DecidedIsFair DEF Decided, Result
  <2> QED BY <1>3, <2>1, <2>2, <2>3, QrcpAnswerPreserves DEF QrcpResolves, Fair
<1> QED BY <1>1, <1>2, <1>3 DEF Qrcp
\* What the arbitration never touches, its own scan and shortage apart.
LEMMA RestOrdered ==
  ASSUME RouterInv
  PROVE  /\ R \in ResultType /\ calls \in Nat /\ interval \in Intervals
         /\ UNCHANGED <<tls, failed>> =>
              /\ BerrKept /\ SrcKept /\ MemoryKept
              /\ grey' \in BOOLEAN /\ coreSeen' \in BOOLEAN
BY Unchanged DEF RouterInv, TypeOK, ResultType, tls

\* The arbitration asks the source QRCP.
LEMMA ArbitrationAsks ==
  ASSUME RouterInv, pc \in {"routed", "sampled"}, UNCHANGED <<outside, R, failed>>,
         BerrKept, SrcKept, MemoryKept, grey' \in BOOLEAN, coreSeen' \in BOOLEAN,
         NEW who \in {"arbitrate", "quality"}, AskQrcp(who, 0),
         who = "arbitrate" => R.cls # "UNIQUE"
  PROVE  RouterInv'
<1>1. pc' = "qrcp" /\ Locals("none", who, 0) /\ 0 \in 0..N
  BY DEF AskQrcp
<1>2. /\ sys' = sys /\ interval' = interval /\ calls' = calls /\ calls \in Nat /\ calls <= 1
      /\ R' = R /\ failed' = failed
  BY DEF outside, RouterInv, TypeOK, Asking
<1>3. LocalTypes' /\ pre' = 0 /\ caller' = who
  <2>1. "none" \in Routes /\ who \in Callers
    OBVIOUS
  <2>2. LocalTypes'
    BY <1>1, <2>1, FreshLocals
  <2> QED BY <1>1, <2>2 DEF Locals
<1>4. TypeOK' /\ Measured'
  <2>1. pc' \in Locations
    BY <1>1 DEF Locations
  <2> QED BY <1>2, <1>3, <2>1, RestOrdered, SettledTypes
<1>5. Grounded'
  BY <1>1, <1>2, <1>3, SystemTyped DEF Grounded
<1>6. Sound'
  BY <1>2 DEF RouterInv, Sound
<1>7. Asking' /\ IntervalSound'
  BY <1>1, <1>2, <1>3 DEF Asking, Searching, IntervalSound, Answered
<1>8. Owned'
  BY <1>1, <1>2, <1>3 DEF RouterInv, Owned, SrcKept
<1> QED BY <1>4, <1>5, <1>6, <1>7, <1>8 DEF RouterInv

\* The choice between arbitration, repair of the quality and answer.
LEMMA RoutedPreserves ==
  ASSUME RouterInv, Routed
  PROVE  RouterInv'
<1>1. /\ pc = "routed" /\ UNCHANGED <<tls, failed>> /\ UNCHANGED outside
      /\ sys' = sys /\ interval' = interval /\ calls' = calls /\ calls \in Nat /\ calls <= 1
      /\ R' = R /\ failed' = failed /\ berr' = berr /\ src' = src
  BY DEF Routed, outside, tls, RouterInv, TypeOK, Asking
<1>2. CASE AskQrcp("quality", 0)
  BY <1>1, <1>2, RestOrdered, ArbitrationAsks
<1>3. CASE /\ pc' \in {"sampled", "answer"} /\ NoLocals
           /\ pc' = "sampled" => NeedsArbitration
           /\ pc' = "answer" => ~NeedsArbitration /\ (R.cls = "UNIQUE" => ~Uncertified)
  <2>1. LocalTypes' /\ pre' = 0
    <3>1. Locals("none", "none", 0) /\ 0 \in 0..N /\ "none" \in Routes /\ "none" \in Callers
      BY <1>3 DEF NoLocals, Enter
    <3>2. LocalTypes'
      BY <3>1, FreshLocals
    <3> QED BY <3>1, <3>2 DEF Locals
  <2>2. TypeOK' /\ Measured'
    <3>1. pc' \in Locations
      BY <1>3 DEF Locations
    <3> QED BY <1>1, <2>1, <3>1, RestOrdered, SettledTypes
  <2>3. Grounded'
    BY <1>1, <1>3, <2>1, SystemTyped DEF Grounded
  <2>4. Sound'
    BY <1>1 DEF RouterInv, Sound
  <2>5. Asking' /\ IntervalSound'
    BY <1>1, <1>3 DEF Asking, Searching, IntervalSound, Answered
  <2>6. Owned'
    BY <1>1, <1>3 DEF RouterInv, Owned, NeedsArbitration, Uncertified
  <2> QED BY <2>2, <2>3, <2>4, <2>5, <2>6 DEF RouterInv
<1> QED BY <1>2, <1>3 DEF Routed

\* The sampled rows.
LEMMA SampledPreserves ==
  ASSUME RouterInv, SampledFails \/ SampledDeclines \/ SampledAnswers
  PROVE  RouterInv'
<1>0. /\ pc = "sampled" /\ UNCHANGED outside /\ R.cls # "UNIQUE"
      /\ sys' = sys /\ interval' = interval /\ calls' = calls /\ calls \in Nat /\ calls <= 1
      /\ pre \in 0..N /\ pre <= sys.rank
  BY DEF SampledFails, SampledDeclines, SampledAnswers, outside, RouterInv, TypeOK, Asking,
     Owned, Grounded
<1>1. CASE SampledFails
  <2>1. R' = BS_FAIL_RESULT /\ pc' = "answer" /\ UNCHANGED local
    BY <1>1 DEF SampledFails
  <2>2. /\ BerrKept /\ SrcKept /\ MemoryKept /\ failed' # {}
        /\ grey' \in BOOLEAN /\ coreSeen' \in BOOLEAN
    BY <1>1, StarvedKeeps, Unchanged DEF SampledFails, tls
  <2>3. TypeOK' /\ Measured'
    <3>1. pc' \in Locations /\ R' \in ResultType
      BY <2>1, FailureIsFair DEF Locations, Fair
    <3> QED BY <1>0, <2>1, <2>2, <3>1, LocalsKept, RestOrdered, SettledTypes
  <2>4. Grounded'
    BY <1>0, <2>1 DEF Grounded, local
  <2>5. Sound' /\ Owned'
    BY <2>1, <2>2 DEF Sound, Owned, BS_FAIL_RESULT, Result
  <2>6. Asking' /\ IntervalSound'
    BY <1>0, <2>1 DEF Asking, Searching, IntervalSound, Answered
  <2> QED BY <2>3, <2>4, <2>5, <2>6 DEF RouterInv
<1>2. CASE SampledDeclines
  <2>1. UNCHANGED <<R, failed>> /\ UNCHANGED <<tls, failed>> /\ AskQrcp("arbitrate", 0)
    BY <1>2 DEF SampledDeclines
  <2> QED BY <1>0, <2>1, RestOrdered, ArbitrationAsks
<1>3. CASE SampledAnswers
  <2>1. sys.rank = N /\ failed' = failed /\ src' = src
    BY <1>3 DEF SampledAnswers
  <2>2. /\ BerrKept /\ SrcKept /\ MemoryKept
        /\ grey' \in BOOLEAN /\ coreSeen' \in BOOLEAN
    BY <1>3, ScansKeep, Unchanged DEF SampledAnswers
  <2>3. CASE AskQrcp("arbitrate", 0) /\ UNCHANGED R
    BY <1>0, <2>1, <2>2, <2>3, ArbitrationAsks
  <2>4. CASE /\ ~(sys.cons /\ ~berr'.good)
             /\ R' = Decided(N, "sampled") /\ pc' = "answer" /\ NoLocals
    <3>1. LocalTypes' /\ pre' = 0
      <4>1. Locals("none", "none", 0) /\ 0 \in 0..N /\ "none" \in Routes /\ "none" \in Callers
        BY <2>4 DEF NoLocals, Enter
      <4>2. LocalTypes'
        BY <4>1, FreshLocals
      <4> QED BY <4>1, <4>2 DEF Locals
    <3>2. TypeOK' /\ Measured'
      <4>1. pc' \in Locations /\ R' \in ResultType
        BY <2>1, <2>4, DecidedIsFair DEF Locations, Fair
      <4> QED BY <1>0, <2>2, <3>1, <4>1, RestOrdered, SettledTypes
    <3>3. Grounded'
      BY <1>0, <2>4, <3>1, SystemTyped DEF Grounded
    <3>4. Sound'
      <4>1. Fair(R') /\ R'.cls # "FAIL"
        BY <2>1, <2>4, DecidedIsFair
      <4> QED BY <1>0, <4>1 DEF Fair, Means, Sound
    <3>5. Owned'
      <4>1. /\ R'.by = "sampled" /\ R'.rank = N
            /\ R'.cls = IF sys.cons THEN "UNIQUE" ELSE "INCONSISTENT"
        BY <2>4 DEF Decided, Full, Result
      <4>2. R'.cls = "UNIQUE" => berr'.valid /\ berr'.good
        BY <2>2, <2>4, <4>1 DEF BerrKept
      <4> QED BY <1>0, <2>1, <2>4, <4>1, <4>2 DEF Owned
    <3>6. Asking' /\ IntervalSound'
      BY <1>0, <2>4 DEF Asking, Searching, IntervalSound, Answered
    <3> QED BY <3>2, <3>3, <3>4, <3>5, <3>6 DEF RouterInv
  <2> QED BY <1>3, <2>3, <2>4 DEF SampledAnswers
<1> QED BY <1>1, <1>2, <1>3

\* The quality gate.
LEMMA GatePreserves ==
  ASSUME RouterInv, QualityGate
  PROVE  RouterInv'
<1>1. /\ pc = "gate" /\ pc' = "answer" /\ UNCHANGED local /\ UNCHANGED <<tls, failed>>
      /\ sys' = sys /\ interval' = interval /\ calls' = calls /\ calls \in Nat /\ calls <= 2
      /\ failed' = failed /\ berr' = berr /\ src' = src /\ pre' = pre /\ pre <= sys.rank
  BY DEF QualityGate, outside, local, tls, RouterInv, TypeOK, Asking, Grounded
<1>2. \/ R.cls # "UNIQUE" \/ ~Uncertified
      \/ R' = Result("UNDECIDABLE", R.rank, FALSE, R.by)
  BY DEF QualityGate
<1>3. R' = R \/ R' = Result("UNDECIDABLE", R.rank, FALSE, R.by)
  BY DEF QualityGate
<1>4. R \in ResultType /\ (R.by = "qrcp" \/ "qrcp" \in failed)
  BY <1>1, RestOrdered DEF RouterInv, Owned
<1>5. TypeOK' /\ Measured'
  <2>1. R' \in ResultType
    <3>1. R.rank \in 0..N /\ R.by \in Makers
      BY <1>4 DEF ResultType
    <3>2. Result("UNDECIDABLE", R.rank, FALSE, R.by) \in ResultType
      BY <3>1 DEF ResultType, Result
    <3> QED BY <3>2, <1>3, <1>4
  <2>2. pc' \in Locations
    BY <1>1 DEF Locations
  <2> QED BY <1>1, <2>1, <2>2, LocalsKept, RestOrdered, SettledTypes
<1>6. Grounded' /\ Asking' /\ IntervalSound'
  BY <1>1 DEF Grounded, Asking, Searching, IntervalSound, Answered
<1>7. CASE R' = R
  <2>1. Sound'
    BY <1>1, <1>7 DEF RouterInv, Sound
  <2>2. R.cls = "UNIQUE" => ~Uncertified
    BY <1>2, <1>7 DEF Result
  <2>3. Owned'
    BY <1>1, <1>4, <1>7, <2>2 DEF RouterInv, Owned, Uncertified
  <2> QED BY <1>5, <1>6, <2>1, <2>3 DEF RouterInv
<1>8. CASE R.cls = "UNIQUE" /\ R' = Result("UNDECIDABLE", R.rank, FALSE, R.by)
  <2>1. R'.cls = "UNDECIDABLE" /\ R'.random = FALSE /\ R'.by = R.by
    BY <1>8 DEF Result
  <2>2. Sound'
    BY <2>1 DEF Sound
  <2>3. Owned'
    BY <1>1, <1>4, <2>1 DEF RouterInv, Owned
  <2> QED BY <1>5, <1>6, <2>2, <2>3 DEF RouterInv
<1> QED BY <1>2, <1>3, <1>7, <1>8 DEF QualityGate

\* The interval of the answer encloses the rank of the source.
LEMMA AnswerPreserves ==
  ASSUME RouterInv, Answer
  PROVE  RouterInv'
<1>1. /\ pc = "answer" /\ pc' = "idle" /\ UNCHANGED local /\ UNCHANGED <<tls, failed>>
      /\ sys' = sys /\ calls' = calls /\ calls \in Nat /\ calls <= 2 /\ R' = R
      /\ failed' = failed /\ berr' = berr /\ src' = src /\ pre' = pre /\ pre <= sys.rank
      /\ interval' \in MetaIntervals
  BY DEF Answer, local, tls, RouterInv, TypeOK, Asking, Grounded
<1>2. /\ R \in ResultType /\ R.rank \in 0..N /\ src \in Intervals
      /\ sys.rank \in 0..N /\ sys.cap \in 0..N /\ sys.rank <= sys.cap
  BY SystemTyped, RestOrdered DEF RouterInv, TypeOK, ResultType
<1>3. TypeOK' /\ Measured'
  <2>1. interval' \in Intervals
    <3>1. CASE interval' = src
      BY <1>2, <3>1
    <3>2. CASE \E a, b \in 0..N : interval' = [lo |-> a, hi |-> b]
      BY <3>2 DEF Intervals
    <3> QED BY <1>1, <1>2, <3>1, <3>2 DEF MetaIntervals
  <2>2. pc' \in Locations
    BY <1>1 DEF Locations
  <2> QED BY <1>1, <1>2, <2>1, <2>2, LocalsKept, RestOrdered, SettledTypes
<1>4. Grounded' /\ Asking'
  BY <1>1 DEF Grounded, Asking, Searching
<1>5. Sound' /\ Owned'
  BY <1>1 DEF RouterInv, Sound, Owned
<1>6. IntervalSound'
  <2>1. SUFFICES ASSUME R.cls \notin {"FAIL", "none"}, "qrcp" \notin failed
                 PROVE  sys.rank \in interval'.lo..interval'.hi
    BY <1>1 DEF IntervalSound, Answered
  <2>2. CASE R.cls = "UNDECIDABLE"
    <3>1. src.lo >= 0 /\ src.lo <= sys.rank /\ sys.rank <= src.hi
      BY <1>1, <2>1, <2>2 DEF RouterInv, Owned, Measured
    <3>2. interval' = src
      BY <1>1, <2>2, <3>1 DEF MetaIntervals
    <3> QED BY <1>2, <3>1, <3>2 DEF Intervals
  <2>3. CASE R.random
    <3>1. R.cls = "INFINITE" /\ R.rank <= sys.rank
      BY <2>3 DEF RouterInv, Sound
    <3>2. interval' = [lo |-> R.rank, hi |-> sys.cap]
      BY <1>1, <2>3, <3>1 DEF MetaIntervals
    <3> QED BY <1>2, <3>1, <3>2
  <2>4. CASE R.cls # "UNDECIDABLE" /\ ~R.random
    <3>1. R.rank = sys.rank
      <4>1. R.cls \in {"UNIQUE", "INFINITE", "INCONSISTENT"}
        BY <1>2, <2>1, <2>4 DEF ResultType
      <4> QED BY <1>1, <2>1, <2>4, <4>1 DEF RouterInv, Sound, Owned
    <3>2. interval' = [lo |-> R.rank, hi |-> R.rank]
      BY <1>1, <2>4 DEF MetaIntervals
    <3> QED BY <1>2, <3>1, <3>2
  <2> QED BY <2>2, <2>3, <2>4
<1> QED BY <1>3, <1>4, <1>5, <1>6 DEF RouterInv

\* A call starts from nothing: no certificate, no interval, no result.
Started ==
  /\ pc \in {"idle", "auto", "probe"}
  /\ sys \in Systems
  /\ LocalTypes /\ pre = 0
  /\ grey = FALSE /\ berr = NoBerr /\ src = NoInterval /\ coreSeen = FALSE
  /\ R = NoResult /\ interval = NoInterval /\ failed = {} /\ calls = 0

\* A call that has just started satisfies the invariant.
LEMMA StartedIsFine == Started => RouterInv
<1> SUFFICES ASSUME Started PROVE RouterInv
  OBVIOUS
<1>1. /\ R.cls = "none" /\ R.random = FALSE /\ R.by = "none" /\ R \in ResultType
  <2>1. 0 \in 0..N
    OBVIOUS
  <2> QED BY <2>1 DEF Started, NoResult, Result, ResultType
<1>2. /\ berr.good = FALSE /\ src.lo = -1 /\ berr \in BerrType
      /\ src \in Intervals /\ interval \in Intervals
  BY DEF Started, NoBerr, NoInterval, Intervals, BerrType
<1>3. TypeOK
  BY <1>1, <1>2 DEF Started, TypeOK, LocalTypes, ResultType, BerrType, Locations
<1>4. Grounded /\ Measured
  BY <1>2, SystemFacts DEF Started, Grounded, Measured
<1>5. Sound /\ Owned
  BY <1>1 DEF Started, Sound, Owned
<1>6. Asking /\ IntervalSound
  BY <1>1 DEF Started, Asking, IntervalSound, Answered
<1> QED BY <1>3, <1>4, <1>5, <1>6 DEF RouterInv

\* A call starts afresh, whatever the one before it left.
LEMMA CallPreserves ==
  ASSUME RouterInv, Call
  PROVE  RouterInv'
<1>1. Locals("auto", "none", 0) /\ 0 \in 0..N /\ "auto" \in Routes /\ "none" \in Callers
  BY DEF Call, Enter
<1>2. LocalTypes'
  BY <1>1, FreshLocals
<1>3. Started'
  BY <1>1, <1>2 DEF Started, Call, Locals
<1> QED BY <1>3, StartedIsFine, PTL

\* Before the first call there is no result.
LEMMA InitEstablishes == Init => RouterInv
<1>1. Init => LocalTypes
  <2>1. 0 \in 0..N /\ 0 \in 0..MaxRounds + 1
    BY DEF MaxRounds
  <2>2. Init => route \in Routes /\ caller \in Callers /\ rr \in Residuals /\ doubt \in BOOLEAN
    BY DEF Init
  <2>3. Init => pre = 0 /\ cand = 0 /\ floor = 0 /\ round = 0
    BY DEF Init
  <2> QED BY <2>1, <2>2, <2>3 DEF LocalTypes
<1>2. Init => Started
  BY <1>1 DEF Init, Started
<1> QED BY <1>2, StartedIsFine

-----------------------------------------------------------------------------
(***************************************************************************)
(* The theorems.                                                           *)
(***************************************************************************)

\* In every state of every sequence of calls the results of a call under way
\* mean what Sound says, and what the routes rely on holds where they do.
THEOREM RouterInvariant == Spec => []RouterInv
<1>1. RouterInv /\ [Next]_vars => RouterInv'
  <2> SUFFICES ASSUME RouterInv, [Next]_vars
               PROVE  RouterInv'
    OBVIOUS
  <2>1. CASE Call
    BY <2>1, CallPreserves
  <2>2. CASE Choose
    BY <2>2, ChoosePreserves
  <2>3. CASE AutoRoute
    BY <2>3, AutoPreserves
  <2>4. CASE GlobalRoute
    BY <2>4, GlobalPreserves
  <2>5. CASE Core
    BY <2>5, CorePreserves
  <2>6. CASE BlockRoute
    BY <2>6, BlockPreserves
  <2>7. CASE Reset
    BY <2>7, ResetPreserves
  <2>8. CASE Qrcp
    BY <2>8, QrcpPreserves
  <2>9. CASE Arbitrate
    BY <2>9, RoutedPreserves, SampledPreserves, GatePreserves, AnswerPreserves DEF Arbitrate
  <2>10. CASE UNCHANGED vars
    BY <2>10 DEF vars, RouterInv, TypeOK, Grounded, Measured, Sound, Asking, Owned,
       IntervalSound, Answered
  <2> QED BY <2>1, <2>2, <2>3, <2>4, <2>5, <2>6, <2>7, <2>8, <2>9, <2>10 DEF Next, Step
<1> QED BY <1>1, InitEstablishes, PTL DEF Spec

\* The types of the router's state.
THEOREM RouterTypes == Spec => []TypeOK
BY RouterInvariant, PTL DEF RouterInv

\* Whatever route was taken and whatever could not be allocated on it, the
\* class a call returns is true of the source.  (solve_router)
THEOREM RouterVerdicts == Spec => []VerdictSound
<1>1. RouterInv => VerdictSound
  BY DEF RouterInv, Sound, Measured, Owned, VerdictSound, Answered
<1> QED BY <1>1, RouterInvariant, PTL

\* The exported interval encloses the rank of the source unless the class is
\* FAIL or the source arbiter failed.  (bsolve_router_meta_api)
THEOREM RouterIntervals == Spec => []IntervalSound
<1>1. RouterInv => IntervalSound
  BY DEF RouterInv
<1> QED BY <1>1, RouterInvariant, PTL

\* Every UNIQUE has passed the quality gate.  (solve_router)
THEOREM RouterQuality == Spec => []UniqueCarriesQuality
<1>1. RouterInv => UniqueCarriesQuality
  BY DEF RouterInv, Owned, UniqueCarriesQuality, Answered
<1> QED BY <1>1, RouterInvariant, PTL

\* Contradictions and refusals are the source arbitration's, unless it failed.
THEOREM RouterRefusals == Spec => []SourceOwnsRefusals
<1>1. RouterInv => SourceOwnsRefusals
  BY DEF RouterInv, Owned, SourceOwnsRefusals, Answered
<1> QED BY <1>1, RouterInvariant, PTL

\* A FAIL is about resources, never about the data.
THEOREM RouterFailures == Spec => []FailIsAboutResources
<1>1. RouterInv => FailIsAboutResources
  BY DEF RouterInv, Sound, FailIsAboutResources, Answered
<1> QED BY <1>1, RouterInvariant, PTL

\* QRCP of the whole source runs at most twice in a call.
THEOREM RouterQrcpTwice == Spec => []QrcpAtMostTwice
<1>1. RouterInv => QrcpAtMostTwice
  BY DEF RouterInv, Asking, QrcpAtMostTwice
<1> QED BY <1>1, RouterInvariant, PTL

-----------------------------------------------------------------------------
(***************************************************************************)
(* A call comes to an end: each step leaves fewer to take.  With the       *)
(* fairness of FairSpec and without deadlock that is Returns.              *)
(***************************************************************************)
\* How many steps a call may still take, at most: the places of solve_router
\* and its routes from the last to the first, with a scan and a choice for each
\* of the rounds that are left.
StepsLeft ==
  CASE pc = "idle"         -> 0
    [] pc = "answer"       -> 1
    [] pc = "gate"         -> 2
    [] pc = "qrcp"         -> IF caller \in {"arbitrate", "quality"} THEN 3 ELSE 7
    [] pc = "sampled"      -> 4
    [] pc = "routed"       -> 5
    [] pc = "reset"        -> 6
    [] pc \in {"closure", "proof", "block_verify"}  -> 8
    [] pc \in {"formation", "core", "block_core"}   -> 9
    [] pc \in {"auto_core", "global"}               -> 10
    [] pc = "auto"         -> 11
    [] pc = "round"        -> 10 + 2 * (MaxRounds + 1 - round)
    [] pc = "scan"         -> 11 + 2 * (MaxRounds + 1 - round)
    [] pc = "block_sketch" -> 18
    [] pc = "tail"         -> 19
    [] pc = "block_prefix" -> 20
    [] pc = "block"        -> 21
    [] pc = "lu"           -> 22
    [] pc = "probe"        -> 23

\* The places one by one.
Places ==
  /\ pc = "idle" => StepsLeft = 0
  /\ pc = "answer" => StepsLeft = 1
  /\ pc = "gate" => StepsLeft = 2
  /\ pc = "qrcp" => StepsLeft = IF caller \in {"arbitrate", "quality"} THEN 3 ELSE 7
  /\ pc = "sampled" => StepsLeft = 4
  /\ pc = "routed" => StepsLeft = 5
  /\ pc = "reset" => StepsLeft = 6
  /\ pc \in {"closure", "proof", "block_verify"} => StepsLeft = 8
  /\ pc \in {"formation", "core", "block_core"} => StepsLeft = 9
  /\ pc \in {"auto_core", "global"} => StepsLeft = 10
  /\ pc = "auto" => StepsLeft = 11
  /\ pc = "round" => StepsLeft = 10 + 2 * (MaxRounds + 1 - round)
  /\ pc = "scan" => StepsLeft = 11 + 2 * (MaxRounds + 1 - round)
  /\ pc = "block_sketch" => StepsLeft = 18
  /\ pc = "tail" => StepsLeft = 19
  /\ pc = "block_prefix" => StepsLeft = 20
  /\ pc = "block" => StepsLeft = 21
  /\ pc = "lu" => StepsLeft = 22
  /\ pc = "probe" => StepsLeft = 23

\* They are before a step and after it.
LEMMA PlacesAre == Places /\ Places'
<1>1. Places
  BY DEF Places, StepsLeft
<1> QED BY <1>1, PTL

\* Each action leads from its place to one with fewer steps left.
LEMMA StepDescends ==
  ASSUME RouterInv, Step
  PROVE  StepsLeft' < StepsLeft
<1> DEFINE Descends == StepsLeft' < StepsLeft
<1>0. /\ round \in 0..4
      /\ pc = "qrcp" => caller \in {"formation", "reset", "arbitrate", "quality"}
  BY DEF RouterInv, TypeOK, MaxRounds, Asking
<1> USE <1>0, PlacesAre
    DEF Places, MaxRounds, Give, OutOfMemory, AskQrcp, Locals, StartAgain
<1>1. Choose => Descends
  <2>1. ProbeFails => Descends  BY DEF ProbeFails
  <2>2. ProbeRefutes => Descends  BY DEF ProbeRefutes
  <2>3. ProbeGrows => Descends  BY DEF ProbeGrows
  <2>4. ProbeStops => Descends  BY DEF ProbeStops
  <2>5. LuFails => Descends  BY DEF LuFails
  <2>6. LuDeclines => Descends  BY DEF LuDeclines
  <2>7. LuAnswers => Descends  BY DEF LuAnswers
  <2> QED BY <2>1, <2>2, <2>3, <2>4, <2>5, <2>6, <2>7 DEF Choose
<1>2. AutoRoute => Descends
  <2>1. AutoFails => Descends  BY DEF AutoFails
  <2>2. AutoRefutes => Descends  BY DEF AutoRefutes
  <2>3. AutoPrefixFull => Descends  BY DEF AutoPrefixFull
  <2>4. AutoPrefixStops => Descends  BY DEF AutoPrefixStops
  <2>5. AutoCore => Descends  BY DEF AutoCore
  <2>6. AutoCoreLost => Descends
    <3>1. AutoCoreLost => pc = "auto_core" /\ pc' \in {"routed", "core", "formation"}
      BY DEF AutoCoreLost
    <3> QED BY <3>1
  <2> QED BY <2>1, <2>2, <2>3, <2>4, <2>5, <2>6 DEF AutoRoute
<1>3. GlobalRoute => Descends
  <2>1. GlobalFails => Descends  BY DEF GlobalFails
  <2>2. GlobalCore => Descends  BY DEF GlobalCore
  <2>3. GlobalCoreLost => Descends  BY DEF GlobalCoreLost
  <2> QED BY <2>1, <2>2, <2>3 DEF GlobalRoute
<1>4. Core => Descends
  <2>1. Formation => Descends  BY DEF Formation
  <2>2. CoreDoubted => Descends  BY DEF CoreDoubted
  <2>3. CoreLoose => Descends  BY DEF CoreLoose
  <2>4. CoreAccepted => Descends  BY DEF CoreAccepted
  <2>5. CoreRejected => Descends  BY DEF CoreRejected
  <2>6. ClosureHolds => Descends  BY DEF ClosureHolds
  <2>7. ClosureRefutes => Descends  BY DEF ClosureRefutes
  <2>8. ClosureOpen => Descends  BY DEF ClosureOpen
  <2> QED BY <2>1, <2>2, <2>3, <2>4, <2>5, <2>6, <2>7, <2>8 DEF Core
<1>5. BlockRoute => Descends
  <2>1. BlockFails => Descends  BY DEF BlockFails
  <2>2. BlockZeroRow => Descends  BY DEF BlockZeroRow
  <2>3. BlockPrefix => Descends  BY DEF BlockPrefix
  <2>4. BlockPrefixDoubted => Descends  BY DEF BlockPrefixDoubted
  <2>5. BlockPrefixFull => Descends  BY DEF BlockPrefixFull
  <2>6. BlockPrefixStops => Descends  BY DEF BlockPrefixStops
  <2>7. TailFails => Descends  BY DEF TailFails
  <2>8. TailDeclines => Descends  BY DEF TailDeclines
  <2>9. TailAnswers => Descends
    <3>1. TailAnswers =>
            pc = "tail" /\ (pc' = "routed" \/ (pc' = "qrcp" /\ caller' = "formation"))
      BY DEF TailAnswers
    <3> QED BY <3>1
  <2>10. BlockProofRowsFail => Descends  BY DEF BlockProofRowsFail
  <2>11. BlockInsert => Descends  BY DEF BlockInsert, Checked
  <2>12. BlockInsertGrey => Descends  BY DEF BlockInsertGrey
  <2>13. BlockScanned => Descends
    <3>1. BlockScanned =>
            pc = "scan" /\ (pc' = "proof" \/ (pc' = "round" /\ round' = round))
      BY DEF BlockScanned, local
    <3> QED BY <3>1
  <2>14. BlockProved => Descends  BY DEF BlockProved
  <2>15. BlockUnproved => Descends  BY DEF BlockUnproved
  <2>16. BlockRoundsSpent => Descends  BY DEF BlockRoundsSpent
  <2>17. BlockRoundFull => Descends  BY DEF BlockRoundFull
  <2>18. BlockRoundFails => Descends  BY DEF BlockRoundFails
  <2>19. BlockRound => Descends  BY DEF BlockRound, Checked
  <2>20. BlockCore => Descends  BY DEF BlockCore
  <2>21. BlockCoreDoubted => Descends  BY DEF BlockCoreDoubted
  <2>22. BlockCoreAccepted => Descends  BY DEF BlockCoreAccepted
  <2>23. BlockCoreRejected => Descends  BY DEF BlockCoreRejected
  <2> QED BY <2>1, <2>2, <2>3, <2>4, <2>5, <2>6, <2>7, <2>8, <2>9, <2>10, <2>11, <2>12,
            <2>13, <2>14, <2>15, <2>16, <2>17, <2>18, <2>19, <2>20, <2>21, <2>22, <2>23
            DEF BlockRoute
<1>6. Reset => Descends
  <2>1. ResetFails => Descends  BY DEF ResetFails
  <2>2. ResetRefutes => Descends  BY DEF ResetRefutes
  <2>3. ResetResolves => Descends  BY DEF ResetResolves
  <2>4. ResetGrey => Descends  BY DEF ResetGrey
  <2> QED BY <2>1, <2>2, <2>3, <2>4 DEF Reset
<1>7. Qrcp => Descends
  <2>1. QrcpFails => Descends  BY DEF QrcpFails
  <2>2. QrcpUndecided => Descends  BY DEF QrcpUndecided, QrcpAnswers
  <2>3. QrcpResolves => Descends  BY DEF QrcpResolves, QrcpAnswers
  <2> QED BY <2>1, <2>2, <2>3 DEF Qrcp
<1>8. Arbitrate => Descends
  <2>1. Routed => Descends  BY DEF Routed
  <2>2. SampledFails => Descends  BY DEF SampledFails
  <2>3. SampledDeclines => Descends  BY DEF SampledDeclines
  <2>4. SampledAnswers => Descends  BY DEF SampledAnswers
  <2>5. QualityGate => Descends  BY DEF QualityGate
  <2>6. Answer => Descends  BY DEF Answer
  <2> QED BY <2>1, <2>2, <2>3, <2>4, <2>5, <2>6 DEF Arbitrate
<1> QED BY <1>1, <1>2, <1>3, <1>4, <1>5, <1>6, <1>7, <1>8 DEF Step

\* Routes, rounds, arbitration and gate hand over to one another at most
\* MaxSteps times in a call, whatever the ranks, the thresholds and what fails: no
\* rejected candidate is tried again without a round being spent on it.
MaxSteps == 23
StepsDescend == [][Step => StepsLeft' < StepsLeft]_vars

\* No call goes round its routes for ever, and none needs more than MaxSteps of
\* their steps.  (solve_router, block_solve)
THEOREM RouterProgress == Spec => [](StepsLeft \in 0..MaxSteps) /\ StepsDescend
<1>1. RouterInv => StepsLeft \in 0..MaxSteps
  BY PlacesAre DEF Places, RouterInv, TypeOK, Locations, MaxRounds, MaxSteps
<1>2. RouterInv /\ [Next]_vars => [Step => StepsLeft' < StepsLeft]_vars
  BY StepDescends
<1> QED BY <1>1, <1>2, RouterInvariant, PTL DEF Spec, StepsDescend
=============================================================================
