------------------------------- MODULE Stream -------------------------------
(***************************************************************************)
(* Incremental classification: the abs_stream_* interface of stream.h,     *)
(* over the bundle of module Bundle.  A caller creates a stream, offers    *)
(* rows one at a time, asks for the status or the solution at any point,   *)
(* and may destroy the stream and start again.                             *)
(*                                                                         *)
(* absorbs, absorbed, declined and refuted are history variables: which    *)
(* rows the stream has answered for, and how.  ret is what the last call   *)
(* returned to the caller.                                                 *)
(***************************************************************************)
EXTENDS Bundle, TLC

CONSTANT MaxSeen       \* bound on the rows a caller gets processed

ASSUME MaxSeenAssumption == MaxSeen \in Nat

VARIABLES
  live,      \* the handle is not NULL
  s,         \* ABSStream.s, the bundle
  closed,    \* ABSStream.closed
  seen,      \* ABSStream.seen
  deferred,  \* ABSStream.deferred
  absorbs,   \* how many inserts returned ABSORB
  absorbed,  \* the rows they were
  declined,  \* the rows that were deferred
  refuted,   \* the row that closed the stream
  ret        \* the answer of the last call

counters == <<seen, deferred, closed>>
history  == <<absorbs, absorbed, declined, refuted>>
state    == <<live, s, counters, history>>
vars     == <<live, s, closed, seen, deferred,
              absorbs, absorbed, declined, refuted, ret>>

InsertCodes == {"ABSORB", "GROW", "DEFER", "CONTRA", "EINVAL", "ENOMEM"}
Classes     == {"UNIQUE", "INFINITE", "INCONSISTENT", "FAIL", "UNDECIDABLE"}
Certainties == {"DETERMINISTIC", "NONE"}

NoAnswer           == [call |-> "none"]
Created(ok)        == [call |-> "create", ok |-> ok]
Inserted(a, rc, f) == [call |-> "insert", row |-> a, rc |-> rc, failed |-> f]
Solved(given)      == [call |-> "solution", given |-> given]
Rejected           == [call |-> "insert", rc |-> "EINVAL", failed |-> "none"]

Answers ==
  {NoAnswer, Rejected} \union {Created(ok) : ok \in BOOLEAN}
  \union {Solved(g) : g \in BOOLEAN}
  \union [call : {"insert"}, row : Rows, rc : InsertCodes, failed : Allocations]
  \union [call : {"status"}, cls : Classes, certainty : Certainties,
          rank : 0..N, lo : 0..N, hi : 0..N]

\* Every row the stream has processed since it was created.
Processed == s.basis \union absorbed \union declined \union refuted

(***************************************************************************)
(* abs_stream_create and abs_stream_destroy.  The O(n) initial state may   *)
(* not be had; a destroyed stream leaves nothing behind.                   *)
(***************************************************************************)
Init ==
  /\ live = FALSE
  /\ s = EmptyAdaptive
  /\ closed = FALSE
  /\ seen = 0
  /\ deferred = 0
  /\ absorbs = 0
  /\ absorbed = {}
  /\ declined = {}
  /\ refuted = {}
  /\ ret = NoAnswer

StartOver ==
  /\ s' = EmptyAdaptive
  /\ closed' = FALSE
  /\ seen' = 0
  /\ deferred' = 0
  /\ absorbs' = 0
  /\ absorbed' = {}
  /\ declined' = {}
  /\ refuted' = {}

CreateOk ==
  /\ ~live
  /\ live' = TRUE
  /\ StartOver
  /\ ret' = Created(TRUE)

CreateFails ==
  /\ ~live
  /\ ret' = Created(FALSE)
  /\ UNCHANGED state

Destroy ==
  /\ live
  /\ live' = FALSE
  /\ StartOver
  /\ ret' = NoAnswer

(***************************************************************************)
(* abs_stream_insert.                                                      *)
(***************************************************************************)
\* A NULL handle or row, or a NaN or infinity in it: nothing is looked at.
InsertInvalid ==
  /\ ret' = Rejected
  /\ UNCHANGED state

\* Faulty variant: the refused row is counted.
InsertClosedCounted(a) ==
  /\ live
  /\ closed
  /\ seen' = seen + 1
  /\ ret' = Inserted(a, "CONTRA", "none")
  /\ UNCHANGED <<live, s, closed, deferred, history>>

\* A closed stream refuses the row unexamined and does not count it.
InsertClosed(a) ==
  /\ live
  /\ closed
  /\ ret' = Inserted(a, "CONTRA", "none")
  /\ UNCHANGED state

\* Faulty variant: seen is raised before the outcome is known.
InsertNoMemoryCounted(a) ==
  /\ live
  /\ ~closed
  /\ \E o \in InsertCertified(s, a) :
        /\ o.rc = "NOMEM"
        /\ s' = o.s
        /\ ret' = Inserted(a, "ENOMEM", o.failed)
  /\ seen' = seen + 1
  /\ UNCHANGED <<live, closed, deferred, history>>

\* A row that could not be stored is not counted and may be offered again.
InsertNoMemory(a) ==
  /\ live
  /\ ~closed
  /\ \E o \in InsertCertified(s, a) :
        /\ o.rc = "NOMEM"
        /\ s' = o.s
        /\ ret' = Inserted(a, "ENOMEM", o.failed)
  /\ UNCHANGED <<live, counters, history>>

\* Every other outcome counts the row, and the counters say what became of it.
InsertCounted(a) ==
  /\ live
  /\ ~closed
  /\ seen < MaxSeen
  /\ \E o \in InsertCertified(s, a) :
        /\ o.rc # "NOMEM"
        /\ s' = o.s
        /\ seen' = seen + 1
        /\ closed' = (o.rc = "CONTRA")
        /\ deferred' = IF o.rc = "DEFER" THEN deferred + 1 ELSE deferred
        /\ absorbs' = IF o.rc = "ABSORB" THEN absorbs + 1 ELSE absorbs
        /\ absorbed' = IF o.rc = "ABSORB" THEN absorbed \union {a} ELSE absorbed
        /\ declined' = IF o.rc = "DEFER" THEN declined \union {a} ELSE declined
        /\ refuted' = IF o.rc = "CONTRA" THEN refuted \union {a} ELSE refuted
        /\ ret' = Inserted(a, o.rc, o.failed)
  /\ UNCHANGED live

(***************************************************************************)
(* abs_stream_status: the class and the rank interval [lo, hi].            *)
(***************************************************************************)
RankHi == IF s.r + deferred > N THEN N ELSE s.r + deferred

\* Faulty variant: the verdict forgets the rows that were deferred.
ClassOfBasis ==
  IF closed \/ s.inconsistent THEN "INCONSISTENT"
  ELSE IF s.r >= N THEN "UNIQUE"
  ELSE "INFINITE"

Class ==
  IF closed \/ s.inconsistent THEN "INCONSISTENT"
  ELSE IF deferred > 0 THEN "UNDECIDABLE"
  ELSE IF s.r >= N THEN "UNIQUE"
  ELSE "INFINITE"

Status ==
  /\ ret' = IF ~live
            THEN [call |-> "status", cls |-> "FAIL", certainty |-> "NONE",
                  rank |-> 0, lo |-> 0, hi |-> 0]
            ELSE [call |-> "status", cls |-> Class,
                  certainty |-> IF Class = "UNDECIDABLE" THEN "NONE"
                                                         ELSE "DETERMINISTIC",
                  rank |-> s.r, lo |-> s.r,
                  hi |-> IF Class \in {"INCONSISTENT", "UNDECIDABLE"}
                         THEN RankHi ELSE s.r]
  /\ UNCHANGED state

\* abs_stream_solution: x is handed out only while nothing is unresolved.
SolutionGiven == live /\ ~closed /\ ~s.inconsistent /\ deferred = 0

Solution ==
  /\ ret' = Solved(SolutionGiven)
  /\ UNCHANGED state

Next ==
  \/ CreateOk
  \/ CreateFails
  \/ Destroy
  \/ InsertInvalid
  \/ \E a \in Rows : InsertClosed(a)
  \/ \E a \in Rows : InsertNoMemory(a)
  \/ \E a \in Rows : InsertCounted(a)
  \/ Status
  \/ Solution

Spec == Init /\ [][Next]_vars

-----------------------------------------------------------------------------
(***************************************************************************)
(* Type invariant.                                                         *)
(***************************************************************************)
\* Types of the stream's fields, of the history and of the last answer.
TypeOK ==
  /\ live \in BOOLEAN
  /\ s \in BState
  /\ closed \in BOOLEAN
  /\ seen \in Nat
  /\ deferred \in Nat
  /\ absorbs \in Nat
  /\ absorbed \in SUBSET Rows
  /\ declined \in SUBSET Rows
  /\ refuted \in SUBSET Rows
  /\ ret \in Answers

(***************************************************************************)
(* The inductive invariant behind the properties below: the basis is an    *)
(* independent solvable set, absorbed rows add neither rank nor            *)
(* contradiction to it, each deferred row adds at most one to the rank,    *)
(* and the flags agree on whether a contradiction was met.                 *)
(***************************************************************************)
\* The bundle is well formed before and after every insert.
BundleOK(b) ==
  /\ b \in BState
  /\ Rank(b.basis) = b.r
  /\ Consistent(b.basis)
  /\ b.r <= b.qcap
  /\ b.qcap <= QInit \/ b.qcap < QFactor * b.r

Resolved == s.basis \union absorbed

ClosureAgrees ==
  /\ closed <=> s.inconsistent
  /\ closed <=> refuted # {}
  /\ closed => ~Consistent(Processed)

NothingLeft ==
  /\ s = EmptyAdaptive
  /\ deferred = 0
  /\ ~closed
  /\ absorbed = {}
  /\ declined = {}
  /\ refuted = {}

StreamInv ==
  /\ TypeOK
  /\ ~live => NothingLeft
  /\ BundleOK(s)
  /\ Rank(Resolved) = s.r
  /\ Consistent(Resolved)
  /\ Rank(Processed) <= s.r + deferred
  /\ deferred = 0 => declined = {}
  /\ ClosureAgrees
  /\ seen = s.r + absorbs + deferred + (IF closed THEN 1 ELSE 0)

(***************************************************************************)
(* Properties.                                                             *)
(***************************************************************************)
\* The documented interval is sound at both ends (stream.h, "Both ends are
\* sound"): whatever order grown, absorbed, deferred and contradicting rows
\* came in, the rank of ALL rows processed lies in [r, min(n, r + deferred)].
RankIntervalSound ==
  live => Rank(Processed) \in s.r..RankHi

\* No verdict says more than the rows allow: UNIQUE and INFINITE only for a
\* solvable set of processed rows of exactly that rank, INCONSISTENT only for
\* an unsolvable one, and a solution handed out solves every row processed,
\* the absorbed ones that are not in the basis included.
VerdictSound ==
  live =>
    /\ Class = "INCONSISTENT" => ~Consistent(Processed)
    /\ Class = "UNIQUE" => Consistent(Processed) /\ Rank(Processed) = N
    /\ Class = "INFINITE" => Consistent(Processed) /\ Rank(Processed) < N
    /\ SolutionGiven => Consistent(Processed)

\* Every row counted is accounted for exactly once: rows the basis holds,
\* absorbed rows, deferred rows, and the one that closed the stream.  A row
\* refused for want of memory or offered after closure is none of these.
RowsAccounted ==
  /\ seen = s.r + absorbs + deferred + (IF closed THEN 1 ELSE 0)
  /\ closed <=> s.inconsistent
  /\ closed <=> refuted # {}

\* Basis storage stays proportional to the rank, never n*n ahead of need:
\* Q has room for at least r rows and at most QFactor*r of them (or QInit).
StorageProportional ==
  /\ s.r <= s.qcap
  /\ s.qcap <= N
  /\ s.qcap <= QInit \/ s.qcap < QFactor * s.r

\* ENOMEM asserts nothing and costs nothing: as long as no other call
\* intervenes, offering the same row again with memory available grows the
\* basis; it can never be absorbed or declared contradictory.
RetryGrows ==
  (ret.call = "insert" /\ ret.rc = "ENOMEM") =>
    LET again == InsertCertified(s, ret.row)
    IN  /\ \E o \in again : o.rc = "GROW" /\ o.s.basis = s.basis \union {ret.row}
        /\ \A o \in again : o.rc \in {"GROW", "NOMEM", "DEFER"}

\* Between creation and destruction knowledge only accumulates: the basis and
\* the counters never shrink, a closed stream never changes again, and a call
\* that reports ENOMEM or EINVAL leaves everything as it was.
KnowledgeMonotone ==
  [][(live /\ live') =>
       /\ s.basis \subseteq s'.basis
       /\ s.qcap <= s'.qcap
       /\ seen <= seen' /\ deferred <= deferred'
       /\ closed => UNCHANGED <<s, counters>>
       /\ (ret'.call = "insert" /\ ret'.rc \in {"ENOMEM", "EINVAL"})
             => UNCHANGED <<s, counters>>]_vars

\* The stream implements its contract: seen from outside, each counted insert
\* answers for one more row and everything else is a stutter.
Contract == INSTANCE StreamContract
              WITH open <- live, known <- Processed, lo <- s.r, hi <- RankHi,
                   verdict <- Class
ImplementsContract == Contract!Spec

\* "Resource exhaustion is never converted into a status verdict"
\* (bsolver.c, allocation-failure policy): an insert during which an
\* allocation failed is reported as ENOMEM, never as a decision on the row.
NoMemoryIsReported ==
  (ret.call = "insert" /\ ret.failed # "none") => ret.rc = "ENOMEM"
=============================================================================
