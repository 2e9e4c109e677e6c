------------------------------- MODULE Router -------------------------------
(***************************************************************************)
(* One call of the classification router: solve_router, the routes it      *)
(* tries and the source arbitration that owns the final claim (bsolver.c). *)
(*                                                                         *)
(* The system being classified is its numerical rank and whether it is     *)
(* solvable.  Every computation is one of four kinds, and the model keeps  *)
(* only what each may be relied on for:                                    *)
(*   - rows of the source grown into a bundle give a rank that the source  *)
(*     has, and a contradiction only of an unsolvable source;              *)
(*   - rows of a compressed (sketched) core give any rank at all;          *)
(*   - fg_qr_rank_certifies accepts only a rank the source has;            *)
(*   - a full scan passes only if its x solves the source, and may fail    *)
(*     for any x that was not derived from spanning source rows.           *)
(* Every allocation may fail; failed remembers which did.                  *)
(***************************************************************************)
EXTENDS Integers

CONSTANTS
  N,            \* columns
  ClosureMax,   \* a prefix of at most this rank is tried for closure (8)
  NearFull,     \* distance from N at which a rejected candidate goes to QRCP (8)
  TailGap       \* rank gap up to which the secant tail is tried (256)

ASSUME RouterAssumption ==
  /\ N \in Nat \ {0}
  /\ ClosureMax \in Nat
  /\ NearFull \in Nat
  /\ TailGap \in Nat

MaxRounds == 3  \* refinement rounds of the block-prefix route

VARIABLES
  pc,        \* where the call is; "idle" between calls
  route,     \* solve_auto_qr, solve_global_qr or solve_blockprefix_qr
  sys,       \* the system: rank, cons, cap = min(m, n), and size of n
  pre,       \* rank of the prefix bundle
  cand,      \* rank of the candidate bundle
  floor,     \* the rank an unresolved formation check falls back to
  doubt,     \* g_core_undecidable
  rr,        \* the core residual against 1e-11 and 1e-8
  round,     \* refinement round
  caller,    \* what a failed source QRCP returns to
  grey,      \* g_grey_total > 0
  berr,      \* g_last_berr: is it valid, within quality, and of whose x
  src,       \* g_source_rank_lo, g_source_rank_hi
  coreSeen,  \* g_core_rank_lo >= 0
  R,         \* the Result being built
  interval,  \* out[3], out[4]
  failed,    \* history: the routines of this call an allocation failed in
  calls      \* history: source QRCP calls of this call

local == <<route, pre, cand, floor, doubt, rr, round, caller>>
tls   == <<grey, berr, src, coreSeen>>
outside == <<sys, interval, calls>>
vars  == <<pc, route, sys, pre, cand, floor, doubt, rr, round, caller,
           grey, berr, src, coreSeen, R, interval, failed, calls>>

Sizes   == {"below48", "below192", "large"}
Routes  == {"none", "auto", "global", "block"}
Residuals == {"tiny", "mid", "large"}
Callers == {"none", "formation", "reset", "arbitrate", "quality"}
Classes == {"UNIQUE", "INFINITE", "INCONSISTENT", "FAIL", "UNDECIDABLE"}
Makers  == {"none", "prefix", "core", "closure", "lu", "tail", "insertion",
            "reset", "qrcp", "sampled"}
Resources == {"state", "core", "sketch", "proof", "qrcp", "svd_scratch"}

\* A Result, and which computation its class and witness x come from.
Result(cls, rank, random, by) ==
  [cls |-> cls, rank |-> rank, random |-> random, by |-> by]
NoResult      == Result("none", 0, FALSE, "none")
BS_FAIL_RESULT == Result("FAIL", 0, FALSE, "none")
\* Faulty variant: the class once shared one code with FAIL.
UndecidedAsFail(r) == Result("FAIL", r, FALSE, "none")
Undecided(r)  == Result("UNDECIDABLE", r, FALSE, "none")
Full(r)       == IF r = N THEN "UNIQUE" ELSE "INFINITE"
\* An accepted candidate that rests on randomised checks unless it is full.
Accepted(r, by) == Result(Full(r), r, r # N, by)

NoInterval == [lo |-> -1, hi |-> -1]
NoBerr     == [valid |-> FALSE, good |-> FALSE, of |-> "none"]

Systems == {y \in [rank : 0..N, cons : BOOLEAN, cap : 0..N, size : Sizes] :
              y.rank <= y.cap}

-----------------------------------------------------------------------------
(***************************************************************************)
(* Steps shared by the routes.                                             *)
(***************************************************************************)
\* The locals of a route are fresh on entry and gone on return; source QRCP
\* keeps only who asked, and the rank to report if it fails.
Locals(r, who, f) ==
  /\ route' = r
  /\ pre' = 0 /\ cand' = 0 /\ floor' = f
  /\ doubt' = FALSE /\ rr' = "tiny" /\ round' = 0
  /\ caller' = who
Enter(r)    == Locals(r, "none", 0)
NoLocals    == Enter("none")

\* A route returns its result; solve_router goes on with it.
Give(r) == pc' = "routed" /\ R' = r /\ NoLocals

Starved(what) == failed' = failed \union {what}
OutOfMemory(what) == Starved(what) /\ Give(BS_FAIL_RESULT)

\* Inserting source rows may meet a grey one, or be grey for want of scratch.
SourceRows ==
  \/ UNCHANGED <<grey, failed>>
  \/ grey' = TRUE /\ failed' \in {failed, failed \union {"svd_scratch"}}

\* compat_scan_fused leaves the backward error of the x it was given.
Scanned(x, bad) ==
  \E good \in BOOLEAN : /\ bad => ~good
                        /\ berr' = [valid |-> TRUE, good |-> good, of |-> x]

\* The x of a bundle whose rows span the source decides solvability.
ScanDecides(x) == Scanned(x, ~sys.cons)

\* Any other x: it passes only when it solves the source.
ScanPasses(x) == sys.cons /\ Scanned(x, FALSE)
ScanFails(x)  == Scanned(x, TRUE)

Decided(r, by) ==
  Result(IF sys.cons THEN Full(r) ELSE "INCONSISTENT", r, FALSE, by)

\* What core_qr_state leaves besides a rank: a doubt it took a second
\* decomposition to raise, unless that one could not be had, and a residual.
DoubtCost(d) ==
  IF d THEN \/ coreSeen' = TRUE /\ UNCHANGED failed
            \/ UNCHANGED coreSeen /\ Starved("core")
  ELSE coreSeen' \in {coreSeen, TRUE} /\ UNCHANGED failed
CoreState(d, res) == doubt' = d /\ rr' = res /\ DoubtCost(d)

AskQrcp(who, f) == pc' = "qrcp" /\ Locals("none", who, f)
StartAgain      == pc' = "reset" /\ NoLocals

-----------------------------------------------------------------------------
(***************************************************************************)
(* The entry points and the choice of route (solve_router_raw).            *)
(***************************************************************************)
Init ==
  /\ pc = "idle"
  /\ route = "none"
  /\ sys \in Systems
  /\ pre = 0 /\ cand = 0 /\ floor = 0
  /\ doubt = FALSE /\ rr = "tiny" /\ round = 0 /\ caller = "none"
  /\ grey = FALSE /\ berr = NoBerr /\ src = NoInterval /\ coreSeen = FALSE
  /\ R = NoResult /\ interval = NoInterval
  /\ failed = {} /\ calls = 0

\* Faulty variant: the backward error of the previous call survives.
CallKeepingBerr ==
  /\ pc = "idle"
  /\ sys' \in Systems
  /\ pc' = IF sys'.size = "below48" THEN "auto" ELSE "probe"
  /\ Enter("auto")
  /\ grey' = FALSE
  /\ coreSeen' = FALSE
  /\ src' = NoInterval
  /\ R' = NoResult
  /\ interval' = NoInterval
  /\ failed' = {}
  /\ calls' = 0
  /\ UNCHANGED berr

\* diag_reset, then the resets at the head of solve_router.
Call ==
  /\ pc = "idle"
  /\ sys' \in Systems
  /\ pc' = IF sys'.size = "below48" THEN "auto" ELSE "probe"
  /\ Enter("auto")
  /\ grey' = FALSE
  /\ coreSeen' = FALSE
  /\ src' = NoInterval
  /\ berr' = NoBerr
  /\ R' = NoResult
  /\ interval' = NoInterval
  /\ failed' = {}
  /\ calls' = 0

ProbeFails ==
  /\ pc = "probe"
  /\ OutOfMemory("state")
  /\ UNCHANGED <<tls, outside>>

ProbeRefutes ==
  /\ pc = "probe"
  /\ ~sys.cons
  /\ \E r \in 0..sys.rank : Give(Result("INCONSISTENT", r, FALSE, "prefix"))
  /\ SourceRows
  /\ UNCHANGED <<berr, src, coreSeen, outside>>

\* All the probed rows grew, or not: a grey or redundant one ends the hope.
ProbeGrows ==
  /\ pc = "probe"
  /\ pc' = "lu"
  /\ UNCHANGED <<local, tls, outside, R, failed>>

ProbeStops ==
  /\ pc = "probe"
  /\ pc' = "auto"
  /\ SourceRows
  /\ UNCHANGED <<local, berr, src, coreSeen, outside, R>>

(***************************************************************************)
(* try_square_lu_unique: the leading square block, when it is well         *)
(* conditioned, fixes x; otherwise the size of n chooses the next route.   *)
(***************************************************************************)
LuFails ==
  /\ pc = "lu"
  /\ sys.cap = N
  /\ OutOfMemory("state")
  /\ UNCHANGED <<tls, outside>>

LuDeclines ==
  /\ pc = "lu"
  /\ pc' = IF sys.size = "large" THEN "block" ELSE "auto"
  /\ Enter(pc')
  /\ UNCHANGED <<tls, outside, R, failed>>

LuAnswers ==
  /\ pc = "lu"
  /\ sys.rank = N
  /\ ScanDecides("lu")
  /\ IF sys.cons /\ ~berr'.good
     THEN pc' = "global" /\ Enter("global") /\ UNCHANGED R
     ELSE Give(Decided(N, "lu"))
  /\ UNCHANGED <<grey, src, coreSeen, outside, failed>>

-----------------------------------------------------------------------------
(***************************************************************************)
(* solve_auto_qr: an exact prefix of source rows, then a compressed core.  *)
(***************************************************************************)
AutoFails ==
  /\ pc \in {"auto", "auto_core"}
  /\ OutOfMemory("state")
  /\ UNCHANGED <<tls, outside>>

AutoRefutes ==
  /\ pc = "auto"
  /\ ~sys.cons
  /\ \E r \in 0..sys.rank : Give(Result("INCONSISTENT", r, FALSE, "prefix"))
  /\ UNCHANGED <<tls, outside, failed>>

AutoPrefixFull ==
  /\ pc = "auto"
  /\ sys.rank = N
  /\ ScanDecides("prefix")
  /\ Give(Decided(N, "prefix"))
  /\ UNCHANGED <<grey, src, coreSeen, outside, failed>>

AutoPrefixStops ==
  /\ pc = "auto"
  /\ \E r \in 0..sys.rank : r < N /\ pre' = r
  /\ pc' = "auto_core"
  /\ SourceRows
  /\ UNCHANGED <<route, cand, floor, doubt, rr, round, caller,
                 berr, src, coreSeen, outside, R>>

\* Compressed rows propose rank c; the formation guard certifies it or not.
AutoCore ==
  /\ pc = "auto_core"
  /\ \E c \in 0..N, d, certified \in BOOLEAN, res \in Residuals :
        /\ certified => c <= sys.rank /\ c > 0 /\ ~d
        /\ cand' = c
        /\ CoreState(d, res)
        /\ pc' = IF c <= pre \/ certified THEN "core" ELSE "formation"
        /\ floor' = pre
  /\ UNCHANGED <<route, pre, round, caller, grey, berr, src, outside, R>>

\* core_qr_state failed: the source rows are inserted from scratch.  A run
\* that resolves, even with a contradiction, falls through to the checks
\* meant for a compressed candidate.
AutoCoreLost ==
  /\ pc = "auto_core"
  /\ Starved("core")
  /\ \E r \in 0..sys.rank :
       \/ /\ r < N
          /\ Give(Undecided(r))
          /\ grey' = TRUE
          /\ src' = [lo |-> r, hi |-> N]
       \/ /\ r = sys.rank \/ ~sys.cons
          /\ cand' = r
          /\ floor' = pre
          /\ doubt' \in BOOLEAN
          /\ rr' = "tiny"
          /\ grey' \in {grey, TRUE}
          /\ pc' = IF r <= pre THEN "core" ELSE "formation"
          /\ UNCHANGED <<route, pre, round, caller, src, R>>
  /\ coreSeen' \in {coreSeen, TRUE}
  /\ UNCHANGED <<berr, outside>>

(***************************************************************************)
(* solve_global_qr: the core alone, without a prefix.                      *)
(***************************************************************************)
GlobalFails ==
  /\ pc = "global"
  /\ OutOfMemory("state")
  /\ UNCHANGED <<tls, outside>>

GlobalCore ==
  /\ pc = "global"
  /\ \E c \in 0..N, d, certified \in BOOLEAN, res \in Residuals :
        /\ certified => c <= sys.rank /\ ~d
        /\ cand' = c
        /\ CoreState(d, res)
        /\ pc' = IF c = 0 \/ certified THEN "core" ELSE "formation"
  /\ UNCHANGED <<route, pre, floor, round, caller, grey, berr, src, outside, R>>

GlobalCoreLost ==
  /\ pc = "global"
  /\ Starved("core")
  /\ StartAgain
  /\ coreSeen' \in {coreSeen, TRUE}
  /\ UNCHANGED <<grey, berr, src, outside, R>>

(***************************************************************************)
(* What both do with a core.  A rank the guard did not certify is settled  *)
(* by the source, first by closure of a small prefix (auto), then by QRCP. *)
(***************************************************************************)
TriesClosure == route = "auto" /\ pre <= ClosureMax

Formation ==
  /\ pc = "formation"
  /\ IF TriesClosure
     THEN /\ pc' = "closure"
          /\ caller' = "formation"
          /\ UNCHANGED <<route, pre, cand, floor, doubt, rr, round>>
     ELSE AskQrcp("formation", floor)
  /\ UNCHANGED <<tls, outside, R, failed>>

\* A rank boundary in the core, or a large residual, is no source claim.
CoreDoubted ==
  /\ pc = "core"
  /\ doubt \/ rr = "large"
  /\ IF TriesClosure THEN pc' = "closure" /\ UNCHANGED <<local, R>>
                     ELSE Give(Undecided(cand))
  /\ UNCHANGED <<tls, outside, failed>>

CoreLoose ==
  /\ pc = "core"
  /\ ~doubt
  /\ rr = "mid"
  /\ IF cand = N THEN AskQrcp("reset", 0) ELSE StartAgain
  /\ UNCHANGED <<tls, outside, R, failed>>

\* The verification rows E and the full scan accept the candidate ...
CoreAccepted ==
  /\ pc = "core"
  /\ ~doubt
  /\ rr = "tiny"
  /\ ScanPasses("core")
  /\ Give(Accepted(cand, "core"))
  /\ UNCHANGED <<grey, src, coreSeen, outside, failed>>

\* ... or one of the two rejects it.
CoreRejected ==
  /\ pc = "core"
  /\ ~doubt
  /\ rr = "tiny"
  /\ UNCHANGED berr \/ ScanFails("core")
  /\ IF cand >= N - NearFull THEN AskQrcp("reset", 0) ELSE StartAgain
  /\ UNCHANGED <<grey, src, coreSeen, outside, R, failed>>

(***************************************************************************)
(* source_closure_no_growth: every source row depends on the prefix.       *)
(***************************************************************************)
ClosureHolds ==
  /\ pc = "closure"
  /\ pre = sys.rank
  /\ ScanDecides("closure")
  /\ Give(Decided(pre, "closure"))
  /\ UNCHANGED <<grey, src, coreSeen, outside, failed>>

ClosureRefutes ==
  /\ pc = "closure"
  /\ ~sys.cons
  /\ Give(Result("INCONSISTENT", pre, FALSE, "closure"))
  /\ UNCHANGED <<tls, outside, failed>>

\* A further direction, or a grey row (for want of scratch, perhaps).
ClosureOpen ==
  /\ pc = "closure"
  /\ failed' \in {failed, failed \union {"svd_scratch"}}
  /\ IF caller = "formation" THEN AskQrcp("formation", floor) /\ UNCHANGED R
                             ELSE Give(Undecided(cand))
  /\ UNCHANGED <<tls, outside>>

-----------------------------------------------------------------------------
(***************************************************************************)
(* solve_blockprefix_qr: the first rows of the source by QRCP at once.     *)
(***************************************************************************)
BlockFails ==
  /\ pc \in {"block", "block_sketch", "block_core"}
  /\ OutOfMemory("state")
  /\ UNCHANGED <<tls, outside>>

\* A zero row of the prefix with a right-hand side.
BlockZeroRow ==
  /\ pc = "block"
  /\ ~sys.cons
  /\ Give(Result("INCONSISTENT", 0, FALSE, "prefix"))
  /\ UNCHANGED <<tls, outside, failed>>

\* The prefix rows are source rows, yet their rank must be certified too.
BlockPrefix ==
  /\ pc = "block"
  /\ \E c \in 0..N, d, certified \in BOOLEAN, res \in Residuals :
        /\ certified => c <= sys.rank /\ ~d
        /\ IF c = 0 \/ certified
           THEN /\ pc' = "block_prefix"
                /\ pre' = c
                /\ CoreState(d, res)
                /\ UNCHANGED <<route, cand, floor, round, caller>>
           ELSE /\ AskQrcp("formation", 0)
                /\ DoubtCost(d)
  /\ UNCHANGED <<grey, berr, src, outside, R>>

BlockPrefixDoubted ==
  /\ pc = "block_prefix"
  /\ doubt \/ rr # "tiny"
  /\ Give(Undecided(pre))
  /\ UNCHANGED <<tls, outside, failed>>

BlockPrefixFull ==
  /\ pc = "block_prefix"
  /\ ~doubt /\ rr = "tiny"
  /\ pre = N
  /\ ScanDecides("prefix")
  /\ Give(Decided(N, "prefix"))
  /\ UNCHANGED <<grey, src, coreSeen, outside, failed>>

BlockPrefixStops ==
  /\ pc = "block_prefix"
  /\ ~doubt /\ rr = "tiny"
  /\ pre < N
  /\ pc' = IF sys.size = "large" /\ N - pre <= TailGap THEN "tail" ELSE "block_sketch"
  /\ UNCHANGED <<local, tls, outside, R, failed>>

(***************************************************************************)
(* try_secant_tail, seen from its caller: it inserts the source rows its   *)
(* screen selects, and any rank beyond the prefix goes to QRCP.            *)
(***************************************************************************)
TailFails ==
  /\ pc = "tail"
  /\ OutOfMemory("state")
  /\ UNCHANGED <<tls, outside>>

TailDeclines ==
  /\ pc = "tail"
  /\ pc' = "block_sketch"
  /\ SourceRows
  /\ UNCHANGED berr \/ ScanFails("tail")
  /\ UNCHANGED <<local, src, coreSeen, outside, R>>

\* Its rank r is the prefix rank, or more: then only QRCP may claim it.
TailAnswers ==
  /\ pc = "tail"
  /\ \E r \in pre..sys.rank :
       LET refuted == Result("INCONSISTENT", r, FALSE, "tail")
           claim(res) == IF r <= pre THEN Give(res)
                                     ELSE AskQrcp("formation", pre) /\ UNCHANGED R
       IN  \/ ~sys.cons /\ claim(refuted) /\ UNCHANGED berr
           \/ r = N /\ ScanDecides("tail") /\ claim(Decided(r, "tail"))
           \/ r < N /\ ScanPasses("tail") /\ claim(Result("INFINITE", r, TRUE, "tail"))
  /\ UNCHANGED <<grey, src, coreSeen, outside, failed>>

(***************************************************************************)
(* Sketched rows inserted on top of the prefix, checked, scanned, proved,  *)
(* and refined for up to MaxRounds rounds.  They may propose any rank.     *)
(***************************************************************************)
\* A row cannot be kept for the proof: its norm overflows or, of the sketched
\* ones, there is no memory for it, a shortage that is not reported as one.
BlockProofRowsFail ==
  /\ \/ pc \in {"block", "block_sketch"} /\ UNCHANGED failed
     \/ pc = "block_sketch" /\ Starved("proof")
  /\ Give(Undecided(pre))
  /\ UNCHANGED <<tls, outside>>

\* Rows inserted and checked: to the scan, to another round, or given up.
Checked(c, k) ==
  \/ /\ pc' \in {"scan", "round"}
     /\ cand' = c
     /\ round' = k
     /\ UNCHANGED <<route, pre, floor, doubt, rr, caller, failed>>
  \/ /\ StartAgain
     /\ failed' \in {failed, failed \union {"svd_scratch"}}

BlockInsert ==
  /\ pc = "block_sketch"
  /\ \E c \in pre..N : Checked(c, 1)
  /\ UNCHANGED <<tls, outside, R>>

BlockInsertGrey ==
  /\ pc = "block_sketch"
  /\ pc' = "block_core"
  /\ Enter("block")
  /\ failed' \in {failed, failed \union {"svd_scratch"}}
  /\ UNCHANGED <<tls, outside, R>>

BlockScanned ==
  /\ pc = "scan"
  /\ \/ ScanPasses("insertion") /\ pc' = "proof"
     \/ ScanFails("insertion") /\ pc' = "round"
  /\ UNCHANGED <<local, grey, src, coreSeen, outside, R, failed>>

\* certified_proof_rank_lo: a failure inside it only proves less.
BlockProved ==
  /\ pc = "proof"
  /\ cand <= sys.rank
  /\ Give(Accepted(cand, "insertion"))
  /\ coreSeen' \in {coreSeen, TRUE}
  /\ UNCHANGED <<grey, berr, src, outside, failed>>

BlockUnproved ==
  /\ pc = "proof"
  /\ cand > 0
  /\ AskQrcp("reset", 0)
  /\ coreSeen' \in {coreSeen, TRUE}
  /\ failed' \in {failed, failed \union {"proof"}}
  /\ UNCHANGED <<grey, berr, src, outside, R>>

BlockRoundsSpent ==
  /\ pc = "round"
  /\ round > MaxRounds
  /\ StartAgain
  /\ UNCHANGED <<tls, outside, R, failed>>

BlockRoundFull ==
  /\ pc = "round"
  /\ round <= MaxRounds
  /\ cand = N
  /\ \/ ScanPasses("insertion") /\ pc' = "proof" /\ UNCHANGED local
     \/ ScanFails("insertion") /\ StartAgain
  /\ UNCHANGED <<grey, src, coreSeen, outside, R, failed>>

\* Scratch or proof rows that cannot be had end the rounds silently.
BlockRoundFails ==
  /\ pc = "round"
  /\ round <= MaxRounds
  /\ cand < N
  /\ \/ Starved("sketch")
     \/ Starved("proof")
  /\ StartAgain
  /\ UNCHANGED <<tls, outside, R>>

\* Faulty variants: the round is not counted; the count is not tested.
BlockRoundUncounted ==
  /\ pc = "round"
  /\ round <= MaxRounds
  /\ cand < N
  /\ \E c \in cand..N : Checked(c, round)
  /\ UNCHANGED <<tls, outside, R>>
BlockRoundUntested ==
  /\ pc = "round"
  /\ cand < N
  /\ \E c \in cand..N : Checked(c, round + 1)
  /\ UNCHANGED <<tls, outside, R>>

BlockRound ==
  /\ pc = "round"
  /\ round <= MaxRounds
  /\ cand < N
  /\ \E c \in cand..N : Checked(c, round + 1)
  /\ UNCHANGED <<tls, outside, R>>

(***************************************************************************)
(* A grey sketched row: QR of prefix and sketch, under the same proof.     *)
(* The proof runs core_qr_state again and so replaces g_core_undecidable,  *)
(* which the checks that follow then read.                                 *)
(***************************************************************************)
BlockCore ==
  /\ pc = "block_core"
  /\ \E c \in 0..N, lo \in 0..sys.rank, d \in BOOLEAN, res \in Residuals :
        /\ lo <= c
        /\ IF lo < c
           THEN AskQrcp("formation", lo)
           ELSE /\ pc' = "block_verify"
                /\ cand' = c
                /\ floor' = lo
                /\ doubt' = (c = 0 /\ d)
                /\ rr' = res
                /\ UNCHANGED <<route, pre, round, caller>>
  /\ coreSeen' \in {coreSeen, TRUE}
  /\ failed' \in {failed, failed \union {"core"}, failed \union {"proof"}}
  /\ UNCHANGED <<grey, berr, src, outside, R>>

BlockCoreDoubted ==
  /\ pc = "block_verify"
  /\ doubt \/ rr # "tiny"
  /\ Give(Undecided(floor))
  /\ UNCHANGED <<tls, outside, failed>>

BlockCoreAccepted ==
  /\ pc = "block_verify"
  /\ ~doubt /\ rr = "tiny"
  /\ ScanPasses("core")
  /\ Give(Accepted(cand, "core"))
  /\ UNCHANGED <<grey, src, coreSeen, outside, failed>>

BlockCoreRejected ==
  /\ pc = "block_verify"
  /\ ~doubt /\ rr = "tiny"
  /\ UNCHANGED berr \/ ScanFails("core")
  /\ StartAgain
  /\ UNCHANGED <<grey, src, coreSeen, outside, R, failed>>

-----------------------------------------------------------------------------
(***************************************************************************)
(* reset_source_guarded: all source rows, inserted in at most two passes.  *)
(* A full rank ends the passes even with grey rows behind it.              *)
(***************************************************************************)
ResetFails ==
  /\ pc = "reset"
  /\ OutOfMemory("state")
  /\ UNCHANGED <<tls, outside>>

ResetRefutes ==
  /\ pc = "reset"
  /\ ~sys.cons
  /\ \E r \in 0..sys.rank : Give(Result("INCONSISTENT", r, FALSE, "reset"))
  /\ SourceRows
  /\ UNCHANGED <<berr, src, coreSeen, outside>>

ResetResolves ==
  /\ pc = "reset"
  /\ SourceRows
  /\ sys.cons \/ (sys.rank = N /\ grey')
  /\ Give(Result(Full(sys.rank), sys.rank, FALSE, "reset"))
  /\ UNCHANGED <<berr, src, coreSeen, outside>>

ResetGrey ==
  /\ pc = "reset"
  /\ \E r \in 0..sys.rank :
        /\ r < N
        /\ Give(Undecided(r))
        /\ src' = [lo |-> r, hi |-> N]
  /\ SourceRows /\ grey'
  /\ UNCHANGED <<berr, coreSeen, outside>>

(***************************************************************************)
(* source_qrcp_trusted: the arbiter on the source rows themselves.  Its    *)
(* answer goes back to the route, or is gated by solve_router.             *)
(***************************************************************************)
Asked == calls' = calls + 1 /\ UNCHANGED <<sys, interval>>

\* Faulty variant: only the quality repair goes through the gate.
QrcpAnswersUngated(r) ==
  /\ R' = r
  /\ pc' = CASE caller = "quality"   -> "gate"
             [] caller = "arbitrate" -> "answer"
             [] OTHER                -> "routed"
  /\ NoLocals

QrcpAnswers(r) ==
  /\ R' = r
  /\ pc' = IF caller \in {"arbitrate", "quality"} THEN "gate" ELSE "routed"
  /\ NoLocals

\* Faulty variant: a failed arbitration is simply started again.
QrcpFailsRetried ==
  /\ pc = "qrcp"
  /\ Asked
  /\ Starved("qrcp")
  /\ pc' = IF caller = "quality" THEN "gate"
           ELSE IF caller = "reset" THEN "reset" ELSE "routed"
  /\ R' = IF caller = "formation" THEN Undecided(floor) ELSE R
  /\ NoLocals
  /\ UNCHANGED <<grey, berr, src, coreSeen>>

\* -1: the caller's own conclusion stands.  The interval may be written.
QrcpFails ==
  /\ pc = "qrcp"
  /\ Asked
  /\ Starved("qrcp")
  /\ src' \in {src, [lo |-> sys.rank, hi |-> sys.rank]}
  /\ pc' = CASE caller = "formation" -> "routed"
             [] caller = "reset"     -> "reset"
             [] caller = "arbitrate" -> "answer"
             [] caller = "quality"   -> "gate"
  /\ R' = IF caller = "formation" THEN Undecided(floor) ELSE R
  /\ NoLocals
  /\ UNCHANGED <<grey, berr, coreSeen>>

\* Grey diagonals, or a rank the guard could not certify.
QrcpUndecided ==
  /\ pc = "qrcp"
  /\ Asked
  /\ \E lo \in 0..sys.rank, hi \in sys.rank..sys.cap :
        /\ src' = [lo |-> lo, hi |-> hi]
        /\ QrcpAnswers(Result("UNDECIDABLE", lo, FALSE, "qrcp"))
  /\ grey' \in {grey, TRUE}
  /\ UNCHANGED <<berr, coreSeen, failed>>

QrcpResolves ==
  /\ pc = "qrcp"
  /\ Asked
  /\ src' = [lo |-> sys.rank, hi |-> sys.rank]
  /\ ScanDecides("qrcp")
  /\ QrcpAnswers(Decided(sys.rank, "qrcp"))
  /\ UNCHANGED <<grey, coreSeen, failed>>

-----------------------------------------------------------------------------
(***************************************************************************)
(* solve_router, after the route: arbitration and the quality gate.        *)
(***************************************************************************)
Uncertified == ~berr.valid \/ ~berr.good

\* Faulty variant: a contradiction a route met is taken at its word.
NeedsArbitrationIfUndecided ==
  \/ R.cls = "UNDECIDABLE"
  \/ R.cls = "INFINITE" /\ R.random /\ grey

NeedsArbitration ==
  \/ R.cls \in {"UNDECIDABLE", "INCONSISTENT"}
  \/ R.cls = "INFINITE" /\ R.random /\ grey

Routed ==
  /\ pc = "routed"
  /\ IF NeedsArbitration THEN pc' = "sampled" /\ NoLocals
     ELSE IF R.cls = "UNIQUE" /\ Uncertified THEN AskQrcp("quality", 0)
     ELSE pc' = "answer" /\ NoLocals
  /\ UNCHANGED <<tls, outside, R, failed>>

\* try_sampled_source_fullrank: n source rows that happen to pin down x.
SampledFails ==
  /\ pc = "sampled"
  /\ sys.cap = N
  /\ Starved("state")
  /\ R' = BS_FAIL_RESULT
  /\ pc' = "answer"
  /\ UNCHANGED <<local, tls, outside>>

SampledDeclines ==
  /\ pc = "sampled"
  /\ AskQrcp("arbitrate", 0)
  /\ UNCHANGED <<tls, outside, R, failed>>

SampledAnswers ==
  /\ pc = "sampled"
  /\ sys.rank = N
  /\ ScanDecides("sampled")
  /\ IF sys.cons /\ ~berr'.good
     THEN AskQrcp("arbitrate", 0) /\ UNCHANGED R
     ELSE R' = Decided(N, "sampled") /\ pc' = "answer" /\ NoLocals
  /\ UNCHANGED <<grey, src, coreSeen, outside, failed>>

\* No UNIQUE leaves without a quality certificate.
QualityGate ==
  /\ pc = "gate"
  /\ R' = IF R.cls = "UNIQUE" /\ Uncertified
          THEN Result("UNDECIDABLE", R.rank, FALSE, R.by) ELSE R
  /\ pc' = "answer"
  /\ UNCHANGED <<local, tls, outside, failed>>

\* Faulty variant: a randomised rank is reported as a point.
MetaIntervalsPoint ==
  IF R.cls = "UNDECIDABLE" /\ src.lo >= 0 THEN {src}
  ELSE {[lo |-> R.rank, hi |-> R.rank]}

\* The rank interval of bsolve_router_meta_api.
MetaIntervals ==
  IF R.cls = "UNDECIDABLE" /\ src.lo >= 0 THEN {src}
  ELSE IF R.cls = "UNDECIDABLE" /\ coreSeen
       THEN {[lo |-> a, hi |-> b] : a, b \in 0..N}
  ELSE IF R.random THEN {[lo |-> R.rank, hi |-> sys.cap]}
  ELSE {[lo |-> R.rank, hi |-> R.rank]}

Answer ==
  /\ pc = "answer"
  /\ interval' \in MetaIntervals
  /\ pc' = "idle"
  /\ UNCHANGED <<local, tls, sys, calls, R, failed>>

-----------------------------------------------------------------------------
Choose ==
  \/ ProbeFails \/ ProbeRefutes \/ ProbeGrows \/ ProbeStops
  \/ LuFails \/ LuDeclines \/ LuAnswers

AutoRoute ==
  \/ AutoFails \/ AutoRefutes \/ AutoPrefixFull \/ AutoPrefixStops
  \/ AutoCore \/ AutoCoreLost

GlobalRoute == GlobalFails \/ GlobalCore \/ GlobalCoreLost

Core ==
  \/ Formation \/ CoreDoubted \/ CoreLoose \/ CoreAccepted \/ CoreRejected
  \/ ClosureHolds \/ ClosureRefutes \/ ClosureOpen

BlockRoute ==
  \/ BlockFails \/ BlockZeroRow \/ BlockPrefix
  \/ BlockPrefixDoubted \/ BlockPrefixFull \/ BlockPrefixStops
  \/ TailFails \/ TailDeclines \/ TailAnswers
  \/ BlockProofRowsFail \/ BlockInsert \/ BlockInsertGrey \/ BlockScanned
  \/ BlockProved \/ BlockUnproved
  \/ BlockRoundsSpent \/ BlockRoundFull \/ BlockRoundFails \/ BlockRound
  \/ BlockCore \/ BlockCoreDoubted \/ BlockCoreAccepted \/ BlockCoreRejected

Reset == ResetFails \/ ResetRefutes \/ ResetResolves \/ ResetGrey

Qrcp == QrcpFails \/ QrcpUndecided \/ QrcpResolves

Arbitrate ==
  \/ Routed
  \/ SampledFails \/ SampledDeclines \/ SampledAnswers
  \/ QualityGate \/ Answer

\* The steps of a call under way.
Step ==
  Choose \/ AutoRoute \/ GlobalRoute \/ Core \/ BlockRoute \/ Reset \/ Qrcp \/ Arbitrate

Next == Call \/ Step

Spec == Init /\ [][Next]_vars

\* A call runs on one thread to its end; nobody has to call.
FairSpec == Spec /\ WF_vars(Step)

-----------------------------------------------------------------------------
Locations ==
  {"idle", "probe", "lu", "auto", "auto_core", "global", "formation", "core",
   "closure", "block", "block_prefix", "tail", "block_sketch", "scan", "proof",
   "round", "block_core", "block_verify", "reset", "qrcp", "routed", "sampled",
   "gate", "answer"}
Intervals == [lo : -1..N, hi : -1..N]

\* Types of the router's state.
TypeOK ==
  /\ pc \in Locations
  /\ route \in Routes
  /\ sys \in Systems
  /\ pre \in 0..N /\ cand \in 0..N /\ floor \in 0..N
  /\ doubt \in BOOLEAN
  /\ rr \in Residuals
  /\ round \in 0..MaxRounds + 1
  /\ caller \in Callers
  /\ grey \in BOOLEAN
  /\ berr \in [valid : BOOLEAN, good : BOOLEAN, of : Makers]
  /\ src \in Intervals
  /\ coreSeen \in BOOLEAN
  /\ R \in [cls : Classes \union {"none"}, rank : 0..N, random : BOOLEAN, by : Makers]
  /\ interval \in Intervals
  /\ failed \in SUBSET Resources
  /\ calls \in Nat

(***************************************************************************)
(* Properties.                                                             *)
(***************************************************************************)
Answered == pc = "idle" /\ R.cls # "none"

\* Whatever route was taken and whatever could not be allocated on it, the
\* class is true of the source: compressed evidence alone never makes a
\* UNIQUE, an INCONSISTENT or a deterministic INFINITE (bsolver.c, head), and
\* a full-rank reset that skipped its grey rows is caught by the quality gate.
VerdictSound ==
  Answered =>
    /\ R.cls = "UNIQUE" => sys.rank = N /\ sys.cons
    /\ R.cls = "INFINITE" => sys.cons /\ R.rank <= sys.rank
    /\ R.cls = "INFINITE" /\ ~R.random => R.rank = sys.rank /\ sys.rank < N
    /\ R.cls = "INCONSISTENT" => ~sys.cons

\* The exported rank interval encloses the rank of the source, for every
\* class but FAIL, as long as the source arbiter did not itself fail: the
\* rank at which a route stopped is never passed off as the rank.
IntervalSound ==
  (Answered /\ R.cls # "FAIL" /\ "qrcp" \notin failed) =>
     sys.rank \in interval.lo..interval.hi

\* Every UNIQUE has passed the quality gate: a backward error was computed in
\* this call and is within the threshold (router.h, ABS_QUALITY_THRESHOLD).
UniqueCarriesQuality ==
  (Answered /\ R.cls = "UNIQUE") => berr.valid /\ berr.good

\* A contradiction or a refusal is claimed by the source arbitration alone,
\* never by the order in which the routes were tried, unless it failed.
SourceOwnsRefusals ==
  (Answered /\ R.cls \in {"INCONSISTENT", "UNDECIDABLE"} /\ "qrcp" \notin failed) =>
     R.by \in {"qrcp", "sampled"}

\* FAIL asserts nothing about the data: it is never returned unless an
\* allocation failed, whatever the data.
FailIsAboutResources ==
  (Answered /\ R.cls = "FAIL") => failed # {}

\* The most expensive step, QRCP of the whole source, runs at most twice in
\* a call: once for the route and once for the arbitration or the gate.
QrcpAtMostTwice == calls <= 2

\* Every call returns: no route hands over to another for ever.
Returns == pc # "idle" ~> pc = "idle"

\* A UNIQUE carries the certificate of the very x it exports (bsolver.c: "A
\* UNIQUE that leaves this function must carry a quality certificate").
CertificateIsOfTheWitness ==
  (Answered /\ R.cls = "UNIQUE") => berr.of = R.by

\* "Resource exhaustion is never converted into a status verdict": a source
\* arbitration that could not allocate does not answer UNDECIDABLE.
ShortageIsNotUndecidable ==
  (Answered /\ R.cls = "UNDECIDABLE") => "qrcp" \notin failed
=============================================================================
