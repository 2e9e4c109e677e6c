------------------------------ MODULE BlockRows ------------------------------
(***************************************************************************)
(* The rows of the source in solve_blockprefix_qr (bsolver.c), from the    *)
(* end of its prefix on: the tail scan with the threads of its windows,    *)
(* the sketch of the remaining rows with the budgets of its rounding       *)
(* (sketch_remainder, bsolver_core.c), the rows kept for the provenance    *)
(* proof, and, when the candidate made of them is rejected, the two passes *)
(* of reset_source_guarded over the source.                                *)
(*                                                                         *)
(* SecantTail has the tail row by row; Bundle decides what an insertion    *)
(* may do; Router has the route with each of these stages as one step.     *)
(* The prefix rows 0..P-1 are independent (redundant ones are left out),   *)
(* no row was grey before the tail, and a tail row that lies in the span   *)
(* of the prefix is a multiple of its first row.                           *)
(***************************************************************************)
EXTENDS SecantTail, FiniteSetsExt

CONSTANTS MaxThreads,  \* omp_get_max_threads()
          Buckets,     \* rows of the sketch, k of them
          Validators,  \* rows of E, qv of them
          Hash(_, _),  \* the bucket of a row at a draw
          ProofSlack,  \* rows a proof has room for beyond the prefix, 32 in the code
          ProofStep    \* rows added when there is no room, beside half of all, 8

ASSUME BlockAssumption == /\ MaxThreads \in Nat \ {0} /\ P > 0
                          /\ {ProofSlack, ProofStep} \subseteq Nat \ {0}

\* A row is hashed to a bucket at each of its draws: the hash is taken modulo k.
ASSUME FiniteAssumption ==
    /\ IsFiniteSet(Directions) /\ IsFiniteSet(Buckets) /\ IsFiniteSet(Validators)
    /\ \A r \in Remainder, d \in 1..2 : Hash(r, d) \in Buckets

Threads == 0..(MaxThreads - 1)
Source  == 0..(M - 1)
Cols    == P + Cardinality(Directions)
Outputs == {<<"C", k>> : k \in Buckets} \union {<<"E", v>> : v \in Validators}

VARIABLES
    phase,          \* tail, window, team, serial, sketch, keep, reset,
                    \* scan, done
    greyMeets,      \* the data: whether the grey rows agree with the others
    sys,            \* what they come to, as in Router: rank, cons, cap, size
    team,           \* a parallel region: its size, the threads still at work
    LE, hit,        \* each thread's part of E; the rows of the window that scored
    sp,             \* draws per row
    LC, LL,         \* each thread's part of the sketch and of its budgets
    terms,          \* how often each output of the sketch contains each row
    budget,         \* formL and valL: the additions the proof allows for
    kept,           \* number of outputs handed to the proof
    proof,          \* ProofRows: rows used, cap, and the sizes of both arrays
    s, pass, row,   \* reset_source_guarded: bundle, pass, next row
    amb, growth,    \* a row of this pass was grey, grew the bundle
    seen,           \* what the reset met so far: grey rows, missing scratch
    grey, berr, src, failed, R  \* as in Router

tailData == <<kind, parallel>>
tail   == vars
window == <<team, LE, hit>>
sketch == <<sp, LC, LL, terms, budget>>
keep   == <<kept, proof>>
reset  == <<s, pass, row, amb, growth, seen>>
report == <<grey, berr, src, failed, R>>
data   == <<greyMeets, sys>>
blockVars == <<phase, data, tail, window, sketch, keep, reset, report>>

-----------------------------------------------------------------------------
(* The data, as linear algebra sees it.                                    *)

\* The direction of a row; rows in the span of the prefix share that of row 0.
Axis(r) == IF r < P THEN <<"prefix", r>>
           ELSE IF kind[r] \in Directions THEN <<"new", kind[r]>> ELSE <<"prefix", 0>>
Nonzero(rows) == {r \in rows : r < P \/ ~Zero(r)}
Off(r) == r >= P /\ (\/ kind[r] \in {"falsezero", "contradicts"}
                     \/ kind[r] = "grey" /\ ~greyMeets)

RankOf(rows) == Cardinality({Axis(r) : r \in Nonzero(rows)})
Agree(rows)  == /\ \A r \in rows \intersect Remainder : kind[r] # "falsezero"
                /\ \A q, r \in Nonzero(rows) : Axis(q) = Axis(r) => Off(q) = Off(r)

B == INSTANCE Bundle WITH Rows <- Source, N <- Cols, Rank <- RankOf,
                          Consistent <- Agree, QInit <- 8, QFactor <- 4

Solvable == sys.cons

-----------------------------------------------------------------------------
NoTeam  == [size |-> 0, left |-> {}]
NoRow   == [r \in Remainder |-> 0]
NoPart  == [t \in Threads |-> NoRow]
NoTerms == [o \in Outputs |-> NoRow]
NoLen   == [o \in Outputs |-> 0]
NoProof == [used |-> P, cap |-> P + ProofSlack,
            rows |-> P + ProofSlack, eps |-> P + ProofSlack]
Blank   == [basis |-> {}, r |-> 0, qcap |-> Cols, inconsistent |-> FALSE]

BlockInit ==
    /\ Init /\ phase = "tail" /\ greyMeets \in BOOLEAN
    /\ parallel = (P >= Cols \div 2 /\ MaxThreads > 1)
    /\ (\A r \in Remainder : kind[r] # "grey") => greyMeets
    /\ sys = [rank |-> RankOf(Source), cons |-> Agree(Source),
              cap |-> IF M < Cols THEN M ELSE Cols, size |-> "large"]
    /\ team = NoTeam /\ LE = NoPart /\ hit = {}
    /\ sp = 1 /\ LC = [t \in Threads |-> NoTerms] /\ LL = [t \in Threads |-> NoLen]
    /\ terms = NoTerms /\ budget = NoLen
    /\ kept = 0 /\ proof = NoProof
    /\ s = Blank /\ pass = 0 /\ row = 0 /\ amb = FALSE /\ growth = FALSE
    /\ seen = {}
    /\ grey = FALSE /\ berr = [valid |-> FALSE, good |-> FALSE, of |-> "none"]
    /\ src = [lo |-> -1, hi |-> -1] /\ failed = {}
    /\ R = [cls |-> "none", rank |-> 0, random |-> FALSE, by |-> "none"]

\* The route returns a Result.
Answers(cls, rank, random, by) ==
    /\ phase' = "done"
    /\ R' = [cls |-> cls, rank |-> rank, random |-> random, by |-> by]

FailsFor(what) == /\ Answers("FAIL", 0, FALSE, "none")
                  /\ failed' = failed \union {what}

\* schedule(static): contiguous shares, each row with one owner.
Share(t, nt, lo, hi) == {r \in lo..(hi - 1) : ((r - lo) * nt) \div (hi - lo) = t}

-----------------------------------------------------------------------------
(* The tail.  Its answers beyond the prefix go to the source QRCP.         *)

Scanned(good) == berr' = [valid |-> TRUE, good |-> good, of |-> "tail"]

TailRow ==
    /\ phase = "tail" /\ pc # "done"
    /\ RowQuiet \/ RowHit \/ InsertGrows \/ InsertAbsorbs
    /\ UNCHANGED <<phase, data, window, sketch, keep, reset, report>>

TailNoMemory ==
    /\ phase = "tail" /\ NoMemory
    /\ FailsFor("state")
    /\ UNCHANGED <<data, window, sketch, keep, reset, grey, berr, src>>

\* A row without the local SVD's scratch is a grey row too.
TailDeclined ==
    /\ phase = "tail"
    /\ \/ /\ InsertDeclines /\ grey' = TRUE /\ UNCHANGED berr
          /\ \/ UNCHANGED failed
             \/ kind[i] = "contradicts" /\ failed' = failed \union {"svd_scratch"}
       \/ /\ Unproved /\ UNCHANGED <<grey, failed>>
          /\ (CheckFails /\ UNCHANGED berr) \/ (ScanFails /\ Scanned(FALSE))
    /\ UNCHANGED <<phase, data, window, sketch, keep, reset, src, R>>

\* The claim is taken as it is, or left to the source QRCP.
Claims(cls, random) ==
    IF span = {} THEN Answers(cls, P, random, "tail")
                 ELSE phase' = "done" /\ UNCHANGED R

TailAnswered ==
    /\ phase = "tail"
    /\ \/ /\ InsertContradicts /\ Claims("INCONSISTENT", FALSE) /\ UNCHANGED berr
       \/ /\ FullRank /\ (result' = "UNIQUE") = Solvable
          /\ Claims(result', FALSE)
          /\ \E good \in BOOLEAN : (good => Solvable) /\ Scanned(good)
       \/ /\ Proposes /\ Solvable /\ Claims("INFINITE", TRUE)
          /\ \E good \in BOOLEAN : Scanned(good)
    /\ UNCHANGED <<data, window, sketch, keep, reset, grey, src, failed>>

\* A parallel region of any size up to the number the buffers are made for;
\* its threads work and finish in any order.
Fork    == \E nt \in 1..MaxThreads : team' = [size |-> nt, left |-> 0..(nt - 1)]
Left(t) == team' = [team EXCEPT !.left = @ \ {t}]
Joined  == team.left = {} /\ team' = NoTeam

Summed(part) == [r \in Remainder |-> SumFunction([t \in Threads |-> part[t][r]])]

-----------------------------------------------------------------------------
(* A window of the tail: its rows are dealt to the threads, each of which  *)
(* accumulates and screens its own; then one thread adds up the parts.     *)

\* Faulty variant: the buffers keep what an earlier window left in them.
WindowForkUncleared ==
    /\ phase = "tail" /\ Scanning /\ WindowIsDue
    /\ phase' = "window" /\ Fork /\ hit' = {}
    /\ UNCHANGED <<LE, data, tail, sketch, keep, reset, report>>

WindowFork ==
    /\ phase = "tail" /\ Scanning /\ WindowIsDue
    /\ phase' = "window" /\ Fork /\ LE' = NoPart /\ hit' = {}
    /\ UNCHANGED <<data, tail, sketch, keep, reset, report>>

WindowWork(t) ==
    /\ phase = "window" /\ t \in team.left
    /\ LET rows == Share(t, team.size, i, WindowEnd)
       IN  /\ LE' = [LE EXCEPT ![t] = [r \in Remainder |->
                       IF r \in Nonzero(rows) THEN @[r] + 1 ELSE @[r]]]
           /\ \E scored \in SUBSET rows :
                /\ \A r \in rows : (r \in scored) \in Screen(r)
                /\ hit' = hit \union scored
    /\ Left(t)
    /\ UNCHANGED <<phase, data, tail, sketch, keep, reset, report>>

WindowJoin ==
    /\ phase = "window" /\ Joined
    /\ phase' = "tail" /\ UNCHANGED LE /\ hit' = {}
    /\ E' = [r \in Remainder |-> E[r] + Summed(LE)[r]]
    /\ covered' = WindowEnd
    /\ IF hit = {}
       THEN /\ i' = WindowEnd /\ streak' = streak + (WindowEnd - i)
            /\ against' = Screened(i..(WindowEnd - 1))
            /\ UNCHANGED pc
       ELSE /\ i' = Min(hit) /\ pc' = "insert"
            /\ against' = Screened(i..Min(hit))
            /\ UNCHANGED streak
    /\ UNCHANGED <<data, tailData, grown, result, sketch, keep, reset, report>>

-----------------------------------------------------------------------------
(* A tail that declined: the other rows are compressed into Buckets and    *)
(* Validators, in parallel when each row is drawn once.                    *)

Draws(r, o) ==
    IF r \notin Nonzero(Remainder) THEN 0
    ELSE IF o[1] = "E" THEN 1
    ELSE Cardinality({d \in 1..sp : Hash(r, d) = o[2]})

Terms(rows) ==
    [o \in Outputs |-> [r \in Remainder |-> IF r \in rows THEN Draws(r, o) ELSE 0]]
Lengths(rows) ==
    [o \in Outputs |-> SumFunction([r \in rows |-> Draws(r, o)])]

Forgotten ==
    /\ i' = P /\ covered' = P /\ streak' = 0 /\ grown' = {}
    /\ E' = NoRow /\ against' = [r \in Remainder |-> {}] /\ LE' = NoPart
    /\ UNCHANGED <<tailData, pc, result, hit>>

InParallel(draws) == /\ draws = 1 /\ Cardinality(Validators) = 2
                     /\ M - P >= MinWindow /\ MaxThreads > 1

\* All of the output starts from zero, as calloc leaves it.
SketchStarts ==
    /\ phase = "tail" /\ result = "declined" /\ Forgotten
    /\ \E draws \in 1..2 : sp' = draws /\ phase' = IF InParallel(draws) THEN "team" ELSE "serial"
    /\ IF phase' = "team" THEN Fork ELSE UNCHANGED team
    /\ UNCHANGED <<LC, LL, terms, budget, data, keep, reset, report>>

SketchNoMemory ==
    /\ phase = "tail" /\ result = "declined"
    /\ FailsFor("state")
    /\ UNCHANGED <<data, tail, window, sketch, keep, reset, grey, berr, src>>

\* The threads' scratch cannot be had: the serial loop needs none of it.
SketchFallsThrough ==
    /\ phase = "tail" /\ result = "declined" /\ Forgotten
    /\ InParallel(1) /\ sp' = 1 /\ phase' = "serial"
    /\ UNCHANGED <<team, LC, LL, terms, budget, data, keep, reset, report>>

SketchWork(t) ==
    /\ phase = "team" /\ t \in team.left
    /\ LET rows == Share(t, team.size, P, M)
       IN  /\ LC' = [LC EXCEPT ![t] = Terms(rows)]
           /\ LL' = [LL EXCEPT ![t] = Lengths(rows)]
    /\ Left(t)
    /\ UNCHANGED <<phase, data, tail, LE, hit, sp, terms, budget, keep, reset, report>>

\* Faulty variant: the counts of the first thread stand for all of them.
SketchJoinPartly ==
    /\ phase = "team" /\ Joined
    /\ phase' = "sketch"
    /\ terms'  = [o \in Outputs |-> Summed([t \in Threads |-> LC[t][o]])]
    /\ budget' = LL[0]
    /\ LC' = [t \in Threads |-> NoTerms] /\ LL' = [t \in Threads |-> NoLen]
    /\ UNCHANGED <<data, tail, LE, hit, sp, keep, reset, report>>

SketchJoin ==
    /\ phase = "team" /\ Joined
    /\ phase' = "sketch"
    /\ terms'  = [o \in Outputs |-> Summed([t \in Threads |-> LC[t][o]])]
    /\ budget' = [o \in Outputs |-> SumFunction([t \in Threads |-> LL[t][o]])]
    /\ LC' = [t \in Threads |-> NoTerms] /\ LL' = [t \in Threads |-> NoLen]
    /\ UNCHANGED <<data, tail, LE, hit, sp, keep, reset, report>>

SketchSerial ==
    /\ phase = "serial"
    /\ phase' = "sketch"
    /\ terms' = Terms(Remainder) /\ budget' = Lengths(Remainder)
    /\ UNCHANGED <<data, tail, window, sp, LC, LL, keep, reset, report>>

-----------------------------------------------------------------------------
(* The outputs become rows of the proof (proof_rows_add_normalized), one   *)
(* after the other; an output of zeros is passed over.                     *)

Adding == phase = "keep" /\ kept < Cardinality(Outputs)
Room   == proof.used < proof.cap
Larger == proof.cap + proof.cap \div 2 + ProofStep

KeepStarts ==
    /\ phase = "sketch" /\ phase' = "keep"
    /\ sp' = 1 /\ terms' = NoTerms /\ budget' = NoLen
    /\ UNCHANGED <<LC, LL, data, tail, window, keep, reset, report>>

KeepPasses ==
    /\ Adding /\ kept' = kept + 1
    /\ UNCHANGED <<phase, data, tail, window, sketch, proof, reset, report>>

\* A norm that is not finite.
KeepRefuses ==
    /\ Adding
    /\ Answers("UNDECIDABLE", P, FALSE, "none")
    /\ UNCHANGED <<data, tail, window, sketch, keep, reset, grey, berr, src, failed>>

\* Faulty variant: cap is raised before both arrays have grown.
KeepReservesEarly ==
    /\ Adding /\ ~Room
    /\ Answers("UNDECIDABLE", P, FALSE, "none")
    /\ failed' = failed \union {"proof"}
    /\ proof' \in {proof, [proof EXCEPT !.rows = Larger, !.cap = Larger]}
    /\ UNCHANGED <<data, tail, window, sketch, kept, reset, grey, berr, src>>

\* One of the two realloc fails, the first or the second.
KeepFails ==
    /\ Adding /\ ~Room
    /\ Answers("UNDECIDABLE", P, FALSE, "none")
    /\ failed' = failed \union {"proof"}
    /\ proof' \in {proof, [proof EXCEPT !.rows = Larger]}
    /\ UNCHANGED <<data, tail, window, sketch, kept, reset, grey, berr, src>>

Keeps ==
    /\ Adding /\ kept' = kept + 1
    /\ proof' = IF Room THEN [proof EXCEPT !.used = @ + 1]
                ELSE [used |-> proof.used + 1, cap |-> Larger, rows |-> Larger, eps |-> Larger]
    /\ UNCHANGED <<phase, data, tail, window, sketch, reset, report>>

-----------------------------------------------------------------------------
(* A candidate bundle is made of prefix and sketch.  Unless its rows and   *)
(* the validators agree, the source is inserted from scratch; the scan of  *)
(* a candidate and what follows are steps of Router.                       *)

CandidateDue == phase = "keep" /\ kept = Cardinality(Outputs)
ProofFreed   == kept' = 0 /\ proof' = NoProof

CandidateNoMemory ==
    /\ CandidateDue /\ FailsFor("state")
    /\ UNCHANGED <<data, tail, window, sketch, keep, reset, grey, berr, src>>

CandidateMade ==
    /\ CandidateDue /\ phase' = "scan" /\ ProofFreed
    /\ UNCHANGED <<data, tail, window, sketch, reset, report>>

CandidateRejected ==
    /\ CandidateDue /\ phase' = "reset" /\ ProofFreed
    /\ failed' \in {failed, failed \union {"svd_scratch"}}
    /\ UNCHANGED <<data, tail, window, sketch, reset, grey, berr, src, R>>

-----------------------------------------------------------------------------
(* reset_source_guarded, row by row.                                       *)

Resetting == phase = "reset" /\ row < M

ResetNoMemory ==
    /\ phase = "reset" /\ pass = 0 /\ row = 0 /\ s = Blank
    /\ FailsFor("state")
    /\ UNCHANGED <<data, tail, window, sketch, keep, reset, grey, berr, src>>

ResetRow ==
    /\ Resetting
    /\ \E o \in B!InsertCertified(s, row) :
         /\ ~o.s.inconsistent
         /\ s' = o.s /\ row' = row + 1
         /\ amb' = (amb \/ o.rc = "DEFER")
         /\ growth' = (growth \/ o.rc = "GROW")
         /\ seen' = seen \union (IF o.rc = "DEFER" THEN {"grey", o.failed} \ {"none"} ELSE {})
    /\ UNCHANGED <<phase, data, tail, window, sketch, keep, pass, report>>

\* The locals go; what the rows met is known to the caller's thread.
ResetReturns(cls, rank) ==
    /\ Answers(cls, rank, FALSE, IF cls = "UNDECIDABLE" THEN "none" ELSE "reset")
    /\ grey' = (grey \/ "grey" \in seen)
    /\ failed' = failed \union (seen \ {"grey"})
    /\ s' = Blank /\ pass' = 0 /\ row' = 0 /\ amb' = FALSE /\ growth' = FALSE /\ seen' = {}
    /\ UNCHANGED <<data, tail, window, sketch, keep, berr>>

ResetContradicts ==
    /\ Resetting
    /\ \E o \in B!InsertCertified(s, row) : o.s.inconsistent
    /\ ResetReturns("INCONSISTENT", s.r) /\ UNCHANGED src

PassEnds == phase = "reset" /\ row = M
\* Faulty variant: a pass that met grey rows but did not grow counts as resolved.
ResolvedIfIdle == s.r = Cols \/ ~amb \/ ~growth

Resolved == s.r = Cols \/ ~amb

ResetResolves ==
    /\ PassEnds /\ Resolved
    /\ ResetReturns(IF s.r = Cols THEN "UNIQUE" ELSE "INFINITE", s.r) /\ UNCHANGED src

ResetAgain ==
    /\ PassEnds /\ ~Resolved /\ pass = 0 /\ growth
    /\ pass' = 1 /\ row' = 0 /\ amb' = FALSE /\ growth' = FALSE
    /\ UNCHANGED <<phase, data, tail, window, sketch, keep, s, seen, report>>

ResetGrey ==
    /\ PassEnds /\ ~Resolved /\ (pass = 1 \/ ~growth)
    /\ ResetReturns("UNDECIDABLE", s.r) /\ src' = [lo |-> s.r, hi |-> Cols]

-----------------------------------------------------------------------------
TailStep   == TailRow \/ TailNoMemory \/ TailDeclined \/ TailAnswered
WindowStep == WindowFork \/ WindowJoin \/ \E t \in Threads : WindowWork(t)
SketchStep == \/ SketchStarts \/ SketchNoMemory \/ SketchFallsThrough
              \/ SketchJoin \/ SketchSerial \/ \E t \in Threads : SketchWork(t)
KeepStep   == KeepStarts \/ KeepPasses \/ KeepRefuses \/ KeepFails \/ Keeps
CandidateStep == CandidateNoMemory \/ CandidateMade \/ CandidateRejected
ResetStep  == ResetNoMemory \/ ResetRow \/ ResetContradicts \/ ResetResolves
              \/ ResetAgain \/ ResetGrey

BlockStep == TailStep \/ WindowStep \/ SketchStep \/ KeepStep \/ CandidateStep \/ ResetStep
Ended     == phase \in {"scan", "done"}
BlockNext == BlockStep \/ (Ended /\ UNCHANGED blockVars)

\* The call runs to its end; the threads of a region run until they are done.
BlockSpec == BlockInit /\ [][BlockNext]_blockVars /\ WF_blockVars(BlockStep)

-----------------------------------------------------------------------------
(* Properties.                                                             *)

\* The types; the proof's rows stay within what both of its arrays hold, also
\* when one of them could grow and the other could not.
BlockTypeOK ==
    /\ TypeOK
    /\ phase \in {"tail", "window", "sketch", "team", "serial", "keep", "scan", "reset", "done"}
    /\ team \in [size : 0..MaxThreads, left : SUBSET Threads] /\ hit \subseteq Remainder
    /\ LE \in [Threads -> [Remainder -> Nat]]
    /\ sp \in 1..2 /\ terms \in [Outputs -> [Remainder -> Nat]] /\ budget \in [Outputs -> Nat]
    /\ kept \in 0..Cardinality(Outputs)
    /\ proof.used <= proof.cap /\ proof.cap <= proof.rows /\ proof.cap <= proof.eps
    /\ s \in B!BState /\ s.r = Cardinality(s.basis) /\ pass \in 0..1 /\ row \in 0..M
    /\ seen \subseteq {"grey", "svd_scratch"}
    /\ failed \subseteq {"state", "svd_scratch", "proof"}

\* The threads of a window do together what one scan of its rows would:
\* whatever their number and order, each row weighs once in E, and the scan
\* goes on at the first hit of all, never at the first of the last thread.
ImplementsTail ==
    [][(phase \in {"tail", "window"} /\ phase' \notin {"team", "serial"}) => Next]_vars

\* The rounding budget of each compressed row counts exactly the rows that
\* were added to it, and every row of the remainder is in the compression,
\* whether it was made by a team, in serial, or in serial for want of scratch.
BudgetMatchesSketch ==
    phase = "sketch" =>
      /\ \A o \in Outputs : budget[o] = SumFunction(terms[o])
      /\ \A r \in Nonzero(Remainder) :
           /\ SumFunction([k \in Buckets |-> terms[<<"C", k>>][r]]) = sp
           /\ \A v \in Validators : terms[<<"E", v>>][r] = 1

\* The source rows decide as Router has it in one step: the route refutes
\* only an unsolvable source, resolves only at its rank, and leaves the rank
\* open when a row stayed grey in the second pass or in one without growth.
MappedPc ==
    CASE phase \in {"tail", "window"} ->
           IF result = "declined" THEN "block_sketch" ELSE "tail"
      [] phase \in {"sketch", "team", "serial", "keep"} -> "block_sketch"
      [] phase \in {"scan", "reset"} -> phase
      [] OTHER -> IF R.cls = "none" THEN "qrcp" ELSE "routed"
OnRoute == MappedPc \in {"tail", "block_sketch", "scan"}

Rt == INSTANCE Router WITH
    N <- Cols, ClosureMax <- 8, NearFull <- 8, TailGap <- 256,
    pc <- MappedPc,
    route <- IF OnRoute THEN "block" ELSE "none",
    pre <- IF OnRoute THEN P ELSE 0,
    cand <- IF phase = "scan" THEN P ELSE 0,
    floor <- IF MappedPc = "qrcp" THEN P ELSE 0,
    doubt <- FALSE, rr <- "tiny",
    round <- IF phase = "scan" THEN 1 ELSE 0,
    caller <- IF MappedPc = "qrcp" THEN "formation" ELSE "none",
    coreSeen <- FALSE, interval <- [lo |-> -1, hi |-> -1], calls <- 0

ImplementsRouter == [][Rt!Step]_(Rt!vars)

\* The rows come to an end: windows, returns into them, teams, both passes.
RouteEnds == <>Ended
=============================================================================
