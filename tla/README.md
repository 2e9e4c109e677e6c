# A TLA+ model of the affine-bundle solver

The solver classifies a dense real system `Ax = b` as UNIQUE, INFINITE,
INCONSISTENT or UNDECIDABLE (or FAIL, which says nothing about the data). This
directory models how it comes to a class: the order of its decisions, what each
of them may be relied on for, what happens when memory runs out, and what state
one call leaves for the next. Floating point is not modelled: a numerical
computation is the set of answers the surrounding code tells apart, with the
soundness that the code claims for it stated as an assumption.

## The system

| component | state it keeps | operations | what makes it correct |
|---|---|---|---|
| affine bundle (`src/bsolver_core.c`, `bs_insert_certified`) | `BState`: rows of Q, rank r, capacity of Q, x, inconsistent flag | insert a row: absorb, grow, contradict, leave grey, no memory | rank and solution are those of the rows taken; a failed growth changes nothing; storage follows the rank |
| streams (`abs_stream_*`) | `ABSStream`: bundle, closed, seen, deferred | create, insert, status, counts (only read), solution, destroy | class and rank interval are true of every row seen, also after grey ones; nothing known is taken back |
| router (`solve_router`, its routes) | one call: route, prefix, candidate, Result; thread-local backward error and source interval | probe, square LU, auto, global, block prefix, tail, reset, source QRCP, sampled rows, quality gate | class and interval true of the source along every route; UNIQUE passes the quality gate; the call returns |
| secant tail (`try_secant_tail`) | bundle copy, scan index, frontier `covered`, streak, combinations E | scan by rows or windows, insert, check, propose | each row weighed once, screened against every earlier growth |
| per-call diagnostics | thread-local grey store, orthogonality maximum, core and source intervals, guard counters | reset, record, read, snapshot | a snapshot describes one call |
| source QRCP arbiter | none between calls | factor the source, grade the diagonal, scan | its rank interval encloses the source rank |
| sketching, formation guard, proof rows | per-thread buckets and counts of one call; rows kept for a proof, with two growing arrays | compress the rest of the source, keep what was compressed, certify a rank lower bound | each rounding budget counts the rows that are in its bucket; the rows fit both arrays; a certified rank is one the source has |
| status verifiers (`status_certificate.c`) | rounding mode of each thread, one slot per row, a flag of failed set-up | check an object, scan its rows on a team of threads, take the maximum | an accepted radius is one the rows support; a shortage is reported as one; every thread's mode is given back |
| certified driver, witness generators (`certified_api.c`) | thread-local shortage flag; two witnesses | route, generate, verify, fall back, tilt, project | accepted means verified in this call; a shortage of the candidate's call leaves no evidence |
| operational policy (`operational_policy.inc`) | the result struct, with `policy_used` in it | validate, copy the policy, clear the result, route with default or custom thresholds, gate | the thresholds applied and reported are the caller's, wherever the caller keeps them; under them UNIQUE means the caller's quality |
| solve (`bsolve`, `bsolve_ex`) | the caller's x | refuse, copy the policy, route, reconstruct a candidate x | code, class and contents of x agree, also when x is the caller's A or b |
| candidate check (`candidate_check.c`) | the rounding mode | bound each row's residual and backward error, take the maxima, judge | a candidate within the quality has every row within it; a failed call leaves no evidence |

The router calls every route as a function; the routes call one another's
building blocks (bundle, cores, formation guard), fall back to
`reset_source_guarded`, and ask the source QRCP before they claim anything a
compressed core proposed. `solve_router` arbitrates what the route returned and
gates a UNIQUE by the backward error the last full scan left in thread-local
state. Every bundle, of a route or of a stream, writes the diagnostics that the
accessors read. Threads share nothing else. OpenMP parallelises scans, the
tail's windows and the sketch inside one call. The policy entry runs either the
router as it is or, under custom thresholds, the source QRCP alone; `bsolve_ex` and
`bsolve_certified_policy_api` call it, each with a copy of the policy made before
the result that may hold it is cleared.

What is hard here: grey rows whose meaning is settled only later, if ever;
allocations that fail in the middle of a route which has a partial answer; state
of the last scan read after the witness was replaced; windows of the tail that
are screened against a bundle which a hit in them changes; thread-local state
that several entry points reset, or do not.

## Modules

| module | models |
|---|---|
| `Bundle` | the bundle and `bs_insert_certified`: growth with the capacity rule of `bs_reserve_row`, absorption, contradiction with the local SVD's confirmation, the grey zone. A row is an element of `Rows`; `Rank` and `Consistent` are what linear algebra knows of sets of rows |
| `Stream` | extends `Bundle`: one stream and its caller. `s`, `closed`, `seen`, `deferred` are the fields of `ABSStream`; each `abs_stream_*` function is an action per outcome; `ret` is the value returned; `absorbed`, `declined`, `refuted`, `absorbs` are history |
| `StreamContract` | what a stream promises, knowing only the rows processed: a rank interval that encloses their rank and moves up by at most one at either end per row, and a verdict that they support, a contradiction final and a doubt never taken back |
| `StreamProofs` | theorems about `Stream`, the refinement of `StreamContract` among them |
| `Router` | one router call after another. `pc` is the point in `solve_router` or in a route, the other variables are the route's locals (`pre`, `cand`, `floor`, `doubt`, `rr`, `round`), the thread-local state a call reads back (`berr`, `src`, `grey`, `coreSeen`) and the `Result` |
| `RouterProofs` | theorems about `Router` |
| `SecantTail` | the loop of `try_secant_tail` and the checks after it, one action per row, window or insertion |
| `SecantTailProofs` | theorems about `SecantTail` |
| `BlockRows` | extends `SecantTail`, uses `Bundle`: the block-prefix route row by row from the end of its prefix on. A window is a team of threads with buffers of their own (`LE`), a sketch is drawn by a team or in series (`LC`, `LL`, `terms`, `budget`), its outputs go into the growing arrays of `ProofRows` (`proof`), and a rejected candidate is followed by the two passes of `reset_source_guarded` (`s`, `pass`, `row`, `amb`, `growth`). `phase` is the stage. It implements `SecantTail`, and the actions `Router` has for tail, sketch and reset |
| `BlockProofs` | theorems about `BlockRows`, its two refinements among them |
| `Diagnostics` | the thread-local diagnostics of several threads; a value is the set of calls whose data it comes from |
| `DiagnosticsProofs` | theorems about `Diagnostics` |
| `Verifiers` | one verifying call after another, and the threads of the OpenMP pool: fork, set-up, rows, barrier, restoring, join are actions of their threads. A number is one of the classes zero, finite, infinite, NaN; what a row needs is part of the object, what the code computes of it is any upper bound |
| `CandidateCheck` | extends `Verifiers`: `abs_check_candidate`, called between the verifiers on the same threads, whose rounding modes it changes too |
| `VerifierProofs` | theorems about `Verifiers` and `CandidateCheck` together |
| `Certified` | one call after another of `bs_certify_candidate`, `bsolve_certified_api`, `bsolve_certified_policy_api`, `bsolve_certified_diag_api`: `pc` is the place in the three profiles, `g` and `v` the generator and verifier codes, a vector is known by what made it. |
| `CertifiedProofs` | theorems about `Certified` |
| `Api` | extends `Certified`: `bsolve_router_policy_api`, `bsolve`, `bsolve_ex`, and `bsolve_certified_policy_api` with the router call inside it. `memory` holds what is in each place a policy can be in, `ptr` the place the running function reads; `x`, `xIn` and `source` are the caller's vectors. It is its own instance: its constants are the code's |
| `ApiProofs` | theorems about `Api`, composed of those about `Certified` |
| `MC*` | the instances for TLC |

Operators marked "Faulty variant", and a few others named for what they do
wrong, are forms of an operation with a plausible bug. Nothing uses them; they
record which mistake each property would notice (`mutants` in `PROJECT.json`).

### What the models take from the numerics

- `Bundle`: `dependency_distance_interval` may be too wide to decide but encloses
  the distance; the compatibility test of a dependent row is right.
  `RankAssumption` says rank is that of a matroid on N columns,
  `ConsistentAssumption` that solvability is that of linear equations.
- `Router`: bundle rows taken from the source have a rank the source has; a
  rank proposed by compressed rows is any number; `fg_qr_rank_certifies` accepts
  only a rank the source has; a full scan passes only an x that solves the source,
  and may fail any x not derived from spanning source rows; a resolved source QRCP
  is right.
- `SecantTail`: the probes may score a row inside the bundle and may miss a row
  outside it. A combination that holds a row of a new direction does not pass the
  final check: its random weights do not cancel.
- `BlockRows`: as `Bundle` and `SecantTail`; the rows of the prefix are
  independent and their rank certified, and the part of a tail row outside the
  prefix is one of the `Directions`. `Hash` may give any bucket at a draw, the same
  one twice included (`FiniteAssumption`: never none, the code takes it modulo k).
- `Verifiers`, `CandidateCheck`: a directed bound is at least what it bounds and may be infinite. It
  is never a NaN itself: rounded downwards no sum reaches plus infinity, rounded
  upwards none reaches minus infinity. Products of bounds with a zero can be.
- `Certified`: a generator or verifier returns any of its codes, a missed
  allocation only those that it leads to. A generator refuses its arguments (code 1)
  only where `bsolve_certified_api`, which looks at none, passed them on, or for UNIQUE
  when there are fewer rows than columns (`Unchecked`). The verifiers' own allocations are not
  among the watched ones: `bs_certify_candidate` returns OK with the verifier's
  shortage code after those.
- `Api`: the router answers with any class on the default path, which `Router` is
  about. A backward error is known by the strictest quality it is within, and may be
  a NaN; the default scan reports an error that is too large but not above the
  default quality, and ignores a NaN.

## Runs

| run | instance | result |
|---|---|---|
| `stream` | rows over the field of two elements in three columns: a zero row, a false zero row, two contradicting rows of one axis, two other directions, a dependent row; up to five rows processed; capacities 1, 2, 3 | the invariants, the monotony of what is known, and the contract hold: 49 158 states |
| `stream_no_memory` | the same | violated: the local SVD reports missing scratch as a grey row |
| `router` | N = 3, every system of rank up to 3, every route, every allocation failing or not | class, interval, gate, ownership of refusals and termination hold: 389 051 states |
| `router_certificate` | the same | violated: a UNIQUE of the guarded reset leaves with the backward error of the rejected candidate |
| `router_shortage` | the same | violated: a source QRCP without memory becomes UNDECIDABLE |
| `secant_tail` | `BlockRows` with a prefix row and four tail rows of every kind, windows of two, two missing directions, two threads, two buckets and two validators | 481 275 states; no row is weighed twice or passed on an old screen, budgets match the sketch, threads and stages refine `SecantTail` and `Router`, the route ends |
| `diagnostics` | two threads, two calls of five kinds, three grey events, a store of two | 1 824 323 states up to symmetry; a snapshot is of one call |
| `diagnostics_rejected` | one thread | violated: a rejected call hands out the grey rows of the call before |
| `verifiers` | two rows of six kinds, candidates of five kinds of row, teams of up to two threads, two callers' modes | an accepted radius is supported, the candidate's bounds hold for every row, set-up failures are reported, modes are restored: 80 536 states |
| `verifiers_radius` | the same | violated: `bs_verify_infinite` accepts with radius zero over a row whose bound is a NaN |
| `verifiers_workers` | the same | violated: a thread created by the region keeps rounding upwards afterwards |
| `certified` | `Api`: the router's, solve's and the four certified entries in any order, any policy in any place, any code, any allocation failing | accepted is verified, the fallback has its vector, a shortage closes the call, the caller's policy governs, x and code agree: 396 043 states |

Each violated property states a sentence of the repository's own documentation or
comments, quoted with its place under `findings` in `PROJECT.json`. The other
properties, each with the bug it was seen to notice, are described where they
are defined.

In the router run three properties need care. `IntervalSound` and
`SourceOwnsRefusals` speak of calls whose source QRCP had its memory, because
`router_shortage` shows what a call without it does. `UniqueCarriesQuality` says
that some backward error of this call was within the threshold;
`CertificateIsOfTheWitness` is the stronger statement that fails.

`RadiusBounds` leaves out infinite witnesses whose x is zero or has no finite
norm; `InfiniteRadiusBounds`, which has them, fails. `ModesRestored` says
that a worker restores what it saved and a caller gets back what it had;
`PoolRoundsAsCallers` that what a worker saved was a caller's mode, and that fails
for a thread born in the region.

`QualityIsOfThePolicy` leaves out one case. With custom thresholds but the default
quality the error is the one of the default scan, whose comparisons ignore a NaN; the
other qualities compute it anew and make such an error infinite. Whether an x that
passed the scan can have one depends on floating point that the model abstracts.

`ImplementsRouter` is a step refinement: every stage of `BlockRows` is, by the
mapping of its phase and locals, a step of `Router` on the same system or a
stutter. `Router` stays the model of all routes; `BlockRows` shows that what its
tail, sketch and reset actions may do is what the rows decide. `BlockRouter` proves
it for every size.

Two remarks in the headers are looser than the code and have no run. Streams raise
the orthogonality maximum that `bsolve_last_orth_eta_api` reports of "the most
recent router call" (`StreamInsert`), and the accessors speak of the most recent
call "on any thread" where all their state is `_Thread_local`. And a call that
`bsolve_certified_diag_api` refuses leaves its result all zero, radii included
(`Refuse`), as `docs/combined-certified-diagnostics.md` says.

### Bounds

- Streams: with `QInit = 1`, `QFactor = 2` and three columns, Q passes through
  reservation, growth and the cap at n; the code's 8 and 4 need 33 columns for the
  same. Five processed rows are enough to have two deferred, full rank, and a
  contradiction after them. The proofs cover every size.
- Router: rank differences decide, not sizes. With N = 3, `ClosureMax = 1` (8 in
  the code), `NearFull = 1` (8) and `TailGap = 2` (256), each comparison goes both
  ways. The sizes n < 48 and n < 192 are classes of a system. `MaxRounds` is 3, as
  in the code. Deadlock is checked: between calls a new one can always begin.
- Tail and block rows: windows of 2 (2048 in the code), a quiet streak of 1 (32) and
  a least remainder of 1 row (10^6 entries) over four tail rows give two windows in
  succession, a cut one, a hit at each place, two hits in one window and a return
  into it. Two threads share a window or a sketch; with two draws and two buckets a
  row falls into one bucket twice or into both. The proof starts with room for one
  row more than the prefix (32) and grows by one beside the half (8), so that four
  outputs make it grow twice. At most one tail row is grey or contradicts, and the
  two directions appear in one order: what distinguishes the stages is whether there
  is such a row, and where. The proofs cover every window, streak and
  length, every number of threads, buckets and validators, every hash, and any mix
  of rows.
- Diagnostics: a store of 2 (64) and three rows reach a full store with a new row
  and a repeated one. Two calls suffice for a value of the one to reach the other;
  a third would only be another one of these. `MaxCalls`, `MaxEvents` and
  `MaxChecks` bound the run.
- Verifiers: with two rows a team has one or two threads, and a thread of the pool
  is born in one call and met again in a later one of either mode. The six kinds of
  row are the combinations of change, residual and source norm that the arithmetic
  treats differently, the five of a candidate those of error, residual and
  denominator. No call counter: a new call starts from a cleared object.
- Certified and Api: no bound; every variable has finitely many values.

### Fairness

Only `Router` and `BlockRows` state any: weak fairness of the steps of the call or
function in progress. One thread runs it, or a team whose threads only compute
between fork and join; nothing waits for another caller, so some step is taken. No
caller is obliged to call: `Call` and the stuttering after a return are outside the
fair action. The other modules have safety properties only. That no thread of a
verifying team waits for ever at the barrier is the absence of deadlock in
`verifiers`.

## Proofs

`StreamProofs` proves, from `SizeAssumption`, `RankAssumption`,
`ConsistentAssumption` and `MaxSeenAssumption`:

- `StreamInvariant`: `StreamInv` is inductive. The properties alone are not. That
  the interval stays sound needs that absorbed rows add no rank to the basis and
  each deferred row at most one to the rank of all; that a verdict stays true needs
  that basis and absorbed rows together stay solvable.
- From it `StreamTypes`, `RankInterval`, `Verdicts`, `Accounting`, `Storage`,
  `Retry`, and the action property `Monotone`.
- `Implementation`: with `known` the rows processed, `lo` and `hi` the reported
  interval and `verdict` the class, an initial state of `Stream` is one of
  `StreamContract` and each step is a step of it or a stutter.

`SecantTailProofs` proves, from `TailAssumption` and `DirectionAssumption`:

- `TailInvariant`: `TailInv` is inductive. `EachRowOnce` needs that the scan stays
  within the rows accumulated and that a row at the insertion is accumulated,
  unless it is a zero row that ends the scan. `RescreenedAfterGrowth` needs
  that growth lies behind the scan, and that the row at the insertion was
  screened against all of it.
- From it `TailTypes`, `TailWeights`, `TailScreens` and `TailProposal`: a missed
  screen cannot lead to INFINITE, because at the end of the data the frontier has
  reached it too, so every row is in the combinations that are checked.

`CertifiedProofs` needs no assumption: `Certified` has no constants, and the run
`certified` has all its states. The proof adds why they are safe, in terms a change
of the code can be held against.

- `CertifiedInvariant`: `CertifiedInv` is inductive. `AcceptedIsVerified` speaks of
  a result; while a call is under way `Ledger` says which types are settled at which
  place and that nothing is recorded of the others, `Vectors` which witnesses exist
  there, `Radius` that the radius carried past the fallback is one its verifier
  gave, `Watched` that the shortage flag is up exactly for the watched call, and
  `Counted` how many solutions may have been made.
- From it `CertifiedTypes`, `CertifiedAccepts`, `CertifiedShortage`,
  `CertifiedSolves`, and `CertifiedFallback`: the fallback of the infinite profile
  writes into a vector that exists, at every shortage.

`RouterProofs` proves, from `RouterAssumption`, for every number of columns, every
system and every allocation that may fail:

- `RouterInvariant`: `RouterInv` is inductive. The properties speak of the answer;
  `Sound` says what a result means before it is arbitrated. There a UNIQUE means only
  that the rank is full, because a reset of full rank leaves its grey rows unexamined:
  that the system is solvable comes from the quality gate, whose certificate is good
  only of a solution (`Measured`). `Grounded` says which ranks a route may build on,
  `Asking` who may ask the source QRCP and how often it was asked at each place, `Owned`
  that a refusal which leaves the arbitration is its own or followed its failure.
- From it `RouterTypes`, `RouterVerdicts`, `RouterIntervals`, `RouterQuality`,
  `RouterRefusals`, `RouterFailures`, `RouterQrcpTwice`: all the safety properties that
  the run `router` checks.
- `RouterProgress`: `StepsLeft`, the steps a call may still take, is at most 23 and each
  step lowers it. It is counted back from the answer, place by place, with a scan and a
  choice for each of the rounds that are left. That a call which goes on makes a step
  at all is the fairness; with the absence of deadlock the two give `Returns`.

`BlockProofs` proves, from `TailAssumption`, `DirectionAssumption`, `BlockAssumption`
and `FiniteAssumption`:

- sums over finite sets, by the least set or number for which a statement fails, as
  the library's induction theorems are out of reach: lemmas only, of which
  `SumParts` lets the parts of a set that is dealt out be added in any order.
- `BlockInvariant`: `BlockInv` is inductive. `WindowShares` and `SketchShares` say what
  every thread's buffer holds, by whether the thread has finished, so that the join of a
  window equals one scan of its rows and the join of a sketch the serial loop.
  `ProofHeld` and `ResetBundle` are about the growing arrays and the reset's bundle.
- From it `BlockTypes`, `BlockBudgets`, `BlockWeights`, and the refinement `BlockTail`:
  the threads of a window make steps of `SecantTail`.
- `RowsAreEquations`: rank and solvability of these rows satisfy what `Bundle` assumes.
- `RouteInvariant`: in a pass of the reset without a grey row, every row it is past lies
  in the span of the basis and is met by what meets the basis (`Represented`). At the
  end of such a pass the basis therefore has the rank of the source and the source
  is solvable; when the pass had grey rows, that holds at full rank for the rank alone.
- `BlockRouter`, the refinement of `Router`, stage by stage: each answer of the tail has
  a rank between the prefix's and the source's, each answer of the reset is one that
  `Router` allows, and all other steps are stages of `Router` or stutter.

`DiagnosticsProofs` proves, from `DiagnosticsAssumption`, for every number of threads,
calls and events:

- `DiagnosticsInvariant`: for the call under way `Owned` says of the thread's store what
  the snapshot will say of it, and `History` that the stored grey rows are the first
  distinct ones of its events, up to the capacity.
- From it `DiagnosticsTypes`, `DiagnosticsOfOneCall`, `DiagnosticsGrey`,
  `DiagnosticsCounters`.

`VerifierProofs` proves, from `SizesAssumption`, `RowsAssumption`, `ModesAssumption`,
`CandidateAssumption` and `CandidateTruth` (a row without residual has no backward
error), for every number of rows and size of the team:

- `VerifierInvariant`: `Region` says that the rows of every worker at the barrier are
  weighed, or that its lack of buffers has left a mark; `SharesCover`, that the static
  schedule leaves no row out, makes it a statement about all rows.
- From it `VerifierTypes`, `VerifierRadius`, `CandidateReport`, and the action
  properties `VerifierShortage` and `VerifierModes`.

`ApiProofs` needs no assumption either. `ApiInvariant` adds to `CertifiedInv`, which it
keeps as it is, what each entry has cleared (`Before`), where the caller's policy is at
each place of a call (`Carried`) and what the custom path has measured (`Weighing`).
From it `ApiTypes`, `ApiPolicy`, `ApiQuality`, `ApiSolve`, and `ApiCertified`: what
`CertifiedProofs` shows of the certified calls holds among those of the other entries.

Model-checked only: `Returns` and `RouteEnds`, that a call of the router and the rows
of the block route come to an end. Liveness under fairness is beyond the prover; of
`Returns`, the part that no call goes round for ever is proved (`RouterProgress`). The
properties that fail are not theorems, of course; the counterexamples are the runs'.

## Not modelled

- `bs_insert` and `bs_check_row`, the two-way insertion, used by the benchmark
  routes alone; the benchmark driver in `bsolver.c`.
- Floating point: thresholds, scaling, the orthogonality bounds, directed rounding,
  the bounds of the formation guard. They enter as the assumptions above.
- LAPACK, BLAS: a call yields one of the results that the code tells apart.
- The threads inside a full scan (`compat_scan_fused`): its reductions are sums,
  ors and maxima of values no row shares.
- The sketches of the later rounds of the block-prefix route, row by row: a round
  is a step of `Router`.
- `int` overflow in the growth of `ProofRows`, which needs 2^31 rows.
- `bs_generate_unique_witness` and `bs_generate_infinite_witness` as calls of their
  own; inside the driver they are the generators' steps of `Certified`.
- Test programs, probes, experiments, reports, packaging: no state of the library.

## Plan

1. Done: bundle, streams and their contract with proofs; router; secant tail with
   proofs; diagnostics.
2. Done: `Verifiers`, `Certified`.
3. Done: `Api`, the entries that take a policy, composed with `Certified`.
4. Done: `CandidateCheck`, composed with `Verifiers`.
5. Done: `BlockRows`: threads of the tail, sketch, proof rows and both passes of
   `reset_source_guarded` over `Bundle`, shown to implement `SecantTail` and `Router`.
6. Done: proofs about `Certified`.
7. Done: proofs about `Router`, `Diagnostics`, `Verifiers` with `CandidateCheck`, `Api`
   and `BlockRows`, with both of its refinements. Every safety and action property of a
   run is a theorem, and a measure bounds the steps of a call of `Router`.
8. Left: a contract of the router, with only system, class, interval and error, that
   `Router` implements, to be the router step that `Certified` and `Api` now
   have as "any class"; a measure for `BlockRows`, as `StepsLeft` is one for `Router`.
