------------------------------ MODULE Verifiers ------------------------------
(***************************************************************************)
(* The checkers of src/status_certificate.c: bs_verify_unique with its     *)
(* team of OpenMP workers, bs_verify_infinite, bs_verify_inconsistent.     *)
(*                                                                         *)
(* A number is the class IEEE arithmetic cares for: zero, positive and     *)
(* finite, infinite, NaN.  An operation on classes is the set of classes   *)
(* its result may have, rounded upwards.  What a proof object has to be    *)
(* charged for is the true size of each row's error; the code sees         *)
(* directed bounds of it, which may be larger.  Rounding modes are modelled *)
(* because threads keep them: the caller's thread is 0, the other threads   *)
(* belong to the pool and live on after the call that created them.        *)
(***************************************************************************)
EXTENDS Integers, FiniteSets

CONSTANTS
    M,           \* rows of the source
    MaxWorkers,  \* the largest team
    RowKinds,    \* what a row can be: [err, res, src]
    CallerModes  \* rounding modes callers use

Number == {"zero", "fin", "inf", "nan"}
Finite(v) == v \in {"zero", "fin"}

ASSUME SizesAssumption == M \in Nat \ {0} /\ MaxWorkers \in Nat \ {0}

\* err is the row's change in A, res its residual at x, src its norm.
ASSUME RowsAssumption == RowKinds \subseteq [err : {"zero", "fin", "inf"},
                                            res : {"zero", "fin", "inf"},
                                            src : {"zero", "fin"}]
ASSUME ModesAssumption == CallerModes \subseteq {"nearest", "up", "down", "zero"}

Modes == {"nearest", "up", "down", "zero"}
Threads == 0 .. MaxWorkers - 1
Row == 1 .. M

-----------------------------------------------------------------------------
(* Arithmetic, rounded upwards.                                            *)

\* Upper bounds of a non-negative number: interval products may overestimate it.
AtLeast(v) == [zero |-> {"zero", "fin", "inf"},
               fin |-> {"fin", "inf"}, inf |-> {"inf"}][v]

Product(a, b) == IF "nan" \in {a, b} \/ {a, b} = {"zero", "inf"} THEN {"nan"}
                 ELSE IF "zero" \in {a, b} THEN {"zero"}
                 ELSE IF "inf" \in {a, b} THEN {"inf"} ELSE {"fin", "inf"}

Sum(a, b) == IF "nan" \in {a, b} THEN {"nan"}
             ELSE IF "inf" \in {a, b} THEN {"inf"}
             ELSE IF {a, b} = {"zero"} THEN {"zero"} ELSE {"fin", "inf"}

\* scaled_norm_dir takes its scale from the entries that compare greater than
\* zero; when there is none, a NaN among them included, it returns zero.
Hypot(a, b) == IF {a, b} \subseteq {"zero", "nan"} THEN {"zero"} ELSE Sum(a, b)

\* src == 0.0 ? (pert == 0.0 ? 0.0 : INFINITY) : pert / src
Quotient(pert, src) == IF src = "zero"
                       THEN {IF pert = "zero" THEN "zero" ELSE "inf"}
                       ELSE IF pert = "fin" THEN {"fin", "inf"} ELSE {pert}

\* if (q > best) best = q, from zero: a NaN never compares greater.
Greatest(q) == IF \E i \in Row : q[i] = "inf" THEN "inf"
               ELSE IF \E i \in Row : q[i] = "fin" THEN "fin" ELSE "zero"

\* The radius of a row whose bounds are e and res, at an x of norm xn.
Radius(e, res, src, xn) ==
    UNION {Quotient(pert, src) :
           pert \in UNION {Hypot(e, db) :
                           db \in UNION {Sum(res, p) : p \in Product(e, xn)}}}

\* bs_verify_infinite weighs a row as it comes.
InfiniteRadius(row, xn) ==
    UNION {Radius(e, res, row.src, xn) :
           e \in AtLeast(row.err), res \in AtLeast(row.res)}

\* bs_verify_unique weighs it only while everything in it is finite.
UniqueRadius(row, xn) ==
    UNION {IF Finite(e) /\ Finite(res) /\ Finite(xn)
           THEN Radius(e, res, row.src, xn) ELSE {"inf"} :
           e \in AtLeast(row.err), res \in AtLeast(row.res)}

-----------------------------------------------------------------------------
VARIABLES
    pc,        \* where the call is: idle, called, team, returned
    obj,       \* the proof object and what is true of it
    code, eta, \* returned value and *eta_up
    mode,      \* rounding mode of each thread
    callMode,  \* history: the mode the caller called with
    pool,      \* threads that exist
    team,      \* threads of the parallel region
    stage,     \* of each thread: out, rows, barrier, left
    env,       \* worker_env of each thread
    ok,        \* worker_ok of each thread
    failed,    \* worker_setup_failed
    rowEta     \* row_eta

call == <<pc, obj, code, eta, callMode>>
region == <<pool, team, stage, env, ok, failed>>
vars == <<call, mode, region, rowEta>>

\* A proof object: x has norm xn and row i of the source needs row[i]; or
\* y^T b is yb and A^T y is aty.  Freed is what bs_*_witness_free leaves.
Objects == [kind : {"unique", "infinite"}, xn : {"zero", "fin", "inf"},
            row : [Row -> RowKinds]]
           \cup [kind : {"inconsistent"}, yb : {"zero", "fin"}, aty : {"zero", "fin"}]
Freed == [kind |-> "none"]

Unset == [i \in Row |-> "unset"]
NoOne(v) == [t \in Threads |-> v]

Init == /\ pc = "idle" /\ code = 1 /\ eta = "inf" /\ obj = Freed
        /\ callMode \in CallerModes
        /\ mode = NoOne(callMode)
        /\ pool = {0} /\ team = {} /\ failed = FALSE
        /\ stage = NoOne("out") /\ env = NoOne("nearest") /\ ok = NoOne(FALSE)
        /\ rowEta = Unset

\* A caller with some rounding mode hands over an object; *eta_up is set first.
Call(o, md) == /\ pc = "idle"
               /\ pc' = "called" /\ obj' = o /\ eta' = "inf" /\ code' = 1
               /\ callMode' = md /\ mode' = [mode EXCEPT ![0] = md]
               /\ UNCHANGED <<region, rowEta>>

\* The caller has read the result and frees the object.
Free == /\ pc = "returned"
        /\ pc' = "idle" /\ obj' = Freed /\ eta' = "inf" /\ code' = 1
        /\ failed' = FALSE /\ rowEta' = Unset
        /\ UNCHANGED <<callMode, mode, pool, team, stage, env, ok>>

Return(c, e) == pc' = "returned" /\ code' = c /\ eta' = e /\ UNCHANGED <<obj, callMode>>

\* The object is malformed, or there is no room for pos, or x, y or the pivot
\* is unusable: left before any mode is set.
Reject == /\ pc = "called"
          /\ \E c \in 1 .. IF obj.kind = "unique" THEN 5 ELSE 3 : Return(c, "inf")
          /\ UNCHANGED <<mode, region, rowEta>>

-----------------------------------------------------------------------------
(* bs_verify_unique.                                                       *)

\* norm_up(x) leaves the thread rounding upwards, unless x is zero.
AfterNorm == IF obj.xn = "zero" THEN mode[0] ELSE "up"

UniqueNoMemory == /\ pc = "called" /\ obj.kind = "unique"
                  /\ Return(6, "inf")
                  /\ UNCHANGED <<mode, region, rowEta>>

\* A thread the runtime creates for the team starts in the mode of its creator.
UniqueFork ==
    /\ pc = "called" /\ obj.kind = "unique"
    /\ pc' = "team"
    /\ \E k \in 1 .. MaxWorkers :
          /\ k <= M
          /\ team' = 0 .. k - 1
          /\ pool' = pool \cup team'
    /\ mode' = [t \in Threads |->
                   IF t = 0 \/ t \in pool' \ pool THEN AfterNorm ELSE mode[t]]
    /\ failed' = FALSE
    /\ UNCHANGED <<obj, code, eta, callMode, stage, env, ok, rowEta>>

\* Faulty variant: the flag says what the last worker found.
LastSetupWins(t) ==
    /\ pc = "team" /\ t \in team /\ stage[t] = "out"
    /\ env' = [env EXCEPT ![t] = mode[t]]
    /\ \E got \in BOOLEAN : ok' = [ok EXCEPT ![t] = got] /\ failed' = ~got
    /\ stage' = [stage EXCEPT ![t] = "rows"]
    /\ UNCHANGED <<call, mode, pool, team, rowEta>>

\* A worker saves its environment and allocates its three buffers.
WorkerSetup(t) ==
    /\ pc = "team" /\ t \in team /\ stage[t] = "out"
    /\ env' = [env EXCEPT ![t] = mode[t]]
    /\ \E got \in BOOLEAN : /\ ok' = [ok EXCEPT ![t] = got]
                            /\ failed' = (failed \/ ~got)
    /\ stage' = [stage EXCEPT ![t] = "rows"]
    /\ UNCHANGED <<call, mode, pool, team, rowEta>>

\* schedule(static): contiguous shares, each row with one owner.
Share(t) == {i \in Row : ((i - 1) * Cardinality(team)) \div M = t}

\* Faulty variant: a worker without buffers skips its rows.
ShortWorkerSkips(t) ==
    /\ pc = "team" /\ t \in team /\ stage[t] = "rows"
    /\ \E q \in [Share(t) -> Number] :
          /\ \A i \in Share(t) : q[i] \in UniqueRadius(obj.row[i], obj.xn)
          /\ rowEta' = [i \in Row |-> IF ok[t] /\ i \in Share(t) THEN q[i] ELSE rowEta[i]]
    /\ mode' = [mode EXCEPT ![t] = "up"]
    /\ stage' = [stage EXCEPT ![t] = "barrier"]
    /\ UNCHANGED <<call, pool, team, env, ok, failed>>

\* A worker weighs its rows.  One without buffers still gives each of them a
\* value, so that the loop's barrier is reached and no row is left out.
WorkerRows(t) ==
    /\ pc = "team" /\ t \in team /\ stage[t] = "rows"
    /\ \E q \in [Share(t) -> Number] :
          /\ \A i \in Share(t) :
                q[i] \in IF ok[t] THEN UniqueRadius(obj.row[i], obj.xn) ELSE {"inf"}
          /\ rowEta' = [i \in Row |-> IF i \in Share(t) THEN q[i] ELSE rowEta[i]]
          /\ \E last \in {"up", "down"} :
                mode' = IF ok[t] /\ Finite(obj.xn) /\ Share(t) # {}
                        THEN [mode EXCEPT ![t] = last] ELSE mode
    /\ stage' = [stage EXCEPT ![t] = "barrier"]
    /\ UNCHANGED <<call, pool, team, env, ok, failed>>

\* Faulty variant: the worker keeps the mode of its last row.
LeaveRounding(t) ==
    /\ pc = "team" /\ t \in team /\ stage[t] = "barrier"
    /\ \A u \in team : stage[u] \in {"barrier", "left"}
    /\ stage' = [stage EXCEPT ![t] = "left"]
    /\ UNCHANGED <<call, mode, pool, team, env, ok, failed, rowEta>>

\* Past the barrier of the loop, a worker restores what it saved.
WorkerLeave(t) ==
    /\ pc = "team" /\ t \in team /\ stage[t] = "barrier"
    /\ \A u \in team : stage[u] \in {"barrier", "left"}
    /\ mode' = IF ok[t] THEN [mode EXCEPT ![t] = env[t]] ELSE mode
    /\ stage' = [stage EXCEPT ![t] = "left"]
    /\ UNCHANGED <<call, pool, team, env, ok, failed, rowEta>>

Verdict(best, refusal) == IF Finite(best) THEN 0 ELSE refusal

\* Faulty variant: the failure is returned before the environment is restored.
JoinInHaste ==
    /\ pc = "team" /\ \A t \in team : stage[t] = "left"
    /\ IF failed THEN Return(6, "inf") /\ mode' = mode
       ELSE /\ Return(Verdict(Greatest(rowEta), 7), Greatest(rowEta))
            /\ mode' = [mode EXCEPT ![0] = callMode]
    /\ team' = {} /\ stage' = NoOne("out")
    /\ env' = NoOne("nearest") /\ ok' = NoOne(FALSE) /\ rowEta' = Unset
    /\ UNCHANGED <<pool, failed>>

UniqueJoin ==
    /\ pc = "team" /\ \A t \in team : stage[t] = "left"
    /\ IF failed THEN Return(6, "inf")
       ELSE Return(Verdict(Greatest(rowEta), 7), Greatest(rowEta))
    /\ mode' = [mode EXCEPT ![0] = callMode]
    /\ team' = {} /\ stage' = NoOne("out")
    /\ env' = NoOne("nearest") /\ ok' = NoOne(FALSE) /\ rowEta' = Unset
    /\ UNCHANGED <<pool, failed>>

-----------------------------------------------------------------------------
(* bs_verify_infinite and bs_verify_inconsistent: one thread, one pass.    *)
(* Each exit sets the rounding mode the function read when it began.       *)

InfiniteScan ==
    /\ pc = "called" /\ obj.kind = "infinite"
    /\ \E q \in [Row -> Number] :
          /\ \A i \in Row : q[i] \in InfiniteRadius(obj.row[i], obj.xn)
          /\ Return(Verdict(Greatest(q), 4), Greatest(q))
    /\ mode' = [mode EXCEPT ![0] = callMode]
    /\ UNCHANGED <<region, rowEta>>

\* The sign of y^T b is left open, or there is no room for a column.
InconsistentOpen ==
    /\ pc = "called" /\ obj.kind = "inconsistent"
    /\ \E c \in {4, 5} : /\ c = 5 => obj.yb = "fin"
                         /\ Return(c, "inf")
    /\ mode' = [mode EXCEPT ![0] = callMode]
    /\ UNCHANGED <<region, rowEta>>

\* The sign is proved.  Framed products stay finite; the lower bound of the
\* pivot's weight may be zero.
InconsistentScan ==
    /\ pc = "called" /\ obj.kind = "inconsistent" /\ obj.yb = "fin"
    /\ \E h \in {v \in AtLeast(obj.aty) : Finite(v)}, dens \in {"zero", "fin"} :
          \E q \in Quotient(h, dens) : Return(Verdict(q, 6), q)
    /\ mode' = [mode EXCEPT ![0] = callMode]
    /\ UNCHANGED <<region, rowEta>>

-----------------------------------------------------------------------------
CallerStep == Free \/ \E o \in Objects, md \in CallerModes : Call(o, md)

VerifierStep ==
    \/ Reject \/ UniqueNoMemory \/ UniqueFork \/ UniqueJoin
    \/ InfiniteScan \/ InconsistentOpen \/ InconsistentScan
    \/ \E t \in Threads : WorkerSetup(t) \/ WorkerRows(t) \/ WorkerLeave(t)

Next == CallerStep \/ VerifierStep

Spec == Init /\ [][Next]_vars

-----------------------------------------------------------------------------
\* Types of a call and its region; and when the team is done every row has a
\* value, because the maximum of bs_verify_unique reads row_eta, which nothing
\* has initialised, for each row.
RegionTypes ==
    /\ code \in 0 .. 7 /\ eta \in Number
    /\ mode \in [Threads -> Modes] /\ callMode \in Modes
    /\ pool \subseteq Threads /\ team \subseteq pool
    /\ stage \in [Threads -> {"out", "rows", "barrier", "left"}]
    /\ env \in [Threads -> Modes]
    /\ ok \in [Threads -> BOOLEAN] /\ failed \in BOOLEAN
    /\ rowEta \in [Row -> Number \cup {"unset"}]
    /\ pc = "team" /\ (\A t \in team : stage[t] = "left") => rowEta \in [Row -> Number]

Accepted(k) == pc = "returned" /\ code = 0 /\ obj.kind = k

NeedsChange(row) == row.err # "zero" \/ row.res # "zero"

RowsBound == /\ \A i \in Row : obj.row[i].err # "inf" /\ obj.row[i].res # "inf"
             /\ eta = "zero" => \A i \in Row : ~NeedsChange(obj.row[i])

UniqueBounds == Accepted("unique") => Finite(eta) /\ RowsBound

InconsistentBounds == Accepted("inconsistent") => /\ Finite(eta) /\ obj.yb # "zero"
                                                  /\ eta = "zero" => obj.aty = "zero"

\* For a candidate whose norm is an ordinary number.
OrdinaryInfiniteBounds ==
    Accepted("infinite") /\ obj.xn = "fin" => Finite(eta) /\ RowsBound

\* The radius of an accepted object is one the source supports: it is finite,
\* no row's error is beyond binary64, and it is zero only if nothing has to change.
\* (A row a worker skips, or a value that compares with nothing, would be
\* accepted for nothing.)
RadiusBounds == UniqueBounds /\ InconsistentBounds /\ OrdinaryInfiniteBounds

\* What docs/api.md says of every eta: an upper bound of the distance to a system
\* of that type.  A radius of zero says the source is one.
InfiniteRadiusBounds ==
    Accepted("infinite") /\ eta = "zero" =>
        \A i \in Row : ~NeedsChange(obj.row[i])

\* A team with a worker that had no buffers ends in the code of a shortage,
\* whichever worker it was: neither accepted nor refused on its merits.
SetupFailureIsReported ==
    [][pc = "team" /\ pc' = "returned" /\ (\E t \in team : ~ok[t])
       => code' = 6 /\ eta' = "inf"]_vars

\* tests/test_unique_thread_fenv.c says that workers must not share
\* directed-rounding state: between calls each worker of the pool rounds as
\* some caller does.  (It is created after norm_up has set its creator's mode.)
PoolRoundsAsCallers == pc = "idle" => \A t \in pool \ {0} : mode[t] \in CallerModes
=============================================================================
