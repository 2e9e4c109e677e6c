--------------------------------- MODULE Api ---------------------------------
(***************************************************************************)
(* The entry points that take an operational policy: the router's          *)
(* (operational_policy.inc), bsolve and bsolve_ex, and the certified       *)
(* driver's (certified_api.c), the last with all that Certified does.      *)
(*                                                                         *)
(* The caller may pass a pointer into the very result it hands over, and   *)
(* may ask for the solution in the place of A or b.  A policy is known by  *)
(* its thresholds: the default ones, custom ones with the default quality, *)
(* with a stricter or with a looser one, or invalid (null included).  A    *)
(* backward error is known by the strictest of these it is within.         *)
(***************************************************************************)
EXTENDS Certified

VARIABLES
    at,       \* where the call is before Certified has it; idle afterwards
    call,     \* the entry
    memory,   \* what each place a policy is kept in holds
    ptr,      \* the place the function running reads its policy from
    given,    \* history: the policy the caller meant
    under,    \* history: the policy whose thresholds were applied
    opStatus, \* operational_status
    err,      \* the largest backward error of a row under the custom path's x
    berr,     \* g_last_berr, as the custom path sees it
    xIn,      \* where x points
    source,   \* the caller's A and b
    x,        \* what x holds
    outcome   \* the code returned

policy  == <<memory, ptr, given, under>>
routing == <<opStatus, err, berr>>
caller  == <<xIn, source, x>>
apiVars == <<at, call, policy, routing, caller, outcome>>

Custom   == {"tuned", "strict", "loose"}
Policies == Custom \cup {"default", "invalid"}
\* The caller's own, policy_used of the result, the copies of the outer entry
\* and of bsolve_router_policy_api.
Places   == {"own", "inside", "outer", "copy"}
Errors   == {"tiny", "mid", "large", "nan"}

ApiInit == /\ Init
           /\ at = "idle" /\ call = "none"
           /\ memory = [p \in Places |-> "zero"] /\ ptr = "own"
           /\ given = "zero" /\ under = "none"
           /\ opStatus = "fail" /\ err = "none" /\ berr = "none"
           /\ xIn = "own" /\ source = "intact" /\ x = "untouched"
           /\ outcome = "none"

\* bs_validate_operational_policy; a cleared struct has no size.
Valid(p) == p \notin {"invalid", "zero"}

\* Every call brings a result of its own, or the policy that is in it.
Begin(e) ==
    /\ pc = "idle" /\ at = "idle"
    /\ call' = e
    /\ \E value \in Policies, place \in {"own", "inside"} :
         /\ given' = value /\ ptr' = place
         /\ memory' = [p \in Places |-> IF p = place THEN value ELSE "zero"]
    /\ under' = "none" /\ opStatus' = "fail" /\ err' = "none" /\ berr' = "none"
    /\ source' = "intact" /\ x' = "untouched" /\ outcome' = "none"

\* Nothing of the certified driver's last result is left for the new call.
Forgotten == Fresh /\ Cleared /\ UNCHANGED <<pc, entry, fast, active, short, rc>>

CallRouter == Begin("router") /\ at' = "router" /\ xIn' = "own" /\ Forgotten

CallSolve == /\ Begin("solve") /\ at' = "enter"
             /\ xIn' \in {"own", "A", "b"}
             /\ Forgotten

CallCertified == Begin("policy") /\ at' = "enter" /\ xIn' = "own" /\ Forgotten

Return(code) == at' = "idle" /\ outcome' = code

\* The operational result is initialised: FAIL, and no policy in it.
ResultCleared(m) == [m EXCEPT !.inside = "zero"]

-----------------------------------------------------------------------------
(* The outer entries, up to the call of bsolve_router_policy_api.          *)

\* bsolve_ex on options it refuses, or solve_with_controls on a null x or a
\* dimension that is not positive.
SolveRefuses ==
    /\ at = "enter" /\ call = "solve"
    /\ memory' = ResultCleared(memory)
    /\ Return("INVALID_ARGUMENT")
    /\ UNCHANGED <<vars, call, ptr, given, under, routing, caller>>

\* Faulty variant: the policy inside the result is left to the router to copy.
SolveForwards ==
    /\ at = "enter" /\ call = "solve" /\ at' = "router"
    /\ memory' = ResultCleared(memory)
    /\ UNCHANGED <<vars, call, ptr, given, under, routing, caller, outcome>>

\* solve_with_controls: the aliased policy is copied unseen.
SolveEnters ==
    /\ at = "enter" /\ call = "solve" /\ at' = "router"
    /\ IF ptr = "inside"
       THEN /\ memory' = ResultCleared([memory EXCEPT !.outer = memory.inside])
            /\ ptr' = "outer"
       ELSE memory' = ResultCleared(memory) /\ UNCHANGED ptr
    /\ UNCHANGED <<vars, call, given, under, routing, caller, outcome>>

\* bsolve_certified_policy_api looks at the policy itself and passes its copy on.
CertifiedEnters ==
    /\ at = "enter" /\ call = "policy" /\ Valid(memory[ptr])
    /\ memory' = ResultCleared([memory EXCEPT !.outer = memory[ptr]])
    /\ ptr' = "outer" /\ at' = "router"
    /\ UNCHANGED <<vars, call, given, under, routing, caller, outcome>>

CertifiedRefuses ==
    /\ at = "enter" /\ call = "policy" /\ ~Valid(memory[ptr])
    /\ memory' = ResultCleared(memory)
    /\ Refuse("policy") /\ Return("INVALID_ARGUMENT")
    /\ UNCHANGED <<call, ptr, given, under, routing, caller>>

-----------------------------------------------------------------------------
(* bsolve_router_policy_api                                                *)

\* The router's INVALID is passed on by each of its callers.
RouterRefuses ==
    /\ Return("INVALID_ARGUMENT")
    /\ IF call = "policy" THEN Refuse("policy") ELSE UNCHANGED vars
    /\ UNCHANGED <<call, ptr, given, under, routing, caller>>

RefusesPolicy ==
    /\ at = "router" /\ ~Valid(memory[ptr])
    /\ memory' = ResultCleared(memory)
    /\ RouterRefuses

\* The policy is copied before the result is cleared, and then recorded in it;
\* the arguments are looked at last.
Resolved == [memory EXCEPT !.copy = memory[ptr], !.inside = memory[ptr]]

RefusesArguments ==
    /\ at = "router" /\ Valid(memory[ptr])
    /\ memory' = Resolved
    /\ RouterRefuses

Resolves ==
    /\ at = "router" /\ Valid(memory[ptr])
    /\ memory' = Resolved /\ ptr' = "copy" /\ under' = memory[ptr]
    /\ at' = IF memory[ptr] = "default" THEN "default" ELSE "qrcp"
    /\ UNCHANGED <<vars, call, given, routing, caller, outcome>>

\* abs_router_snapshot_internal: any class.
DefaultRoute ==
    /\ at = "default" /\ at' = "routed"
    /\ opStatus' \in Statuses
    /\ UNCHANGED <<vars, call, policy, err, berr, caller, outcome>>

\* source_qrcp_policy returns -1, or leaves the rank undecided, or finds rank
\* zero: there is no x to weigh.
CustomWithoutX ==
    /\ at = "qrcp" /\ at' = "routed"
    /\ opStatus' \in Statuses \ {"unique"}
    /\ UNCHANGED <<vars, call, policy, err, berr, caller, outcome>>

\* compat_scan_fused: exact above the default quality, too large by up to the
\* square root of n below it; a NaN counts for nothing.
ScanLeaves(e) == IF e \in {"tiny", "nan"} THEN {"tiny", "mid"} ELSE {e}

\* Faulty variant: the scan's error is good enough for any quality.
WeighedByScan(e, value) == value

\* A custom quality has the errors computed once more, with the NaN infinite.
Weighed(e, value) ==
    IF under = "tuned" THEN value ELSE IF e = "nan" THEN "infinite" ELSE e

CustomScans ==
    /\ at = "qrcp"
    /\ \E e \in Errors :
         /\ err' = e
         /\ \E value \in ScanLeaves(e) : berr' = Weighed(e, value)
    /\ \/ opStatus' = "unique" /\ at' = "gate"
       \/ opStatus' \in {"infinite", "inconsistent"} /\ at' = "routed"
    /\ UNCHANGED <<vars, call, policy, caller, outcome>>

\* The errors within a quality.
Within(p) == CASE p \in {"default", "tuned"} -> {"tiny", "mid"}
               [] p = "strict" -> {"tiny"}
               [] p = "loose"  -> {"tiny", "mid", "large"}
               [] OTHER        -> {}

CustomGate ==
    /\ at = "gate" /\ at' = "routed"
    /\ opStatus' = IF berr \in Within(memory[ptr]) THEN "unique" ELSE "undecidable"
    /\ UNCHANGED <<vars, call, policy, err, berr, caller, outcome>>

-----------------------------------------------------------------------------
(* What the callers do with the class.                                     *)

RouterReturns ==
    /\ at = "routed" /\ call = "router"
    /\ Return(IF opStatus = "fail" THEN "SOLVER_FAILED" ELSE "OK")
    /\ UNCHANGED <<vars, call, policy, routing, caller>>

\* certified_complete, whatever the class; the code is returned at its end.  Of
\* the places only the result is looked at again.
CertifiedRouted ==
    /\ at = "routed" /\ call = "policy"
    /\ Route("policy") /\ fast' = opStatus
    /\ Return(IF opStatus = "fail" THEN "SOLVER_FAILED" ELSE "OK")
    /\ memory' = [p \in Places |-> IF p = "inside" THEN memory.inside ELSE "zero"]
    /\ ptr' = "inside" /\ err' = "none" /\ berr' = "none"
    /\ UNCHANGED <<call, given, under, opStatus, caller>>

SolveFails ==
    /\ at = "routed" /\ call = "solve" /\ opStatus = "fail"
    /\ Return("OPERATIONAL_FAILURE")
    /\ UNCHANGED <<vars, call, policy, routing, caller>>

\* Faulty variant: the workspace is forgotten among the allocations.
ReconstructedByFirst(c) ==
    CASE c = 0 -> "OK" [] c = 2 -> "ALLOCATION_FAILURE" [] OTHER -> "NUMERICAL_FAILURE"

\* least_squares_x reads copies of A and b and writes x last, on success only: x
\* would be garbage if the source were overwritten by the time it is read.
\* Codes 2 and 4 are its two allocations, 3 and 5 LAPACK's.
Reconstructed(c) ==
    CASE c = 0        -> "OK"
      [] c \in {2, 4} -> "ALLOCATION_FAILURE"
      [] OTHER        -> "NUMERICAL_FAILURE"

Reconstruct ==
    /\ at = "routed" /\ call = "solve" /\ opStatus # "fail"
    /\ \E c \in {0, 2, 3, 4, 5} :
         /\ missed' = (c \in {2, 4})
         /\ x' = IF c # 0 THEN "zeroed"
                 ELSE IF source = "intact" THEN "solution" ELSE "garbage"
         /\ Return(Reconstructed(c))
    /\ source' = IF xIn = "own" THEN source ELSE "overwritten"
    /\ UNCHANGED <<pc, entry, fast, active, short, witness, history, result,
                   call, policy, routing, xIn>>

-----------------------------------------------------------------------------
\* The entries of Certified that take no policy.
Others == /\ at = "idle" /\ at' = "idle"
          /\ Candidate \/ \E e \in {"profile", "diag"} : Refuse(e) \/ Route(e)
          /\ call' = "none" /\ memory' = [p \in Places |-> "zero"] /\ ptr' = "own"
          /\ given' = "zero" /\ under' = "none"
          /\ opStatus' = "fail" /\ err' = "none" /\ berr' = "none"
          /\ xIn' = "own" /\ source' = "intact" /\ x' = "untouched"
          /\ outcome' = "none"

Profiles == /\ \/ UniquePrepare \/ UniqueVerify
               \/ InfinitePrepare \/ QrcpVector \/ QrcpVerify
               \/ DgesddVector \/ DgesddVerify \/ InfiniteClose
               \/ LeftGenerate \/ LeftVerify \/ Tilt
               \/ FinishCandidate \/ FinishProfile
            /\ UNCHANGED apiVars

ApiNext ==
    \/ Others \/ Profiles
    \/ CallRouter \/ CallSolve \/ CallCertified
    \/ SolveRefuses \/ SolveEnters \/ CertifiedEnters \/ CertifiedRefuses
    \/ RefusesPolicy \/ RefusesArguments \/ Resolves
    \/ DefaultRoute \/ CustomWithoutX \/ CustomScans \/ CustomGate
    \/ RouterReturns \/ CertifiedRouted \/ SolveFails \/ Reconstruct

ApiSpec == ApiInit /\ [][ApiNext]_<<vars, apiVars>>

-----------------------------------------------------------------------------
\* Types of both modules; a witness is there to write into when the infinite
\* profile computes a vector, and none is left allocated after a call.
ApiTypeOK ==
    /\ TypeOK /\ FallbackHasVector
    /\ at \in {"idle", "enter", "router", "default", "qrcp", "gate", "routed"}
    /\ call \in {"none", "router", "solve", "policy"}
    /\ memory \in [Places -> Policies \cup {"zero"}] /\ ptr \in Places
    /\ given \in Policies \cup {"zero"}
    /\ under \in Policies \cup {"none"}
    /\ opStatus \in Statuses
    /\ err \in Errors \cup {"none"}
    /\ berr \in Errors \cup {"none", "infinite"}
    /\ xIn \in {"own", "A", "b"} /\ source \in {"intact", "overwritten"}
    /\ x \in {"untouched", "zeroed", "solution", "garbage"}
    /\ outcome \in {"none", "OK", "INVALID_ARGUMENT", "SOLVER_FAILED",
                    "ALLOCATION_FAILURE", "OPERATIONAL_FAILURE", "NUMERICAL_FAILURE"}

Finished == at = "idle" /\ outcome # "none"

\* The thresholds applied, and those reported in policy_used, are the ones the
\* caller passed, also when it passed a pointer into the result that every
\* entry clears; an invalid policy is refused, a refused call has routed nothing,
\* and the policy it reports, if any, is a valid one of the caller's.
\* (operational_policy.inc; "Snapshot the policy before clearing output")
PolicyGoverns ==
    /\ under # "none" => Valid(given) /\ under = given
    /\ Finished /\ outcome # "INVALID_ARGUMENT" =>
         under = given /\ memory.inside = given
    /\ Finished /\ outcome = "INVALID_ARGUMENT" =>
         /\ under = "none"
         /\ memory.inside # "zero" => Valid(given) /\ memory.inside = given
    /\ at = "router" => memory[ptr] = given

\* On the custom path UNIQUE is kept exactly for an x whose rows are all within
\* the caller's quality: the error the default scan leaves is too large below
\* the default quality and ignores a NaN.  (With the default quality the NaN
\* stays ignored, which is not claimed here.)
QualityIsOfThePolicy ==
    at = "routed" /\ under \in Custom /\ err # "none" /\ ~(under = "tuned" /\ err = "nan") =>
        /\ opStatus = "unique" => err \in Within(given)
        /\ opStatus = "undecidable" => err \notin Within(given)

\* What solve returns and what it leaves in x go together: a solution of the
\* data the caller gave, be it in the place of A or b; zeros after a failure to
\* reconstruct, which is an allocation's exactly when one failed; and x as it
\* was when the call came to nothing.  (solve_with_controls)
SolveReports ==
    Finished /\ call = "solve" =>
        /\ outcome = "OK" <=> x = "solution"
        /\ outcome = "OK" => opStatus # "fail"
        /\ outcome = "OPERATIONAL_FAILURE" => opStatus = "fail" /\ Valid(memory.inside)
        /\ outcome \in {"ALLOCATION_FAILURE", "NUMERICAL_FAILURE"} => x = "zeroed"
        /\ outcome \in {"INVALID_ARGUMENT", "OPERATIONAL_FAILURE"} =>
             x = "untouched" /\ source = "intact"
        /\ missed <=> outcome = "ALLOCATION_FAILURE"
=============================================================================
