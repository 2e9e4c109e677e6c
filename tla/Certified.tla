------------------------------ MODULE Certified ------------------------------
(***************************************************************************)
(* The certified driver of src/certified_api.c: a call asks the router for *)
(* a class (or is given a candidate x), then generates and verifies a      *)
(* proof object of each type.  bs_certify_candidate, bsolve_certified_api, *)
(* bsolve_certified_policy_api and bsolve_certified_diag_api are its four   *)
(* entries.                                                                *)
(*                                                                         *)
(* A witness vector is known by where it comes from.  A generator or a     *)
(* verifier returns any code it has for some data; an allocation may fail  *)
(* wherever the code has one.                                              *)
(***************************************************************************)
EXTENDS Naturals

Types == {"unique", "infinite", "inconsistent"}
Entries == {"candidate", "profile", "policy", "diag"}
Statuses == Types \cup {"undecidable", "fail"}

\* What a proof object is built on; "inf" is a radius nobody owns, "zeroed" one
\* that is a cleared struct's.
Objects == {"lu", "qrcp", "dgesdd", "left", "tilt"}

VARIABLES
    pc, entry, fast,
    active,   \* candidate_certification_active, of the thread
    short,    \* candidate_certification_allocation_failed, of the thread
    missed,   \* history: an allocation of a generator failed in this call
    uniqueX,  \* where w.x of the unique witness comes from; none when freed
    solves,   \* history: least-squares solutions of the source in this call
    z,        \* the infinite witness' vector; none is a null pointer
    ieta,     \* the radius of the last infinite verification
    passed,   \* history: objects a verifier accepted in this call
    tried,    \* history: types whose generator was asked
    g, v,     \* generator and verifier codes
    mask, eta,        \* accepted_status_mask and the three radii
    status, etaStatus,\* the projection on the router's class
    rc

thread == <<active, short, missed>>
witness == <<uniqueX, solves, z, ieta>>
history == <<passed, tried>>
result == <<g, v, mask, eta, status, etaStatus, rc>>
vars == <<pc, entry, fast, thread, witness, history, result>>

AllTypes(value) == [t \in Types |-> value]

Init == /\ pc = "idle" /\ entry = "candidate" /\ fast = "fail"
        /\ active = FALSE /\ short = FALSE /\ missed = FALSE
        /\ uniqueX = "none" /\ solves = 0 /\ z = "none" /\ ieta = "inf"
        /\ passed = {} /\ tried = {}
        /\ g = AllTypes(0) /\ v = AllTypes(0)
        /\ mask = {} /\ eta = AllTypes("inf") /\ status = "none" /\ etaStatus = "inf"
        /\ rc = 1

\* Faulty variant: the radii of the call before remain.
MaskCleared == /\ mask' = {} /\ UNCHANGED eta
               /\ status' = "none" /\ etaStatus' = "inf"
               /\ g' = AllTypes(0) /\ v' = AllTypes(0)

\* certified_init, and bs_init_certificate_result: no evidence.
Cleared == /\ mask' = {} /\ eta' = AllTypes("inf")
           /\ status' = "none" /\ etaStatus' = "inf"
           /\ g' = AllTypes(0) /\ v' = AllTypes(0)

Fresh == /\ missed' = FALSE /\ solves' = 0 /\ passed' = {} /\ tried' = {}
         /\ uniqueX' = "none" /\ z' = "none" /\ ieta' = "inf"

\* The arguments or the policy are refused.  The diagnostic entry has cleared
\* its struct by then but not initialised it: its radii are the number zero.
Refuse(e) == /\ pc = "idle" /\ e # "profile"
             /\ entry' = e /\ rc' = 1 /\ Fresh
             /\ mask' = {} /\ status' = "none"
             /\ eta' = AllTypes(IF e = "diag" THEN "zeroed" ELSE "inf")
             /\ etaStatus' = IF e = "diag" THEN "zeroed" ELSE "inf"
             /\ g' = AllTypes(0) /\ v' = AllTypes(0)
             /\ UNCHANGED <<pc, fast, active, short>>

\* bs_certify_candidate watches the generators' allocations on its thread.
Candidate == /\ pc = "idle"
             /\ pc' = "unique" /\ entry' = "candidate"
             /\ active' = TRUE /\ short' = FALSE
             /\ Fresh /\ Cleared
             /\ UNCHANGED <<fast, rc>>

\* The other entries route first; whatever the router says, FAIL included, the
\* profile is attempted.
Route(e) == /\ pc = "idle" /\ e # "candidate"
            /\ pc' = "unique" /\ entry' = e /\ fast' \in Statuses
            /\ Fresh /\ Cleared
            /\ UNCHANGED <<active, short, rc>>

Given == entry = "candidate"

\* Faulty variant: a later success hides the failure.
LastAllocationDecides(missing) == short' = (missing /\ active) /\ missed' = (missed \/ missing)

\* certificate_malloc, certificate_calloc: only a watched call raises the flag.
Allocated(missing) == /\ short' = (short \/ (missing /\ active))
                      /\ missed' = (missed \/ missing)

Code(f, t, c) == f' = [f EXCEPT ![t] = c]

\* A verifier answers; zero comes with a finite radius.
Verified(t, object, c) == /\ Code(v, t, c)
                          /\ passed' = IF c = 0 THEN passed \cup {object} ELSE passed

Accept(t, radius) == /\ mask' = mask \cup {t}
                     /\ eta' = [eta EXCEPT ![t] = radius]
-----------------------------------------------------------------------------
(* UNIQUE                                                                  *)

\* unique_witness_prepare: x is the candidate, or a solution of its own; any
\* failure frees the witness, its x included.
UniquePrepare ==
    /\ pc = "unique"
    /\ \E c \in 0 .. 6, missing \in BOOLEAN :
          /\ c = 2 => missing
          /\ missing => c \in {2, 3, 4, 6}
          /\ c = 3 => ~Given
          /\ Code(g, "unique", c) /\ Allocated(missing)
          /\ solves' = IF Given \/ c \in {1, 2} THEN solves ELSE solves + 1
          /\ uniqueX' = IF c # 0 THEN "none" ELSE IF Given THEN "given" ELSE "solved"
          /\ pc' = IF c = 0 THEN "verify_unique" ELSE "prepare"
    /\ tried' = tried \cup {"unique"}
    /\ UNCHANGED <<entry, fast, active, z, ieta, passed, v, mask, eta, status, etaStatus, rc>>

UniqueVerify ==
    /\ pc = "verify_unique" /\ pc' = "prepare"
    /\ \E c \in {0, 2, 3, 4, 6, 7} :
          /\ Verified("unique", "lu", c)
          /\ IF c = 0 THEN Accept("unique", "lu") ELSE UNCHANGED <<mask, eta>>
    /\ UNCHANGED <<entry, fast, thread, witness, tried, g, status, etaStatus, rc>>

-----------------------------------------------------------------------------
(* INFINITE                                                                *)

\* A generator refuses its arguments only if the entry looked at none of them,
\* and what the other two refuse unique_witness_prepare has refused before.
Unchecked == entry = "profile" /\ g["unique"] = 1

\* Faulty variant: UNIQUE's solution is not used again.
AlwaysSolves ==
    /\ pc = "prepare"
    /\ \E c \in 0 .. 3, missing \in BOOLEAN :
          /\ c = 1 => Unchecked
          /\ c = 2 => missing
          /\ missing => c \in {2, 3}
          /\ c = 3 => ~Given
          /\ Code(g, "infinite", c) /\ Allocated(missing)
          /\ solves' = IF Given \/ c \in {1, 2} THEN solves ELSE solves + 1
          /\ z' = IF c = 0 THEN "blank" ELSE "none"
          /\ pc' = IF c = 0 THEN "qrcp" ELSE "close"
    /\ tried' = tried \cup {"infinite"}
    /\ UNCHANGED <<entry, fast, active, uniqueX, ieta, passed, v, mask, eta,
                   status, etaStatus, rc>>

\* infinite_witness_prepare copies the candidate or UNIQUE's x, or solves.
InfinitePrepare ==
    /\ pc = "prepare"
    /\ \E c \in 0 .. 3, missing \in BOOLEAN :
          /\ c = 1 => Unchecked
          /\ c = 2 => missing
          /\ missing => c \in {2, 3}
          /\ c = 3 => ~Given /\ uniqueX = "none"
          /\ Code(g, "infinite", c) /\ Allocated(missing)
          /\ solves' = IF Given \/ uniqueX # "none" \/ c \in {1, 2} THEN solves ELSE solves + 1
          /\ z' = IF c = 0 THEN "blank" ELSE "none"
          /\ pc' = IF c = 0 THEN "qrcp" ELSE "close"
    /\ tried' = tried \cup {"infinite"}
    /\ UNCHANGED <<entry, fast, active, uniqueX, ieta, passed, v, mask, eta,
                   status, etaStatus, rc>>

\* right_null_vector_qrcp; it may fail with part of the vector written.
QrcpVector ==
    /\ pc = "qrcp"
    /\ \E c \in {0, 4}, missing \in BOOLEAN :
          /\ missing => c = 4
          /\ Code(g, "infinite", c) /\ Allocated(missing)
          /\ z' = IF c = 0 THEN "qrcp" ELSE "blank"
          /\ pc' = IF c = 0 THEN "verify_qrcp" ELSE "dgesdd"
    /\ UNCHANGED <<entry, fast, active, uniqueX, solves, ieta, history, v, mask, eta,
                   status, etaStatus, rc>>

InfiniteVerify(next) ==
    /\ \E c \in {0, 2, 3, 4} :
          /\ Verified("infinite", z, c)
          /\ ieta' = IF c = 0 THEN z ELSE "inf"
          /\ pc' = IF c = 0 THEN "close" ELSE next
    /\ UNCHANGED <<entry, fast, thread, uniqueX, solves, z, tried, g, mask, eta,
                   status, etaStatus, rc>>

QrcpVerify == pc = "verify_qrcp" /\ InfiniteVerify("dgesdd")

\* smallest_right_vector_dgesdd writes the vector of a prepared witness and
\* replaces both codes.
DgesddVector ==
    /\ pc = "dgesdd"
    /\ \E c \in {0, 4}, missing \in BOOLEAN :
          /\ missing => c = 4
          /\ Code(g, "infinite", c) /\ Code(v, "infinite", 0) /\ Allocated(missing)
          /\ z' = IF c = 0 THEN "dgesdd" ELSE z
          /\ pc' = IF c = 0 THEN "verify_dgesdd" ELSE "close"
    /\ UNCHANGED <<entry, fast, active, uniqueX, solves, ieta, history, mask, eta,
                   status, etaStatus, rc>>

DgesddVerify == pc = "verify_dgesdd" /\ InfiniteVerify("close")

\* Faulty variant: the witnesses are left allocated.
CloseWithoutFree ==
    /\ pc = "close" /\ pc' = "left"
    /\ IF g["infinite"] = 0 /\ v["infinite"] = 0 /\ ieta # "inf"
       THEN Accept("infinite", ieta) ELSE UNCHANGED <<mask, eta>>
    /\ ieta' = "inf" /\ UNCHANGED <<uniqueX, z>>
    /\ UNCHANGED <<entry, fast, thread, solves, history, g, v, status, etaStatus, rc>>

\* The last codes and the last radius decide; both witnesses are freed.
InfiniteClose ==
    /\ pc = "close" /\ pc' = "left"
    /\ IF g["infinite"] = 0 /\ v["infinite"] = 0 /\ ieta # "inf"
       THEN Accept("infinite", ieta) ELSE UNCHANGED <<mask, eta>>
    /\ uniqueX' = "none" /\ z' = "none" /\ ieta' = "inf"
    /\ UNCHANGED <<entry, fast, thread, solves, history, g, v, status, etaStatus, rc>>

-----------------------------------------------------------------------------
(* INCONSISTENT                                                            *)

LeftGenerate ==
    /\ pc = "left"
    /\ \E c \in 0 .. 6, missing \in BOOLEAN :
          /\ c = 1 => Unchecked
          /\ c = 2 => missing
          /\ missing => c \in {2, 4, 6}
          /\ Code(g, "inconsistent", c) /\ Allocated(missing)
          /\ pc' = IF c = 0 THEN "verify_left" ELSE "finish"
    /\ tried' = tried \cup {"inconsistent"}
    /\ UNCHANGED <<entry, fast, active, witness, passed, v, mask, eta, status, etaStatus, rc>>

\* Code 4 leaves the sign of y^T b open, for the tilts to settle.
LeftVerify ==
    /\ pc = "verify_left"
    /\ \E c \in 0 .. 6 \ {1} :
          /\ Verified("inconsistent", "left", c)
          /\ IF c = 0 THEN Accept("inconsistent", "left") ELSE UNCHANGED <<mask, eta>>
          /\ pc' = IF c = 4 THEN "tilt" ELSE "finish"
    /\ UNCHANGED <<entry, fast, thread, witness, tried, g, status, etaStatus, rc>>

\* Both signs of the smallest multiple that has an accepted tilt; without room,
\* or without such a tilt, the code stays 4.
Tilt ==
    /\ pc = "tilt" /\ pc' = "finish"
    /\ \E c \in {0, 4}, missing \in BOOLEAN :
          /\ missing => c = 4
          /\ Allocated(missing)
          /\ Verified("inconsistent", "tilt", c)
          /\ IF c = 0 THEN Accept("inconsistent", "tilt") ELSE UNCHANGED <<mask, eta>>
    /\ UNCHANGED <<entry, fast, active, witness, tried, g, status, etaStatus, rc>>

-----------------------------------------------------------------------------
(* The four ways out.                                                      *)

\* A watched call that missed an allocation reports that and nothing else.
FinishCandidate ==
    /\ pc = "finish" /\ Given /\ pc' = "idle"
    /\ active' = FALSE /\ short' = FALSE
    /\ IF short THEN Cleared /\ rc' = 2
       ELSE rc' = 0 /\ UNCHANGED <<g, v, mask, eta, status, etaStatus>>
    /\ UNCHANGED <<entry, fast, missed, witness, history>>

\* certified_complete projects on the router's class; the policy and diagnostic
\* entries report the router's failure in their own return value, here 2.
FinishProfile ==
    /\ pc = "finish" /\ ~Given /\ pc' = "idle"
    /\ IF fast \in mask THEN status' = fast /\ etaStatus' = eta[fast]
       ELSE UNCHANGED <<status, etaStatus>>
    /\ rc' = IF entry # "profile" /\ fast = "fail" THEN 2 ELSE 0
    /\ UNCHANGED <<entry, fast, thread, witness, history, g, v, mask, eta>>

Next ==
    \/ Candidate \/ \E e \in Entries : Refuse(e) \/ Route(e)
    \/ UniquePrepare \/ UniqueVerify
    \/ InfinitePrepare \/ QrcpVector \/ QrcpVerify \/ DgesddVector \/ DgesddVerify
    \/ InfiniteClose
    \/ LeftGenerate \/ LeftVerify \/ Tilt
    \/ FinishCandidate \/ FinishProfile

Spec == Init /\ [][Next]_vars

-----------------------------------------------------------------------------
\* Types; and a call returns with no witness left allocated.
TypeOK ==
    /\ pc \in {"idle", "unique", "verify_unique", "prepare", "qrcp", "verify_qrcp",
               "dgesdd", "verify_dgesdd", "close", "left", "verify_left", "tilt", "finish"}
    /\ entry \in Entries /\ fast \in Statuses
    /\ active \in BOOLEAN /\ short \in BOOLEAN /\ missed \in BOOLEAN
    /\ uniqueX \in {"none", "given", "solved"} /\ solves \in 0 .. 2
    /\ z \in {"none", "blank", "qrcp", "dgesdd"}
    /\ ieta \in Objects \cup {"inf"}
    /\ passed \subseteq Objects /\ tried \subseteq Types
    /\ g \in [Types -> 0 .. 6] /\ v \in [Types -> 0 .. 7]
    /\ mask \subseteq Types /\ eta \in [Types -> Objects \cup {"inf", "zeroed"}]
    /\ status \in Types \cup {"none"}
    /\ etaStatus \in Objects \cup {"inf", "zeroed"} /\ rc \in 0 .. 2
    /\ pc = "idle" => uniqueX = "none" /\ z = "none"

Answered == pc = "idle" /\ tried # {}

\* What a call reports as accepted is what a verifier of this call accepted:
\* the mask, the finite radii and the pairs of zero codes name the same types,
\* every type was attempted, and the projection repeats one of them, the
\* router's.  (run_unique_and_infinite_profiles, run_inconsistent_profile,
\* certified_complete; a shortage clears the result.)
AcceptedIsVerified ==
    Answered /\ ~(Given /\ rc = 2) =>
        /\ tried = Types
        /\ \A t \in Types : /\ (t \in mask) = (eta[t] # "inf")
                            /\ (t \in mask) = (g[t] = 0 /\ v[t] = 0)
                            /\ t \in mask => eta[t] \in passed
        /\ status # "none" => status = fast /\ fast \in mask /\ etaStatus = eta[fast]
        /\ status = "none" => etaStatus = "inf" /\ (fast \in mask => Given)

\* The fallback of the infinite witness writes a vector that exists: nothing
\* enters it after a preparation that failed and freed the vector.
FallbackHasVector == pc \in {"qrcp", "dgesdd"} => z # "none"

\* bs_certify_candidate reports a shortage exactly when a generator met one,
\* with no evidence beside it, and leaves its thread unwatched.
ShortageFailsClosed ==
    /\ Answered /\ Given => (rc = 2) = missed
    /\ Answered /\ Given /\ rc = 2 => mask = {} /\ eta = AllTypes("inf")
    /\ pc = "idle" => ~active /\ ~short

\* A candidate is never replaced by a solution; otherwise the source is solved
\* once, and a second time only when UNIQUE came to no witness.
SourceSolvedOnce ==
    /\ Given => solves = 0
    /\ solves = 2 => g["unique"] # 0
=============================================================================
