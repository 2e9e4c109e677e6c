------------------------------- MODULE ApiProofs -------------------------------
(***************************************************************************)
(* Theorems about Api, which composes the entries that take a policy with  *)
(* everything Certified does: what CertifiedProofs shows of the certified  *)
(* calls also holds among the calls of the other entries, and in any       *)
(* sequence of calls the caller's policy is the one applied and reported.  *)
(*                                                                         *)
(* The copies of the policy are what the induction has to follow: Carried  *)
(* says where the caller's policy is at each place of a call.              *)
(***************************************************************************)
EXTENDS Api, CertifiedProofs

Routing == {"default", "qrcp", "gate", "routed"}

Typed ==
    /\ at \in {"idle", "enter", "router"} \cup Routing
    /\ call \in {"none", "router", "solve", "policy"}
    /\ memory \in [Places -> Policies \cup {"zero"}] /\ ptr \in Places
    /\ given \in Policies \cup {"zero"}
    /\ under \in Policies \cup {"none"}
    /\ opStatus \in Statuses
    /\ err \in Errors \cup {"none"}
    /\ berr \in Errors \cup {"none", "infinite"}
    /\ xIn \in {"own", "A", "b"} /\ source \in {"intact", "overwritten"}
    /\ x \in {"untouched", "zeroed", "solution", "garbage"}
    /\ outcome \in {"none", "OK", "INVALID_ARGUMENT", "SOLVER_FAILED",
                    "ALLOCATION_FAILURE", "OPERATIONAL_FAILURE", "NUMERICAL_FAILURE"}

\* A call that has not come to its end has touched nothing of the caller's, and
\* the profiles run only after it, in a call of the certified driver.
Before ==
    /\ at # "idle" => /\ pc = "idle" /\ tried = {} /\ ~missed
                      /\ call # "none" /\ outcome = "none"
                      /\ source = "intact" /\ x = "untouched"
    /\ pc # "idle" => call \in {"none", "policy"}

\* Where the caller's policy is.
Carried ==
    /\ at \in {"enter", "router"} => under = "none" /\ memory[ptr] = given
    /\ at = "router" => memory.inside \in {"zero", given}
    /\ at \in Routing => /\ Valid(given) /\ under = given /\ memory[ptr] = given
                         /\ memory.inside = given

\* What the custom path knows of the error when it applies the quality.
Weighing ==
    /\ at \in {"enter", "router", "default", "qrcp"} => err = "none"
    /\ at = "default" => under \notin Custom
    /\ at \in {"qrcp", "gate"} => under \in Custom
    /\ at = "gate" => /\ opStatus = "unique" /\ err \in Errors
                      /\ \E value \in ScanLeaves(err) : berr = Weighed(err, value)

ApiInv == /\ CertifiedInv /\ Typed /\ Before /\ Carried /\ Weighing
          /\ PolicyGoverns /\ QualityIsOfThePolicy /\ SolveReports

USE DEF Types, Entries, Statuses, Objects

-----------------------------------------------------------------------------
(***************************************************************************)
(* What the entries do to the certified driver's state.                    *)
(***************************************************************************)

\* A call begins: no result, no witness and no history is left of the last one.
LEMMA ForgottenPreserves ==
  ASSUME CertifiedInv, pc = "idle", Forgotten
  PROVE  CertifiedInv' /\ pc' = "idle" /\ tried' = {} /\ ~missed'
<1> USE DEF Forgotten, Fresh, Cleared, AllTypes, Given, CertifiedInv, TypeOK, thread,
   witness, history, result
<1>1. TypeOK'
  <2>1. eta' \in [Types -> Objects \cup {"inf", "zeroed"}] /\ mask' \subseteq Types
        /\ g' \in [Types -> 0 .. 6] /\ v' \in [Types -> 0 .. 7]
    OBVIOUS
  <2>2. /\ entry' \in Entries /\ fast' \in Statuses /\ rc' \in 0 .. 2
        /\ status' \in Types \cup {"none"}
        /\ etaStatus' \in Objects \cup {"inf", "zeroed"}
        /\ ieta' \in Objects \cup {"inf"}
        /\ uniqueX' \in {"none", "given", "solved"} /\ solves' \in 0 .. 2
        /\ z' \in {"none", "blank", "qrcp", "dgesdd"}
        /\ passed' \subseteq Objects /\ tried' \subseteq Types
    OBVIOUS
  <2>3. active' \in BOOLEAN /\ short' \in BOOLEAN /\ missed' \in BOOLEAN
    OBVIOUS
  <2>4. pc' = "idle" /\ (pc' = "idle" => uniqueX' = "none" /\ z' = "none")
    OBVIOUS
  <2> QED BY <2>1, <2>2, <2>3, <2>4
<1>2. Watched'
  BY DEF Watched, Under
<1>3. Vectors'
  BY DEF Vectors, UniqueOpen, InfiniteOpen
<1>4. Counted'
  BY DEF Counted, SourceSolvedOnce
<1>5. Radius'
  BY DEF Radius, Under
<1>6. Ledger'
  BY DEF Ledger, Under, UniqueOpen, InfiniteOpen, InconsistentOpen
<1>7. Reported'
  BY DEF Reported, AcceptedIsVerified, ShortageFailsClosed, Answered, Watched, Under
<1> QED BY <1>1, <1>2, <1>3, <1>4, <1>5, <1>6, <1>7 DEF CertifiedInv

\* least_squares_x misses an allocation: no certified call is under way to see it.
LEMMA MissedPreserves ==
  ASSUME CertifiedInv, pc = "idle", tried = {}, missed' \in BOOLEAN,
         UNCHANGED <<pc, entry, fast, active, short, witness, history, result>>
  PROVE  CertifiedInv'
<1> USE DEF CertifiedInv, TypeOK, thread, witness, history, result
<1>1. TypeOK'
  OBVIOUS
<1>2. Watched'
  BY DEF Watched, Under, Given
<1>3. Vectors'
  BY DEF Vectors, UniqueOpen, InfiniteOpen
<1>4. Counted'
  BY DEF Counted, SourceSolvedOnce, Given
<1>5. Radius'
  BY DEF Radius, Under
<1>6. Ledger'
  BY DEF Ledger, Under, UniqueOpen, InfiniteOpen, InconsistentOpen
<1>7. Reported'
  BY DEF Reported, AcceptedIsVerified, ShortageFailsClosed, Answered, Given
<1> QED BY <1>1, <1>2, <1>3, <1>4, <1>5, <1>6, <1>7 DEF CertifiedInv

\* A step outside the certified calls leaves their invariant alone.
LEMMA CertifiedKept ==
  ASSUME CertifiedInv, UNCHANGED vars
  PROVE  CertifiedInv'
BY DEF vars, thread, witness, history, result, CertifiedInv, TypeOK, Watched,
   Vectors, Counted, Radius, Ledger, Open, Settled, Under, UniqueOpen, InfiniteOpen,
   InconsistentOpen, Reported, AcceptedIsVerified, ShortageFailsClosed, Answered,
   SourceSolvedOnce, Given, AllTypes

-----------------------------------------------------------------------------
(***************************************************************************)
(* The steps.                                                              *)
(***************************************************************************)
USE DEF Places, Policies, Custom, Errors, Routing

\* No call has come to its end that a property speaks of.
LEMMA UnderWay ==
  ASSUME Typed, Carried, at # "idle", outcome = "none"
  PROVE  PolicyGoverns /\ SolveReports
BY DEF Typed, Carried, PolicyGoverns, SolveReports, Finished

\* An entry is called with a policy in any place, and clears its result.
LEMMA CallPreserves ==
  ASSUME ApiInv, CallRouter \/ CallSolve \/ CallCertified
  PROVE  ApiInv'
<1>1. PICK e \in {"router", "solve", "policy"}, value \in Policies, place \in {"own", "inside"} :
         /\ pc = "idle" /\ at = "idle" /\ call' = e
         /\ given' = value /\ ptr' = place
         /\ memory' = [p \in Places |-> IF p = place THEN value ELSE "zero"]
         /\ under' = "none" /\ opStatus' = "fail" /\ err' = "none" /\ berr' = "none"
         /\ source' = "intact" /\ x' = "untouched" /\ outcome' = "none"
         /\ at' = IF e = "router" THEN "router" ELSE "enter"
         /\ xIn' \in {"own", "A", "b"}
         /\ Forgotten
  <2>1. CASE CallRouter
    BY <2>1 DEF CallRouter, Begin
  <2>2. CASE CallSolve
    BY <2>2 DEF CallSolve, Begin
  <2>3. CASE CallCertified
    BY <2>3 DEF CallCertified, Begin
  <2> QED BY <2>1, <2>2, <2>3
<1>2. CertifiedInv' /\ pc' = "idle" /\ tried' = {} /\ ~missed'
  BY <1>1, ForgottenPreserves DEF ApiInv
<1>3. Typed' /\ Before'
  BY <1>1, <1>2 DEF Typed, Before
<1>4. Carried' /\ Weighing'
  BY <1>1 DEF Carried, Weighing
<1>5. (Typed /\ Carried /\ at # "idle" /\ outcome = "none")' /\ QualityIsOfThePolicy'
  BY <1>1, <1>3, <1>4 DEF QualityIsOfThePolicy
<1>6. PolicyGoverns' /\ SolveReports'
  BY <1>5, UnderWay, PTL
<1> QED BY <1>2, <1>3, <1>4, <1>5, <1>6 DEF ApiInv

\* The outer entries hand the policy on.
LEMMA EnterPreserves ==
  ASSUME ApiInv, SolveEnters \/ CertifiedEnters
  PROVE  ApiInv'
<1>1. /\ at = "enter" /\ at' = "router" /\ ptr \in Places
      /\ UNCHANGED <<vars, call, given, under, routing, caller, outcome>>
      /\ memory' \in [Places -> Policies \cup {"zero"}] /\ ptr' \in Places
      /\ memory'.inside = "zero" /\ memory'[ptr'] = memory[ptr]
  <2>1. memory \in [Places -> Policies \cup {"zero"}] /\ ptr \in Places
    BY DEF ApiInv, Typed
  <2>2. CASE SolveEnters /\ ptr = "inside"
    BY <2>1, <2>2 DEF SolveEnters, ResultCleared
  <2>3. CASE SolveEnters /\ ptr # "inside"
    BY <2>1, <2>3 DEF SolveEnters, ResultCleared
  <2>4. CASE CertifiedEnters
    BY <2>1, <2>4 DEF CertifiedEnters, ResultCleared
  <2> QED BY <2>2, <2>3, <2>4
<1>2. CertifiedInv'
  BY <1>1, CertifiedKept DEF ApiInv
<1>3. Typed' /\ Before'
  BY <1>1 DEF ApiInv, Typed, Before, vars, thread, history, routing, caller
<1>4. Carried' /\ Weighing'
  BY <1>1 DEF ApiInv, Carried, Weighing, routing
<1>5. (Typed /\ Carried /\ at # "idle" /\ outcome = "none")' /\ QualityIsOfThePolicy'
  BY <1>1, <1>3, <1>4 DEF ApiInv, Before, QualityIsOfThePolicy
<1>6. PolicyGoverns' /\ SolveReports'
  BY <1>5, UnderWay, PTL
<1> QED BY <1>2, <1>3, <1>4, <1>5, <1>6 DEF ApiInv

\* A refusal, whoever refuses: nothing was routed, nothing touched.
LEMMA RefusedPreserves ==
  ASSUME ApiInv, SolveRefuses \/ CertifiedRefuses \/ RefusesPolicy \/ RefusesArguments
  PROVE  ApiInv'
<1>1. /\ at \in {"enter", "router"} /\ at' = "idle" /\ outcome' = "INVALID_ARGUMENT"
      /\ UNCHANGED <<call, ptr, given, under, routing, caller>>
      /\ memory' \in [Places -> Policies \cup {"zero"}]
      /\ memory'.inside # "zero" => Valid(given) /\ memory'.inside = given
      /\ UNCHANGED vars \/ (call = "policy" /\ Refuse("policy"))
  <2>1. CASE SolveRefuses
    BY <2>1 DEF SolveRefuses, Return, ResultCleared, ApiInv, Typed
  <2>2. CASE CertifiedRefuses
    BY <2>2 DEF CertifiedRefuses, Return, ResultCleared, ApiInv, Typed
  <2>3. CASE RefusesPolicy
    BY <2>3 DEF RefusesPolicy, RouterRefuses, Return, ResultCleared, ApiInv, Typed
  <2>4. CASE RefusesArguments
    BY <2>4 DEF RefusesArguments, RouterRefuses, Return, Resolved, ApiInv, Typed, Carried
  <2> QED BY <2>1, <2>2, <2>3, <2>4
<1>2. CertifiedInv'
  <2>1. Refuse("policy") => CertifiedInv'
    BY RefusePreserves DEF ApiInv
  <2> QED BY <1>1, <2>1, CertifiedKept DEF ApiInv
<1>3. ~missed' /\ pc' = "idle"
  BY <1>1 DEF Refuse, Fresh, ApiInv, Before, vars, thread
<1>4. Typed' /\ Before'
  BY <1>1, <1>3 DEF ApiInv, Typed, Before, routing, caller
<1>5. Carried' /\ Weighing' /\ QualityIsOfThePolicy'
  BY <1>1 DEF Carried, Weighing, QualityIsOfThePolicy
<1>6. PolicyGoverns'
  BY <1>1 DEF ApiInv, Carried, PolicyGoverns, Finished
<1>7. SolveReports'
  BY <1>1, <1>3 DEF ApiInv, Before, SolveReports, Finished, caller
<1> QED BY <1>2, <1>4, <1>5, <1>6, <1>7 DEF ApiInv

\* The policy is copied and recorded.
LEMMA ResolvesPreserves ==
  ASSUME ApiInv, Resolves
  PROVE  ApiInv'
<1>1. /\ at = "router" /\ Valid(given) /\ memory[ptr] = given /\ given \in Policies
      /\ memory' = [memory EXCEPT !.copy = given, !.inside = given] /\ ptr' = "copy"
      /\ under' = given
      /\ at' = IF given = "default" THEN "default" ELSE "qrcp"
      /\ UNCHANGED <<vars, call, given, routing, caller, outcome>>
  BY DEF Resolves, Resolved, ApiInv, Typed, Carried, Valid
<1>2. CertifiedInv'
  BY <1>1, CertifiedKept DEF ApiInv
<1>3. /\ memory' \in [Places -> Policies \cup {"zero"}]
      /\ memory'["copy"] = given /\ memory'.inside = given
  BY <1>1 DEF ApiInv, Typed
<1>4. Typed' /\ Before'
  BY <1>1, <1>3 DEF ApiInv, Typed, Before, vars, thread, history, routing, caller
<1>5. Carried' /\ Weighing'
  BY <1>1, <1>3 DEF ApiInv, Carried, Weighing, Valid, routing
<1>6. (Typed /\ Carried /\ at # "idle" /\ outcome = "none")' /\ QualityIsOfThePolicy'
  BY <1>1, <1>4, <1>5 DEF ApiInv, Before, QualityIsOfThePolicy
<1>7. PolicyGoverns' /\ SolveReports'
  BY <1>6, UnderWay, PTL
<1> QED BY <1>2, <1>4, <1>5, <1>6, <1>7 DEF ApiInv

\* The class is decided under the caller's policy.
LEMMA RoutingPreserves ==
  ASSUME ApiInv, DefaultRoute \/ CustomWithoutX \/ CustomScans \/ CustomGate
  PROVE  ApiInv'
<1>1. /\ at \in Routing /\ at' \in {"gate", "routed"}
      /\ UNCHANGED <<vars, call, policy, caller, outcome>>
      /\ opStatus' \in Statuses
  BY DEF DefaultRoute, CustomWithoutX, CustomScans, CustomGate
<1>2. CertifiedInv'
  BY <1>1, CertifiedKept DEF ApiInv
<1>3. /\ err' \in Errors \cup {"none"} /\ berr' \in Errors \cup {"none", "infinite"}
  BY DEF DefaultRoute, CustomWithoutX, CustomScans, CustomGate, ScanLeaves, Weighed,
     ApiInv, Typed
<1>4. Typed' /\ Before'
  BY <1>1, <1>3 DEF ApiInv, Typed, Before, vars, thread, history, policy, caller
<1>5. Carried'
  BY <1>1 DEF ApiInv, Carried, policy
<1>6. Weighing'
  BY <1>1 DEF ApiInv, Weighing, policy, DefaultRoute, CustomWithoutX, CustomScans,
     CustomGate, ScanLeaves, Weighed
<1>7. QualityIsOfThePolicy'
  <2>1. CASE DefaultRoute
    BY <1>1, <2>1 DEF DefaultRoute, ApiInv, Weighing, QualityIsOfThePolicy, policy
  <2>2. CASE CustomWithoutX
    BY <1>1, <2>2 DEF CustomWithoutX, ApiInv, Weighing, QualityIsOfThePolicy, policy
  <2>3. CASE CustomScans
    BY <1>1, <2>3 DEF CustomScans, QualityIsOfThePolicy, policy
  <2>4. CASE CustomGate
    <3>1. /\ under = given /\ under' = given /\ given' = given /\ memory[ptr] = given
          /\ given \in Custom /\ err \in Errors /\ err' = err
          /\ opStatus' = IF berr \in Within(given) THEN "unique" ELSE "undecidable"
      BY <1>1, <2>4 DEF CustomGate, ApiInv, Carried, Weighing, policy
    <3>2. PICK value \in ScanLeaves(err) : berr = Weighed(err, value)
      BY <2>4 DEF CustomGate, ApiInv, Weighing
    <3>3. CASE given = "tuned"
      BY <3>1, <3>2, <3>3 DEF QualityIsOfThePolicy, Within, Weighed, ScanLeaves
    <3>4. CASE given \in {"strict", "loose"}
      BY <3>1, <3>2, <3>4 DEF QualityIsOfThePolicy, Within, Weighed
    <3> QED BY <3>1, <3>3, <3>4
  <2> QED BY <2>1, <2>2, <2>3, <2>4
<1>8. (Typed /\ Carried /\ at # "idle" /\ outcome = "none")'
  BY <1>1, <1>4, <1>5 DEF ApiInv, Before
<1>9. PolicyGoverns' /\ SolveReports'
  BY <1>8, UnderWay, PTL
<1> QED BY <1>2, <1>4, <1>5, <1>6, <1>7, <1>9 DEF ApiInv

\* The calls that come to their end.
LEMMA SolvePreserves ==
  ASSUME ApiInv, SolveFails \/ Reconstruct
  PROVE  ApiInv'
<1>1. /\ at = "routed" /\ call = "solve" /\ at' = "idle" /\ pc = "idle" /\ tried = {}
      /\ ~missed /\ source = "intact" /\ x = "untouched"
      /\ under = given /\ Valid(given) /\ memory.inside = given
      /\ UNCHANGED <<pc, tried, call, policy, routing, xIn>>
      /\ UNCHANGED <<entry, fast, active, short, witness, history, result>>
  BY DEF SolveFails, Reconstruct, Return, ApiInv, Before, Carried, vars, thread, history, caller
<1>2. /\ missed' \in BOOLEAN
      /\ outcome' \in {"OK", "ALLOCATION_FAILURE", "OPERATIONAL_FAILURE", "NUMERICAL_FAILURE"}
      /\ source' \in {"intact", "overwritten"}
      /\ x' \in {"untouched", "zeroed", "solution", "garbage"}
  <2>1. CASE SolveFails
    BY <1>1, <2>1 DEF SolveFails, Return, vars, thread, caller, ApiInv, CertifiedInv, TypeOK
  <2>2. CASE Reconstruct
    BY <1>1, <2>2 DEF Reconstruct, Return, Reconstructed
  <2> QED BY <2>1, <2>2
<1>3. CertifiedInv'
  BY <1>1, <1>2, MissedPreserves DEF ApiInv
<1>4. Typed' /\ Before'
  BY <1>1, <1>2 DEF ApiInv, Typed, Before, policy, routing
<1>5. Carried' /\ Weighing' /\ QualityIsOfThePolicy'
  BY <1>1 DEF Carried, Weighing, QualityIsOfThePolicy
<1>6. PolicyGoverns'
  BY <1>1, <1>2 DEF PolicyGoverns, Finished, policy
<1>7. SolveReports'
  <2>1. CASE SolveFails
    <3>1. /\ outcome' = "OPERATIONAL_FAILURE" /\ opStatus' = "fail" /\ x' = "untouched"
          /\ source' = "intact" /\ memory' = memory /\ missed' = missed
      BY <1>1, <2>1 DEF SolveFails, Return, vars, thread, policy, routing, caller
    <3> QED BY <1>1, <3>1 DEF SolveReports
  <2>2. CASE Reconstruct
    <3>1. PICK c \in {0, 2, 3, 4, 5} :
             /\ missed' = (c \in {2, 4})
             /\ x' = IF c # 0 THEN "zeroed" ELSE "solution"
             /\ outcome' = Reconstructed(c)
      BY <1>1, <2>2 DEF Reconstruct, Return
    <3>2. opStatus' # "fail"
      BY <1>1, <2>2 DEF Reconstruct, routing
    <3>3. CASE c = 0
      <4>1. outcome' = "OK" /\ x' = "solution"
        BY <3>1, <3>3 DEF Reconstructed
      <4>2. c \notin {2, 4}
        BY <3>3
      <4>3. ~missed'
        BY <3>1, <4>2, Zenon
      <4> QED BY <3>2, <4>1, <4>3 DEF SolveReports
    <3>4. CASE c \in {2, 4}
      <4>1. outcome' = "ALLOCATION_FAILURE" /\ x' = "zeroed"
        BY <3>1, <3>4 DEF Reconstructed
      <4>2. missed'
        BY <3>1, <3>4
      <4> QED BY <4>1, <4>2 DEF SolveReports
    <3>5. CASE c \in {3, 5}
      <4>1. outcome' = "NUMERICAL_FAILURE" /\ x' = "zeroed"
        BY <3>1, <3>5 DEF Reconstructed
      <4>2. c \notin {2, 4}
        BY <3>5
      <4>3. ~missed'
        BY <3>1, <4>2, Zenon
      <4> QED BY <4>1, <4>3 DEF SolveReports
    <3> QED BY <3>3, <3>4, <3>5
  <2> QED BY <2>1, <2>2
<1> QED BY <1>3, <1>4, <1>5, <1>6, <1>7 DEF ApiInv

\* The router returns, to its caller or into the certified call it is part of.
LEMMA ReturnPreserves ==
  ASSUME ApiInv, RouterReturns \/ CertifiedRouted
  PROVE  ApiInv'
<1>1. /\ at = "routed" /\ at' = "idle" /\ outcome' \in {"OK", "SOLVER_FAILED"}
      /\ under = given /\ Valid(given) /\ memory.inside = given
      /\ memory' \in [Places -> Policies \cup {"zero"}] /\ ptr' \in Places
      /\ memory'.inside = memory.inside
      /\ err' \in Errors \cup {"none"} /\ berr' \in Errors \cup {"none", "infinite"}
      /\ call' = call /\ call # "solve"
      /\ UNCHANGED <<given, under, opStatus, caller>>
      /\ UNCHANGED vars \/ (call = "policy" /\ Route("policy"))
  <2>1. memory \in [Places -> Policies \cup {"zero"}]
    BY DEF ApiInv, Typed
  <2>2. CASE RouterReturns
    BY <2>1, <2>2 DEF RouterReturns, Return, ApiInv, Typed, Carried, policy, routing
  <2>3. CASE CertifiedRouted
    BY <2>1, <2>3 DEF CertifiedRouted, Return, ApiInv, Typed, Carried
  <2> QED BY <2>2, <2>3
<1>2. CertifiedInv'
  <2>1. Route("policy") => CertifiedInv'
    BY RoutePreserves DEF ApiInv
  <2> QED BY <1>1, <2>1, CertifiedKept DEF ApiInv
<1>3. Typed'
  BY <1>1 DEF ApiInv, Typed, caller
<1>4. Before'
  BY <1>1 DEF ApiInv, Before, vars
<1>5. Carried' /\ Weighing' /\ QualityIsOfThePolicy'
  BY <1>1 DEF Carried, Weighing, QualityIsOfThePolicy
<1>6. PolicyGoverns' /\ SolveReports'
  BY <1>1 DEF PolicyGoverns, SolveReports, Finished
<1> QED BY <1>2, <1>3, <1>4, <1>5, <1>6 DEF ApiInv

\* The entries of Certified that take no policy, and the profiles of them all.
LEMMA OthersPreserves ==
  ASSUME ApiInv, Others
  PROVE  ApiInv'
<1>1. /\ at = "idle" /\ at' = "idle" /\ call' = "none"
      /\ memory' = [p \in Places |-> "zero"] /\ ptr' = "own"
      /\ given' = "zero" /\ under' = "none"
      /\ opStatus' = "fail" /\ err' = "none" /\ berr' = "none"
      /\ xIn' = "own" /\ source' = "intact" /\ x' = "untouched"
      /\ outcome' = "none"
  BY DEF Others
<1>2. CertifiedInv'
  <2>1. CASE Candidate
    BY <2>1, CandidatePreserves DEF ApiInv
  <2>2. ASSUME NEW e \in {"profile", "diag"}, Refuse(e) \/ Route(e)
        PROVE  CertifiedInv'
    BY <2>2, RefusePreserves, RoutePreserves DEF ApiInv
  <2> QED BY <2>1, <2>2 DEF Others
<1>3. Typed' /\ Before'
  BY <1>1 DEF Typed, Before
<1>4. Carried' /\ Weighing' /\ QualityIsOfThePolicy' /\ PolicyGoverns' /\ SolveReports'
  BY <1>1 DEF Carried, Weighing, QualityIsOfThePolicy, PolicyGoverns, SolveReports, Finished
<1> QED BY <1>2, <1>3, <1>4 DEF ApiInv

\* The profiles of a certified call touch nothing of the policy's.
LEMMA ProfilesPreserve ==
  ASSUME ApiInv, Profiles
  PROVE  ApiInv'
<1>1. pc # "idle" /\ UNCHANGED apiVars
  BY DEF Profiles, UniquePrepare, UniqueVerify, InfinitePrepare, QrcpVector, QrcpVerify,
     DgesddVector, DgesddVerify, InfiniteClose, LeftGenerate, LeftVerify, Tilt,
     FinishCandidate, FinishProfile
<1>2. CertifiedInv'
  BY UniquePreparePreserves, UniqueVerifyPreserves, InfinitePreparePreserves,
     QrcpVectorPreserves, QrcpVerifyPreserves, DgesddVectorPreserves, DgesddVerifyPreserves,
     InfiniteClosePreserves, LeftGeneratePreserves, LeftVerifyPreserves, TiltPreserves,
     FinishCandidatePreserves, FinishProfilePreserves
  DEF Profiles, ApiInv
<1>3. at = "idle" /\ call \in {"none", "policy"}
  BY <1>1 DEF ApiInv, Before
<1>4. UNCHANGED <<at, call, memory, ptr, given, under, opStatus, err, berr, xIn, source, x,
                  outcome>>
  BY <1>1 DEF apiVars, policy, routing, caller
<1>5. Typed' /\ Before'
  BY <1>3, <1>4 DEF ApiInv, Typed, Before
<1>6. Carried' /\ Weighing' /\ QualityIsOfThePolicy'
  BY <1>3, <1>4 DEF Carried, Weighing, QualityIsOfThePolicy
<1>7. PolicyGoverns' /\ SolveReports'
  BY <1>3, <1>4 DEF ApiInv, PolicyGoverns, SolveReports, Finished
<1> QED BY <1>2, <1>5, <1>6, <1>7 DEF ApiInv

\* Before the first call nothing is passed, copied or reported.
LEMMA ApiInitEstablishes == ApiInit => ApiInv
<1> SUFFICES ASSUME ApiInit PROVE ApiInv
  OBVIOUS
<1>1. CertifiedInv
  BY InitEstablishes DEF ApiInit
<1>2. Typed /\ Before
  BY DEF ApiInit, Init, Typed, Before
<1>3. Carried /\ Weighing /\ QualityIsOfThePolicy /\ PolicyGoverns /\ SolveReports
  BY DEF ApiInit, Carried, Weighing, QualityIsOfThePolicy, PolicyGoverns, SolveReports, Finished
<1> QED BY <1>1, <1>2, <1>3 DEF ApiInv

-----------------------------------------------------------------------------
(***************************************************************************)
(* The theorems.                                                           *)
(***************************************************************************)

\* In any sequence of calls of all entries, each call has the caller's policy
\* where it reads it, and the certified calls keep their own invariant.
THEOREM ApiInvariant == ApiSpec => []ApiInv
<1>1. ApiInv /\ [ApiNext]_<<vars, apiVars>> => ApiInv'
  <2> SUFFICES ASSUME ApiInv, [ApiNext]_<<vars, apiVars>> PROVE ApiInv'
    OBVIOUS
  <2>1. CASE Others \/ Profiles
    BY <2>1, OthersPreserves, ProfilesPreserve
  <2>2. CASE CallRouter \/ CallSolve \/ CallCertified
    BY <2>2, CallPreserves
  <2>3. CASE SolveRefuses \/ CertifiedRefuses \/ RefusesPolicy \/ RefusesArguments
    BY <2>3, RefusedPreserves
  <2>4. CASE SolveEnters \/ CertifiedEnters
    BY <2>4, EnterPreserves
  <2>5. CASE Resolves
    BY <2>5, ResolvesPreserves
  <2>6. CASE DefaultRoute \/ CustomWithoutX \/ CustomScans \/ CustomGate
    BY <2>6, RoutingPreserves
  <2>7. CASE RouterReturns \/ CertifiedRouted
    BY <2>7, ReturnPreserves
  <2>8. CASE SolveFails \/ Reconstruct
    BY <2>8, SolvePreserves
  <2>9. CASE UNCHANGED <<vars, apiVars>>
    <3>1. CertifiedInv'
      BY <2>9, CertifiedKept DEF ApiInv
    <3>2. UNCHANGED <<pc, tried, missed, at, call, memory, ptr, given, under, opStatus, err,
                      berr, xIn, source, x, outcome>>
      BY <2>9 DEF vars, thread, history, apiVars, policy, routing, caller
    <3>3. Typed' /\ Before'
      BY <3>2 DEF ApiInv, Typed, Before
    <3>4. Carried'
      BY <3>2 DEF ApiInv, Carried
    <3>5. Weighing'
      BY <3>2 DEF ApiInv, Weighing, Weighed
    <3>6. PolicyGoverns'
      BY <3>2 DEF ApiInv, PolicyGoverns, Finished
    <3>7. QualityIsOfThePolicy'
      BY <3>2 DEF ApiInv, QualityIsOfThePolicy
    <3>8. SolveReports'
      BY <3>2 DEF ApiInv, SolveReports, Finished
    <3> QED BY <3>1, <3>3, <3>4, <3>5, <3>6, <3>7, <3>8 DEF ApiInv
  <2> QED BY <2>1, <2>2, <2>3, <2>4, <2>5, <2>6, <2>7, <2>8, <2>9 DEF ApiNext
<1> QED BY <1>1, ApiInitEstablishes, PTL DEF ApiSpec

\* Types; no witness outlives its call, whichever entries are called.
THEOREM ApiTypes == ApiSpec => []ApiTypeOK
<1>1. ApiInv => ApiTypeOK
  BY DEF ApiInv, CertifiedInv, Vectors, FallbackHasVector, Typed, ApiTypeOK
<1> QED BY <1>1, ApiInvariant, PTL

\* The policy applied and reported is the caller's.  (operational_policy.inc)
THEOREM ApiPolicy == ApiSpec => []PolicyGoverns
<1>1. ApiInv => PolicyGoverns
  BY DEF ApiInv
<1> QED BY <1>1, ApiInvariant, PTL

\* On the custom path UNIQUE is kept exactly within the caller's quality.
\* (bsolve_router_policy_api's gate)
THEOREM ApiQuality == ApiSpec => []QualityIsOfThePolicy
<1>1. ApiInv => QualityIsOfThePolicy
  BY DEF ApiInv
<1> QED BY <1>1, ApiInvariant, PTL

\* What solve returns and what it leaves in x go together.
\* (solve_with_controls)
THEOREM ApiSolve == ApiSpec => []SolveReports
<1>1. ApiInv => SolveReports
  BY DEF ApiInv
<1> QED BY <1>1, ApiInvariant, PTL

\* What the certified calls promise also holds among the calls of the other
\* entries.  (certified_complete, bs_certify_candidate)
THEOREM ApiCertified ==
  ApiSpec => [](AcceptedIsVerified /\ ShortageFailsClosed /\ SourceSolvedOnce)
<1>1. ApiInv => AcceptedIsVerified /\ ShortageFailsClosed /\ SourceSolvedOnce
  BY DEF ApiInv, CertifiedInv, Reported, Counted
<1> QED BY <1>1, ApiInvariant, PTL
=============================================================================
