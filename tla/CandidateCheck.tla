---------------------------- MODULE CandidateCheck ----------------------------
(***************************************************************************)
(* abs_check_candidate of src/candidate_check.c, called by the callers of  *)
(* Verifiers between their other calls: it too changes the thread's        *)
(* rounding mode from row to row, and what a caller's thread is left with  *)
(* is what the next region's threads are born with.                        *)
(*                                                                         *)
(* A row of the candidate is known by the truth about it: its backward     *)
(* error, zero, within the policy's quality or beyond; the size of its     *)
(* residual; whether |b| + |a||x| is zero.  The code sees an upper bound   *)
(* of the residual and a lower one of the denominator.                     *)
(***************************************************************************)
EXTENDS Verifiers

CONSTANT CandidateRows  \* what a row can be: [err, res, den]

ASSUME CandidateAssumption ==
    CandidateRows \subseteq [err : {"zero", "within", "beyond"},
                             res : {"zero", "fin", "inf"}, den : {"zero", "fin"}]

\* A row without a residual has no backward error.
ASSUME CandidateTruth == \A row \in CandidateRows : row.res = "zero" => row.err = "zero"

VARIABLES residualUp, \* max_abs_residual_up
          errorUp,    \* mixed_backward_error_up
          verdict

report    == <<residualUp, errorUp, verdict>>
checkVars == <<vars, report>>

Candidates == [kind : {"candidate"}, row : [Row -> CandidateRows]]

\* bs_init_candidate_check_result
Unavailable == residualUp' = "inf" /\ errorUp' = "inf" /\ verdict' = "unavailable"

CheckInit == /\ Init
             /\ residualUp = "inf" /\ errorUp = "inf" /\ verdict = "unavailable"

CallCandidate(o, md) ==
    /\ pc = "idle" /\ pc' = "check"
    /\ obj' = o /\ callMode' = md /\ mode' = [mode EXCEPT ![0] = md]
    /\ UNCHANGED <<code, eta, region, rowEta, report>>

Answer(c) == pc' = "checked" /\ code' = c /\ UNCHANGED <<obj, eta, callMode, region, rowEta>>

\* Refused arguments, policy included (1), no room for a number per row (2),
\* the environment cannot be saved (3): left before any mode is set.
CandidateFails ==
    /\ pc = "check"
    /\ \E c \in 1 .. 3 : Answer(c)
    /\ Unavailable
    /\ UNCHANGED mode

-----------------------------------------------------------------------------
\* norm_directed downwards may come to nothing for a row that is not zero.
DenominatorLow(row) == {"zero", row.den}

\* Upper bounds of a backward error that has to be computed as a quotient.
QuotientUp(err) == {"beyond", "inf"} \cup IF err = "beyond" THEN {} ELSE {"within"}

\* Faulty variant: a denominator of zero has nothing to divide.
ErrorUpForgiving(row, res, low) ==
    IF res = "inf" THEN {"inf"}
    ELSE IF low = "zero" \/ res = "zero" THEN {"zero"} ELSE QuotientUp(row.err)

\* row_backward[i].  It is infinite in each case that leaves no bound available.
ErrorUp(row, res, low) ==
    IF res = "inf" THEN {"inf"}
    ELSE IF res = "zero" THEN {"zero"}
    ELSE IF low = "zero" THEN {"inf"} ELSE QuotientUp(row.err)

RowReports(row) ==
    UNION {[res : {res}, err : ErrorUp(row, res, low)] :
           res \in AtLeast(row.res), low \in DenominatorLow(row)}

Order == [zero |-> 0, fin |-> 1, within |-> 1, beyond |-> 2, inf |-> 3]
Largest(bounds) == CHOOSE v \in bounds : \A u \in bounds : Order[u] <= Order[v]

\* The two maxima over the rows and the verdict on them.
Report(res, err) ==
    /\ residualUp' = res /\ errorUp' = err
    /\ verdict' = IF "inf" \in {res, err} THEN "unavailable"
                  ELSE IF err = "beyond" THEN "not_established" ELSE "within"

\* The pass over the rows.  If the environment cannot be put back, the report
\* stays as it was initialised and the thread in the mode of the last row.
CandidateWeighed ==
    /\ pc = "check"
    /\ \E w \in [Row -> [res : {"zero", "fin", "inf"},
                         err : {"zero", "within", "beyond", "inf"}]] :
          /\ \A i \in Row : w[i] \in RowReports(obj.row[i])
          /\ \/ /\ Answer(0) /\ mode' = [mode EXCEPT ![0] = callMode]
                /\ Report(Largest({w[i].res : i \in Row}), Largest({w[i].err : i \in Row}))
             \/ /\ Answer(3) /\ Unavailable
                /\ \E last \in {"up", "down"} : mode' = [mode EXCEPT ![0] = last]

CandidateRead ==
    /\ pc = "checked" /\ pc' = "idle"
    /\ obj' = Freed /\ code' = 1 /\ Unavailable
    /\ UNCHANGED <<eta, callMode, mode, region, rowEta>>

CheckNext ==
    \/ Next /\ UNCHANGED report
    \/ \E o \in Candidates, md \in CallerModes : CallCandidate(o, md)
    \/ CandidateFails \/ CandidateWeighed \/ CandidateRead

CheckSpec == CheckInit /\ [][CheckNext]_checkVars

-----------------------------------------------------------------------------
\* Types of both modules.
CheckTypeOK ==
    /\ RegionTypes
    /\ pc \in {"idle", "called", "team", "returned", "check", "checked"}
    /\ obj \in Objects \cup Candidates \cup {Freed}
    /\ residualUp \in {"zero", "fin", "inf"}
    /\ errorUp \in {"zero", "within", "beyond", "inf"}
    /\ verdict \in {"within", "not_established", "unavailable"}

Proven(row, bound) == Order[row.err] <= Order[bound]

\* A candidate is within the quality only if every one of its rows is; each
\* bound that is reported bounds every row, one whose denominator or residual
\* leaves the range of binary64 included; a verdict comes with both bounds, and
\* a call that fails, wherever it does, leaves no evidence.  (docs/api.md,
\* "Candidate quality": valid evidence about this x)
CandidateBounds ==
    pc = "checked" =>
      /\ \A i \in Row : /\ Proven(obj.row[i], errorUp)
                        /\ Order[obj.row[i].res] <= Order[residualUp]
      /\ verdict = "within" => \A i \in Row : obj.row[i].err # "beyond"
      /\ verdict = "unavailable" <=> "inf" \in {residualUp, errorUp}
      /\ code # 0 => verdict = "unavailable" /\ residualUp = "inf" /\ errorUp = "inf"

\* Every thread gets its rounding mode back: the caller's, whatever way a
\* verifier or the candidate check is left (unless its environment could not be
\* put back, which is what code 3 may mean), and a worker's when it leaves the
\* region, buffers or not.
ModesRestored ==
    [][/\ pc' = "returned" => mode'[0] = callMode'
       /\ pc' = "checked" /\ code' # 3 => mode'[0] = callMode'
       /\ \A t \in Threads \ {0} :
            stage[t] = "barrier" /\ stage'[t] = "left" => mode'[t] = env[t]]_checkVars
=============================================================================
