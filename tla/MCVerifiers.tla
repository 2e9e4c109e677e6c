----------------------------- MODULE MCVerifiers -----------------------------
(***************************************************************************)
(* Two source rows, teams of up to two, callers that round to nearest or   *)
(* towards zero, candidates beside the proof objects.                       *)
(***************************************************************************)
EXTENDS CandidateCheck

\* A zero row; a row that is right, one that is off, one with a residual only,
\* one whose change or whose residual is beyond binary64.
AllRowKinds == {[err |-> "zero", res |-> "zero", src |-> "zero"],
                [err |-> "zero", res |-> "zero", src |-> "fin"],
                [err |-> "fin",  res |-> "fin",  src |-> "fin"],
                [err |-> "zero", res |-> "fin",  src |-> "fin"],
                [err |-> "inf",  res |-> "fin",  src |-> "fin"],
                [err |-> "fin",  res |-> "inf",  src |-> "fin"]}

\* A zero row; one that fits, one that is close, one that is off, and one that is
\* close with a residual beyond binary64.
AllCandidateRows == {[err |-> "zero",   res |-> "zero", den |-> "zero"],
                     [err |-> "zero",   res |-> "zero", den |-> "fin"],
                     [err |-> "within", res |-> "fin",  den |-> "fin"],
                     [err |-> "beyond", res |-> "fin",  den |-> "fin"],
                     [err |-> "within", res |-> "inf",  den |-> "fin"]}

UsualModes == {"nearest", "zero"}
=============================================================================
