--------------------------- MODULE StreamContract ---------------------------
(***************************************************************************)
(* What a stream promises its caller (stream.h), with no basis, no counter *)
(* and no memory in it: the rows answered for so far, an interval that     *)
(* encloses their rank, and a verdict they support.                        *)
(***************************************************************************)
EXTENDS Integers

CONSTANTS Rows, N, Rank(_), Consistent(_)

VARIABLES
  open,     \* there is a stream
  known,    \* the rows it has answered for
  lo, hi,   \* the rank interval
  verdict   \* the class

contractVars == <<open, known, lo, hi, verdict>>

Supported(v, S, l, h) ==
  /\ Rank(S) \in l..h
  /\ v \in {"UNIQUE", "INFINITE", "INCONSISTENT", "UNDECIDABLE"}
  /\ v = "UNIQUE"       => Consistent(S) /\ l = N
  /\ v = "INFINITE"     => Consistent(S) /\ l = h /\ h < N
  /\ v = "INCONSISTENT" => ~Consistent(S)

Blank == known = {} /\ lo = 0 /\ hi = 0 /\ verdict = "INFINITE"

Init == ~open /\ Blank

Open  == ~open /\ open' /\ UNCHANGED <<known, lo, hi, verdict>>

Close == /\ open
         /\ ~open'
         /\ known' = {}
         /\ lo' = 0
         /\ hi' = 0
         /\ verdict' = "INFINITE"

(***************************************************************************)
(* One more row: the interval moves up by at most one at either end, a     *)
(* contradiction is final, a doubt is never taken back.                    *)
(***************************************************************************)
Answer(a) ==
  /\ open
  /\ open'
  /\ verdict # "INCONSISTENT"
  /\ known' = known \union {a}
  /\ lo' \in {lo, lo + 1}
  /\ hi' \in {hi, hi + 1}
  /\ verdict = "UNDECIDABLE" => verdict' \in {"UNDECIDABLE", "INCONSISTENT"}
  /\ Supported(verdict', known', lo', hi')

Next == Open \/ Close \/ \E a \in Rows : Answer(a)

Spec == Init /\ [][Next]_contractVars
=============================================================================
