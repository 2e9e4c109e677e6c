----------------------------- MODULE SecantTail -----------------------------
(***************************************************************************)
(* The scan of the rows after the prefix, try_secant_tail in               *)
(* src/src/bsolver.c.  A row is screened against random probes of the      *)
(* current bundle and inserted only if it scores; every row is also added  *)
(* to two random combinations E, which stand for all of them in the final  *)
(* check.  After a quiet streak the scan looks at W rows at a time, in     *)
(* parallel; a hit sends it back into the window it has just accumulated.  *)
(* A row is abstracted to its kind: a zero row, a zero row with a non-zero *)
(* right-hand side, a row in the span of the prefix that agrees or not     *)
(* with it, a row in the grey zone, or the new direction it brings.        *)
(***************************************************************************)
EXTENDS Integers

CONSTANTS P, M,        \* the tail is the rows P..M-1
          W,           \* rows of a window, 2048 in the code
          QuietStreak, \* rows without growth before a window, 32 in the code
          MinWindow,   \* rows left for a window, 10^6 entries in the code
          Directions   \* as many as the prefix lacks for full rank

ASSUME TailAssumption == /\ P \in Nat /\ M \in Nat /\ P <= M
                         /\ {W, QuietStreak, MinWindow} \subseteq Nat \ {0}

ASSUME DirectionAssumption ==
    Directions \intersect {"zero", "falsezero", "inside", "contradicts", "grey"} = {}

Remainder  == P..(M - 1)
Kinds == {"zero", "falsezero", "inside", "contradicts", "grey"} \union Directions

VARIABLES kind,      \* the data: the kind of every tail row
          parallel,  \* parallel_ok
          pc, i, covered, streak,
          grown,     \* the rows the bundle has grown by
          E,         \* how often the combinations contain each row
          against,   \* history: the span each row was last screened against
          result     \* what the function returns

vars == <<kind, parallel, pc, i, covered, streak, grown, E, against, result>>

Results == {"none", "declined", "INCONSISTENT", "UNIQUE", "INFINITE", "FAIL"}

Init == /\ kind \in [Remainder -> Kinds]
        /\ parallel \in BOOLEAN
        /\ pc = "scan" /\ i = P /\ covered = P /\ streak = 0
        /\ grown = {}
        /\ E = [r \in Remainder |-> 0]
        /\ against = [r \in Remainder |-> {}]
        /\ result = "none"

----------------------------------------------------------------------------
Zero(r) == kind[r] \in {"zero", "falsezero"}
span    == {kind[r] : r \in grown}
Full    == span = Directions

\* Which verdicts the screen can give: a row outside the bundle may score
\* below the probes' threshold, a row inside it above.
Screen(r) == IF kind[r] = "zero" THEN {FALSE}
             ELSE IF kind[r] \in {"falsezero", "contradicts"} THEN {TRUE}
             ELSE BOOLEAN

Accumulated(rows) == [r \in Remainder |-> IF r \in rows /\ ~Zero(r) THEN E[r] + 1 ELSE E[r]]
Screened(rows)    == [r \in Remainder |-> IF r \in rows THEN span ELSE against[r]]

Return(res) == pc' = "done" /\ result' = res

\* The scan could not get its buffers, or its copy of the prefix.
NoMemory ==
    /\ pc = "scan" /\ i = P /\ covered = P /\ streak = 0 /\ grown = {}
    /\ Return("FAIL")
    /\ UNCHANGED <<kind, parallel, i, covered, streak, grown, E, against>>

Scanning == pc = "scan" /\ i < M /\ ~Full

WindowIsDueAnywhere == parallel /\ streak >= QuietStreak /\ M - i >= MinWindow

\* Only past the rows that are already in E.
WindowIsDue == WindowIsDueAnywhere /\ i >= covered

WindowEnd == IF i + W < M THEN i + W ELSE M

\* A window with a hit: all of it is accumulated, the scan goes on at the
\* first row that scored.
WindowHit ==
    /\ Scanning /\ WindowIsDue
    /\ E' = Accumulated(i..(WindowEnd - 1))
    /\ covered' = WindowEnd
    /\ \E first \in i..(WindowEnd - 1) :
         /\ TRUE \in Screen(first)
         /\ \A r \in i..(first - 1) : FALSE \in Screen(r)
         /\ against' = Screened(i..first)
         /\ i' = first
    /\ pc' = "insert"
    /\ UNCHANGED <<kind, parallel, streak, grown, result>>

\* A window where no row scored is passed as a whole.
WindowQuiet ==
    /\ Scanning /\ WindowIsDue
    /\ \A r \in i..(WindowEnd - 1) : FALSE \in Screen(r)
    /\ E' = Accumulated(i..(WindowEnd - 1))
    /\ against' = Screened(i..(WindowEnd - 1))
    /\ covered' = WindowEnd /\ i' = WindowEnd
    /\ streak' = streak + (WindowEnd - i)
    /\ UNCHANGED <<kind, parallel, pc, grown, result>>

AccumulatesAlways == Accumulated({i})
AccumulatesNever  == E

\* One row, accumulated unless an earlier window did; a zero row that
\* contradicts goes to the insertion before "covered" moves.
AccumulatesOne == IF i >= covered THEN Accumulated({i}) ELSE E

Advanced == IF i >= covered THEN i + 1 ELSE covered

RowQuiet ==
    /\ Scanning /\ ~WindowIsDue
    /\ FALSE \in Screen(i)
    /\ E' = AccumulatesOne
    /\ covered' = Advanced
    /\ against' = Screened({i})
    /\ i' = i + 1 /\ streak' = streak + 1
    /\ UNCHANGED <<kind, parallel, pc, grown, result>>

RowHit ==
    /\ Scanning /\ ~WindowIsDue
    /\ TRUE \in Screen(i)
    /\ E' = AccumulatesOne
    /\ covered' = IF Zero(i) THEN covered ELSE Advanced
    /\ against' = Screened({i})
    /\ pc' = "insert"
    /\ UNCHANGED <<kind, parallel, i, streak, grown, result>>

----------------------------------------------------------------------------
\* bs_insert_tail_guarded on the row that scored.  At full rank the code
\* leaves the loop before i++; nothing reads i after that.
\* The scan resumes behind the window instead of behind the row.
InsertGrowsPastWindow ==
    /\ pc = "insert"
    /\ kind[i] \in Directions \ span
    /\ grown' = grown \union {i}
    /\ streak' = 0
    /\ i' = covered + 1 /\ pc' = "scan"
    /\ UNCHANGED <<kind, parallel, covered, E, against, result>>

InsertGrows ==
    /\ pc = "insert"
    /\ kind[i] \in Directions \ span
    /\ grown' = grown \union {i}
    /\ streak' = 0
    /\ i' = i + 1 /\ pc' = "scan"
    /\ UNCHANGED <<kind, parallel, covered, E, against, result>>

\* A redundant row does not move the scan on.
InsertAbsorbsInPlace ==
    /\ pc = "insert"
    /\ kind[i] \in {"inside"} \union span
    /\ pc' = "scan"
    /\ UNCHANGED <<kind, parallel, i, covered, streak, grown, E, against, result>>

InsertAbsorbs ==
    /\ pc = "insert"
    /\ kind[i] \in {"inside"} \union span
    /\ streak' = streak + 1
    /\ i' = i + 1 /\ pc' = "scan"
    /\ UNCHANGED <<kind, parallel, covered, grown, E, against, result>>

\* A row the insertion leaves grey ends the scan; so does a contradiction
\* that the local SVD does not confirm, or has no memory to look at.
InsertDeclines ==
    /\ pc = "insert"
    /\ kind[i] \in {"grey", "contradicts"}
    /\ Return("declined")
    /\ UNCHANGED <<kind, parallel, i, covered, streak, grown, E, against>>

InsertContradicts ==
    /\ pc = "insert"
    /\ kind[i] \in {"falsezero", "contradicts"}
    /\ Return("INCONSISTENT")
    /\ UNCHANGED <<kind, parallel, i, covered, streak, grown, E, against>>

----------------------------------------------------------------------------
\* compat_scan_fused over the source: a row inside the bundle fits its
\* solution exactly if it does not contradict; of any other row one cannot say.
Compatible(r) == kind[r] \in {"zero", "inside"} \union span
ScanPasses == \A r \in Remainder : kind[r] \notin {"falsezero", "contradicts"}
ScanFails  == \E r \in Remainder : ~Compatible(r)

\* bs_check_certified on the combinations: one with a row of a new direction
\* leaves the bundle; of one with a grey row one cannot say.
NewIn(r)    == kind[r] \in Directions \ span
CheckPasses == \A r \in Remainder : E[r] > 0 => ~NewIn(r)
CheckFails  == \E r \in Remainder : E[r] > 0 /\ ~Compatible(r)
ScanEnds    == pc = "scan" /\ (i = M \/ Full)

FullRank ==
    /\ ScanEnds /\ Full
    /\ \/ ScanPasses /\ Return("UNIQUE")
       \/ ScanFails  /\ Return("INCONSISTENT")
    /\ UNCHANGED <<kind, parallel, i, covered, streak, grown, E, against>>

Unproved ==
    /\ ScanEnds /\ ~Full
    /\ CheckFails \/ ScanFails
    /\ Return("declined")
    /\ UNCHANGED <<kind, parallel, i, covered, streak, grown, E, against>>

Proposes ==
    /\ ScanEnds /\ ~Full
    /\ CheckPasses /\ ScanPasses
    /\ Return("INFINITE")
    /\ UNCHANGED <<kind, parallel, i, covered, streak, grown, E, against>>

Returned == pc = "done" /\ UNCHANGED vars

Step == \/ NoMemory \/ WindowHit \/ WindowQuiet \/ RowQuiet \/ RowHit
        \/ InsertGrows \/ InsertAbsorbs \/ InsertDeclines \/ InsertContradicts
        \/ FullRank \/ Unproved \/ Proposes

Next == Step \/ Returned

Spec == Init /\ [][Next]_vars

----------------------------------------------------------------------------
\* The types; no index passes the end of the data.
TypeOK == /\ kind \in [Remainder -> Kinds] /\ parallel \in BOOLEAN
          /\ pc \in {"scan", "insert", "done"}
          /\ i \in P..M /\ covered \in P..M /\ streak \in 0..(M - P)
          /\ grown \subseteq Remainder
          /\ E \in [Remainder -> Nat] /\ against \in [Remainder -> SUBSET Directions]
          /\ result \in Results

\* A combination holds every row up to "covered" exactly once and no other,
\* however often windows and rescans pass over it: a row that is counted
\* twice, or not at all, would not be weighed by the final check as the
\* screen of random combinations requires.
EachRowOnce ==
    \A r \in Remainder : E[r] = IF r < covered /\ ~Zero(r) THEN 1 ELSE 0

\* No row is skipped on the word of an outdated screen: when the scan is past
\* a row, that row was screened against every direction that an earlier row
\* had brought, also when both lie in one window.
RescreenedAfterGrowth ==
    \A r \in Remainder : r < i => {kind[q] : q \in {g \in grown : g < r}} \subseteq against[r]

\* The tail proposes INFINITE only when no row of the source brings a
\* direction that the bundle lacks and no row contradicts it, though the
\* screen may have missed any of them: the combinations are complete.
InfiniteIsComplete ==
    result = "INFINITE" =>
      \A r \in Remainder : ~NewIn(r) /\ kind[r] \notin {"falsezero", "contradicts"}
=============================================================================
