-------------------------- MODULE SecantTailProofs --------------------------
(***************************************************************************)
(* The safety of SecantTail for every tail, window, streak and number of   *)
(* directions.  The invariants are not inductive alone: that a row weighs  *)
(* once needs the scan to stay within the rows accumulated, and that the   *)
(* screens are current needs growth to lie behind the scan.                *)
(***************************************************************************)
EXTENDS SecantTail, TLAPS

\* The streak counts rows that the scan has passed.
StreakBehind == streak <= i - P

\* The scan never leaves the accumulated rows behind; a row at the insertion
\* is accumulated, unless it is the zero row that ends the scan.
ScanWithinCovered ==
    /\ i <= covered
    /\ pc = "insert" => /\ i < M
                        /\ i < covered \/ kind[i] = "falsezero"

\* The bundle grew by rows of new directions, all behind the scan.
GrowthBehind == \A g \in grown : g < i /\ kind[g] \in Directions

\* The row at the insertion was screened against all of the growth.
InsertedIsScreened == pc = "insert" => span \subseteq against[i]

\* A result is returned once, at the end.
ResultAtEnd == pc # "done" => result = "none"

TailInv == /\ TypeOK /\ EachRowOnce /\ RescreenedAfterGrowth /\ InfiniteIsComplete
           /\ StreakBehind /\ ScanWithinCovered /\ GrowthBehind
           /\ InsertedIsScreened /\ ResultAtEnd

----------------------------------------------------------------------------
\* A window ends behind its first row and within the data.
LEMMA WindowEndBounds ==
    ASSUME TypeOK, i < M
    PROVE  WindowEnd \in (i + 1)..M
  BY TailAssumption DEF TypeOK, WindowEnd

\* A streak behind an index of the data is within the tail's length.
LEMMA StreakInRange ==
    ASSUME NEW j \in P..M, NEW s \in Nat, s <= j - P
    PROVE  s \in 0..(M - P)
<1>1. P \in Nat /\ M \in Nat
  BY TailAssumption
<1>2. j \in Int /\ j <= M
  BY <1>1
<1>3. s <= M - P
  BY <1>1, <1>2
<1> QED
  BY <1>1, <1>3

\* The span consists of directions.
LEMMA SpanOfDirections ==
    ASSUME TypeOK, GrowthBehind
    PROVE  span \subseteq Directions
  BY DEF TypeOK, GrowthBehind, span

\* A zero row brings no direction.
LEMMA ZeroIsNoDirection ==
    ASSUME NEW r \in Remainder, Zero(r)
    PROVE  kind[r] \notin Directions
  BY DirectionAssumption DEF Zero

\* What the scan is past was screened against what had grown before it, when
\* the rows from i on are screened against the present span.
LEMMA ScreenedRows ==
    ASSUME TypeOK, RescreenedAfterGrowth, GrowthBehind,
           NEW first, NEW last,
           first = i, against' = Screened(first..last),
           grown' = grown, kind' = kind,
           NEW r \in Remainder, r < i \/ r \in first..last
    PROVE  {kind'[q] : q \in {g \in grown' : g < r}} \subseteq against'[r]
<1>1. CASE r \in first..last
  <2>1. against'[r] = span
    BY <1>1 DEF Screened
  <2> QED
    BY <2>1 DEF span
<1>2. CASE r \notin first..last
  <2>1. against'[r] = against[r]
    BY <1>2 DEF Screened
  <2>2. r < i
    BY <1>2
  <2> QED
    BY <2>1, <2>2 DEF RescreenedAfterGrowth
<1> QED
  BY <1>1, <1>2

\* Screening keeps the histories sets of directions.
LEMMA ScreenedType ==
    ASSUME TypeOK, GrowthBehind, NEW rows
    PROVE  Screened(rows) \in [Remainder -> SUBSET Directions]
  BY SpanOfDirections DEF Screened, TypeOK

\* Accumulating the rows from "covered" up to "end" moves the frontier there.
LEMMA AccumulatedRows ==
    ASSUME TypeOK, EachRowOnce, NEW end \in P..M, covered <= end,
           E' = Accumulated(covered..(end - 1)),
           covered' = end, kind' = kind
    PROVE  E' \in [Remainder -> Nat] /\ EachRowOnce'
<1>1. E' \in [Remainder -> Nat]
  BY DEF TypeOK, Accumulated
<1>2. ASSUME NEW r \in Remainder
      PROVE  E'[r] = IF r < end /\ ~Zero(r) THEN 1 ELSE 0
  <2>1. r \in Nat /\ covered \in Nat /\ end \in Nat
    BY TailAssumption DEF TypeOK, Remainder
  <2>2. E'[r] = IF r \in covered..(end - 1) /\ ~Zero(r) THEN E[r] + 1 ELSE E[r]
    BY DEF Accumulated
  <2>3. E[r] = IF r < covered /\ ~Zero(r) THEN 1 ELSE 0
    BY DEF EachRowOnce
  <2> QED
    BY <2>1, <2>2, <2>3
<1>3. EachRowOnce'
  BY <1>2 DEF EachRowOnce, Zero
<1> QED
  BY <1>1, <1>3

----------------------------------------------------------------------------
\* Before the first row nothing is accumulated.
LEMMA TailInvInit == Init => TailInv
<1> SUFFICES ASSUME Init PROVE TailInv
  OBVIOUS
<1> USE TailAssumption DEF Init
<1>1. TypeOK
  BY DEF TypeOK, Results, Remainder
<1>2. EachRowOnce
  BY DEF EachRowOnce, Remainder
<1>3. RescreenedAfterGrowth
  BY DEF RescreenedAfterGrowth, Remainder
<1> QED
  BY <1>1, <1>2, <1>3
     DEF TailInv, InfiniteIsComplete, StreakBehind, ScanWithinCovered,
         GrowthBehind, InsertedIsScreened, ResultAtEnd

\* The steps that only return leave everything but pc and result alone.
LEMMA ReturnKeepsTailInv ==
    ASSUME TailInv, NEW res \in Results, Return(res),
           UNCHANGED <<kind, parallel, i, covered, streak, grown, E, against>>,
           res = "INFINITE" =>
             \A r \in Remainder : ~NewIn(r) /\ kind[r] \notin {"falsezero", "contradicts"}
    PROVE  TailInv'
<1> USE DEF TailInv, Return
<1>1. TypeOK'
  BY DEF TypeOK
<1>2. EachRowOnce' /\ RescreenedAfterGrowth'
  BY DEF EachRowOnce, RescreenedAfterGrowth, Zero
<1>3. InfiniteIsComplete'
  BY DEF InfiniteIsComplete, NewIn, span
<1>4. StreakBehind' /\ GrowthBehind'
  BY DEF StreakBehind, GrowthBehind
<1>5. ScanWithinCovered' /\ InsertedIsScreened' /\ ResultAtEnd'
  BY DEF ScanWithinCovered, InsertedIsScreened, ResultAtEnd
<1> QED
  BY <1>1, <1>2, <1>3, <1>4, <1>5

\* A window with a hit.
LEMMA WindowHitKeeps == TailInv /\ WindowHit => TailInv'
<1> SUFFICES ASSUME TailInv, WindowHit PROVE TailInv'
  OBVIOUS
<1> USE DEF TailInv
<1>0. /\ i < M /\ i = covered /\ pc = "scan" /\ i \in Nat /\ M \in Nat
      /\ UNCHANGED <<kind, parallel, streak, grown, result>>
  BY TailAssumption
     DEF WindowHit, Scanning, WindowIsDue, ScanWithinCovered, TypeOK
<1>1. WindowEnd \in (i + 1)..M
  BY <1>0, WindowEndBounds
<1>2. PICK first \in i..(WindowEnd - 1) :
        against' = Screened(i..first) /\ i' = first
  BY DEF WindowHit
<1>3. first \in Remainder /\ first < WindowEnd /\ i <= first
  BY <1>0, <1>1, <1>2, TailAssumption DEF TypeOK, Remainder
<1>4. E' = Accumulated(covered..(WindowEnd - 1)) /\ covered' = WindowEnd
  BY <1>0 DEF WindowHit
<1>5. WindowEnd \in P..M /\ covered <= WindowEnd
  BY <1>0, <1>1, TailAssumption DEF TypeOK
<1>6. E' \in [Remainder -> Nat] /\ EachRowOnce'
  BY <1>0, <1>4, <1>5, AccumulatedRows
<1>7. against' \in [Remainder -> SUBSET Directions]
  BY <1>2, ScreenedType
<1>8. pc' = "insert"
  BY DEF WindowHit
<1>9. TypeOK'
  <2>1. i' \in P..M
    BY <1>0, <1>2, <1>3, TailAssumption DEF Remainder
  <2> QED
    BY <2>1, <1>0, <1>4, <1>5, <1>6, <1>7, <1>8 DEF TypeOK
<1>10. RescreenedAfterGrowth'
  <2> SUFFICES ASSUME NEW r \in Remainder, r < i'
               PROVE  {kind'[q] : q \in {g \in grown' : g < r}} \subseteq against'[r]
    BY DEF RescreenedAfterGrowth
  <2>1. r < i \/ r \in i..first
    BY <1>0, <1>2, <1>3, TailAssumption DEF Remainder
  <2> QED
    BY <2>1, <1>0, <1>2, ScreenedRows
<1>11. InfiniteIsComplete'
  BY <1>0 DEF InfiniteIsComplete, NewIn, span
<1>12. StreakBehind' /\ GrowthBehind'
  BY <1>0, <1>2, <1>3, TailAssumption DEF StreakBehind, GrowthBehind, TypeOK, Remainder
<1>13. ScanWithinCovered'
  BY <1>0, <1>2, <1>3, <1>4, TailAssumption, <1>1 DEF ScanWithinCovered, Remainder
<1>14. InsertedIsScreened'
  <2>1. against'[first] = span
    BY <1>0, <1>2, <1>3, TailAssumption DEF Screened, Remainder
  <2> QED
    BY <2>1, <1>0, <1>2 DEF InsertedIsScreened, span
<1>15. ResultAtEnd'
  BY <1>0, <1>8 DEF ResultAtEnd
<1> QED
  BY <1>6, <1>9, <1>10, <1>11, <1>12, <1>13, <1>14, <1>15

\* A window without one.
LEMMA WindowQuietKeeps == TailInv /\ WindowQuiet => TailInv'
<1> SUFFICES ASSUME TailInv, WindowQuiet PROVE TailInv'
  OBVIOUS
<1> USE DEF TailInv
<1>0. /\ i < M /\ i = covered /\ pc = "scan" /\ i \in Nat /\ M \in Nat
      /\ UNCHANGED <<kind, parallel, pc, grown, result>>
  BY TailAssumption
     DEF WindowQuiet, Scanning, WindowIsDue, ScanWithinCovered, TypeOK
<1>1. WindowEnd \in (i + 1)..M
  BY <1>0, WindowEndBounds
<1>2. /\ E' = Accumulated(covered..(WindowEnd - 1))
      /\ against' = Screened(i..(WindowEnd - 1))
      /\ covered' = WindowEnd /\ i' = WindowEnd
      /\ streak' = streak + (WindowEnd - i)
  BY <1>0 DEF WindowQuiet
<1>3. WindowEnd \in P..M /\ covered <= WindowEnd
  BY <1>0, <1>1, TailAssumption DEF TypeOK
<1>4. E' \in [Remainder -> Nat] /\ EachRowOnce'
  BY <1>0, <1>2, <1>3, AccumulatedRows
<1>5. against' \in [Remainder -> SUBSET Directions]
  BY <1>2, ScreenedType
<1>6. streak' \in 0..(WindowEnd - P)
  BY <1>0, <1>1, <1>2, TailAssumption DEF StreakBehind, TypeOK
<1>7. TypeOK'
  BY <1>0, <1>2, <1>3, <1>4, <1>5, <1>6, TailAssumption DEF TypeOK
<1>8. RescreenedAfterGrowth'
  <2> SUFFICES ASSUME NEW r \in Remainder, r < i'
               PROVE  {kind'[q] : q \in {g \in grown' : g < r}} \subseteq against'[r]
    BY DEF RescreenedAfterGrowth
  <2>1. r < i \/ r \in i..(WindowEnd - 1)
    BY <1>0, <1>1, <1>2, TailAssumption DEF Remainder
  <2> QED
    BY <2>1, <1>0, <1>2, ScreenedRows
<1>9. InfiniteIsComplete'
  BY <1>0 DEF InfiniteIsComplete, NewIn, span
<1>10. StreakBehind'
  BY <1>2, <1>3, <1>6, TailAssumption DEF StreakBehind
<1>11. GrowthBehind'
  BY <1>0, <1>1, <1>2, TailAssumption DEF GrowthBehind, TypeOK, Remainder
<1>12. ScanWithinCovered' /\ InsertedIsScreened' /\ ResultAtEnd'
  BY <1>0, <1>1, <1>2 DEF ScanWithinCovered, InsertedIsScreened, ResultAtEnd
<1> QED
  BY <1>4, <1>7, <1>8, <1>9, <1>10, <1>11, <1>12

\* One row moves the frontier over itself, or lies behind it.
LEMMA OneRow ==
    ASSUME TailInv, Scanning, E' = AccumulatesOne, kind' = kind,
           covered' = Advanced
    PROVE  /\ E' \in [Remainder -> Nat] /\ EachRowOnce'
           /\ covered' \in P..M /\ i < covered'
<1> USE DEF TailInv
<1>1. i \in Nat /\ covered \in Nat /\ i < M /\ i <= covered
  BY TailAssumption DEF Scanning, TypeOK, ScanWithinCovered
<1>2. CASE i = covered
  <2>1. covered' = i + 1 /\ covered' \in P..M /\ covered <= covered'
    BY <1>1, <1>2, TailAssumption DEF Advanced, TypeOK
  <2>2. {i} = covered..(covered' - 1)
    BY <1>1, <1>2, <2>1
  <2>3. E' = Accumulated(covered..(covered' - 1))
    BY <1>1, <1>2, <2>2 DEF AccumulatesOne
  <2> QED
    BY <1>1, <2>1, <2>3, AccumulatedRows
<1>3. CASE i < covered
  <2>1. E' = E /\ covered' = covered
    BY <1>1, <1>3 DEF AccumulatesOne, Advanced
  <2> QED
    BY <1>3, <2>1 DEF TypeOK, EachRowOnce, Zero
<1> QED
  BY <1>1, <1>2, <1>3

\* One row has been screened against the present span.
LEMMA OneScreened ==
    ASSUME TailInv, Scanning, against' = Screened({i}), grown' = grown, kind' = kind
    PROVE  /\ against' \in [Remainder -> SUBSET Directions]
           /\ against'[i] = span
           /\ \A r \in Remainder : r < i + 1 =>
                {kind'[q] : q \in {g \in grown' : g < r}} \subseteq against'[r]
<1> USE DEF TailInv
<1>1. i \in Remainder /\ i \in Nat
  BY TailAssumption DEF Scanning, TypeOK, Remainder
<1>2. {i} = i..i
  BY <1>1
<1>3. against' \in [Remainder -> SUBSET Directions]
  BY ScreenedType
<1>4. against'[i] = span
  BY <1>1 DEF Screened
<1>5. ASSUME NEW r \in Remainder, r < i + 1
      PROVE  {kind'[q] : q \in {g \in grown' : g < r}} \subseteq against'[r]
  <2>1. r < i \/ r \in i..i
    BY <1>1, <1>5, TailAssumption DEF Remainder
  <2>2. against' = Screened(i..i)
    BY <1>2
  <2> QED
    BY <2>1, <2>2, ScreenedRows
<1> QED
  BY <1>3, <1>4, <1>5

\* A row that does not score.
LEMMA RowQuietKeeps == TailInv /\ RowQuiet => TailInv'
<1> SUFFICES ASSUME TailInv, RowQuiet PROVE TailInv'
  OBVIOUS
<1> USE DEF TailInv
<1>0. /\ Scanning /\ pc = "scan" /\ i < M /\ i \in Nat /\ M \in Nat
      /\ UNCHANGED <<kind, parallel, pc, grown, result>>
      /\ E' = AccumulatesOne /\ covered' = Advanced
      /\ against' = Screened({i})
      /\ i' = i + 1 /\ streak' = streak + 1
  BY TailAssumption DEF RowQuiet, Scanning, TypeOK
<1>1. E' \in [Remainder -> Nat] /\ EachRowOnce' /\ covered' \in P..M /\ i < covered'
  BY <1>0, OneRow
<1>2. against' \in [Remainder -> SUBSET Directions] /\ RescreenedAfterGrowth'
  BY <1>0, OneScreened DEF RescreenedAfterGrowth
<1>3. i' \in P..M /\ streak' \in Nat /\ streak' <= i' - P
  BY <1>0, TailAssumption DEF TypeOK, StreakBehind
<1>4. TypeOK'
  <2>1. streak' \in 0..(M - P)
    BY <1>3, StreakInRange
  <2> QED
    BY <1>0, <1>1, <1>2, <1>3, <2>1 DEF TypeOK
<1>5. InfiniteIsComplete'
  BY <1>0 DEF InfiniteIsComplete, NewIn, span
<1>6. StreakBehind'
  BY <1>3, TailAssumption DEF StreakBehind
<1>7. GrowthBehind'
  BY <1>0, TailAssumption DEF GrowthBehind, TypeOK, Remainder
<1>8. ScanWithinCovered'
  BY <1>0, <1>1, TailAssumption DEF ScanWithinCovered
<1>9. InsertedIsScreened' /\ ResultAtEnd'
  BY <1>0 DEF InsertedIsScreened, ResultAtEnd
<1> QED
  BY <1>1, <1>2, <1>4, <1>5, <1>6, <1>7, <1>8, <1>9

\* A zero row that scores is one whose right-hand side is not zero.
LEMMA ScoringZero ==
    ASSUME TypeOK, i \in Remainder, TRUE \in Screen(i), Zero(i)
    PROVE  kind[i] = "falsezero"
  BY DEF Screen, Zero

\* A row that scores.
LEMMA RowHitKeeps == TailInv /\ RowHit => TailInv'
<1> SUFFICES ASSUME TailInv, RowHit PROVE TailInv'
  OBVIOUS
<1> USE DEF TailInv
<1>0. /\ Scanning /\ pc = "scan" /\ i < M /\ i \in Remainder /\ i \in Nat /\ M \in Nat
      /\ UNCHANGED <<kind, parallel, i, streak, grown, result>>
      /\ E' = AccumulatesOne /\ against' = Screened({i})
      /\ pc' = "insert" /\ i <= covered
  <2>1. pc = "scan" /\ i < M /\ i \in P..M /\ i <= covered
    BY DEF RowHit, Scanning, TypeOK, ScanWithinCovered
  <2>2. i \in Remainder /\ i \in Nat /\ M \in Nat
    BY <2>1, TailAssumption DEF Remainder
  <2> QED
    BY <2>1, <2>2 DEF RowHit
<1>1. /\ E' \in [Remainder -> Nat] /\ EachRowOnce' /\ covered' \in P..M
      /\ i <= covered'
      /\ i < covered' \/ kind[i] = "falsezero"
  <2>1. CASE Zero(i)
    <3>1. kind[i] = "falsezero" /\ covered' = covered
      <4>1. TRUE \in Screen(i)
        BY DEF RowHit
      <4> QED
        BY <1>0, <2>1, <4>1, ScoringZero DEF RowHit
    <3>2. E' = E
      BY <2>1 DEF RowHit, AccumulatesOne, Accumulated, TypeOK
    <3> QED
      BY <1>0, <3>1, <3>2 DEF TypeOK, EachRowOnce, Zero
  <2>2. CASE ~Zero(i)
    <3>1. covered' = Advanced
      BY <2>2 DEF RowHit
    <3> QED
      BY <1>0, <3>1, OneRow, TailAssumption
  <2> QED
    BY <2>1, <2>2
<1>2. /\ against' \in [Remainder -> SUBSET Directions] /\ against'[i] = span
      /\ RescreenedAfterGrowth'
  <2>1. /\ against' \in [Remainder -> SUBSET Directions] /\ against'[i] = span
        /\ \A r \in Remainder : r < i + 1 =>
              {kind'[q] : q \in {g \in grown' : g < r}} \subseteq against'[r]
    BY <1>0, OneScreened
  <2>2. \A r \in Remainder : r < i' => r < i + 1
    BY <1>0, TailAssumption DEF Remainder
  <2> QED
    BY <2>1, <2>2 DEF RescreenedAfterGrowth
<1>3. TypeOK'
  BY <1>0, <1>1, <1>2 DEF TypeOK
<1>4. InfiniteIsComplete' /\ StreakBehind' /\ GrowthBehind'
  BY <1>0 DEF InfiniteIsComplete, NewIn, span, StreakBehind, GrowthBehind
<1>5. ScanWithinCovered' /\ ResultAtEnd'
  BY <1>0, <1>1 DEF ScanWithinCovered, ResultAtEnd
<1>6. InsertedIsScreened'
  BY <1>0, <1>2 DEF InsertedIsScreened, span
<1> QED
  BY <1>1, <1>2, <1>3, <1>4, <1>5, <1>6

\* A row that brings a direction.
LEMMA InsertGrowsKeeps == TailInv /\ InsertGrows => TailInv'
<1> SUFFICES ASSUME TailInv, InsertGrows PROVE TailInv'
  OBVIOUS
<1> USE DEF TailInv
<1>0. /\ pc = "insert" /\ i < M /\ i \in Remainder /\ i \in Nat /\ M \in Nat
      /\ kind[i] \in Directions /\ grown' = grown \union {i}
      /\ streak' = 0 /\ i' = i + 1 /\ pc' = "scan"
      /\ UNCHANGED <<kind, parallel, covered, E, against, result>>
  BY TailAssumption DEF InsertGrows, TypeOK, ScanWithinCovered, Remainder
<1>1. i < covered
  BY <1>0, DirectionAssumption DEF ScanWithinCovered
<1>2. TypeOK'
  <2>1. i' \in P..M /\ streak' \in 0..(M - P)
    BY <1>0, TailAssumption DEF TypeOK
  <2> QED
    BY <1>0, <2>1 DEF TypeOK
<1>3. EachRowOnce'
  BY <1>0 DEF EachRowOnce, Zero
<1>4. RescreenedAfterGrowth'
  <2> SUFFICES ASSUME NEW r \in Remainder, r < i'
               PROVE  {kind[q] : q \in {g \in grown' : g < r}} \subseteq against[r]
    BY <1>0 DEF RescreenedAfterGrowth
  <2>1. r \in Nat /\ r <= i
    BY <1>0, TailAssumption DEF Remainder
  <2>2. {g \in grown' : g < r} = {g \in grown : g < r}
    BY <1>0, <2>1
  <2>3. CASE r < i
    BY <2>2, <2>3 DEF RescreenedAfterGrowth
  <2>4. CASE r = i
    BY <1>0, <2>2, <2>4 DEF InsertedIsScreened, span
  <2> QED
    BY <1>0, <2>1, <2>3, <2>4
<1>5. InfiniteIsComplete'
  BY <1>0 DEF ResultAtEnd, InfiniteIsComplete
<1>6. StreakBehind'
  BY <1>0, TailAssumption DEF StreakBehind, Remainder
<1>7. GrowthBehind'
  BY <1>0, TailAssumption DEF GrowthBehind, TypeOK, Remainder
<1>8. ScanWithinCovered'
  BY <1>0, <1>1, TailAssumption DEF ScanWithinCovered, TypeOK
<1>9. InsertedIsScreened' /\ ResultAtEnd'
  BY <1>0 DEF InsertedIsScreened, ResultAtEnd
<1> QED
  BY <1>2, <1>3, <1>4, <1>5, <1>6, <1>7, <1>8, <1>9

\* A row that is redundant.
LEMMA InsertAbsorbsKeeps == TailInv /\ InsertAbsorbs => TailInv'
<1> SUFFICES ASSUME TailInv, InsertAbsorbs PROVE TailInv'
  OBVIOUS
<1> USE DEF TailInv
<1>0. /\ pc = "insert" /\ i < M /\ i \in Remainder /\ i \in Nat /\ M \in Nat
      /\ kind[i] \in {"inside"} \union Directions
      /\ streak' = streak + 1 /\ i' = i + 1 /\ pc' = "scan"
      /\ UNCHANGED <<kind, parallel, covered, grown, E, against, result>>
  BY TailAssumption, SpanOfDirections
     DEF InsertAbsorbs, TypeOK, ScanWithinCovered, Remainder
<1>1. i < covered
  BY <1>0, DirectionAssumption DEF ScanWithinCovered
<1>2. i' \in P..M /\ streak' \in Nat /\ streak' <= i' - P
  BY <1>0, TailAssumption DEF TypeOK, StreakBehind
<1>3. TypeOK'
  <2>1. streak' \in 0..(M - P)
    BY <1>2, StreakInRange
  <2> QED
    BY <1>0, <1>2, <2>1 DEF TypeOK
<1>4. EachRowOnce'
  BY <1>0 DEF EachRowOnce, Zero
<1>5. RescreenedAfterGrowth'
  <2> SUFFICES ASSUME NEW r \in Remainder, r < i'
               PROVE  {kind[q] : q \in {g \in grown : g < r}} \subseteq against[r]
    BY <1>0 DEF RescreenedAfterGrowth
  <2>1. r < i \/ r = i
    BY <1>0, TailAssumption DEF Remainder
  <2>2. CASE r = i
    BY <1>0, <2>2 DEF InsertedIsScreened, span
  <2> QED
    BY <2>1, <2>2 DEF RescreenedAfterGrowth
<1>6. InfiniteIsComplete'
  BY <1>0 DEF ResultAtEnd, InfiniteIsComplete
<1>7. StreakBehind'
  BY <1>2, TailAssumption DEF StreakBehind
<1>8. GrowthBehind'
  BY <1>0, TailAssumption DEF GrowthBehind, TypeOK, Remainder
<1>9. ScanWithinCovered'
  BY <1>0, <1>1, TailAssumption DEF ScanWithinCovered, TypeOK
<1>10. InsertedIsScreened' /\ ResultAtEnd'
  BY <1>0 DEF InsertedIsScreened, ResultAtEnd
<1> QED
  BY <1>3, <1>4, <1>5, <1>6, <1>7, <1>8, <1>9, <1>10

\* At the end of the data every row is in the combinations, so that their
\* check speaks for each.
LEMMA ProposesKeeps == TailInv /\ Proposes => TailInv'
<1> SUFFICES ASSUME TailInv, Proposes PROVE TailInv'
  OBVIOUS
<1> USE DEF TailInv
<1>0. /\ pc = "scan" /\ i = M /\ CheckPasses /\ ScanPasses /\ Return("INFINITE")
      /\ UNCHANGED <<kind, parallel, i, covered, streak, grown, E, against>>
  BY DEF Proposes, ScanEnds
<1>1. covered = M
  BY <1>0, TailAssumption DEF ScanWithinCovered, TypeOK
<1>2. ASSUME NEW r \in Remainder
      PROVE  ~NewIn(r) /\ kind[r] \notin {"falsezero", "contradicts"}
  <2>1. kind[r] \notin {"falsezero", "contradicts"}
    BY <1>0 DEF ScanPasses
  <2>2. CASE Zero(r)
    BY <2>1, <2>2, ZeroIsNoDirection DEF NewIn
  <2>3. CASE ~Zero(r)
    <3>1. E[r] = 1
      BY <1>1, <2>3, TailAssumption DEF EachRowOnce, Remainder
    <3> QED
      BY <1>0, <2>1, <3>1 DEF CheckPasses
  <2> QED
    BY <2>2, <2>3
<1> QED
  BY <1>0, <1>2, ReturnKeepsTailInv DEF Results

----------------------------------------------------------------------------
\* The other steps that return never return INFINITE.
LEMMA OtherReturnsKeep ==
    ASSUME TailInv,
           NoMemory \/ InsertDeclines \/ InsertContradicts \/ FullRank \/ Unproved
    PROVE  TailInv'
<1> PICK res \in Results \ {"INFINITE"} : Return(res)
  BY DEF NoMemory, InsertDeclines, InsertContradicts, FullRank, Unproved, Results
<1>1. UNCHANGED <<kind, parallel, i, covered, streak, grown, E, against>>
  BY DEF NoMemory, InsertDeclines, InsertContradicts, FullRank, Unproved
<1> QED
  BY <1>1, ReturnKeepsTailInv

\* Every step of the tail keeps the invariant.
LEMMA TailInvNext == TailInv /\ [Next]_vars => TailInv'
<1> SUFFICES ASSUME TailInv, [Next]_vars PROVE TailInv'
  OBVIOUS
<1>1. CASE WindowHit
  BY <1>1, WindowHitKeeps
<1>2. CASE WindowQuiet
  BY <1>2, WindowQuietKeeps
<1>3. CASE RowQuiet
  BY <1>3, RowQuietKeeps
<1>4. CASE RowHit
  BY <1>4, RowHitKeeps
<1>5. CASE InsertGrows
  BY <1>5, InsertGrowsKeeps
<1>6. CASE InsertAbsorbs
  BY <1>6, InsertAbsorbsKeeps
<1>7. CASE Proposes
  BY <1>7, ProposesKeeps
<1>8. CASE NoMemory \/ InsertDeclines \/ InsertContradicts \/ FullRank \/ Unproved
  BY <1>8, OtherReturnsKeep
<1>9. CASE UNCHANGED vars
  BY <1>9 DEF vars, TailInv, TypeOK, EachRowOnce, RescreenedAfterGrowth,
     InfiniteIsComplete, StreakBehind, ScanWithinCovered, GrowthBehind,
     InsertedIsScreened, ResultAtEnd, Zero, NewIn, span
<1> QED
  BY <1>1, <1>2, <1>3, <1>4, <1>5, <1>6, <1>7, <1>8, <1>9
     DEF Next, Step, Returned

\* The strengthened invariant of try_secant_tail.
THEOREM TailInvariant == Spec => []TailInv
  BY TailInvInit, TailInvNext, PTL DEF Spec

\* No index of the scan passes the end of the data, whatever the window.
THEOREM TailTypes == Spec => []TypeOK
<1>1. TailInv => TypeOK
  BY DEF TailInv
<1> QED
  BY <1>1, TailInvariant, PTL

\* Windows and returns into them count every row of the tail exactly once.
THEOREM TailWeights == Spec => []EachRowOnce
<1>1. TailInv => EachRowOnce
  BY DEF TailInv
<1> QED
  BY <1>1, TailInvariant, PTL

\* No row is passed on the word of a screen older than an earlier growth.
THEOREM TailScreens == Spec => []RescreenedAfterGrowth
<1>1. TailInv => RescreenedAfterGrowth
  BY DEF TailInv
<1> QED
  BY <1>1, TailInvariant, PTL

\* INFINITE is proposed only of a bundle that holds every row's direction,
\* whatever the screens of the rows missed.
THEOREM TailProposal == Spec => []InfiniteIsComplete
<1>1. TailInv => InfiniteIsComplete
  BY DEF TailInv
<1> QED
  BY <1>1, TailInvariant, PTL
=============================================================================
