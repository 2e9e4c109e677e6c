---------------------------- MODULE BlockProofs ----------------------------
(***************************************************************************)
(* The safety of BlockRows for every number of rows, threads, outputs and  *)
(* draws, in four parts: sums over finite sets, whose order does not       *)
(* matter; the shares of a parallel region, which leave no row out and     *)
(* give none to two threads; the stages one after the other; and the route *)
(* that Router has them take.  What the threads of a window have done      *)
(* together is one scan of its rows, what those of a sketch have counted   *)
(* together is one serial loop, and what the reset concludes is true of    *)
(* the source because each row it is past lies in the span of the basis.   *)
(***************************************************************************)
EXTENDS BlockRows, SecantTailProofs, FiniteSetTheorems

(***************************************************************************)
(* Sums over finite sets.                                                  *)
(***************************************************************************)

Below == {ss \in Nat \X Nat : ss[1] < ss[2]}

\* A set of numbers has a least one.
LEMMA Least ==
  ASSUME NEW X \in SUBSET Nat, X # {}
  PROVE  \E n \in X : \A k \in X : n <= k
<1>1. IsWellFoundedOn(Below, Nat)
  BY NatLessThanWellFounded DEF OpToRel, Below
<1>2. PICK n \in X : \A k \in X : <<k, n>> \notin Below
  BY <1>1, WFMin
<1>3. \A k \in X : ~(k < n)
  BY <1>2 DEF Below
<1> QED BY <1>3

\* Induction over the natural numbers, for a set of them.
LEMMA Numbers ==
  ASSUME NEW X \in SUBSET Nat, 0 \in X, \A n \in X : n + 1 \in X
  PROVE  X = Nat
<1> SUFFICES ASSUME Nat \ X # {} PROVE FALSE
  OBVIOUS
<1>1. PICK n \in Nat \ X : \A k \in Nat \ X : n <= k
  BY Least, Nat \ X \subseteq Nat
<1>2. n # 0 /\ n - 1 \in Nat
  OBVIOUS
<1>3. n - 1 \in X
  BY <1>1, <1>2
<1> QED BY <1>3, <1>2

Pick(T) == CHOOSE x \in T : TRUE

\* Induction over the subsets of a finite set: a set of them that holds each
\* one whose subsets with an element less it holds, holds all.
LEMMA Subsets ==
  ASSUME NEW S, IsFiniteSet(S), NEW X \in SUBSET (SUBSET S),
         \A T \in SUBSET S : (\A x \in T : T \ {x} \in X) => T \in X
  PROVE  X = SUBSET S
<1> DEFINE Y == {n \in Nat : \A T \in SUBSET S : Cardinality(T) = n => T \in X}
<1>1. \A T \in SUBSET S : IsFiniteSet(T) /\ Cardinality(T) \in Nat
  BY FS_Subset, FS_CardinalityType
<1>2. 0 \in Y
  BY <1>1, FS_EmptySet
<1>3. ASSUME NEW n \in Y PROVE n + 1 \in Y
  <2> SUFFICES ASSUME NEW T \in SUBSET S, Cardinality(T) = n + 1 PROVE T \in X
    OBVIOUS
  <2>1. ASSUME NEW x \in T PROVE T \ {x} \in X
    <3>1. Cardinality(T \ {x}) = Cardinality(T) - 1
      BY <1>1, FS_RemoveElement
    <3> QED BY <3>1
  <2> QED BY <2>1
<1>4. Y = Nat
  BY <1>2, <1>3, Numbers
<1> QED BY <1>1, <1>4

\* The element picked is one of the set's.
LEMMA PickIn == ASSUME NEW T, T # {} PROVE Pick(T) \in T
BY DEF Pick

\* What the recursion of SumFunctionOnSet over the subsets of S computes.
Adds(g, w, S) ==
    /\ g \in [SUBSET S -> Nat] /\ g[{}] = 0
    /\ \A T \in SUBSET S : T # {} => g[T] = w[Pick(T)] + g[T \ {Pick(T)}]

\* Such a function exists for the subsets of every size, and so for all.
LEMMA AddsExists ==
  ASSUME NEW S, IsFiniteSet(S), NEW w \in [S -> Nat]
  PROVE  \E g : Adds(g, w, S)
<1> DEFINE Upto(n, g) ==
             /\ g \in [SUBSET S -> Nat] /\ g[{}] = 0
             /\ \A T \in SUBSET S : T # {} /\ Cardinality(T) <= n =>
                  g[T] = w[Pick(T)] + g[T \ {Pick(T)}]
           X == {n \in Nat : \E g : Upto(n, g)}
<1>1. \A T \in SUBSET S : IsFiniteSet(T) /\ Cardinality(T) \in Nat
  BY FS_Subset, FS_CardinalityType
<1>2. ASSUME NEW T \in SUBSET S, T # {}
      PROVE  /\ Pick(T) \in S /\ T \ {Pick(T)} \in SUBSET S
             /\ Cardinality(T \ {Pick(T)}) = Cardinality(T) - 1 /\ Cardinality(T) # 0
  BY <1>1, <1>2, PickIn, FS_RemoveElement, FS_EmptySet
<1>3. 0 \in X
  <2> DEFINE g == [T \in SUBSET S |-> 0]
  <2>1. ASSUME NEW T \in SUBSET S, T # {} PROVE ~(Cardinality(T) <= 0)
    <3>1. Cardinality(T) # 0
      BY <1>2, <2>1
    <3>2. Cardinality(T) \in Nat
      BY <1>1
    <3> QED BY <3>1, <3>2
  <2>2. Upto(0, g)
    BY <2>1
  <2> QED BY <2>2
<1>4. ASSUME NEW n \in X PROVE n + 1 \in X
  <2>1. PICK f : Upto(n, f)
    OBVIOUS
  <2> DEFINE g == [T \in SUBSET S |-> IF T = {} \/ Cardinality(T) <= n THEN f[T]
                                      ELSE w[Pick(T)] + f[T \ {Pick(T)}]]
  <2>2. g \in [SUBSET S -> Nat] /\ g[{}] = 0
    BY <1>2, <2>1
  <2>3. ASSUME NEW T \in SUBSET S, T # {}, Cardinality(T) <= n + 1
        PROVE  g[T] = w[Pick(T)] + g[T \ {Pick(T)}]
    <3>1. /\ Pick(T) \in S /\ T \ {Pick(T)} \in SUBSET S
          /\ Cardinality(T \ {Pick(T)}) = Cardinality(T) - 1 /\ Cardinality(T) # 0
      BY <1>2, <2>3
    <3>2. g[T \ {Pick(T)}] = f[T \ {Pick(T)}]
      BY <1>1, <2>3, <3>1
    <3>3. g[T] = w[Pick(T)] + f[T \ {Pick(T)}]
      BY <1>1, <2>1, <2>3
    <3> QED BY <3>2, <3>3
  <2>4. Upto(n + 1, g)
    BY <2>2, <2>3
  <2> HIDE DEF Upto
  <2> QED BY <2>4
<1>5. Cardinality(S) \in X
  <2>1. X = Nat
    <3> HIDE DEF X
    <3> QED BY <1>3, <1>4, Numbers DEF X
  <2> QED BY <1>1, <2>1
<1>6. PICK g : Upto(Cardinality(S), g)
  BY <1>5
<1>7. \A T \in SUBSET S : Cardinality(T) <= Cardinality(S)
  BY FS_Subset
<1>8. Adds(g, w, S)
  BY <1>6, <1>7 DEF Adds
<1> QED BY <1>8

\* A function that adds element by element computes the sum over the set.
LEMMA SumIs ==
  ASSUME NEW S, IsFiniteSet(S), NEW w, NEW g, Adds(g, w, S)
  PROVE  SumFunctionOnSet(w, S) = g[S]
<1> DEFINE Is(h) == h = [T \in SUBSET S |-> IF T = {} THEN 0
                                             ELSE w[Pick(T)] + h[T \ {Pick(T)}]]
           sum   == CHOOSE h : Is(h)
<1>1. Is(g)
  BY DEF Adds
<1>2. Is(sum)
  BY <1>1
<1>3. SumFunctionOnSet(w, S) = sum[S]
  BY DEF SumFunctionOnSet, FoldFunctionOnSet, MapThenFoldSet, Pick
<1> HIDE DEF sum
<1> DEFINE X == {T \in SUBSET S : sum[T] = g[T]}
<1>4. {} \in X
  BY <1>2 DEF Adds
<1>5. ASSUME NEW T \in SUBSET S, T # {}, T \ {Pick(T)} \in X
      PROVE  T \in X
  BY <1>2, <1>5 DEF Adds
<1>6. X = SUBSET S
  <2>1. \A T \in SUBSET S : (\A x \in T : T \ {x} \in X) => T \in X
    BY <1>4, <1>5, PickIn
  <2>2. X \in SUBSET (SUBSET S)
    OBVIOUS
  <2> HIDE DEF X
  <2> QED BY <2>1, <2>2, Subsets
<1> QED BY <1>3, <1>6

\* The order in which the elements are picked does not matter.
LEMMA AddsAny ==
  ASSUME NEW S, IsFiniteSet(S), NEW w \in [S -> Nat], NEW g, Adds(g, w, S)
  PROVE  \A T \in SUBSET S : \A x \in T : g[T] = w[x] + g[T \ {x}]
<1> DEFINE X == {T \in SUBSET S : \A x \in T : g[T] = w[x] + g[T \ {x}]}
<1>1. ASSUME NEW T \in SUBSET S, \A x \in T : T \ {x} \in X
      PROVE  T \in X
  <2> SUFFICES ASSUME NEW x \in T, x # Pick(T) PROVE g[T] = w[x] + g[T \ {x}]
    BY DEF Adds
  <2> DEFINE p == Pick(T)
  <2>1. p \in T /\ g[T] = w[p] + g[T \ {p}]
    BY PickIn DEF Adds
  <2>2. g[T \ {p}] = w[x] + g[(T \ {p}) \ {x}]
    BY <1>1, <2>1
  <2>3. g[T \ {x}] = w[p] + g[(T \ {x}) \ {p}]
    BY <1>1, <2>1
  <2>4. (T \ {p}) \ {x} = (T \ {x}) \ {p}
    OBVIOUS
  <2>5. w[p] \in Nat /\ w[x] \in Nat /\ g[(T \ {x}) \ {p}] \in Nat
    BY <2>1 DEF Adds
  <2>6. g[T] = w[p] + (w[x] + g[(T \ {x}) \ {p}])
    BY <2>1, <2>2, <2>4
  <2> HIDE DEF p
  <2> QED BY <2>3, <2>5, <2>6
<1>2. X = SUBSET S
  <2>1. X \in SUBSET (SUBSET S)
    OBVIOUS
  <2> HIDE DEF X
  <2> QED BY <1>1, <2>1, Subsets
<1> QED BY <1>2

\* A sum over a part of a set, also one made of that part alone.
LEMMA AddsPart ==
  ASSUME NEW S, IsFiniteSet(S), NEW w, NEW g, Adds(g, w, S),
         NEW T \in SUBSET S, NEW u, \A x \in T : u[x] = w[x]
  PROVE  SumFunctionOnSet(u, T) = g[T]
<1> DEFINE h == [U \in SUBSET T |-> g[U]]
<1>1. Adds(h, u, T)
  <2>1. h \in [SUBSET T -> Nat] /\ h[{}] = 0
    BY DEF Adds
  <2>2. ASSUME NEW U \in SUBSET T, U # {} PROVE h[U] = u[Pick(U)] + h[U \ {Pick(U)}]
    BY <2>2, PickIn DEF Adds
  <2> QED BY <2>1, <2>2 DEF Adds
<1>2. IsFiniteSet(T)
  BY FS_Subset
<1> QED BY <1>1, <1>2, SumIs

\* What there is to know of a sum.
LEMMA Sums ==
  ASSUME NEW S, IsFiniteSet(S), NEW w \in [S -> Nat]
  PROVE  /\ \A T \in SUBSET S : SumFunctionOnSet(w, T) \in Nat
         /\ SumFunctionOnSet(w, {}) = 0
         /\ \A T \in SUBSET S : \A x \in T :
              SumFunctionOnSet(w, T) = w[x] + SumFunctionOnSet(w, T \ {x})
         /\ \A T \in SUBSET S :
              SumFunction([x \in T |-> w[x]]) = SumFunctionOnSet(w, T)
         /\ SumFunction(w) = SumFunctionOnSet(w, S)
<1>1. PICK g : Adds(g, w, S)
  BY AddsExists
<1>2. \A T \in SUBSET S : SumFunctionOnSet(w, T) = g[T]
  BY <1>1, AddsPart
<1>3. ASSUME NEW T \in SUBSET S
      PROVE  SumFunction([x \in T |-> w[x]]) = g[T]
  BY <1>1, AddsPart DEF SumFunction
<1>4. ASSUME NEW T \in SUBSET S, NEW x \in T
      PROVE  g[T] = w[x] + g[T \ {x}]
  BY <1>1, AddsAny
<1>5. SumFunction(w) = SumFunctionOnSet(w, S)
  BY DEF SumFunction
<1>6. {} \in SUBSET S /\ g[{}] = 0
  BY <1>1 DEF Adds
<1>7. \A T \in SUBSET S : g[T] \in Nat
  BY <1>1 DEF Adds
<1>8. \A T \in SUBSET S : \A x \in T : T \ {x} \in SUBSET S
  OBVIOUS
<1> QED BY <1>2, <1>3, <1>4, <1>5, <1>6, <1>7, <1>8

\* A sum of zeros is zero.
LEMMA SumZero ==
  ASSUME NEW S, IsFiniteSet(S), NEW w \in [S -> Nat],
         NEW T \in SUBSET S, \A x \in T : w[x] = 0
  PROVE  SumFunctionOnSet(w, T) = 0
<1> DEFINE X == {U \in SUBSET T : SumFunctionOnSet(w, U) = 0}
<1>1. IsFiniteSet(T)
  BY FS_Subset
<1>2. ASSUME NEW U \in SUBSET T, \A x \in U : U \ {x} \in X
      PROVE  U \in X
  <2>1. CASE U = {}
    BY <2>1, Sums
  <2>2. CASE U # {}
    <3>1. PICK x \in U : TRUE
      BY <2>2
    <3>2. SumFunctionOnSet(w, U) = w[x] + SumFunctionOnSet(w, U \ {x})
      BY Sums
    <3>3. SumFunctionOnSet(w, U \ {x}) = 0
      BY <1>2
    <3> QED BY <3>2, <3>3
  <2> QED BY <2>1, <2>2
<1>3. X = SUBSET T
  <2>1. X \in SUBSET (SUBSET T)
    OBVIOUS
  <2> HIDE DEF X
  <2> QED BY <1>1, <1>2, <2>1, Subsets
<1> QED BY <1>3

\* One element has a number, the others none.
LEMMA SumOne ==
  ASSUME NEW S, IsFiniteSet(S), NEW w \in [S -> Nat],
         NEW x \in S, \A y \in S : y # x => w[y] = 0
  PROVE  SumFunction(w) = w[x]
<1>1. SumFunction(w) = w[x] + SumFunctionOnSet(w, S \ {x})
  BY Sums
<1>2. SumFunctionOnSet(w, S \ {x}) = 0
  <2>1. S \ {x} \in SUBSET S
    OBVIOUS
  <2>2. \A y \in S \ {x} : w[y] = 0
    OBVIOUS
  <2> QED BY <2>1, <2>2, SumZero
<1> QED BY <1>1, <1>2

\* The sum over two disjoint sets is the sum of their sums.
LEMMA SumUnion ==
  ASSUME NEW S, IsFiniteSet(S), NEW w \in [S -> Nat],
         NEW A \in SUBSET S, NEW C \in SUBSET S, A \cap C = {}
  PROVE  SumFunctionOnSet(w, A \cup C) = SumFunctionOnSet(w, A) + SumFunctionOnSet(w, C)
<1> DEFINE sum(T) == SumFunctionOnSet(w, T)
           X == {T \in SUBSET A : sum(T \cup C) = sum(T) + sum(C)}
<1>0. /\ \A T \in SUBSET S : sum(T) \in Nat
      /\ sum({}) = 0
      /\ \A T \in SUBSET S : \A x \in T : sum(T) = w[x] + sum(T \ {x})
  BY Sums
<1> HIDE DEF sum
<1>1. ASSUME NEW T \in SUBSET A, \A x \in T : T \ {x} \in X
      PROVE  T \in X
  <2>1. CASE T = {}
    <3>1. T \cup C = C
      BY <2>1
    <3> QED BY <1>0, <2>1, <3>1
  <2>2. CASE T # {}
    <3>1. PICK x \in T : TRUE
      BY <2>2
    <3>2. sum(T \cup C) = w[x] + sum((T \cup C) \ {x})
      BY <1>0
    <3>3. (T \cup C) \ {x} = (T \ {x}) \cup C
      OBVIOUS
    <3>4. sum((T \ {x}) \cup C) = sum(T \ {x}) + sum(C)
      BY <1>1
    <3>5. sum(T) = w[x] + sum(T \ {x})
      BY <1>0
    <3>6. w[x] \in Nat /\ sum(T \ {x}) \in Nat /\ sum(C) \in Nat
      BY <1>0
    <3>7. sum(T \cup C) = w[x] + (sum(T \ {x}) + sum(C))
      BY <3>2, <3>3, <3>4
    <3> QED BY <3>5, <3>6, <3>7
  <2> QED BY <2>1, <2>2
<1>2. IsFiniteSet(A)
  BY FS_Subset
<1>3. X = SUBSET A
  <2>1. X \in SUBSET (SUBSET A)
    OBVIOUS
  <2> HIDE DEF X
  <2> QED BY <1>1, <1>2, <2>1, Subsets
<1>4. A \in X
  BY <1>3
<1> QED BY <1>4 DEF sum

\* The sums of the parts of a set that is dealt out are together that of all.
LEMMA SumParts ==
  ASSUME NEW S, IsFiniteSet(S), NEW w \in [S -> Nat],
         NEW D, IsFiniteSet(D), NEW part \in [D -> SUBSET S],
         \A d, e \in D : d # e => part[d] \cap part[e] = {}
  PROVE  SumFunction([d \in D |-> SumFunctionOnSet(w, part[d])])
           = SumFunctionOnSet(w, UNION {part[d] : d \in D})
<1> DEFINE v == [d \in D |-> SumFunctionOnSet(w, part[d])]
           All(T) == UNION {part[d] : d \in T}
           X == {T \in SUBSET D : SumFunctionOnSet(v, T) = SumFunctionOnSet(w, All(T))}
<1>1. v \in [D -> Nat]
  BY Sums
<1>2. ASSUME NEW T \in SUBSET D, \A d \in T : T \ {d} \in X
      PROVE  T \in X
  <2>1. CASE T = {}
    <3>1. All(T) = {}
      BY <2>1
    <3>2. SumFunctionOnSet(v, {}) = 0
      BY <1>1, Sums
    <3>3. SumFunctionOnSet(w, {}) = 0
      BY Sums
    <3> QED BY <2>1, <3>1, <3>2, <3>3
  <2>2. CASE T # {}
    <3>1. PICK d \in T : TRUE
      BY <2>2
    <3>2. SumFunctionOnSet(v, T) = v[d] + SumFunctionOnSet(v, T \ {d})
      <4> HIDE DEF v
      <4> QED BY <1>1, Sums
    <3>3. SumFunctionOnSet(v, T \ {d}) = SumFunctionOnSet(w, All(T \ {d}))
      BY <1>2
    <3>4. /\ part[d] \cap All(T \ {d}) = {} /\ All(T) = part[d] \cup All(T \ {d})
          /\ All(T \ {d}) \in SUBSET S /\ part[d] \in SUBSET S
      OBVIOUS
    <3>5. SumFunctionOnSet(w, All(T)) = v[d] + SumFunctionOnSet(w, All(T \ {d}))
      <4>1. v[d] = SumFunctionOnSet(w, part[d])
        OBVIOUS
      <4> DEFINE A == part[d]
                 C == All(T \ {d})
      <4>2. A \in SUBSET S /\ C \in SUBSET S /\ A \cap C = {} /\ All(T) = A \cup C
        BY <3>4
      <4>3. v[d] = SumFunctionOnSet(w, A)
        BY <4>1
      <4> HIDE DEF All, v, A, C
      <4>4. SumFunctionOnSet(w, A \cup C) = SumFunctionOnSet(w, A) + SumFunctionOnSet(w, C)
        BY <4>2, SumUnion
      <4> QED BY <4>2, <4>3, <4>4 DEF C
    <3> QED BY <3>2, <3>3, <3>5
  <2> QED BY <2>1, <2>2
<1>3. X = SUBSET D
  <2>1. X \in SUBSET (SUBSET D)
    OBVIOUS
  <2> HIDE DEF X
  <2> QED BY <1>2, <2>1, Subsets
<1>4. D \in X
  BY <1>3
<1>5. SumFunction(v) = SumFunctionOnSet(v, D)
  <2> HIDE DEF v
  <2> QED BY <1>1, Sums
<1> QED BY <1>4, <1>5

\* Draws that each fall into one bucket are counted once over all buckets.
LEMMA SumCounts ==
  ASSUME NEW D, IsFiniteSet(D), NEW K, IsFiniteSet(K), NEW f \in [D -> K]
  PROVE  SumFunction([k \in K |-> Cardinality({d \in D : f[d] = k})]) = Cardinality(D)
<1> DEFINE Of(T) == {d \in D : f[d] \in T}
           v == [k \in K |-> Cardinality({d \in D : f[d] = k})]
           X == {T \in SUBSET K : SumFunctionOnSet(v, T) = Cardinality(Of(T))}
<1>1. \A T : IsFiniteSet(Of(T)) /\ Cardinality(Of(T)) \in Nat
  BY FS_Subset, FS_CardinalityType, \A T : Of(T) \in SUBSET D
<1>2. \A k \in K : v[k] = Cardinality(Of({k})) /\ v[k] \in Nat
  <2>1. \A k \in K : {d \in D : f[d] = k} = Of({k})
    OBVIOUS
  <2> QED BY <1>1, <2>1
<1>3. v \in [K -> Nat]
  BY <1>2
<1> HIDE DEF v
<1>4. ASSUME NEW T \in SUBSET K, \A k \in T : T \ {k} \in X
      PROVE  T \in X
  <2>1. CASE T = {}
    <3>1. Of(T) = {}
      BY <2>1
    <3>2. SumFunctionOnSet(v, T) = 0
      BY <1>3, <2>1, Sums
    <3> QED BY <3>1, <3>2, FS_EmptySet
  <2>2. CASE T # {}
    <3>1. PICK k \in T : TRUE
      BY <2>2
    <3>2. SumFunctionOnSet(v, T) = v[k] + SumFunctionOnSet(v, T \ {k})
      BY <1>3, Sums
    <3>3. SumFunctionOnSet(v, T \ {k}) = Cardinality(Of(T \ {k}))
      BY <1>4
    <3>4. Of(T) = Of({k}) \cup Of(T \ {k}) /\ Of({k}) \cap Of(T \ {k}) = {}
      OBVIOUS
    <3>5. Cardinality(Of(T)) = Cardinality(Of({k})) + Cardinality(Of(T \ {k}))
      <4>1. Cardinality(Of(T)) = Cardinality(Of({k})) + Cardinality(Of(T \ {k}))
                                   - Cardinality(Of({k}) \cap Of(T \ {k}))
        <5> HIDE DEF Of
        <5> QED BY <1>1, <3>4, FS_Union
      <4>2. Cardinality(Of({k}) \cap Of(T \ {k})) = 0
        <5> HIDE DEF Of
        <5> QED BY <3>4, FS_EmptySet
      <4> HIDE DEF Of
      <4> QED BY <1>1, <4>1, <4>2
    <3> QED BY <1>2, <3>2, <3>3, <3>5
  <2> QED BY <2>1, <2>2
<1>5. X = SUBSET K
  <2>1. X \in SUBSET (SUBSET K)
    OBVIOUS
  <2> HIDE DEF X
  <2> QED BY <1>4, <2>1, Subsets
<1>6. SumFunctionOnSet(v, K) = Cardinality(Of(K)) /\ Of(K) = D
  BY <1>5
<1>7. SumFunction(v) = SumFunctionOnSet(v, K)
  BY <1>3, Sums
<1> QED BY <1>6, <1>7 DEF v

-----------------------------------------------------------------------------
(***************************************************************************)
(* The inductive invariant.                                                *)
(***************************************************************************)

\* A thread of the region that has done its share.
Finished(t) == t < team.size /\ t \notin team.left

Region == /\ phase \in {"window", "team"} =>
               /\ team \in [size : 1..MaxThreads, left : SUBSET Threads]
               /\ team.left \subseteq 0..(team.size - 1)
          /\ phase \notin {"window", "team"} => team = NoTeam

\* What the threads of a window have accumulated and found so far: each its
\* own share, and of the other rows nothing.
WindowShare(t) == Share(t, team.size, i, WindowEnd)
WindowShares ==
    phase = "window" =>
      /\ Scanning /\ WindowIsDue
      /\ LE = [t \in Threads |-> [r \in Remainder |->
                 IF Finished(t) /\ r \in Nonzero(WindowShare(t)) THEN 1 ELSE 0]]
      /\ \A r \in hit : \E t \in Threads : Finished(t) /\ r \in WindowShare(t)
      /\ \A t \in Threads : Finished(t) => \A r \in WindowShare(t) : (r \in hit) \in Screen(r)

\* What the threads of a sketch have counted so far, and what all of them have.
SketchShare(t) == Share(t, team.size, P, M)
SketchShares ==
    /\ phase = "team" => sp = 1 /\ P < M
    /\ LC = [t \in Threads |-> IF phase = "team" /\ Finished(t)
                               THEN Terms(SketchShare(t)) ELSE NoTerms]
    /\ LL = [t \in Threads |-> IF phase = "team" /\ Finished(t)
                               THEN Lengths(SketchShare(t)) ELSE NoLen]
    /\ phase = "sketch" => terms = Terms(Remainder) /\ budget = Lengths(Remainder)

\* The types the sketch and the windows leave behind.
SketchTypes ==
    /\ phase \in {"tail", "window", "sketch", "team", "serial", "keep", "scan", "reset", "done"}
    /\ LE \in [Threads -> [Remainder -> Nat]] /\ hit \subseteq Remainder
    /\ sp \in 1..2 /\ terms \in [Outputs -> [Remainder -> Nat]] /\ budget \in [Outputs -> Nat]

\* ProofRows: used, cap and the two sizes, as realloc leaves them.
ProofHeld ==
    /\ kept \in 0..Cardinality(Outputs)
    /\ proof \in [used : Nat, cap : Nat, rows : Nat, eps : Nat]
    /\ proof.used <= proof.cap /\ proof.cap <= proof.rows /\ proof.cap <= proof.eps

\* The bundle of the reset grows by rows it does not hold, within n.
ResetBundle ==
    /\ s \in B!BState /\ s.r = Cardinality(s.basis)
    /\ s.qcap = Cols /\ ~s.inconsistent
    /\ pass \in 0..1 /\ row \in 0..M
    /\ seen \subseteq {"grey", "svd_scratch"}
    /\ failed \subseteq {"state", "svd_scratch", "proof"}

BlockInv == /\ TailInv /\ Region /\ WindowShares /\ SketchShares /\ SketchTypes
            /\ ProofHeld /\ ResetBundle

-----------------------------------------------------------------------------
(***************************************************************************)
(* Shares of rows.                                                         *)
(***************************************************************************)

\* A number below b * k is in one of k blocks of b.
LEMMA QuotientBelow ==
  ASSUME NEW a \in Nat, NEW b \in Nat \ {0}, NEW k \in Nat \ {0}, a < b * k
  PROVE  a \div b \in 0 .. k - 1
<1>1. a \div b \in Nat /\ b * (a \div b) <= a
  OBVIOUS
<1>2. ASSUME a \div b >= k PROVE FALSE
  <2>1. b * (a \div b) >= b * k
    BY <1>1, <1>2
  <2> QED BY <1>1, <2>1
<1> QED BY <1>1, <1>2

\* Each row has a thread of the team, and only one.
LEMMA ShareCovers ==
  ASSUME NEW lo \in Nat, NEW hi \in Nat, lo < hi, NEW k \in Nat \ {0}, NEW r \in lo..(hi - 1)
  PROVE  \E t \in 0..(k - 1) : r \in Share(t, k, lo, hi)
<1>1. r - lo \in Nat /\ hi - lo \in Nat \ {0} /\ r - lo < hi - lo
  OBVIOUS
<1>2. (r - lo) * k \in Nat /\ (r - lo) * k < (hi - lo) * k
  BY <1>1
<1>3. ((r - lo) * k) \div (hi - lo) \in 0..(k - 1)
  BY <1>1, <1>2, QuotientBelow
<1> QED BY <1>3 DEF Share

\* No row is dealt to two threads.
LEMMA ShareApart ==
  ASSUME NEW lo, NEW hi, NEW k, NEW t, NEW u, NEW r,
         r \in Share(t, k, lo, hi), r \in Share(u, k, lo, hi)
  PROVE  t = u /\ r \in lo..(hi - 1)
BY DEF Share

\* The team a region starts with, and the one a thread leaves.
LEMMA TeamForks ==
  ASSUME NEW k \in 1..MaxThreads
  PROVE  [size |-> k, left |-> 0..(k - 1)] \in [size : 1..MaxThreads, left : SUBSET Threads]
<1>1. 0..(k - 1) \subseteq Threads
  BY BlockAssumption DEF Threads
<1> QED BY <1>1

\* A thread that finishes leaves a team of the same size.
LEMMA TeamLeaves ==
  ASSUME NEW t, team \in [size : 1..MaxThreads, left : SUBSET Threads],
         team.left \subseteq 0..(team.size - 1), team' = [team EXCEPT !.left = @ \ {t}]
  PROVE  /\ team' \in [size : 1..MaxThreads, left : SUBSET Threads]
         /\ team'.left \subseteq 0..(team'.size - 1)
OBVIOUS

\* The threads and the rows can be counted.
LEMMA ThreadsFinite == IsFiniteSet(Threads) /\ IsFiniteSet(Remainder)
<1>1. MaxThreads - 1 \in Int /\ P \in Int /\ M - 1 \in Int
  BY BlockAssumption, TailAssumption
<1> QED BY <1>1, FS_Interval DEF Threads, Remainder

-----------------------------------------------------------------------------
(***************************************************************************)
(* The bundle of the reset.                                                *)
(***************************************************************************)
LEMMA ColsIs == Cols \in Nat \ {0}
<1>1. Cardinality(Directions) \in Nat
  BY FiniteAssumption, FS_CardinalityType
<1> QED BY <1>1, TailAssumption, BlockAssumption DEF Cols

\* An outcome of the insertion that does not contradict.
LEMMA InsertKeeps ==
  ASSUME ResetBundle, row \in Source, NEW o \in B!InsertCertified(s, row),
         ~o.s.inconsistent
  PROVE  /\ o.s \in B!BState /\ o.s.r = Cardinality(o.s.basis)
         /\ o.s.qcap = Cols
         /\ o.rc = "DEFER" => o.failed \in {"none", "svd_scratch"}
<1>1. /\ s.basis \in SUBSET Source /\ s.r \in 0..Cols /\ s.qcap = Cols
      /\ s = [basis |-> s.basis, r |-> s.r, qcap |-> s.qcap, inconsistent |-> s.inconsistent]
      /\ s.inconsistent = FALSE /\ s.r = Cardinality(s.basis) /\ s \in B!BState
  BY DEF ResetBundle, B!BState
<1>2. CASE o.s = s /\ (o.rc = "DEFER" => o.failed \in {"none", "svd_scratch"})
  BY <1>1, <1>2
<1>3. CASE /\ o = B!Outcome("GROW", B!WithRow(s, row, Cols), "none")
           /\ s.r < Cols /\ row \notin s.basis
  <2>1. IsFiniteSet(s.basis)
    <3>1. IsFiniteSet(Source)
      BY TailAssumption, FS_Interval DEF Source
    <3> QED BY <1>1, <3>1, FS_Subset
  <2>2. Cardinality(s.basis \union {row}) = s.r + 1
    BY <1>1, <1>3, <2>1, FS_AddElement
  <2>3. o.s = [basis |-> s.basis \union {row}, r |-> s.r + 1, qcap |-> Cols, inconsistent |-> FALSE]
        /\ o.rc = "GROW"
    BY <1>3 DEF B!Outcome, B!WithRow
  <2>4. s.r + 1 \in 0..Cols /\ Cols \in 0..Cols
    BY <1>1, <1>3, ColsIs
  <2> QED BY <1>1, <2>2, <2>3, <2>4 DEF B!BState
<1>4. \/ o.s = s /\ (o.rc = "DEFER" => o.failed \in {"none", "svd_scratch"})
      \/ /\ o = B!Outcome("GROW", B!WithRow(s, row, Cols), "none")
         /\ s.r < Cols /\ row \notin s.basis
  <2>1. CASE B!Zero(row)
    BY <1>1, <2>1 DEF B!InsertCertified, B!ZeroRow, B!Outcome, B!Contradicted
  <2>2. CASE ~B!Zero(row)
    <3>1. PICK mu \in B!DistanceInterval(s, row) : o \in B!Decided(mu, s, row)
      BY <1>1, <2>2 DEF B!InsertCertified
    <3>2. CASE mu = "above"
      <4>1. row \notin s.basis
        <5>1. ~B!Dependent(s, row)
          BY <3>1, <3>2 DEF B!DistanceInterval
        <5>2. s.basis \union {row} # s.basis
          BY <5>1 DEF B!Dependent
        <5> QED BY <5>2
      <4>2. o \in B!Grown(s, row)
        BY <3>1, <3>2 DEF B!Decided
      <4> QED BY <1>1, <4>1, <4>2, ColsIs DEF B!Grown, B!Outcome
    <3>3. CASE mu = "below"
      <4>1. o \in B!Reduced(s, row)
        BY <3>1, <3>3 DEF B!Decided
      <4> QED BY <1>1, <4>1 DEF B!Reduced, B!Arbitrated, B!Contradicted, B!Outcome
    <3>4. CASE mu = "between"
      BY <3>1, <3>4 DEF B!Decided, B!Outcome
    <3> QED BY <3>1, <3>2, <3>3, <3>4 DEF B!DistanceInterval
  <2> QED BY <2>1, <2>2
<1> QED BY <1>2, <1>3, <1>4

-----------------------------------------------------------------------------
(***************************************************************************)
(* What a step leaves alone.                                               *)
(***************************************************************************)
LEMMA TailKept ==
  ASSUME TailInv, UNCHANGED tail
  PROVE  TailInv'
BY TailInvNext DEF tail

\* Other stages leave the rows of the proof alone.
LEMMA ProofKept ==
  ASSUME ProofHeld, UNCHANGED keep
  PROVE  ProofHeld'
BY DEF ProofHeld, keep

\* Other stages leave the reset's bundle alone.
LEMMA ResetKept ==
  ASSUME ResetBundle, UNCHANGED reset, failed' \subseteq {"state", "svd_scratch", "proof"}
  PROVE  ResetBundle'
BY DEF ResetBundle, reset, B!BState

\* A step outside the parallel regions that does not sketch.
Plain == {"tail", "serial", "keep", "scan", "reset", "done"}
\* Without a parallel region there are no shares to account for.
LEMMA Elsewhere ==
  ASSUME Region, SketchShares, SketchTypes, UNCHANGED window, UNCHANGED sketch,
         phase \in Plain, phase' \in Plain
  PROVE  Region' /\ WindowShares' /\ SketchShares' /\ SketchTypes'
<1> USE DEF Plain, window, sketch
<1>1. Region'
  BY DEF Region
<1>2. WindowShares'
  BY DEF WindowShares
<1>3. SketchShares'
  <2>1. LC = [t \in Threads |-> NoTerms] /\ LL = [t \in Threads |-> NoLen]
    BY DEF SketchShares
  <2> QED BY <2>1 DEF SketchShares
<1>4. SketchTypes'
  BY DEF SketchTypes
<1> QED BY <1>1, <1>2, <1>3, <1>4

-----------------------------------------------------------------------------
(***************************************************************************)
(* The tail.                                                               *)
(***************************************************************************)
LEMMA TailStepIsNext ==
  ASSUME BlockInv, TailStep
  PROVE  /\ phase = "tail" /\ Next
         /\ phase' \in {"tail", "done"} /\ failed' \subseteq {"state", "svd_scratch", "proof"}
         /\ UNCHANGED <<window, sketch, keep, reset>>
<1>1. failed \subseteq {"state", "svd_scratch", "proof"}
  BY DEF BlockInv, ResetBundle
<1>2. CASE TailRow
  BY <1>1, <1>2 DEF TailRow, Next, Step, report
<1>3. CASE TailNoMemory
  BY <1>1, <1>3 DEF TailNoMemory, FailsFor, Answers, Next, Step
<1>4. CASE TailDeclined
  BY <1>1, <1>4 DEF TailDeclined, Next, Step
<1>5. CASE TailAnswered
  BY <1>1, <1>5 DEF TailAnswered, Claims, Answers, Next, Step
<1> QED BY <1>2, <1>3, <1>4, <1>5 DEF TailStep

\* Rows, insertions and returns of the tail.
LEMMA TailStepKeeps ==
  ASSUME BlockInv, TailStep
  PROVE  BlockInv'
<1>1. /\ phase = "tail" /\ Next
      /\ phase' \in {"tail", "done"} /\ failed' \subseteq {"state", "svd_scratch", "proof"}
      /\ UNCHANGED <<window, sketch, keep, reset>>
  BY TailStepIsNext
<1>2. TailInv'
  BY <1>1, TailInvNext DEF BlockInv
<1>3. Region' /\ WindowShares' /\ SketchShares' /\ SketchTypes'
  BY <1>1, Elsewhere DEF BlockInv, Plain
<1>4. ProofHeld' /\ ResetBundle'
  BY <1>1, ProofKept, ResetKept DEF BlockInv
<1> QED BY <1>2, <1>3, <1>4 DEF BlockInv

-----------------------------------------------------------------------------
(***************************************************************************)
(* A window.                                                               *)
(***************************************************************************)
\* The indices of a window and its shares, while it is open.
LEMMA WindowIs ==
  ASSUME TailInv, Scanning, NEW k \in 1..MaxThreads
  PROVE  /\ i \in Nat /\ WindowEnd \in Nat /\ i < WindowEnd
         /\ i..(WindowEnd - 1) \subseteq Remainder
         /\ \A r \in i..(WindowEnd - 1) :
              \E t \in 0..(k - 1) : t \in Threads /\ r \in Share(t, k, i, WindowEnd)
         /\ \A t : Share(t, k, i, WindowEnd) \subseteq i..(WindowEnd - 1)
<1>1. i \in P..M /\ i < M
  BY DEF TailInv, TypeOK, Scanning
<1>2. WindowEnd \in (i + 1)..M
  BY <1>1, WindowEndBounds DEF TailInv
<1>3. i \in Nat /\ WindowEnd \in Nat /\ i < WindowEnd /\ i..(WindowEnd - 1) \subseteq Remainder
  BY <1>1, <1>2, TailAssumption DEF Remainder
<1>4. k \in Nat \ {0} /\ 0..(k - 1) \subseteq Threads
  BY BlockAssumption DEF Threads
<1>5. \A r \in i..(WindowEnd - 1) : \E t \in 0..(k - 1) : r \in Share(t, k, i, WindowEnd)
  BY <1>3, <1>4, ShareCovers
<1> QED BY <1>3, <1>4, <1>5 DEF Share

\* A window starts with empty buffers and a team that has done nothing.
LEMMA WindowForkKeeps ==
  ASSUME BlockInv, WindowFork
  PROVE  BlockInv'
<1>1. /\ phase = "tail" /\ Scanning /\ WindowIsDue /\ phase' = "window"
      /\ LE' = NoPart /\ hit' = {}
      /\ UNCHANGED tail /\ UNCHANGED sketch /\ UNCHANGED keep /\ UNCHANGED reset
      /\ UNCHANGED report
  BY DEF WindowFork
<1>2. PICK k \in 1..MaxThreads : team' = [size |-> k, left |-> 0..(k - 1)]
  BY DEF WindowFork, Fork
<1>3. TailInv' /\ ProofHeld' /\ ResetBundle'
  BY <1>1, TailKept, ProofKept, ResetKept DEF BlockInv, report, ResetBundle
<1>4. Region'
  BY <1>1, <1>2, TeamForks DEF Region
<1>5. \A t \in Threads : ~Finished(t)'
  BY <1>2, BlockAssumption DEF Finished, Threads
<1>6. WindowShares'
  <2>1. Scanning' /\ WindowIsDue'
    BY <1>1 DEF tail, vars, tailData, Scanning, Full, span, WindowIsDue, WindowIsDueAnywhere
  <2>2. LE' = [t \in Threads |-> [r \in Remainder |->
                IF Finished(t)' /\ r \in Nonzero(WindowShare(t))' THEN 1 ELSE 0]]
    BY <1>1, <1>5 DEF NoPart, NoRow
  <2> QED BY <1>1, <1>5, <2>1, <2>2 DEF WindowShares
<1>7. SketchShares'
  BY <1>1 DEF BlockInv, SketchShares, sketch
<1>8. SketchTypes'
  BY <1>1 DEF BlockInv, SketchTypes, sketch, NoPart, NoRow
<1> QED BY <1>3, <1>4, <1>6, <1>7, <1>8 DEF BlockInv

\* A thread adds the rows of its share to its own buffer.
LEMMA WindowWorkKeeps ==
  ASSUME BlockInv, NEW t \in Threads, WindowWork(t)
  PROVE  BlockInv'
<1> DEFINE k == team.size
           rows == WindowShare(t)
<1>1. /\ phase = "window" /\ t \in team.left /\ phase' = "window"
      /\ LE' = [LE EXCEPT ![t] = [r \in Remainder |->
                  IF r \in Nonzero(rows) THEN LE[t][r] + 1 ELSE LE[t][r]]]
      /\ \E scored \in SUBSET rows :
           /\ \A r \in rows : (r \in scored) \in Screen(r)
           /\ hit' = hit \union scored
      /\ team' = [team EXCEPT !.left = @ \ {t}]
      /\ UNCHANGED tail /\ UNCHANGED sketch /\ UNCHANGED keep /\ UNCHANGED reset
      /\ UNCHANGED report
  BY DEF WindowWork, Left, WindowShare
<1>2. k \in 1..MaxThreads /\ team.left \subseteq 0..(k - 1)
  BY <1>1 DEF BlockInv, Region
<1>3. Scanning /\ WindowIsDue
  BY <1>1 DEF BlockInv, WindowShares
<1>4. team'.size = k /\ team'.left = team.left \ {t}
  BY <1>1 DEF BlockInv, Region
<1>5. TailInv' /\ ProofHeld' /\ ResetBundle'
  BY <1>1, TailKept, ProofKept, ResetKept DEF BlockInv, report, ResetBundle
<1>6. Region'
  BY <1>1, TeamLeaves DEF BlockInv, Region
<1>7. /\ \A u \in Threads : Finished(u)' <=> Finished(u) \/ u = t
      /\ ~Finished(t) /\ \A u : WindowShare(u)' = WindowShare(u)
      /\ \A r : Screen(r)' = Screen(r)
      /\ \A z : Nonzero(z)' = Nonzero(z)
  <2>1. t < k
    BY <1>1, <1>2
  <2>2. UNCHANGED <<kind, i>>
    BY <1>1 DEF tail, vars, tailData
  <2> QED BY <1>1, <1>4, <2>1, <2>2
         DEF Finished, WindowShare, Share, WindowEnd, Screen, Nonzero, Zero
<1>8. i \in Nat /\ WindowEnd \in Nat /\ rows \subseteq Remainder
      /\ \A u \in Threads : u # t => WindowShare(u) \cap rows = {}
  <2>1. \A u : WindowShare(u) \subseteq Remainder
    BY <1>2, <1>3, WindowIs DEF BlockInv, WindowShare
  <2>2. i \in Nat /\ WindowEnd \in Nat
    BY <1>2, <1>3, WindowIs DEF BlockInv
  <2> QED BY <2>1, <2>2, ShareApart DEF WindowShare
<1>9. WindowShares'
  <2>1. LE = [u \in Threads |-> [r \in Remainder |->
               IF Finished(u) /\ r \in Nonzero(WindowShare(u)) THEN 1 ELSE 0]]
    BY <1>1 DEF BlockInv, WindowShares
  <2>2. LE' = [u \in Threads |-> [r \in Remainder |->
                IF Finished(u)' /\ r \in Nonzero(WindowShare(u))' THEN 1 ELSE 0]]
    <3>1. LE' = [u \in Threads |-> [r \in Remainder |->
                  IF Finished(u)' /\ r \in Nonzero(WindowShare(u)) THEN 1 ELSE 0]]
      <4> DEFINE new(u) == [r \in Remainder |->
                    IF Finished(u)' /\ r \in Nonzero(WindowShare(u)) THEN 1 ELSE 0]
      <4>1. \A u \in Threads : u # t => LE[u] = new(u)
        BY <1>7, <2>1
      <4>2. [r \in Remainder |-> IF r \in Nonzero(rows) THEN LE[t][r] + 1 ELSE LE[t][r]] = new(t)
        <5>1. \A r \in Remainder : LE[t][r] = 0
          BY <1>7, <2>1
        <5> HIDE DEF rows
        <5>2. \A r \in Remainder : r \in Nonzero(WindowShare(t)) <=> r \in Nonzero(rows)
          BY DEF rows
        <5>3. Finished(t)'
          BY <1>7
        <5> QED BY <5>1, <5>2, <5>3
      <4>3. LE' = [LE EXCEPT ![t] = new(t)]
        BY <1>1, <4>2
      <4>4. LE \in [Threads -> [Remainder -> Nat]]
        BY DEF BlockInv, SketchTypes
      <4> HIDE DEF new
      <4>5. LE' = [u \in Threads |-> new(u)]
        BY <4>1, <4>3, <4>4
      <4> QED BY <4>5 DEF new
    <3> QED BY <1>7, <3>1 DEF Nonzero
  <2>3. PICK scored \in SUBSET rows :
          /\ \A r \in rows : (r \in scored) \in Screen(r)
          /\ hit' = hit \union scored
    BY <1>1
  <2>4. /\ \A r \in hit : \E u \in Threads : Finished(u) /\ r \in WindowShare(u)
        /\ \A u \in Threads : Finished(u) =>
             \A r \in WindowShare(u) : (r \in hit) \in Screen(r)
    BY <1>1 DEF BlockInv, WindowShares
  <2>5. \A r \in hit' : \E u \in Threads : Finished(u)' /\ r \in WindowShare(u)'
    BY <1>7, <2>3, <2>4
  <2>6. ASSUME NEW u \in Threads, Finished(u)', NEW r \in WindowShare(u)'
        PROVE  ((r \in hit) \in Screen(r))'
    <3>1. r \in WindowShare(u) /\ Screen(r)' = Screen(r)
      BY <1>7, <2>6
    <3>2. CASE u = t
      <4>1. r \notin hit
        BY <1>7, <1>8, <2>4, <3>1, <3>2
      <4>2. (r \in hit') <=> (r \in scored)
        BY <2>3, <4>1
      <4> QED BY <2>3, <3>1, <3>2, <4>2
    <3>3. CASE u # t
      <4>1. (r \in hit') <=> (r \in hit)
        BY <1>8, <2>3, <3>1, <3>3
      <4> QED BY <1>7, <2>4, <2>6, <3>1, <3>3, <4>1
    <3> QED BY <3>2, <3>3
  <2>7. Scanning' /\ WindowIsDue'
    BY <1>1, <1>3
       DEF tail, vars, tailData, Scanning, Full, span, WindowIsDue, WindowIsDueAnywhere
  <2> QED BY <2>2, <2>5, <2>6, <2>7 DEF WindowShares
<1>10. SketchShares'
  BY <1>1 DEF BlockInv, SketchShares, sketch
<1>11. SketchTypes'
  <2>1. LE' \in [Threads -> [Remainder -> Nat]]
    BY <1>1 DEF BlockInv, SketchTypes
  <2>2. hit' \subseteq Remainder
    BY <1>1, <1>8 DEF BlockInv, SketchTypes
  <2> QED BY <1>1, <2>1, <2>2 DEF BlockInv, SketchTypes, sketch
<1> QED BY <1>5, <1>6, <1>9, <1>10, <1>11 DEF BlockInv

\* What the threads have accumulated together is what one scan of the window
\* would have.
LEMMA WindowSum ==
  ASSUME BlockInv, phase = "window", team.left = {}, NEW r \in Remainder
  PROVE  Summed(LE)[r] = IF r \in i..(WindowEnd - 1) /\ ~Zero(r) THEN 1 ELSE 0
<1> DEFINE k == team.size
           w == [t \in Threads |-> LE[t][r]]
<1>1. k \in 1..MaxThreads /\ Scanning
      /\ LE = [t \in Threads |-> [q \in Remainder |->
                 IF Finished(t) /\ q \in Nonzero(WindowShare(t)) THEN 1 ELSE 0]]
  BY DEF BlockInv, Region, WindowShares
<1>2. Summed(LE)[r] = SumFunction(w)
  BY DEF Summed
<1>3. \A t \in Threads : w[t] = IF Finished(t) /\ r \in WindowShare(t) /\ ~Zero(r) THEN 1 ELSE 0
  <2>1. ~(r < P)
    BY TailAssumption DEF Remainder
  <2> QED BY <1>1, <2>1 DEF Nonzero
<1>4. w \in [Threads -> Nat]
  BY <1>3
<1> HIDE DEF w
<1>5. CASE r \in i..(WindowEnd - 1) /\ ~Zero(r)
  <2>1. PICK t \in 0..(k - 1) : t \in Threads /\ r \in WindowShare(t)
    BY <1>1, <1>5, WindowIs DEF BlockInv, WindowShare
  <2>2. Finished(t)
    BY <1>1, <2>1 DEF Finished
  <2>3. \A u \in Threads : u # t => w[u] = 0
    BY <1>3, <2>1, ShareApart DEF WindowShare
  <2>4. w[t] = 1
    BY <1>3, <1>5, <2>1, <2>2
  <2>5. SumFunction(w) = w[t]
    BY <1>4, <2>1, <2>3, ThreadsFinite, SumOne
  <2> QED BY <1>2, <1>5, <2>4, <2>5
<1>6. CASE ~(r \in i..(WindowEnd - 1) /\ ~Zero(r))
  <2>1. \A u \in Threads : w[u] = 0
    BY <1>1, <1>3, <1>6, WindowIs DEF BlockInv, WindowShare
  <2>2. SumFunction(w) = 0
    BY <1>4, <2>1, ThreadsFinite, SumZero, Sums
  <2> QED BY <1>2, <1>6, <2>2
<1> QED BY <1>5, <1>6

\* The join of a window is a step of the scan that one thread would make.
LEMMA WindowJoinIsNext ==
  ASSUME BlockInv, WindowJoin
  PROVE  WindowHit \/ WindowQuiet
<1> DEFINE rows == i..(WindowEnd - 1)
<1>1. /\ phase = "window" /\ team.left = {} /\ covered' = WindowEnd
      /\ E' = [r \in Remainder |-> E[r] + Summed(LE)[r]]
      /\ UNCHANGED <<kind, parallel, grown, result>>
  BY DEF WindowJoin, Joined, tailData
<1>2. Scanning /\ WindowIsDue /\ E \in [Remainder -> Nat] /\ team.size \in 1..MaxThreads
  BY <1>1 DEF BlockInv, WindowShares, TailInv, TypeOK, Region
<1>3. E' = Accumulated(rows)
  <2>1. \A r \in Remainder :
          E[r] + Summed(LE)[r] = IF r \in rows /\ ~Zero(r) THEN E[r] + 1 ELSE E[r]
    BY <1>1, <1>2, WindowSum
  <2> QED BY <1>1, <2>1 DEF Accumulated
<1>4. ASSUME NEW r \in rows PROVE (r \in hit) \in Screen(r)
  <2>1. PICK t \in Threads : t \in 0..(team.size - 1) /\ r \in WindowShare(t)
    BY <1>2, WindowIs DEF BlockInv, WindowShare
  <2>2. Finished(t)
    BY <1>1, <1>2, <2>1 DEF Finished
  <2> QED BY <1>1, <2>1, <2>2 DEF BlockInv, WindowShares
<1>5. ASSUME NEW r \in rows, r \notin hit PROVE FALSE \in Screen(r)
  <2>1. (r \in hit) = FALSE
    BY <1>5
  <2> QED BY <1>4, <2>1
<1>6. ASSUME NEW r \in rows, r \in hit PROVE TRUE \in Screen(r)
  <2>1. (r \in hit) = TRUE
    BY <1>6
  <2> QED BY <1>4, <2>1
<1>7. hit \subseteq rows /\ i \in Nat
  <2>1. \A t : WindowShare(t) \subseteq rows
    BY <1>2, WindowIs DEF BlockInv, WindowShare
  <2>2. i \in Nat
    BY <1>2, WindowIs DEF BlockInv
  <2> QED BY <1>1, <2>1, <2>2 DEF BlockInv, WindowShares
<1>8. CASE hit = {}
  <2>1. i' = WindowEnd /\ streak' = streak + (WindowEnd - i) /\ against' = Screened(rows)
        /\ pc' = pc
    BY <1>8 DEF WindowJoin
  <2> QED BY <1>1, <1>2, <1>3, <1>5, <1>8, <2>1 DEF WindowQuiet
<1>9. CASE hit # {}
  <2>1. i' = Min(hit) /\ pc' = "insert" /\ against' = Screened(i..Min(hit)) /\ streak' = streak
    BY <1>9 DEF WindowJoin
  <2>2. Min(hit) \in hit /\ \A r \in hit : Min(hit) <= r
    <3>1. hit \in SUBSET Nat
      BY <1>7
    <3>2. \E x \in hit : \A y \in hit : x <= y
      BY <1>9, <3>1, Least
    <3> QED BY <3>2 DEF Min
  <2>3. \A r \in i..(Min(hit) - 1) : r \in rows /\ r \notin hit
    <3>1. Min(hit) \in rows
      BY <1>7, <2>2
    <3>2. WindowEnd \in Nat
      BY <1>2, WindowIs DEF BlockInv
    <3>3. Min(hit) \in Nat /\ Min(hit) <= WindowEnd - 1
      BY <1>7, <3>1, <3>2
    <3> QED BY <1>7, <2>2, <3>2, <3>3
  <2> QED BY <1>1, <1>2, <1>3, <1>5, <1>6, <1>7, <2>1, <2>2, <2>3 DEF WindowHit
<1> QED BY <1>8, <1>9

\* The buffers are added up and the scan goes on.
LEMMA WindowJoinKeeps ==
  ASSUME BlockInv, WindowJoin
  PROVE  BlockInv'
<1>1. /\ phase = "window" /\ phase' = "tail" /\ team' = NoTeam /\ LE' = LE /\ hit' = {}
      /\ UNCHANGED sketch /\ UNCHANGED keep /\ UNCHANGED reset /\ UNCHANGED report
  BY DEF WindowJoin, Joined
<1>2. TailInv'
  BY WindowJoinIsNext, TailInvNext DEF BlockInv, Next, Step
<1>3. ProofHeld' /\ ResetBundle'
  BY <1>1, ProofKept, ResetKept DEF BlockInv, report, ResetBundle
<1>4. Region' /\ WindowShares'
  BY <1>1 DEF Region, WindowShares
<1>5. SketchShares' /\ SketchTypes'
  BY <1>1 DEF BlockInv, SketchShares, SketchTypes, sketch
<1> QED BY <1>2, <1>3, <1>4, <1>5 DEF BlockInv

-----------------------------------------------------------------------------
(***************************************************************************)
(* The sketch.                                                             *)
(***************************************************************************)
\* A step between the other stages changes none of the parts.
LEMMA PlainKeeps ==
  ASSUME BlockInv, phase \in Plain, phase' \in Plain, UNCHANGED window, UNCHANGED sketch,
         TailInv', ProofHeld', ResetBundle'
  PROVE  BlockInv'
BY Elsewhere DEF BlockInv

\* A tail that declined is over, and leaves nothing behind it.
LEMMA ForgottenKeeps ==
  ASSUME TailInv, result = "declined", Forgotten
  PROVE  TailInv'
<1>1. /\ i' = P /\ covered' = P /\ streak' = 0 /\ grown' = {} /\ E' = [r \in Remainder |-> 0]
      /\ against' = [r \in Remainder |-> {}] /\ UNCHANGED <<kind, parallel, pc, result>>
  BY DEF Forgotten, NoRow, tailData
<1>2. pc = "done"
  BY DEF TailInv, ResultAtEnd
<1>3. P \in Nat /\ M \in Nat /\ P <= M
  BY TailAssumption
<1>4. TypeOK'
  BY <1>1, <1>3 DEF TailInv, TypeOK
<1>5. \A r \in Remainder : ~(r < P)
  BY <1>3 DEF Remainder
<1>6. EachRowOnce' /\ RescreenedAfterGrowth'
  BY <1>1, <1>5 DEF EachRowOnce, RescreenedAfterGrowth
<1>7. InfiniteIsComplete' /\ InsertedIsScreened' /\ ResultAtEnd'
  BY <1>1, <1>2 DEF InfiniteIsComplete, InsertedIsScreened, ResultAtEnd
<1>8. StreakBehind' /\ ScanWithinCovered' /\ GrowthBehind'
  BY <1>1, <1>2, <1>3 DEF StreakBehind, ScanWithinCovered, GrowthBehind
<1> QED BY <1>4, <1>6, <1>7, <1>8 DEF TailInv

\* A sketch starts from zeros, in parallel or in series.
LEMMA SketchStartsKeeps ==
  ASSUME BlockInv, SketchStarts \/ SketchFallsThrough
  PROVE  BlockInv'
<1>1. /\ phase = "tail" /\ result = "declined" /\ Forgotten
      /\ sp' \in 1..2 /\ UNCHANGED <<LC, LL, terms, budget>>
      /\ UNCHANGED keep /\ UNCHANGED reset /\ UNCHANGED report
      /\ LE' = NoPart /\ hit' = hit
  BY DEF SketchStarts, SketchFallsThrough, Forgotten
<1>2. \/ phase' = "serial" /\ team' = team
      \/ /\ phase' = "team" /\ sp' = 1 /\ P < M
         /\ \E k \in 1..MaxThreads : team' = [size |-> k, left |-> 0..(k - 1)]
  <2>1. CASE SketchFallsThrough
    BY <2>1 DEF SketchFallsThrough
  <2>2. CASE SketchStarts
    <3>1. PICK draws \in 1..2 : /\ sp' = draws
                                /\ phase' = IF InParallel(draws) THEN "team" ELSE "serial"
      BY <2>2 DEF SketchStarts
    <3>2. CASE InParallel(draws)
      <4>1. M - P >= MinWindow /\ draws = 1
        BY <3>2 DEF InParallel
      <4>2. P < M
        BY <4>1, TailAssumption
      <4> QED BY <2>2, <3>1, <3>2, <4>1, <4>2 DEF SketchStarts, Fork
    <3>3. CASE ~InParallel(draws)
      BY <2>2, <3>1, <3>3 DEF SketchStarts
    <3> QED BY <3>2, <3>3
  <2> QED BY <2>1, <2>2
<1>3. TailInv' /\ ProofHeld' /\ ResetBundle'
  BY <1>1, ForgottenKeeps, ProofKept, ResetKept DEF BlockInv, report, ResetBundle
<1>4. Region'
  BY <1>1, <1>2, TeamForks DEF BlockInv, Region
<1>5. WindowShares'
  BY <1>2 DEF WindowShares
<1>6. SketchShares'
  <2>1. LC = [t \in Threads |-> NoTerms] /\ LL = [t \in Threads |-> NoLen]
    BY <1>1 DEF BlockInv, SketchShares
  <2>2. phase' = "team" => \A t \in Threads : ~Finished(t)'
    BY <1>2, BlockAssumption DEF Finished, Threads
  <2> QED BY <1>1, <1>2, <2>1, <2>2 DEF SketchShares
<1>7. SketchTypes'
  BY <1>1, <1>2 DEF BlockInv, SketchTypes, NoPart, NoRow
<1> QED BY <1>3, <1>4, <1>5, <1>6, <1>7 DEF BlockInv

\* A sketch without memory ends the route.
LEMMA SketchNoMemoryKeeps ==
  ASSUME BlockInv, SketchNoMemory
  PROVE  BlockInv'
<1>1. /\ phase = "tail" /\ phase' = "done" /\ failed' = failed \union {"state"}
      /\ UNCHANGED tail /\ UNCHANGED window /\ UNCHANGED sketch /\ UNCHANGED keep
      /\ UNCHANGED reset
  BY DEF SketchNoMemory, FailsFor, Answers
<1>2. TailInv' /\ ProofHeld' /\ ResetBundle'
  BY <1>1, TailKept, ProofKept, ResetKept DEF BlockInv, ResetBundle
<1> QED BY <1>1, <1>2, PlainKeeps DEF Plain

\* What a row comes to in an output is a number, and a matter of the data.
LEMMA DrawsCount ==
  ASSUME BlockInv, NEW r, NEW o
  PROVE  Draws(r, o) \in Nat
<1>1. sp \in Nat
  BY DEF BlockInv, SketchTypes
<1>2. IsFiniteSet(1..sp)
  BY <1>1, FS_Interval
<1>3. IsFiniteSet({d \in 1..sp : Hash(r, d) = o[2]})
  BY <1>2, FS_Subset
<1> QED BY <1>3, FS_CardinalityType DEF Draws

\* What is drawn depends on the rows and the number of draws alone.
LEMMA TermsKept ==
  ASSUME UNCHANGED <<kind, sp>>
  PROVE  \A z : Terms(z)' = Terms(z) /\ Lengths(z)' = Lengths(z)
<1>1. \A r, o : Draws(r, o)' = Draws(r, o)
  BY DEF Draws, Nonzero, Zero
<1> QED BY <1>1 DEF Terms, Lengths

\* A thread draws the rows of its share and counts them.
LEMMA SketchWorkKeeps ==
  ASSUME BlockInv, NEW t \in Threads, SketchWork(t)
  PROVE  BlockInv'
<1> DEFINE k == team.size
<1>1. /\ phase = "team" /\ t \in team.left /\ phase' = "team"
      /\ LC' = [LC EXCEPT ![t] = Terms(SketchShare(t))]
      /\ LL' = [LL EXCEPT ![t] = Lengths(SketchShare(t))]
      /\ team' = [team EXCEPT !.left = @ \ {t}]
      /\ UNCHANGED tail /\ UNCHANGED <<LE, hit, sp, terms, budget>>
      /\ UNCHANGED keep /\ UNCHANGED reset /\ UNCHANGED report
  BY DEF SketchWork, Left, SketchShare
<1>2. k \in 1..MaxThreads /\ team.left \subseteq 0..(k - 1)
  BY <1>1 DEF BlockInv, Region
<1>3. team'.size = k /\ team'.left = team.left \ {t}
  BY <1>1 DEF BlockInv, Region
<1>4. TailInv' /\ ProofHeld' /\ ResetBundle'
  BY <1>1, TailKept, ProofKept, ResetKept DEF BlockInv, report, ResetBundle
<1>5. Region' /\ WindowShares'
  BY <1>1, TeamLeaves DEF BlockInv, Region, WindowShares
<1>6. SketchShares'
  <2>1. \A u \in Threads : Finished(u)' <=> Finished(u) \/ u = t
    <3>1. t < k
      BY <1>1, <1>2
    <3> QED BY <1>1, <1>3, <3>1 DEF Finished
  <2>2. \A z : Terms(z)' = Terms(z) /\ Lengths(z)' = Lengths(z)
    BY <1>1, TermsKept DEF tail, vars, tailData
  <2>3. \A u : SketchShare(u)' = SketchShare(u)
    BY <1>3 DEF SketchShare, Share
  <2>4. /\ LC = [u \in Threads |-> IF Finished(u) THEN Terms(SketchShare(u)) ELSE NoTerms]
        /\ LL = [u \in Threads |-> IF Finished(u) THEN Lengths(SketchShare(u)) ELSE NoLen]
    BY <1>1 DEF BlockInv, SketchShares
  <2>5. /\ LC' = [u \in Threads |-> IF Finished(u)' THEN Terms(SketchShare(u)) ELSE NoTerms]
        /\ LL' = [u \in Threads |-> IF Finished(u)' THEN Lengths(SketchShare(u)) ELSE NoLen]
    BY <1>1, <2>1, <2>4
  <2>6. /\ LC' = [u \in Threads |-> IF Finished(u)' THEN Terms(SketchShare(u))' ELSE NoTerms]
        /\ LL' = [u \in Threads |-> IF Finished(u)' THEN Lengths(SketchShare(u))' ELSE NoLen]
    <3>1. \A u : Terms(SketchShare(u))' = Terms(SketchShare(u))
                 /\ Lengths(SketchShare(u))' = Lengths(SketchShare(u))
      BY <2>2, <2>3, <1>1, <1>3 DEF Terms, Lengths, Draws, Nonzero, Zero, tail, vars, tailData
    <3> QED BY <2>5, <3>1
  <2>7. sp' = 1 /\ P < M
    BY <1>1 DEF BlockInv, SketchShares
  <2> QED BY <1>1, <2>6, <2>7 DEF SketchShares
<1>7. SketchTypes'
  BY <1>1 DEF BlockInv, SketchTypes
<1> QED BY <1>4, <1>5, <1>6, <1>7 DEF BlockInv

\* The shares of a team that is done are together the whole remainder.
LEMMA SketchDone ==
  ASSUME BlockInv, phase = "team", team.left = {}
  PROVE  /\ team.size \in 1..MaxThreads
         /\ \A r \in Remainder : \E t \in Threads : Finished(t) /\ r \in SketchShare(t)
         /\ \A t \in Threads : SketchShare(t) \subseteq Remainder
<1>1. team.size \in 1..MaxThreads /\ P < M
  BY DEF BlockInv, Region, SketchShares
<1>2. P \in Nat /\ M \in Nat /\ MaxThreads \in Nat
  BY TailAssumption, BlockAssumption
<1>3. ASSUME NEW r \in Remainder
      PROVE  \E t \in Threads : Finished(t) /\ r \in SketchShare(t)
  <2>1. PICK t \in 0..(team.size - 1) : r \in SketchShare(t)
    <3>1. team.size \in Nat \ {0} /\ r \in P..(M - 1)
      BY <1>1, <1>2 DEF Remainder
    <3>2. \E t \in 0..(team.size - 1) : r \in Share(t, team.size, P, M)
      BY <1>1, <1>2, <3>1, ShareCovers
    <3> QED BY <3>2 DEF SketchShare
  <2>2. t \in Threads /\ t < team.size
    BY <1>1, <1>2 DEF Threads
  <2> QED BY <2>1, <2>2 DEF Finished
<1> QED BY <1>1, <1>3 DEF SketchShare, Share, Remainder

\* When all threads are done their outputs add up to those of the serial loop.
LEMMA SketchTerms ==
  ASSUME BlockInv, phase = "team", team.left = {}
  PROVE  [o \in Outputs |-> Summed([t \in Threads |-> LC[t][o]])] = Terms(Remainder)
<1>1. ASSUME NEW o \in Outputs, NEW r \in Remainder
      PROVE  Summed([t \in Threads |-> LC[t][o]])[r] = Draws(r, o)
  <2> DEFINE w == [t \in Threads |-> LC[t][o][r]]
  <2>1. Summed([t \in Threads |-> LC[t][o]])[r] = SumFunction(w)
    <3>1. [t \in Threads |-> [u \in Threads |-> LC[u][o]][t][r]] = w
      OBVIOUS
    <3> HIDE DEF w
    <3> QED BY <3>1 DEF Summed
  <2>2. \A t \in Threads : w[t] = IF Finished(t) /\ r \in SketchShare(t) THEN Draws(r, o) ELSE 0
    <3>1. LC = [t \in Threads |-> IF Finished(t) THEN Terms(SketchShare(t)) ELSE NoTerms]
      BY DEF BlockInv, SketchShares
    <3>2. \A z : Terms(z)[o][r] = IF r \in z THEN Draws(r, o) ELSE 0
      BY DEF Terms
    <3>3. NoTerms[o][r] = 0
      BY DEF NoTerms, NoRow
    <3> QED BY <3>1, <3>2, <3>3
  <2>3. Draws(r, o) \in Nat
    BY DrawsCount
  <2>4. w \in [Threads -> Nat]
    BY <2>2, <2>3
  <2>5. PICK t \in Threads : Finished(t) /\ r \in SketchShare(t)
    BY SketchDone
  <2> HIDE DEF w
  <2>6. \A u \in Threads : u # t => w[u] = 0
    BY <2>2, <2>5, ShareApart DEF SketchShare
  <2>7. SumFunction(w) = w[t]
    BY <2>4, <2>6, ThreadsFinite, SumOne
  <2> QED BY <2>1, <2>2, <2>5, <2>7
<1>2. \A o \in Outputs : Summed([t \in Threads |-> LC[t][o]]) = [r \in Remainder |-> Draws(r, o)]
  <2>1. \A f : Summed(f) = [r \in Remainder |-> Summed(f)[r]]
    BY DEF Summed
  <2> QED BY <1>1, <2>1
<1>3. Terms(Remainder) = [o \in Outputs |-> [r \in Remainder |-> Draws(r, o)]]
  BY DEF Terms
<1> QED BY <1>2, <1>3

\* So do the counts their budgets are made of.
LEMMA SketchLengths ==
  ASSUME BlockInv, phase = "team", team.left = {}
  PROVE  [o \in Outputs |-> SumFunction([t \in Threads |-> LL[t][o]])] = Lengths(Remainder)
<1>1. ASSUME NEW o \in Outputs
      PROVE  SumFunction([t \in Threads |-> LL[t][o]])
               = SumFunction([r \in Remainder |-> Draws(r, o)])
  <2> DEFINE w == [r \in Remainder |-> Draws(r, o)]
             part == [t \in Threads |-> IF Finished(t) THEN SketchShare(t) ELSE {}]
  <2>1. w \in [Remainder -> Nat]
    BY DrawsCount
  <2>2. part \in [Threads -> SUBSET Remainder]
    BY SketchDone
  <2>3. \A t, u \in Threads : t # u => part[t] \cap part[u] = {}
    BY ShareApart DEF SketchShare
  <2>4. UNION {part[t] : t \in Threads} = Remainder
    BY SketchDone, <2>2
  <2>5. ASSUME NEW t \in Threads PROVE LL[t][o] = SumFunctionOnSet(w, part[t])
    <3>1. LL[t] = IF Finished(t) THEN Lengths(SketchShare(t)) ELSE NoLen
      BY DEF BlockInv, SketchShares
    <3>2. CASE Finished(t)
      <4> DEFINE A == SketchShare(t)
      <4>1. A \in SUBSET Remainder /\ part[t] = A
        BY <3>2, SketchDone
      <4>2. LL[t][o] = SumFunction([r \in A |-> Draws(r, o)])
        BY <3>1, <3>2 DEF Lengths
      <4>3. [r \in A |-> Draws(r, o)] = [r \in A |-> w[r]]
        BY <4>1
      <4> HIDE DEF A, w, part
      <4>4. SumFunction([r \in A |-> w[r]]) = SumFunctionOnSet(w, A)
        BY <2>1, <4>1, ThreadsFinite, Sums
      <4> QED BY <4>1, <4>2, <4>3, <4>4
    <3>3. CASE ~Finished(t)
      <4>1. LL[t][o] = 0 /\ part[t] = {}
        BY <3>1, <3>3 DEF NoLen
      <4> HIDE DEF w, part
      <4>2. SumFunctionOnSet(w, {}) = 0
        BY <2>1, ThreadsFinite, Sums
      <4> QED BY <4>1, <4>2
    <3> QED BY <3>2, <3>3
  <2> HIDE DEF w, part
  <2>6. [t \in Threads |-> LL[t][o]] = [t \in Threads |-> SumFunctionOnSet(w, part[t])]
    BY <2>5
  <2>7. SumFunction([t \in Threads |-> SumFunctionOnSet(w, part[t])])
          = SumFunctionOnSet(w, UNION {part[t] : t \in Threads})
    BY <2>1, <2>2, <2>3, ThreadsFinite, SumParts
  <2>8. SumFunctionOnSet(w, Remainder) = SumFunction(w)
    BY <2>1, ThreadsFinite, Sums
  <2> QED BY <2>4, <2>6, <2>7, <2>8 DEF w
<1> QED BY <1>1 DEF Lengths

\* Outputs and budgets are numbers.
LEMMA TermsTypes ==
  ASSUME BlockInv
  PROVE  /\ Terms(Remainder) \in [Outputs -> [Remainder -> Nat]]
         /\ Lengths(Remainder) \in [Outputs -> Nat]
<1>1. Terms(Remainder) \in [Outputs -> [Remainder -> Nat]]
  BY DrawsCount DEF Terms
<1>2. ASSUME NEW o \in Outputs PROVE SumFunction([r \in Remainder |-> Draws(r, o)]) \in Nat
  <2> DEFINE w == [r \in Remainder |-> Draws(r, o)]
  <2>1. w \in [Remainder -> Nat]
    BY DrawsCount
  <2> HIDE DEF w
  <2>2. SumFunction(w) \in Nat
    BY <2>1, ThreadsFinite, Sums
  <2> QED BY <2>2 DEF w
<1> QED BY <1>1, <1>2 DEF Lengths

\* A team's sketch is the one a serial loop would make.
LEMMA SketchEndsKeeps ==
  ASSUME BlockInv, SketchJoin \/ SketchSerial
  PROVE  BlockInv'
<1>1. /\ phase' = "sketch" /\ phase \in {"team", "serial"} /\ team' = NoTeam
      /\ UNCHANGED tail /\ UNCHANGED <<LE, hit, sp>>
      /\ UNCHANGED keep /\ UNCHANGED reset /\ UNCHANGED report
  BY DEF SketchJoin, SketchSerial, Joined, window, BlockInv, Region
<1>2. terms' = Terms(Remainder) /\ budget' = Lengths(Remainder)
  BY SketchTerms, SketchLengths DEF SketchJoin, SketchSerial, Joined
<1>3. LC' = [t \in Threads |-> NoTerms] /\ LL' = [t \in Threads |-> NoLen]
  BY DEF SketchJoin, SketchSerial, BlockInv, SketchShares
<1>4. TailInv' /\ ProofHeld' /\ ResetBundle'
  BY <1>1, TailKept, ProofKept, ResetKept DEF BlockInv, report, ResetBundle
<1>5. Region' /\ WindowShares'
  BY <1>1 DEF Region, WindowShares
<1>6. SketchShares'
  <2>1. terms' = Terms(Remainder)' /\ budget' = Lengths(Remainder)'
    <3>1. \A z : Terms(z)' = Terms(z) /\ Lengths(z)' = Lengths(z)
      BY <1>1, TermsKept DEF tail, vars, tailData
    <3> QED BY <1>2, <3>1, Remainder' = Remainder
  <2> QED BY <1>1, <1>3, <2>1 DEF SketchShares
<1>7. SketchTypes'
  BY <1>1, <1>2, TermsTypes DEF BlockInv, SketchTypes
<1> QED BY <1>4, <1>5, <1>6, <1>7 DEF BlockInv

-----------------------------------------------------------------------------
(***************************************************************************)
(* The rows of the proof, and the candidate.                               *)
(***************************************************************************)
LEMMA OutputsFinite == Cardinality(Outputs) \in Nat
<1> DEFINE all == ({"C"} \X Buckets) \union ({"E"} \X Validators)
<1>1. IsFiniteSet({"C"} \X Buckets) /\ IsFiniteSet({"E"} \X Validators)
  BY FiniteAssumption, FS_Singleton, FS_Product
<1>2. IsFiniteSet(all)
  <2> DEFINE A == {"C"} \X Buckets
             C == {"E"} \X Validators
  <2>1. IsFiniteSet(A) /\ IsFiniteSet(C)
    BY <1>1
  <2> HIDE DEF A, C
  <2>2. IsFiniteSet(A \union C)
    BY <2>1, FS_Union
  <2> QED BY <2>2 DEF A, C
<1>3. Outputs \subseteq all
  BY DEF Outputs
<1> HIDE DEF all
<1>4. IsFiniteSet(Outputs)
  BY <1>2, <1>3, FS_Subset
<1> QED BY <1>4, FS_CardinalityType

\* The outputs are handed over.
LEMMA KeepStartsKeeps ==
  ASSUME BlockInv, KeepStarts
  PROVE  BlockInv'
<1>1. /\ phase = "sketch" /\ phase' = "keep" /\ sp' = 1 /\ terms' = NoTerms /\ budget' = NoLen
      /\ UNCHANGED <<LC, LL>> /\ UNCHANGED tail /\ UNCHANGED window
      /\ UNCHANGED keep /\ UNCHANGED reset /\ UNCHANGED report
  BY DEF KeepStarts
<1>2. TailInv' /\ ProofHeld' /\ ResetBundle'
  BY <1>1, TailKept, ProofKept, ResetKept DEF BlockInv, report, ResetBundle
<1>3. Region' /\ WindowShares'
  BY <1>1 DEF BlockInv, Region, WindowShares, window
<1>4. SketchShares'
  <2>1. LC = [t \in Threads |-> NoTerms] /\ LL = [t \in Threads |-> NoLen]
    BY <1>1 DEF BlockInv, SketchShares
  <2> QED BY <1>1, <2>1 DEF SketchShares
<1>5. SketchTypes'
  BY <1>1 DEF BlockInv, SketchTypes, window, NoTerms, NoRow, NoLen
<1> QED BY <1>2, <1>3, <1>4, <1>5 DEF BlockInv

\* Rows are used only where both arrays have them, whichever realloc fails.
LEMMA KeepKeeps ==
  ASSUME BlockInv, KeepPasses \/ KeepRefuses \/ KeepFails \/ Keeps
  PROVE  BlockInv'
<1>1. /\ phase = "keep" /\ phase' \in {"keep", "done"} /\ kept < Cardinality(Outputs)
      /\ failed' \subseteq failed \union {"proof"}
      /\ UNCHANGED tail /\ UNCHANGED window /\ UNCHANGED sketch /\ UNCHANGED reset
  <2>1. CASE KeepPasses
    BY <2>1 DEF KeepPasses, Adding, report
  <2>2. CASE KeepRefuses
    BY <2>2 DEF KeepRefuses, Adding, Answers
  <2>3. CASE KeepFails
    BY <2>3 DEF KeepFails, Adding, Answers
  <2>4. CASE Keeps
    BY <2>4 DEF Keeps, Adding, report
  <2> QED BY <2>1, <2>2, <2>3, <2>4
<1>2. kept' \in {kept, kept + 1}
      /\ \/ proof' = proof
         \/ proof' = [proof EXCEPT !.rows = Larger]
         \/ Room /\ proof' = [proof EXCEPT !.used = proof.used + 1]
         \/ proof' = [used |-> proof.used + 1, cap |-> Larger, rows |-> Larger, eps |-> Larger]
  <2>1. CASE KeepPasses
    BY <2>1 DEF KeepPasses
  <2>2. CASE KeepRefuses
    BY <2>2 DEF KeepRefuses, keep
  <2>3. CASE KeepFails
    BY <2>3 DEF KeepFails
  <2>4. CASE Keeps
    BY <2>4 DEF Keeps
  <2> QED BY <2>1, <2>2, <2>3, <2>4
<1>3. /\ proof = [used |-> proof.used, cap |-> proof.cap, rows |-> proof.rows, eps |-> proof.eps]
      /\ proof.used \in Nat /\ proof.cap \in Nat /\ proof.rows \in Nat /\ proof.eps \in Nat
      /\ proof.used <= proof.cap /\ proof.cap <= proof.rows /\ proof.cap <= proof.eps
      /\ kept \in Nat
  BY OutputsFinite DEF BlockInv, ProofHeld
<1>4. Larger \in Nat /\ Larger > proof.cap
  <2>1. proof.cap \div 2 \in Nat
    BY <1>3
  <2> QED BY <1>3, <2>1, BlockAssumption DEF Larger
<1>5. kept' \in 0..Cardinality(Outputs)
  BY <1>1, <1>2, <1>3, OutputsFinite
<1>6. /\ proof' \in [used : Nat, cap : Nat, rows : Nat, eps : Nat]
      /\ proof'.used <= proof'.cap /\ proof'.cap <= proof'.rows /\ proof'.cap <= proof'.eps
  <2>1. CASE proof' = proof
    BY <1>3, <2>1
  <2>2. CASE proof' = [proof EXCEPT !.rows = Larger]
    <3>1. proof' = [used |-> proof.used, cap |-> proof.cap, rows |-> Larger, eps |-> proof.eps]
      BY <1>3, <2>2
    <3> QED BY <1>3, <1>4, <3>1
  <2>3. CASE Room /\ proof' = [proof EXCEPT !.used = proof.used + 1]
    <3>1. proof' = [used |-> proof.used + 1, cap |-> proof.cap,
                    rows |-> proof.rows, eps |-> proof.eps]
      BY <1>3, <2>3
    <3> QED BY <1>3, <2>3, <3>1 DEF Room
  <2>4. CASE proof' = [used |-> proof.used + 1, cap |-> Larger, rows |-> Larger, eps |-> Larger]
    BY <1>3, <1>4, <2>4
  <2> QED BY <1>2, <2>1, <2>2, <2>3, <2>4
<1>7. ProofHeld'
  BY <1>5, <1>6 DEF ProofHeld
<1>8. TailInv' /\ ResetBundle'
  BY <1>1, TailKept, ResetKept DEF BlockInv, ResetBundle
<1> QED BY <1>1, <1>7, <1>8, PlainKeeps DEF Plain

\* The proof is freed when a candidate is made of it.
LEMMA CandidateKeeps ==
  ASSUME BlockInv, CandidateStep
  PROVE  BlockInv'
<1>1. /\ phase = "keep" /\ phase' \in {"scan", "reset", "done"}
      /\ failed' \subseteq failed \union {"state", "svd_scratch"}
      /\ UNCHANGED tail /\ UNCHANGED window /\ UNCHANGED sketch /\ UNCHANGED reset
      /\ UNCHANGED keep \/ ProofFreed
  <2>1. CASE CandidateNoMemory
    BY <2>1 DEF CandidateNoMemory, CandidateDue, FailsFor, Answers
  <2>2. CASE CandidateMade
    BY <2>2 DEF CandidateMade, CandidateDue, report
  <2>3. CASE CandidateRejected
    BY <2>3 DEF CandidateRejected, CandidateDue
  <2> QED BY <2>1, <2>2, <2>3 DEF CandidateStep
<1>2. ProofHeld'
  <2>1. CASE UNCHANGED keep
    BY <2>1, ProofKept DEF BlockInv
  <2>2. CASE ProofFreed
    BY <2>2, OutputsFinite, TailAssumption, BlockAssumption DEF ProofFreed, NoProof, ProofHeld
  <2> QED BY <1>1, <2>1, <2>2
<1>3. TailInv' /\ ResetBundle'
  BY <1>1, TailKept, ResetKept DEF BlockInv, ResetBundle
<1> QED BY <1>1, <1>2, <1>3, PlainKeeps DEF Plain

-----------------------------------------------------------------------------
(***************************************************************************)
(* The reset.                                                              *)
(***************************************************************************)
LEMMA BlankIs == /\ Blank \in B!BState /\ Blank.r = Cardinality(Blank.basis)
                 /\ Blank.qcap = Cols /\ ~Blank.inconsistent
<1>1. 0 \in 0..Cols /\ Cols \in 0..Cols
  BY ColsIs
<1> QED BY <1>1, FS_EmptySet DEF Blank, B!BState

\* A row is inserted into the bundle, which grows by rows it does not hold.
LEMMA ResetRowKeeps ==
  ASSUME ResetBundle, ResetRow
  PROVE  ResetBundle'
<1>1. phase = "reset" /\ row \in 0..M /\ row < M /\ UNCHANGED <<pass, failed>>
  BY DEF ResetRow, Resetting, ResetBundle, report
<1>2. row \in Source /\ row + 1 \in 0..M
  BY <1>1, TailAssumption DEF Source
<1>3. PICK o \in B!InsertCertified(s, row) :
        /\ ~o.s.inconsistent
        /\ s' = o.s /\ row' = row + 1
        /\ seen' = seen \union (IF o.rc = "DEFER" THEN {"grey", o.failed} \ {"none"} ELSE {})
  BY DEF ResetRow
<1>4. /\ o.s \in B!BState /\ o.s.r = Cardinality(o.s.basis) /\ o.s.qcap = Cols
      /\ o.rc = "DEFER" => o.failed \in {"none", "svd_scratch"}
  BY <1>2, <1>3, InsertKeeps
<1>5. seen' \subseteq {"grey", "svd_scratch"}
  BY <1>3, <1>4 DEF ResetBundle
<1>6. s' \in B!BState' /\ s'.r = Cardinality(s'.basis) /\ s'.qcap = Cols /\ ~s'.inconsistent
  BY <1>3, <1>4 DEF B!BState
<1> QED BY <1>1, <1>2, <1>3, <1>5, <1>6 DEF ResetBundle

\* What the reset leaves behind when it answers.
LEMMA ResetReturnsKeeps ==
  ASSUME ResetBundle, NEW cls, NEW rank, ResetReturns(cls, rank)
  PROVE  ResetBundle' /\ phase' = "done" /\ UNCHANGED <<tail, window, sketch, keep>>
<1>1. /\ s' = Blank /\ pass' = 0 /\ row' = 0 /\ seen' = {}
      /\ failed' = failed \union (seen \ {"grey"})
      /\ phase' = "done" /\ UNCHANGED <<tail, window, sketch, keep>>
  BY DEF ResetReturns, Answers
<1>2. failed' \subseteq {"state", "svd_scratch", "proof"}
  BY <1>1 DEF ResetBundle
<1>3. 0 \in 0..M
  BY TailAssumption
<1> QED BY <1>1, <1>2, <1>3, BlankIs DEF ResetBundle, B!BState

\* Rows, passes and answers of the reset.
LEMMA ResetStepKeeps ==
  ASSUME BlockInv, ResetStep
  PROVE  BlockInv'
<1>0. ResetBundle /\ 0 \in 0..M
  BY TailAssumption DEF BlockInv
<1>1. /\ phase = "reset" /\ phase' \in {"reset", "done"} /\ ResetBundle'
      /\ UNCHANGED tail /\ UNCHANGED window /\ UNCHANGED sketch /\ UNCHANGED keep
  <2>1. CASE ResetNoMemory
    <3>1. UNCHANGED reset /\ failed' = failed \union {"state"}
      BY <2>1 DEF ResetNoMemory, FailsFor
    <3> QED BY <1>0, <2>1, <3>1, ResetKept DEF ResetNoMemory, FailsFor, Answers, ResetBundle
  <2>2. CASE ResetRow
    BY <1>0, <2>2, ResetRowKeeps DEF ResetRow, Resetting
  <2>3. CASE ResetContradicts
    BY <1>0, <2>3, ResetReturnsKeeps DEF ResetContradicts, Resetting
  <2>4. CASE ResetResolves
    <3>1. \E cls : ResetReturns(cls, s.r)
      BY <2>4 DEF ResetResolves
    <3> QED BY <1>0, <2>4, <3>1, ResetReturnsKeeps DEF ResetResolves, PassEnds
  <2>5. CASE ResetAgain
    BY <1>0, <2>5 DEF ResetAgain, PassEnds, report, ResetBundle, B!BState
  <2>6. CASE ResetGrey
    BY <1>0, <2>6, ResetReturnsKeeps DEF ResetGrey, PassEnds
  <2> QED BY <2>1, <2>2, <2>3, <2>4, <2>5, <2>6 DEF ResetStep
<1>2. TailInv' /\ ProofHeld'
  BY <1>1, TailKept, ProofKept DEF BlockInv
<1> QED BY <1>1, <1>2, PlainKeeps DEF Plain

-----------------------------------------------------------------------------
(***************************************************************************)
(* The specification.                                                      *)
(***************************************************************************)
LEMMA BlockInvInit == BlockInit => BlockInv
<1> SUFFICES ASSUME BlockInit PROVE BlockInv
  OBVIOUS
<1>1. /\ Init /\ phase = "tail" /\ team = NoTeam /\ LE = NoPart /\ hit = {}
      /\ sp = 1 /\ LC = [t \in Threads |-> NoTerms] /\ LL = [t \in Threads |-> NoLen]
      /\ terms = NoTerms /\ budget = NoLen /\ kept = 0 /\ proof = NoProof
      /\ s = Blank /\ pass = 0 /\ row = 0 /\ seen = {} /\ failed = {}
  BY DEF BlockInit
<1>2. TailInv
  BY <1>1, TailInvInit
<1>3. Region /\ WindowShares /\ SketchShares
  BY <1>1 DEF Region, WindowShares, SketchShares
<1>4. SketchTypes
  BY <1>1 DEF SketchTypes, NoPart, NoTerms, NoRow, NoLen
<1>5. ProofHeld
  BY <1>1, OutputsFinite, TailAssumption, BlockAssumption DEF ProofHeld, NoProof
<1>6. ResetBundle
  BY <1>1, BlankIs, TailAssumption DEF ResetBundle
<1> QED BY <1>2, <1>3, <1>4, <1>5, <1>6 DEF BlockInv

\* The invariant is about the state alone.
LEMMA BlockInvStutter ==
  ASSUME BlockInv, UNCHANGED blockVars
  PROVE  BlockInv'
<1>1. /\ UNCHANGED phase /\ UNCHANGED tail /\ UNCHANGED window /\ UNCHANGED sketch
      /\ UNCHANGED keep /\ UNCHANGED reset /\ UNCHANGED report
  BY DEF blockVars
<1>2. TailInv' /\ ProofHeld' /\ ResetBundle'
  BY <1>1, TailKept, ProofKept, ResetKept DEF BlockInv, report, ResetBundle
<1>3. UNCHANGED <<phase, team, LE, hit, kind, i, pc, streak, parallel, grown, covered>>
      /\ UNCHANGED <<sp, LC, LL, terms, budget>>
  BY <1>1 DEF tail, vars, tailData, window, sketch
<1>4. Region' /\ SketchTypes'
  BY <1>3 DEF BlockInv, Region, SketchTypes
<1>5. WindowShares'
  BY <1>3 DEF BlockInv, WindowShares, Scanning, Full, span, WindowIsDue, WindowIsDueAnywhere,
              Finished, WindowShare, Share, WindowEnd, Nonzero, Zero, Screen
<1>6. SketchShares'
  <2>1. \A r, o : Draws(r, o)' = Draws(r, o)
    BY <1>3 DEF Draws, Nonzero, Zero
  <2>2. \A t : Terms(SketchShare(t))' = Terms(SketchShare(t))
               /\ Lengths(SketchShare(t))' = Lengths(SketchShare(t))
    BY <1>3, <2>1 DEF SketchShare, Share, Terms, Lengths
  <2>3. Terms(Remainder)' = Terms(Remainder) /\ Lengths(Remainder)' = Lengths(Remainder)
    BY <2>1 DEF Terms, Lengths, Remainder
  <2>4. \A t : Finished(t)' <=> Finished(t)
    BY <1>3 DEF Finished
  <2> QED BY <1>3, <2>2, <2>3, <2>4 DEF BlockInv, SketchShares
<1> QED BY <1>2, <1>4, <1>5, <1>6 DEF BlockInv

\* Every stage keeps the invariant.
LEMMA BlockInvNext == BlockInv /\ [BlockNext]_blockVars => BlockInv'
<1> SUFFICES ASSUME BlockInv, [BlockNext]_blockVars PROVE BlockInv'
  OBVIOUS
<1>1. CASE TailStep
  BY <1>1, TailStepKeeps
<1>2. CASE WindowStep
  BY <1>2, WindowForkKeeps, WindowWorkKeeps, WindowJoinKeeps DEF WindowStep
<1>3. CASE SketchStep
  BY <1>3, SketchStartsKeeps, SketchNoMemoryKeeps, SketchWorkKeeps, SketchEndsKeeps
     DEF SketchStep
<1>4. CASE KeepStep
  BY <1>4, KeepStartsKeeps, KeepKeeps DEF KeepStep
<1>5. CASE CandidateStep
  BY <1>5, CandidateKeeps
<1>6. CASE ResetStep
  BY <1>6, ResetStepKeeps
<1>7. CASE UNCHANGED blockVars
  BY <1>7, BlockInvStutter
<1> QED BY <1>1, <1>2, <1>3, <1>4, <1>5, <1>6, <1>7 DEF BlockNext, BlockStep

\* The strengthened invariant of the rows of the block route.
THEOREM BlockInvariant == BlockSpec => []BlockInv
  BY BlockInvInit, BlockInvNext, PTL DEF BlockSpec

\* The types, and the rows of the proof within what both arrays hold.
THEOREM BlockTypes == BlockSpec => []BlockTypeOK
<1>1. BlockInv => BlockTypeOK
  <2> SUFFICES ASSUME BlockInv PROVE BlockTypeOK
    OBVIOUS
  <2>1. team \in [size : 0..MaxThreads, left : SUBSET Threads]
    <3>1. CASE phase \in {"window", "team"}
      <4>1. /\ team.size \in 1..MaxThreads /\ team.left \in SUBSET Threads
            /\ team = [size |-> team.size, left |-> team.left]
        BY <3>1 DEF BlockInv, Region
      <4>2. team.size \in 0..MaxThreads
        BY <4>1, BlockAssumption
      <4> QED BY <4>1, <4>2
    <3>2. CASE phase \notin {"window", "team"}
      BY <3>2, BlockAssumption DEF BlockInv, Region, NoTeam
    <3> QED BY <3>1, <3>2
  <2> QED BY <2>1 DEF BlockInv, BlockTypeOK, TailInv, SketchTypes, ProofHeld, ResetBundle
<1> QED BY <1>1, BlockInvariant, PTL

\* The threads of a window make the steps of the scan that one thread makes.
THEOREM BlockTail == BlockSpec => ImplementsTail
<1>1. BlockInv /\ [BlockNext]_blockVars
        => [(phase \in {"tail", "window"} /\ phase' \notin {"team", "serial"}) => Next]_vars
  <2> SUFFICES ASSUME BlockInv, [BlockNext]_blockVars,
                      phase \in {"tail", "window"}, phase' \notin {"team", "serial"}
               PROVE  Next \/ UNCHANGED vars
    OBVIOUS
  <2>1. CASE TailStep
    BY <2>1, TailStepIsNext
  <2>2. CASE WindowStep
    BY <2>2, WindowJoinIsNext DEF WindowStep, WindowFork, WindowWork, tail, Next, Step
  <2>3. CASE SketchStep
    BY <2>3 DEF SketchStep, SketchStarts, SketchNoMemory, SketchFallsThrough, SketchJoin,
                SketchSerial, SketchWork, tail
  <2>4. CASE KeepStep \/ CandidateStep \/ ResetStep
    BY <2>4 DEF KeepStep, KeepStarts, KeepPasses, KeepRefuses, KeepFails, Keeps, Adding,
                CandidateStep, CandidateNoMemory, CandidateMade, CandidateRejected,
                CandidateDue, ResetStep, ResetNoMemory, ResetRow, ResetContradicts,
                ResetResolves, ResetAgain, ResetGrey, Resetting, PassEnds
  <2>5. CASE UNCHANGED blockVars
    BY <2>5 DEF blockVars, tail
  <2> QED BY <2>1, <2>2, <2>3, <2>4, <2>5 DEF BlockNext, BlockStep
<1> QED BY <1>1, BlockInvariant, PTL DEF BlockSpec, ImplementsTail

\* The budgets count the terms of each output, and the outputs hold each row.
LEMMA BudgetIsTerms ==
  ASSUME BlockInv, phase = "sketch", NEW o \in Outputs
  PROVE  budget[o] = SumFunction(terms[o])
<1>1. terms = Terms(Remainder) /\ budget = Lengths(Remainder)
  BY DEF BlockInv, SketchShares
<1>2. terms[o] = [r \in Remainder |-> Draws(r, o)]
  BY <1>1 DEF Terms
<1>3. budget[o] = SumFunction([r \in Remainder |-> Draws(r, o)])
  BY <1>1 DEF Lengths
<1> QED BY <1>2, <1>3

\* Every row is in as many buckets as it has draws, and in each validator.
LEMMA RowIsDrawn ==
  ASSUME BlockInv, phase = "sketch", NEW r \in Nonzero(Remainder)
  PROVE  /\ SumFunction([k \in Buckets |-> terms[<<"C", k>>][r]]) = sp
         /\ \A v \in Validators : terms[<<"E", v>>][r] = 1
<1>1. terms = Terms(Remainder) /\ sp \in 1..2 /\ r \in Remainder
  BY DEF BlockInv, SketchShares, SketchTypes, Nonzero
<1>2. \A o \in Outputs : terms[o][r] = Draws(r, o)
  BY <1>1 DEF Terms
<1>3. ASSUME NEW v \in Validators PROVE terms[<<"E", v>>][r] = 1
  <2>1. <<"E", v>> \in Outputs
    BY DEF Outputs
  <2> QED BY <1>2, <2>1 DEF Draws
<1> DEFINE D == 1..sp
           f == [d \in D |-> Hash(r, d)]
<1>4. f \in [D -> Buckets]
  BY <1>1, FiniteAssumption
<1>5. IsFiniteSet(D) /\ Cardinality(D) = sp
  <2>1. sp \in Int /\ ~(1 > sp) /\ sp - 1 + 1 = sp
    BY <1>1
  <2> QED BY <2>1, FS_Interval
<1>6. ASSUME NEW k \in Buckets
      PROVE  terms[<<"C", k>>][r] = Cardinality({d \in D : f[d] = k})
  <2>1. <<"C", k>> \in Outputs
    BY DEF Outputs
  <2>2. Draws(r, <<"C", k>>) = Cardinality({d \in 1..sp : Hash(r, d) = k})
    BY DEF Draws
  <2>3. {d \in D : f[d] = k} = {d \in 1..sp : Hash(r, d) = k}
    OBVIOUS
  <2> QED BY <1>2, <2>1, <2>2, <2>3
<1>7. [k \in Buckets |-> terms[<<"C", k>>][r]]
        = [k \in Buckets |-> Cardinality({d \in D : f[d] = k})]
  BY <1>6
<1> HIDE DEF D, f
<1>8. SumFunction([k \in Buckets |-> Cardinality({d \in D : f[d] = k})]) = Cardinality(D)
  BY <1>4, <1>5, FiniteAssumption, SumCounts
<1> QED BY <1>3, <1>5, <1>7, <1>8

\* The rounding budgets count the rows they speak of, and none is missing,
\* however many threads made the sketch.
THEOREM BlockBudgets == BlockSpec => []BudgetMatchesSketch
<1>1. BlockInv => BudgetMatchesSketch
  BY BudgetIsTerms, RowIsDrawn DEF BudgetMatchesSketch
<1> QED BY <1>1, BlockInvariant, PTL

\* With threads, too, each row weighs once, no screen is outdated, and a
\* proposal is complete.
THEOREM BlockWeights == BlockSpec => [](EachRowOnce /\ RescreenedAfterGrowth /\ InfiniteIsComplete)
<1>1. BlockInv => EachRowOnce /\ RescreenedAfterGrowth /\ InfiniteIsComplete
  BY DEF BlockInv, TailInv
<1> QED BY <1>1, BlockInvariant, PTL

-----------------------------------------------------------------------------
(***************************************************************************)
(* Rank and solvability of the rows.                                       *)
(***************************************************************************)
\* The axes that the nonzero rows of a set lie on, and all there can be.
Axes(rows) == {Axis(r) : r \in Nonzero(rows)}
PrefixAxes == {"prefix"} \X (0..(P - 1))
AllAxes    == PrefixAxes \union ({"new"} \X Directions)

\* As many axes lie in the prefix as it has rows, and as many in all as there
\* are columns.
LEMMA AxesFinite ==
  /\ IsFiniteSet(PrefixAxes) /\ Cardinality(PrefixAxes) = P
  /\ IsFiniteSet(AllAxes) /\ Cardinality(AllAxes) = Cols
<1>1. P \in Nat \ {0} /\ Cardinality(Directions) \in Nat
  BY TailAssumption, BlockAssumption, FiniteAssumption, FS_CardinalityType
<1>2. IsFiniteSet(0..(P - 1)) /\ Cardinality(0..(P - 1)) = P
  <2>1. 0 \in Int /\ P - 1 \in Int /\ ~(0 > P - 1) /\ (P - 1) - 0 + 1 = P
    BY <1>1
  <2> QED BY <2>1, FS_Interval
<1>3. ASSUME NEW w, NEW X, IsFiniteSet(X)
      PROVE  IsFiniteSet({w} \X X) /\ Cardinality({w} \X X) = Cardinality(X)
  <2> DEFINE W1 == {w}
  <2>1. IsFiniteSet(W1) /\ Cardinality(W1) = 1
    BY FS_Singleton
  <2> HIDE DEF W1
  <2>2. IsFiniteSet(W1 \X X) /\ Cardinality(W1 \X X) = Cardinality(W1) * Cardinality(X)
    BY <1>3, <2>1, FS_Product
  <2>3. Cardinality(X) \in Nat
    BY <1>3, FS_CardinalityType
  <2> QED BY <2>1, <2>2, <2>3 DEF W1
<1>4. IsFiniteSet(PrefixAxes) /\ Cardinality(PrefixAxes) = P
  BY <1>2, <1>3 DEF PrefixAxes
<1> DEFINE newAxes == {"new"} \X Directions
<1>5. IsFiniteSet(newAxes) /\ Cardinality(newAxes) = Cardinality(Directions)
  BY <1>3, FiniteAssumption
<1>6. PrefixAxes \cap newAxes = {}
  BY DEF PrefixAxes
<1>7. Cardinality(PrefixAxes \cap newAxes) = 0
  <2> HIDE DEF newAxes
  <2> QED BY <1>6, FS_EmptySet
<1>8. /\ IsFiniteSet(PrefixAxes \union newAxes)
      /\ Cardinality(PrefixAxes \union newAxes)
           = Cardinality(PrefixAxes) + Cardinality(newAxes) - Cardinality(PrefixAxes \cap newAxes)
  <2> HIDE DEF newAxes
  <2> QED BY <1>4, <1>5, FS_Union
<1> QED BY <1>1, <1>4, <1>5, <1>7, <1>8 DEF AllAxes, Cols

\* A row of the source lies in the prefix or brings a direction.
LEMMA AxisIs ==
  ASSUME NEW r \in Source
  PROVE  Axis(r) \in AllAxes
<1>1. r < P \/ r \in Remainder
  BY TailAssumption DEF Source, Remainder
<1>2. 0 \in 0..(P - 1) /\ (r < P => r \in 0..(P - 1))
  BY TailAssumption, BlockAssumption DEF Source
<1> QED BY <1>1, <1>2 DEF Axis, AllAxes, PrefixAxes

\* The rank counts axes and is at most the number of columns.
LEMMA RankIs ==
  ASSUME NEW rows \in SUBSET Source
  PROVE  /\ Axes(rows) \subseteq AllAxes /\ IsFiniteSet(Axes(rows))
         /\ RankOf(rows) = Cardinality(Axes(rows)) /\ RankOf(rows) \in 0..Cols
<1>1. Axes(rows) \subseteq AllAxes
  BY AxisIs DEF Axes, Nonzero
<1>2. IsFiniteSet(Axes(rows)) /\ Cardinality(Axes(rows)) <= Cols
  BY <1>1, AxesFinite, FS_Subset
<1>3. Cardinality(Axes(rows)) \in Nat
  BY <1>2, FS_CardinalityType
<1> QED BY <1>1, <1>2, <1>3, ColsIs DEF RankOf, Axes

\* More rows have at least the rank of fewer.
LEMMA RankMonotone ==
  ASSUME NEW rows \in SUBSET Source, NEW part \in SUBSET rows
  PROVE  RankOf(part) <= RankOf(rows)
<1>1. Axes(part) \subseteq Axes(rows)
  BY DEF Axes, Nonzero
<1> QED BY <1>1, RankIs, FS_Subset

\* A row is in the span of others, or it adds one to their rank.
LEMMA RankOfOneMore ==
  ASSUME NEW rows \in SUBSET Source, NEW r \in Source
  PROVE  /\ r \in Nonzero({r}) /\ Axis(r) \notin Axes(rows)
              => RankOf(rows \union {r}) = RankOf(rows) + 1
         /\ r \notin Nonzero({r}) \/ Axis(r) \in Axes(rows)
              => RankOf(rows \union {r}) = RankOf(rows)
<1>1. CASE r \in Nonzero({r})
  <2>1. Axes(rows \union {r}) = Axes(rows) \union {Axis(r)}
    BY <1>1 DEF Axes, Nonzero
  <2>2. Axis(r) \notin Axes(rows)
          => Cardinality(Axes(rows) \union {Axis(r)}) = Cardinality(Axes(rows)) + 1
    BY RankIs, FS_AddElement
  <2>3. rows \union {r} \in SUBSET Source
    OBVIOUS
  <2>4. RankOf(rows \union {r}) = Cardinality(Axes(rows) \union {Axis(r)})
    BY <2>1, <2>3, RankIs
  <2>5. Axis(r) \in Axes(rows) => Axes(rows) \union {Axis(r)} = Axes(rows)
    OBVIOUS
  <2> QED BY <1>1, <2>2, <2>4, <2>5, RankIs
<1>2. CASE r \notin Nonzero({r})
  <2>1. Axes(rows \union {r}) = Axes(rows)
    BY <1>2 DEF Axes, Nonzero
  <2>2. rows \union {r} \in SUBSET Source
    OBVIOUS
  <2> QED BY <1>2, <2>1, <2>2, RankIs
<1> QED BY <1>1, <1>2

\* The prefix rows are independent, and each new direction adds one.
LEMMA RankOfSource ==
  /\ P <= RankOf(Source) /\ RankOf(Source) \in 0..Cols /\ P \in 0..Cols
  /\ (\E r \in Remainder : kind[r] \in Directions) => P + 1 <= RankOf(Source)
  /\ Directions \subseteq {kind[r] : r \in Remainder} => RankOf(Source) = Cols
<1>0. P \in Nat \ {0} /\ M \in Nat /\ P <= M /\ Source \in SUBSET Source
  BY TailAssumption, BlockAssumption
<1>1. PrefixAxes \subseteq Axes(Source)
  <2> SUFFICES ASSUME NEW r \in 0..(P - 1) PROVE <<"prefix", r>> \in Axes(Source)
    BY DEF PrefixAxes
  <2>1. r \in Nonzero(Source) /\ Axis(r) = <<"prefix", r>>
    BY <1>0 DEF Nonzero, Axis, Source
  <2> QED BY <2>1 DEF Axes
<1>2. ASSUME NEW r \in Remainder, kind[r] \in Directions
      PROVE  <<"new", kind[r]>> \in Axes(Source)
  <2>1. r \in Nonzero(Source)
    BY <1>0, <1>2, DirectionAssumption DEF Nonzero, Source, Remainder, Zero
  <2>2. Axis(r) = <<"new", kind[r]>>
    BY <1>0, <1>2 DEF Axis, Remainder
  <2> QED BY <2>1, <2>2 DEF Axes
<1>3. IsFiniteSet(Axes(Source)) /\ RankOf(Source) = Cardinality(Axes(Source))
      /\ Axes(Source) \subseteq AllAxes /\ RankOf(Source) \in 0..Cols
  BY <1>0, RankIs
<1>4. P <= RankOf(Source)
  BY <1>1, <1>3, AxesFinite, FS_Subset
<1>5. ASSUME NEW r \in Remainder, kind[r] \in Directions
      PROVE  P + 1 <= RankOf(Source)
  <2>1. <<"new", kind[r]>> \notin PrefixAxes
    BY DEF PrefixAxes
  <2>2. Cardinality(PrefixAxes \union {<<"new", kind[r]>>}) = P + 1
    BY <2>1, AxesFinite, FS_AddElement
  <2>3. PrefixAxes \union {<<"new", kind[r]>>} \subseteq Axes(Source)
    BY <1>1, <1>2, <1>5
  <2> QED BY <1>3, <2>2, <2>3, FS_Subset
<1>6. ASSUME Directions \subseteq {kind[r] : r \in Remainder}
      PROVE  RankOf(Source) = Cols
  <2>1. \A d \in Directions : <<"new", d>> \in Axes(Source)
    BY <1>2, <1>6
  <2>2. Axes(Source) = AllAxes
    BY <1>1, <1>3, <2>1 DEF AllAxes
  <2> QED BY <1>3, <2>2, AxesFinite
<1>7. P \in 0..Cols
  BY <1>0, <1>3, <1>4, ColsIs
<1> QED BY <1>3, <1>4, <1>5, <1>6, <1>7

\* A row that contradicts the prefix, or 0 = 1, makes the source unsolvable.
LEMMA SourceRefuted ==
  ASSUME NEW r \in Remainder, kind[r] \in {"falsezero", "contradicts"}
  PROVE  ~Agree(Source)
<1>0. P \in Nat \ {0} /\ M \in Nat /\ P <= M
  BY TailAssumption, BlockAssumption
<1>1. r \in Source /\ ~(r < P)
  BY <1>0 DEF Source, Remainder
<1>2. CASE kind[r] = "falsezero"
  BY <1>1, <1>2 DEF Agree
<1>3. CASE kind[r] = "contradicts"
  <2>1. 0 \in Nonzero(Source) /\ Axis(0) = <<"prefix", 0>> /\ ~Off(0)
    BY <1>0 DEF Nonzero, Source, Axis, Off
  <2>2. kind[r] \notin Directions
    BY <1>3, DirectionAssumption
  <2>3. r \in Nonzero(Source) /\ Axis(r) = <<"prefix", 0>>
    BY <1>1, <1>3, <2>2 DEF Nonzero, Axis, Zero
  <2>4. Off(r)
    BY <1>0, <1>1, <1>3 DEF Off, Remainder
  <2> QED BY <2>1, <2>3, <2>4 DEF Agree
<1> QED BY <1>2, <1>3

\* A part of a solvable source is solvable.
LEMMA AgreeMonotone ==
  ASSUME NEW part \in SUBSET Source, ~Agree(part)
  PROVE  ~Agree(Source)
BY DEF Agree, Nonzero

\* An empty set has no rank; a row has none exactly if it is zero.
LEMMA RankOfRow ==
  ASSUME NEW r \in Source
  PROVE  RankOf({}) = 0 /\ (RankOf({r}) = 0 <=> r \notin Nonzero({r}))
<1>1. Axes({}) = {}
  BY DEF Axes, Nonzero
<1>2. {} \in SUBSET Source /\ {} \union {r} = {r}
  OBVIOUS
<1>3. RankOf({}) = 0
  BY <1>1, <1>2, RankIs, FS_EmptySet
<1>4. /\ r \in Nonzero({r}) => RankOf({r}) = 1
      /\ r \notin Nonzero({r}) => RankOf({r}) = 0
  BY <1>1, <1>2, <1>3, RankOfOneMore
<1> QED BY <1>3, <1>4

-----------------------------------------------------------------------------
(***************************************************************************)
(* What Bundle assumes of its rows holds of those of BlockRows.            *)
(***************************************************************************)
LEMMA SourceRank == B!SizeAssumption /\ B!RankAssumption
<1>1. B!SizeAssumption
  BY ColsIs DEF B!SizeAssumption
<1>2. 0 \in Source
  BY TailAssumption, BlockAssumption DEF Source
<1>3. RankOf({}) = 0
  BY <1>2, RankOfRow
<1>4. ASSUME NEW S \in SUBSET Source
      PROVE  RankOf(S) \in 0..Cols
  BY RankIs
<1>5. ASSUME NEW S \in SUBSET Source, NEW T \in SUBSET Source, S \subseteq T
      PROVE  RankOf(S) <= RankOf(T)
  BY <1>5, RankMonotone
<1>6. ASSUME NEW S \in SUBSET Source, NEW a \in Source
      PROVE  RankOf(S \union {a}) \in {RankOf(S), RankOf(S) + 1}
  BY RankOfOneMore
<1>7. ASSUME NEW S \in SUBSET Source, NEW T \in SUBSET Source, NEW a \in Source,
             S \subseteq T, RankOf(S \union {a}) = RankOf(S)
      PROVE  RankOf(T \union {a}) = RankOf(T)
  <2>1. RankOf(S) \in 0..Cols
    BY RankIs
  <2>2. a \notin Nonzero({a}) \/ Axis(a) \in Axes(S)
    BY <1>7, <2>1, RankOfOneMore, ColsIs
  <2>3. Axes(S) \subseteq Axes(T)
    BY <1>7 DEF Axes, Nonzero
  <2> QED BY <2>2, <2>3, RankOfOneMore
<1>8. B!RankAssumption
  BY <1>3, <1>4, <1>5, <1>6, <1>7 DEF B!RankAssumption
<1> QED BY <1>1, <1>8

\* The rows agree as linear equations do.
LEMMA SourceSolvability == B!ConsistentAssumption
<1>1. \A S \in SUBSET Source : Agree(S) \in BOOLEAN
  BY DEF Agree
<1>2. Agree({})
  BY DEF Agree, Nonzero
<1>3. ASSUME NEW S, NEW T, S \subseteq T, Agree(T)
      PROVE  Agree(S)
  BY <1>3 DEF Agree, Nonzero
\* A row that agrees with what shares its axis can be added.
<1>4. ASSUME NEW S \in SUBSET Source, NEW a \in Source, Agree(S),
             a \in Remainder => kind[a] # "falsezero",
             a \in Nonzero({a}) =>
               \A q \in Nonzero(S) : Axis(q) = Axis(a) => Off(q) = Off(a)
      PROVE  Agree(S \union {a})
  <2>1. \A r \in (S \union {a}) \intersect Remainder : kind[r] # "falsezero"
    BY <1>4 DEF Agree
  <2>2. ASSUME NEW q \in Nonzero(S \union {a}), NEW r \in Nonzero(S \union {a}),
               Axis(q) = Axis(r)
        PROVE  Off(q) = Off(r)
    <3>1. /\ q \in Nonzero(S) \/ (q = a /\ a \in Nonzero({a}))
          /\ r \in Nonzero(S) \/ (r = a /\ a \in Nonzero({a}))
      BY DEF Nonzero
    <3> QED BY <1>4, <2>2, <3>1 DEF Agree
  <2> QED BY <2>1, <2>2 DEF Agree
<1>5. ASSUME NEW S \in SUBSET Source, NEW a \in Source, Agree(S),
             RankOf(S \union {a}) = RankOf(S) + 1
      PROVE  Agree(S \union {a})
  <2>1. RankOf(S) \in 0..Cols
    BY RankIs
  <2>2. a \in Nonzero({a}) /\ Axis(a) \notin Axes(S)
    BY <1>5, <2>1, RankOfOneMore, ColsIs
  <2>3. a \in Remainder => kind[a] # "falsezero"
    BY <2>2, TailAssumption DEF Nonzero, Zero, Remainder
  <2> QED BY <1>4, <1>5, <2>2, <2>3 DEF Axes
<1>6. ASSUME NEW S \in SUBSET Source, NEW T \in SUBSET Source, NEW a \in Source,
             S \subseteq T, Agree(T), RankOf(S \union {a}) = RankOf(S), Agree(S \union {a})
      PROVE  Agree(T \union {a})
  <2>1. RankOf(S) \in 0..Cols
    BY RankIs
  <2>2. a \notin Nonzero({a}) \/ Axis(a) \in Axes(S)
    BY <1>6, <2>1, RankOfOneMore, ColsIs
  <2>3. a \in Remainder => kind[a] # "falsezero"
    BY <1>6 DEF Agree
  <2>4. ASSUME a \in Nonzero({a}), NEW q \in Nonzero(T), Axis(q) = Axis(a)
        PROVE  Off(q) = Off(a)
    <3>1. PICK b \in Nonzero(S) : Axis(b) = Axis(a)
      BY <2>2, <2>4 DEF Axes
    <3>2. b \in Nonzero(T) /\ {a, b} \subseteq Nonzero(S \union {a})
      BY <1>6, <2>4 DEF Nonzero
    <3>3. Off(b) = Off(a)
      BY <1>6, <3>1, <3>2 DEF Agree
    <3>4. Off(q) = Off(b)
      BY <1>6, <2>4, <3>1, <3>2 DEF Agree
    <3> QED BY <3>3, <3>4
  <2> QED BY <1>4, <1>6, <2>3, <2>4
<1> QED BY <1>1, <1>2, <1>3, <1>5, <1>6 DEF B!ConsistentAssumption

\* The data of BlockRows are an instance of what Bundle asks of linear algebra:
\* nothing that is proved from the one's assumptions is lost in the other.
THEOREM RowsAreEquations == B!SizeAssumption /\ B!RankAssumption /\ B!ConsistentAssumption
  BY SourceRank, SourceSolvability

-----------------------------------------------------------------------------
(***************************************************************************)
(* What the rows of the route come to, for the router.                     *)
(***************************************************************************)
\* A row the basis accounts for: it is met by what meets the basis.
Represented(r) ==
    /\ r \in Remainder => kind[r] # "falsezero"
    /\ r \in Nonzero({r}) => \E b \in s.basis : Axis(b) = Axis(r) /\ Off(b) = Off(r)

\* What the route knows of the source: rank and solvability are those of its
\* rows, the basis of the reset solves itself and has the rank it counts, and a
\* pass without a grey row leaves nothing behind that the basis does not cover.
RouteInv ==
    /\ sys.rank = RankOf(Source) /\ sys.cons = Agree(Source)
    /\ phase # "done" => R.cls = "none"
    /\ grey \in BOOLEAN /\ amb \in BOOLEAN
    /\ amb \/ "svd_scratch" \in seen => "grey" \in seen
    /\ s.basis \subseteq Nonzero(Source) /\ RankOf(s.basis) = s.r /\ Agree(s.basis)
    /\ ~amb => \A r \in Source : r < row => Represented(r)

\* What an insertion without a contradiction says of the row.
LEMMA InsertMeans ==
  ASSUME ResetBundle, RouteInv, row \in Source, NEW o \in B!InsertCertified(s, row),
         ~o.s.inconsistent
  PROVE  \/ o.rc = "ABSORB" /\ o.s = s /\ Represented(row)
         \/ /\ o.rc = "GROW" /\ o.s.basis = s.basis \union {row} /\ o.s.r = s.r + 1
            /\ row \in Nonzero({row}) /\ Axis(row) \notin Axes(s.basis)
         \/ o.rc = "DEFER" /\ o.s = s /\ o.failed \in {"none", "svd_scratch"}
<1>1. /\ s.basis \in SUBSET Source /\ s.r \in 0..Cols /\ s.qcap = Cols
      /\ s.inconsistent = FALSE /\ s.r = RankOf(s.basis)
  BY DEF ResetBundle, RouteInv, B!BState
<1>2. CASE B!Zero(row)
  <2>1. row \notin Nonzero({row})
    BY <1>2, RankOfRow DEF B!Zero
  <2>2. o.rc = "ABSORB" /\ o.s = s /\ Agree({row})
    BY <1>1, <1>2 DEF B!InsertCertified, B!ZeroRow, B!Outcome, B!Contradicted
  <2>3. row \in Remainder => kind[row] # "falsezero"
    BY <2>2 DEF Agree
  <2> QED BY <2>1, <2>2, <2>3 DEF Represented
<1>3. CASE ~B!Zero(row)
  <2>1. row \in Nonzero({row})
    BY <1>3, RankOfRow DEF B!Zero
  <2>2. PICK mu \in B!DistanceInterval(s, row) : o \in B!Decided(mu, s, row)
    BY <1>1, <1>3 DEF B!InsertCertified
  <2>3. CASE mu = "above"
    <3>1. Axis(row) \notin Axes(s.basis)
      <4>1. ~B!Dependent(s, row)
        BY <2>2, <2>3 DEF B!DistanceInterval
      <4> QED BY <1>1, <4>1, RankOfOneMore DEF B!Dependent
    <3>2. o \in B!Grown(s, row)
      BY <2>2, <2>3 DEF B!Decided
    <3>3. \/ o.rc = "DEFER" /\ o.s = s /\ o.failed = "none"
          \/ o.rc = "GROW" /\ o.s = B!WithRow(s, row, Cols)
      BY <1>1, <3>2, ColsIs DEF B!Grown, B!Outcome
    <3> QED BY <2>1, <3>1, <3>3 DEF B!WithRow
  <2>4. CASE mu = "below"
    <3>1. B!Dependent(s, row)
      BY <2>2, <2>4 DEF B!DistanceInterval
    <3>2. Axis(row) \in Axes(s.basis)
      <4>1. RankOf(s.basis) \in 0..Cols
        BY <1>1, RankIs
      <4>2. RankOf(s.basis \union {row}) # RankOf(s.basis) + 1
        BY <3>1, <4>1, ColsIs DEF B!Dependent
      <4> QED BY <1>1, <2>1, <4>2, RankOfOneMore
    <3>3. o \in B!Reduced(s, row)
      BY <2>2, <2>4 DEF B!Decided
    <3>4. \/ o.rc = "DEFER" /\ o.s = s /\ o.failed \in {"none", "svd_scratch"}
          \/ o.rc = "ABSORB" /\ o.s = s /\ Agree(s.basis \union {row})
      BY <1>1, <3>3 DEF B!Reduced, B!Met, B!Arbitrated, B!Contradicted, B!Outcome
    <3>5. ASSUME Agree(s.basis \union {row}) PROVE Represented(row)
      <4>1. PICK b \in Nonzero(s.basis) : Axis(b) = Axis(row)
        BY <3>2 DEF Axes
      <4>2. {b, row} \subseteq Nonzero(s.basis \union {row}) /\ b \in s.basis
        BY <2>1, <4>1 DEF Nonzero
      <4>3. Off(b) = Off(row)
        BY <3>5, <4>1, <4>2 DEF Agree
      <4>4. row \in Remainder => kind[row] # "falsezero"
        BY <3>5 DEF Agree
      <4> QED BY <4>1, <4>2, <4>3, <4>4 DEF Represented
    <3> QED BY <3>4, <3>5
  <2>5. CASE mu = "between"
    BY <2>2, <2>5 DEF B!Decided, B!Outcome
  <2> QED BY <2>2, <2>3, <2>4, <2>5 DEF B!DistanceInterval
<1> QED BY <1>2, <1>3

\* A contradiction that an insertion meets is one of the source.
LEMMA InsertRefutes ==
  ASSUME ResetBundle, row \in Source, NEW o \in B!InsertCertified(s, row), o.s.inconsistent
  PROVE  ~Agree(Source)
<1>1. s.basis \in SUBSET Source /\ s.inconsistent = FALSE
  BY DEF ResetBundle, B!BState
<1>2. CASE B!Zero(row)
  <2>1. ~Agree({row})
    BY <1>1, <1>2 DEF B!InsertCertified, B!ZeroRow, B!Outcome
  <2> QED BY <2>1, AgreeMonotone
<1>3. CASE ~B!Zero(row)
  <2>1. PICK mu \in B!DistanceInterval(s, row) : o \in B!Decided(mu, s, row)
    BY <1>1, <1>3 DEF B!InsertCertified
  <2>2. o \in B!Reduced(s, row)
    BY <1>1, <2>1 DEF B!Decided, B!Grown, B!Reallocated, B!WithRow, B!Outcome,
                      B!DistanceInterval
  <2>3. ~Agree(s.basis \union {row})
    BY <1>1, <2>2 DEF B!Reduced, B!Met, B!Outcome
  <2> QED BY <1>1, <2>3, AgreeMonotone
<1> QED BY <1>2, <1>3

\* The data stay what they are.
LEMMA DataKept ==
  ASSUME UNCHANGED <<kind, greyMeets>>
  PROVE  /\ \A r : Axis(r)' = Axis(r) /\ Off(r)' = Off(r)
         /\ \A z : Nonzero(z)' = Nonzero(z)
         /\ RankOf(Source)' = RankOf(Source) /\ Agree(Source)' = Agree(Source)
         /\ RankOf(s.basis)' = RankOf(s'.basis) /\ Agree(s.basis)' = Agree(s'.basis)
         /\ \A r : Represented(r)' <=>
                     /\ r \in Remainder => kind[r] # "falsezero"
                     /\ r \in Nonzero({r}) =>
                          \E b \in s'.basis : Axis(b) = Axis(r) /\ Off(b) = Off(r)
<1>1. \A r : Axis(r)' = Axis(r) /\ Off(r)' = Off(r)
  BY DEF Axis, Off
<1>2. \A z : Nonzero(z)' = Nonzero(z)
  BY DEF Nonzero, Zero
<1>3. RankOf(Source)' = RankOf(Source) /\ RankOf(s.basis)' = RankOf(s'.basis)
  BY DEF RankOf, Axis, Nonzero, Zero, Source
<1>4. Agree(Source)' = Agree(Source) /\ Agree(s.basis)' = Agree(s'.basis)
  BY DEF Agree, Axis, Off, Nonzero, Zero, Source, Remainder
<1>5. \A r : Represented(r)' <=>
               /\ r \in Remainder => kind[r] # "falsezero"
               /\ r \in Nonzero({r}) =>
                    \E b \in s'.basis : Axis(b) = Axis(r) /\ Off(b) = Off(r)
  BY DEF Represented, Axis, Off, Nonzero, Zero, Remainder
<1> QED BY <1>1, <1>2, <1>3, <1>4, <1>5

\* A step that is not of the reset's rows.
LEMMA RouteKept ==
  ASSUME RouteInv, UNCHANGED <<kind, data>>, UNCHANGED reset, grey' \in BOOLEAN,
         phase' # "done" => phase # "done" /\ R' = R
  PROVE  RouteInv'
<1>1. UNCHANGED <<kind, greyMeets, sys, s, row, amb, seen>>
  BY DEF data, reset
<1>2. /\ RankOf(Source)' = RankOf(Source) /\ Agree(Source)' = Agree(Source)
      /\ RankOf(s.basis)' = RankOf(s.basis) /\ Agree(s.basis)' = Agree(s.basis)
      /\ Nonzero(Source)' = Nonzero(Source)
      /\ \A r : Represented(r)' <=> Represented(r)
  BY <1>1, DataKept DEF Represented
<1>3. sys'.rank = RankOf(Source)' /\ sys'.cons = Agree(Source)'
  BY <1>1, <1>2 DEF RouteInv
<1>4. phase' # "done" => R'.cls = "none"
  BY DEF RouteInv
<1>5. s'.basis \subseteq Nonzero(Source)' /\ RankOf(s.basis)' = s'.r /\ Agree(s.basis)'
  BY <1>1, <1>2 DEF RouteInv
<1>6. ~amb' => \A r \in Source : r < row' => Represented(r)'
  BY <1>1, <1>2 DEF RouteInv
<1>7. amb' \in BOOLEAN /\ (amb' \/ "svd_scratch" \in seen' => "grey" \in seen')
  BY <1>1 DEF RouteInv
<1> QED BY <1>3, <1>4, <1>5, <1>6, <1>7 DEF RouteInv, Source

\* An insertion that grows takes a row in that what is taken already allows.
LEMMA AgreeGrows ==
  ASSUME RouteInv, row \in Source, row \in Nonzero({row}), Axis(row) \notin Axes(s.basis)
  PROVE  /\ Agree(s.basis \union {row}) /\ RankOf(s.basis \union {row}) = s.r + 1
         /\ s.basis \union {row} \subseteq Nonzero(Source)
<1>0. s.basis \in SUBSET Source
  BY DEF RouteInv, Nonzero
<1>1. RankOf(s.basis \union {row}) = s.r + 1
  BY <1>0, RankOfOneMore DEF RouteInv
<1>2. s.basis \union {row} \subseteq Nonzero(Source)
  BY DEF RouteInv, Nonzero
<1>3. \A r \in (s.basis \union {row}) \intersect Remainder : kind[r] # "falsezero"
  <2>1. \A r \in Remainder : ~(r < P)
    BY TailAssumption DEF Remainder
  <2> QED BY <1>2, <2>1 DEF Nonzero, Zero
<1>4. ASSUME NEW q \in Nonzero(s.basis \union {row}), NEW r \in Nonzero(s.basis \union {row}),
             Axis(q) = Axis(r)
      PROVE  Off(q) = Off(r)
  <2>1. \A b \in s.basis : b \in Nonzero(s.basis) /\ Axis(b) # Axis(row)
    BY DEF RouteInv, Nonzero, Axes
  <2>2. q \in s.basis \union {row} /\ r \in s.basis \union {row}
    BY DEF Nonzero
  <2>3. CASE q = row \/ r = row
    BY <1>4, <2>1, <2>2, <2>3
  <2>4. CASE q \in s.basis /\ r \in s.basis
    BY <1>4, <2>1, <2>4 DEF RouteInv, Agree
  <2> QED BY <2>2, <2>3, <2>4
<1> QED BY <1>1, <1>2, <1>3, <1>4 DEF Agree

\* A row of the reset that is absorbed, grows the basis or stays grey.
LEMMA RouteRow ==
  ASSUME ResetBundle, RouteInv, ResetRow, UNCHANGED kind
  PROVE  RouteInv'
<1>1. /\ phase = "reset" /\ row \in Source /\ row \in Nat
      /\ UNCHANGED <<kind, greyMeets, sys, phase, R, grey>>
  BY TailAssumption DEF ResetRow, Resetting, ResetBundle, report, Source, data
<1>2. PICK o \in B!InsertCertified(s, row) :
        /\ ~o.s.inconsistent
        /\ s' = o.s /\ row' = row + 1
        /\ amb' = (amb \/ o.rc = "DEFER")
        /\ seen' = seen \union (IF o.rc = "DEFER" THEN {"grey", o.failed} \ {"none"} ELSE {})
  BY DEF ResetRow
<1>3. \/ o.rc = "ABSORB" /\ o.s = s /\ Represented(row)
      \/ /\ o.rc = "GROW" /\ o.s.basis = s.basis \union {row} /\ o.s.r = s.r + 1
         /\ row \in Nonzero({row}) /\ Axis(row) \notin Axes(s.basis)
      \/ o.rc = "DEFER" /\ o.s = s /\ o.failed \in {"none", "svd_scratch"}
  BY <1>1, <1>2, InsertMeans
<1>4. s'.basis \subseteq Nonzero(Source) /\ RankOf(s'.basis) = s'.r /\ Agree(s'.basis)
  <2>1. CASE o.s = s
    BY <1>2, <2>1 DEF RouteInv
  <2>2. CASE /\ o.s.basis = s.basis \union {row} /\ o.s.r = s.r + 1
             /\ row \in Nonzero({row}) /\ Axis(row) \notin Axes(s.basis)
    BY <1>1, <1>2, <2>2, AgreeGrows
  <2> QED BY <1>3, <2>1, <2>2
<1>5. s.basis \subseteq s'.basis
  BY <1>2, <1>3
<1>6. ASSUME ~amb', NEW r \in Source, r < row'
      PROVE  /\ r \in Remainder => kind[r] # "falsezero"
             /\ r \in Nonzero({r}) => \E b \in s'.basis : Axis(b) = Axis(r) /\ Off(b) = Off(r)
  <2>1. r < row \/ r = row
    BY <1>1, <1>2, <1>6, TailAssumption DEF Source
  <2>2. ~amb /\ o.rc # "DEFER"
    BY <1>2, <1>6
  <2>3. CASE r < row
    BY <1>5, <2>2, <2>3 DEF RouteInv, Represented
  <2>4. CASE r = row /\ Represented(row)
    BY <1>5, <2>4 DEF Represented
  <2>5. CASE r = row /\ o.s.basis = s.basis \union {row} /\ row \in Nonzero({row})
    <3>1. row \in Remainder => kind[row] # "falsezero"
      BY <2>5, TailAssumption DEF Nonzero, Zero, Remainder
    <3> QED BY <1>2, <2>5, <3>1
  <2> QED BY <1>3, <2>1, <2>2, <2>3, <2>4, <2>5
<1>7. ~amb' => \A r \in Source : r < row' => Represented(r)'
  BY <1>1, <1>6, DataKept
<1>8. amb' \in BOOLEAN /\ (amb' \/ "svd_scratch" \in seen' => "grey" \in seen')
  BY <1>2, <1>3 DEF RouteInv
<1>9. sys'.rank = RankOf(Source)' /\ sys'.cons = Agree(Source)'
  BY <1>1, DataKept DEF RouteInv
<1>10. s'.basis \subseteq Nonzero(Source)' /\ RankOf(s.basis)' = s'.r /\ Agree(s.basis)'
  BY <1>1, <1>4, DataKept
<1> QED BY <1>1, <1>7, <1>8, <1>9, <1>10 DEF RouteInv, Source

\* A basis without rows represents the rows before the first.
LEMMA RouteBlank ==
  ASSUME RouteInv, UNCHANGED <<kind, data>>, grey' \in BOOLEAN, s' = Blank \/ s' = s,
         row' = 0, amb' = FALSE, seen' \in {{}, seen},
         phase' # "done" => phase # "done" /\ R' = R
  PROVE  RouteInv'
<1>1. sys'.rank = RankOf(Source)' /\ sys'.cons = Agree(Source)'
  BY DataKept DEF RouteInv, data
<1>2. s'.basis \subseteq Nonzero(Source)' /\ RankOf(s.basis)' = s'.r /\ Agree(s.basis)'
  <2>1. CASE s' = s
    BY <2>1, DataKept DEF RouteInv, data
  <2>2. CASE s' = Blank
    <3>1. s'.basis = {} /\ s'.r = 0
      BY <2>2 DEF Blank
    <3>2. RankOf({}) = 0
      <4>1. 0 \in Source
        BY TailAssumption, BlockAssumption DEF Source
      <4> QED BY <4>1, RankOfRow
    <3>3. Agree({})
      BY DEF Agree, Nonzero
    <3> QED BY <3>1, <3>2, <3>3, DataKept DEF data
  <2> QED BY <2>1, <2>2
<1>3. \A r \in Source : ~(r < row')
  BY TailAssumption DEF Source
<1>4. phase' # "done" => R'.cls = "none"
  BY DEF RouteInv
<1>5. "svd_scratch" \in seen' => "grey" \in seen'
  BY DEF RouteInv
<1> QED BY <1>1, <1>2, <1>3, <1>4, <1>5 DEF RouteInv, Source

-----------------------------------------------------------------------------
\* The rows never change; a row's insertion is the only step on the bundle.
LEMMA KindKept ==
  ASSUME BlockNext
  PROVE  UNCHANGED <<kind, data>>
<1>1. CASE TailStep
  BY <1>1 DEF TailStep, TailRow, RowQuiet, RowHit, InsertGrows, InsertAbsorbs, TailNoMemory,
              NoMemory, TailDeclined, InsertDeclines, Unproved, TailAnswered,
              InsertContradicts, FullRank, Proposes, data
<1>2. CASE WindowStep
  BY <1>2 DEF WindowStep, WindowFork, WindowJoin, WindowWork, tail, vars, tailData, data
<1>3. CASE SketchStep
  BY <1>3 DEF SketchStep, SketchStarts, SketchNoMemory, SketchFallsThrough, SketchJoin,
              SketchSerial, SketchWork, Forgotten, tail, vars, tailData, data
<1>4. CASE KeepStep
  BY <1>4 DEF KeepStep, KeepStarts, KeepPasses, KeepRefuses, KeepFails, Keeps, tail, vars, data
<1>5. CASE CandidateStep
  BY <1>5 DEF CandidateStep, CandidateNoMemory, CandidateMade, CandidateRejected, tail, vars, data
<1>6. CASE ResetStep
  BY <1>6 DEF ResetStep, ResetNoMemory, ResetRow, ResetContradicts, ResetResolves, ResetAgain,
              ResetGrey, ResetReturns, tail, vars, data
<1>7. CASE Ended /\ UNCHANGED blockVars
  BY <1>7 DEF blockVars, tail, vars, data
<1> QED BY <1>1, <1>2, <1>3, <1>4, <1>5, <1>6, <1>7 DEF BlockNext, BlockStep

\* Before the tail nothing is concluded.
LEMMA RouteInvInit == BlockInit => RouteInv
<1> SUFFICES ASSUME BlockInit PROVE RouteInv
  OBVIOUS
<1>1. 0 \in Source /\ \A r \in Source : ~(r < 0)
  BY TailAssumption, BlockAssumption DEF Source
<1>2. RankOf({}) = 0
  BY <1>1, RankOfRow
<1>3. Agree({})
  BY DEF Agree, Nonzero
<1> QED BY <1>1, <1>2, <1>3 DEF BlockInit, Blank, RouteInv

\* No step but those of the reset disturbs what is known of its rows.
LEMMA RouteInvNext ==
  ASSUME BlockInv, RouteInv, BlockNext
  PROVE  RouteInv'
<1>0. UNCHANGED <<kind, data>> /\ ResetBundle
  BY KindKept DEF BlockInv
<1>1. CASE TailStep
  <2>1. UNCHANGED reset /\ phase = "tail"
    BY <1>1 DEF TailStep, TailRow, TailNoMemory, TailDeclined, TailAnswered
  <2>2. grey' \in BOOLEAN
    BY <1>1 DEF RouteInv, TailStep, TailRow, TailNoMemory, TailDeclined, TailAnswered, report
  <2>3. phase' # "done" => R' = R
    BY <1>1 DEF TailStep, TailRow, TailNoMemory, TailDeclined, TailAnswered, FailsFor, Answers,
                Claims, report
  <2> QED BY <1>0, <2>1, <2>2, <2>3, RouteKept
<1>2. CASE WindowStep
  <2>1. UNCHANGED <<reset, grey, R>> /\ phase # "done"
    BY <1>2 DEF WindowStep, WindowFork, WindowJoin, WindowWork, report
  <2> QED BY <1>0, <2>1, RouteKept DEF RouteInv
<1>3. CASE SketchStep
  <2>1. UNCHANGED <<reset, grey>> /\ phase # "done" /\ (phase' # "done" => R' = R)
    BY <1>3 DEF SketchStep, SketchStarts, SketchNoMemory, SketchFallsThrough, SketchJoin,
                SketchSerial, SketchWork, FailsFor, Answers, report
  <2> QED BY <1>0, <2>1, RouteKept DEF RouteInv
<1>4. CASE KeepStep
  <2>1. UNCHANGED <<reset, grey>> /\ phase # "done" /\ (phase' # "done" => R' = R)
    BY <1>4 DEF KeepStep, KeepStarts, KeepPasses, KeepRefuses, KeepFails, Keeps, Adding,
                Answers, report
  <2> QED BY <1>0, <2>1, RouteKept DEF RouteInv
<1>5. CASE CandidateStep
  <2>1. UNCHANGED <<reset, grey>> /\ phase # "done" /\ (phase' # "done" => R' = R)
    BY <1>5 DEF CandidateStep, CandidateNoMemory, CandidateMade, CandidateRejected, CandidateDue,
                FailsFor, Answers, report
  <2> QED BY <1>0, <2>1, RouteKept DEF RouteInv
<1>6. CASE ResetStep
  <2>1. CASE ResetNoMemory
    <3>1. UNCHANGED <<reset, grey>> /\ phase # "done" /\ (phase' # "done" => R' = R)
      BY <2>1 DEF ResetNoMemory, FailsFor, Answers
    <3> QED BY <1>0, <3>1, RouteKept DEF RouteInv
  <2>2. CASE ResetRow
    BY <1>0, <2>2, RouteRow
  <2>3. CASE ResetContradicts \/ ResetResolves \/ ResetGrey
    <3>1. /\ s' = Blank /\ row' = 0 /\ amb' = FALSE /\ seen' = {}
          /\ grey' = (grey \/ "grey" \in seen) /\ phase' = "done"
      BY <2>3 DEF ResetContradicts, ResetResolves, ResetGrey, ResetReturns, Answers
    <3> QED BY <1>0, <3>1, RouteBlank
  <2>4. CASE ResetAgain
    <3>1. /\ s' = s /\ row' = 0 /\ amb' = FALSE /\ seen' = seen
          /\ UNCHANGED <<grey, R>> /\ phase # "done"
      BY <2>4 DEF ResetAgain, PassEnds, report
    <3> QED BY <1>0, <3>1, RouteBlank DEF RouteInv
  <2> QED BY <1>6, <2>1, <2>2, <2>3, <2>4 DEF ResetStep
<1>7. CASE Ended /\ UNCHANGED blockVars
  BY <1>0, <1>7, RouteKept DEF blockVars, report, RouteInv
<1> QED BY <1>1, <1>2, <1>3, <1>4, <1>5, <1>6, <1>7 DEF BlockNext, BlockStep

\* What the reset says of the source is said of all its rows, at every row.
THEOREM RouteInvariant == BlockSpec => []RouteInv
<1>1. BlockInv /\ RouteInv /\ [BlockNext]_blockVars => RouteInv'
  <2> SUFFICES ASSUME BlockInv, RouteInv, [BlockNext]_blockVars PROVE RouteInv'
    OBVIOUS
  <2>1. CASE BlockNext
    BY <2>1, RouteInvNext
  <2>2. CASE UNCHANGED blockVars
    <3>1. UNCHANGED <<kind, data, reset, grey, R, phase>>
      BY <2>2 DEF blockVars, tail, vars, report
    <3> QED BY <3>1, RouteKept DEF RouteInv
  <2> QED BY <2>1, <2>2
<1> QED BY <1>1, RouteInvInit, BlockInvariant, PTL DEF BlockSpec

-----------------------------------------------------------------------------
(***************************************************************************)
(* Every step of the rows is a step of the route, or none of it.           *)
(***************************************************************************)
\* Nothing that Router has changes.
RouteUnseen == UNCHANGED <<sys, report>>

\* Where the route is, and what it holds there.
LEMMA Mapping ==
  /\ phase \in {"tail", "window"} =>
       MappedPc = (IF result = "declined" THEN "block_sketch" ELSE "tail")
  /\ phase \in {"sketch", "team", "serial", "keep"} => MappedPc = "block_sketch"
  /\ phase \in {"scan", "reset"} => MappedPc = phase
  /\ phase = "done" => MappedPc = (IF R.cls = "none" THEN "qrcp" ELSE "routed")
  /\ phase' \in {"tail", "window"} =>
       MappedPc' = (IF result' = "declined" THEN "block_sketch" ELSE "tail")
  /\ phase' \in {"sketch", "team", "serial", "keep"} => MappedPc' = "block_sketch"
  /\ phase' \in {"scan", "reset"} => MappedPc' = phase'
BY DEF MappedPc

\* Steps within a stage.
LEMMA StaysThere ==
  ASSUME RouteUnseen, MappedPc' = MappedPc, phase' = "scan" <=> phase = "scan"
  PROVE  UNCHANGED Rt!vars
BY DEF Rt!vars, RouteUnseen, report, OnRoute

\* The route answers.
LEMMA Gives ==
  ASSUME phase' = "done", R'.cls # "none"
  PROVE  Rt!Give(R')
BY DEF Rt!Give, Rt!NoLocals, Rt!Enter, Rt!Locals, MappedPc, OnRoute

\* The route leaves its claim to the arbiter.
LEMMA Asks ==
  ASSUME phase' = "done", R'.cls = "none"
  PROVE  Rt!AskQrcp("formation", P)
BY DEF Rt!AskQrcp, Rt!Locals, MappedPc, OnRoute

\* The source is inserted from scratch.
LEMMA StartsOver ==
  ASSUME phase' = "reset"
  PROVE  Rt!StartAgain
BY DEF Rt!StartAgain, Rt!NoLocals, Rt!Enter, Rt!Locals, MappedPc, OnRoute

\* What no step of the rows touches, and what few do.
LEMMA Outside ==
  UNCHANGED sys => UNCHANGED Rt!outside
BY DEF Rt!outside

\* The thread-local state that Router has.
LEMMA Thread ==
  UNCHANGED <<grey, berr, src>> => UNCHANGED Rt!tls
BY DEF Rt!tls

\* The route fails for want of memory.
LEMMA Fails ==
  ASSUME FailsFor("state"), UNCHANGED <<sys, grey, berr, src>>
  PROVE  Rt!OutOfMemory("state") /\ UNCHANGED <<Rt!tls, Rt!outside>>
<1>1. /\ phase' = "done" /\ R' = [cls |-> "FAIL", rank |-> 0, random |-> FALSE, by |-> "none"]
      /\ failed' = failed \union {"state"}
  BY DEF FailsFor, Answers
<1>2. Rt!Give(R')
  BY <1>1, Gives
<1>3. R' = Rt!BS_FAIL_RESULT
  BY <1>1 DEF Rt!BS_FAIL_RESULT, Rt!Result
<1>4. Rt!Give(Rt!BS_FAIL_RESULT)
  BY <1>2, <1>3
<1> QED BY <1>1, <1>4, Outside, Thread DEF Rt!OutOfMemory, Rt!Starved

\* From one stage of the route to another: its locals are what they were.
LEMMA LocalsStay ==
  ASSUME MappedPc \in {"tail", "block_sketch"}, MappedPc' \in {"tail", "block_sketch"},
         phase # "scan", phase' # "scan"
  PROVE  UNCHANGED Rt!local
BY DEF Rt!local, OnRoute

\* Rows, windows, draws and passes that do not end their stage.
LEMMA WithinStage ==
  ASSUME \/ TailRow \/ WindowStep \/ SketchStarts \/ SketchFallsThrough \/ SketchJoin
         \/ SketchSerial \/ \E t \in Threads : SketchWork(t)
         \/ KeepStarts \/ KeepPasses \/ Keeps \/ ResetRow \/ ResetAgain
  PROVE  UNCHANGED Rt!vars
<1>1. CASE TailRow
  <2>1. RouteUnseen /\ phase = "tail" /\ phase' = "tail" /\ result' = result
    BY <1>1 DEF TailRow, RowQuiet, RowHit, InsertGrows, InsertAbsorbs, RouteUnseen, data
  <2> QED BY <2>1, Mapping, StaysThere
<1>2. CASE WindowStep
  <2>1. /\ RouteUnseen /\ phase \in {"tail", "window"} /\ phase' \in {"tail", "window"}
        /\ result' = result
    BY <1>2 DEF WindowStep, WindowFork, WindowJoin, WindowWork, RouteUnseen, data, tail, vars
  <2> QED BY <2>1, Mapping, StaysThere
<1>3. CASE SketchStarts \/ SketchFallsThrough
  <2>1. /\ RouteUnseen /\ phase = "tail" /\ result = "declined"
        /\ phase' \in {"team", "serial"}
    BY <1>3 DEF SketchStarts, SketchFallsThrough, RouteUnseen, data
  <2> QED BY <2>1, Mapping, StaysThere
<1>4. CASE \/ SketchJoin \/ SketchSerial \/ KeepStarts \/ KeepPasses \/ Keeps
           \/ \E t \in Threads : SketchWork(t)
  <2>1. /\ RouteUnseen
        /\ phase \in {"sketch", "team", "serial", "keep"}
        /\ phase' \in {"sketch", "team", "serial", "keep"}
    BY <1>4 DEF SketchJoin, SketchSerial, SketchWork, KeepStarts, KeepPasses, Keeps, Adding,
                RouteUnseen, data
  <2> QED BY <2>1, Mapping, StaysThere
<1>5. CASE ResetRow \/ ResetAgain
  <2>1. RouteUnseen /\ phase = "reset" /\ phase' = "reset"
    BY <1>5 DEF ResetRow, Resetting, ResetAgain, PassEnds, RouteUnseen, data
  <2> QED BY <2>1, Mapping, StaysThere
<1> QED BY <1>1, <1>2, <1>3, <1>4, <1>5

\* How the rank of the source relates to the directions the tail has found.
LEMMA RankOfTail ==
  ASSUME TailInv
  PROVE  /\ span \subseteq Directions
         /\ Full => RankOf(Source) = Cols
         /\ span # {} => P + 1 \in P..RankOf(Source) /\ P < Cols
         /\ Full /\ span = {} => Cols = P
         /\ ~Full /\ span = {} => P < Cols
         /\ ~Full /\ span # {} => P + 1 < Cols
<1>1. span \subseteq Directions /\ span \subseteq {kind[r] : r \in Remainder}
  BY SpanOfDirections DEF TailInv, TypeOK, span
<1>2. P \in Nat /\ Cardinality(Directions) \in Nat /\ Cols = P + Cardinality(Directions)
  BY TailAssumption, FiniteAssumption, FS_CardinalityType DEF Cols
<1>3. IsFiniteSet(span) /\ Cardinality(span) <= Cardinality(Directions)
      /\ (Cardinality(span) = Cardinality(Directions) => Full)
  BY <1>1, FiniteAssumption, FS_Subset DEF Full
<1>4. Cardinality(span) \in Nat /\ (Cardinality(span) = 0 <=> span = {})
  BY <1>3, FS_CardinalityType, FS_EmptySet
<1>5. Full => RankOf(Source) = Cols
  BY <1>1, RankOfSource DEF Full
<1>6. span # {} => P + 1 \in P..RankOf(Source) /\ P < Cols
  <2> SUFFICES ASSUME span # {} PROVE P + 1 \in P..RankOf(Source) /\ P < Cols
    OBVIOUS
  <2>1. \E r \in Remainder : kind[r] \in Directions
    BY <1>1
  <2>2. RankOf(Source) \in 0..Cols /\ P + 1 <= RankOf(Source) /\ Cols \in Nat
    BY <2>1, RankOfSource, ColsIs
  <2> QED BY <1>2, <2>2
<1>7. Full /\ span = {} => Cols = P
  BY <1>2, <1>4 DEF Full
<1>8. ~Full => Cardinality(span) < Cardinality(Directions)
  BY <1>2, <1>3, <1>4
<1> HIDE DEF Full
<1> QED BY <1>1, <1>2, <1>4, <1>5, <1>6, <1>7, <1>8

\* A tail without memory fails the route.
LEMMA TailNoMemoryMaps ==
  ASSUME TailInv, TailNoMemory
  PROVE  Rt!TailFails
<1>1. phase = "tail" /\ FailsFor("state") /\ UNCHANGED <<sys, grey, berr, src>>
  BY DEF TailNoMemory, data
<1>2. result = "none"
  BY DEF TailNoMemory, NoMemory, TailInv, ResultAtEnd
<1>3. MappedPc = "tail"
  BY <1>1, <1>2, Mapping
<1> QED BY <1>1, <1>3, Fails DEF Rt!TailFails

\* A tail that declines leaves the rest to the sketch.
LEMMA TailDeclinedMaps ==
  ASSUME TailInv, TailDeclined
  PROVE  Rt!TailDeclines
<1>1. /\ phase = "tail" /\ phase' = "tail" /\ result = "none" /\ result' = "declined"
      /\ UNCHANGED <<sys, src, R>>
  BY DEF TailDeclined, InsertDeclines, Unproved, ScanEnds, Return, TailInv, ResultAtEnd, data
<1>2. MappedPc = "tail" /\ MappedPc' = "block_sketch"
  BY <1>1, Mapping
<1>3. UNCHANGED Rt!local /\ UNCHANGED Rt!outside
  BY <1>1, <1>2, LocalsStay, Outside
<1>4. Rt!SourceRows
  BY DEF TailDeclined, Rt!SourceRows
<1>5. UNCHANGED berr \/ Rt!ScanFails("tail")
  BY DEF TailDeclined, Scanned, Rt!ScanFails, Rt!Scanned
<1> QED BY <1>1, <1>2, <1>3, <1>4, <1>5 DEF Rt!TailDeclines

\* A claim of the tail is the route's answer, or goes to the arbiter, as the
\* rank it stands for is that of the prefix or more.
LEMMA ClaimMaps ==
  ASSUME MappedPc = "tail", R.cls = "none", NEW cls, cls # "none",
         NEW random, Claims(cls, random), NEW r, r <= P <=> span = {}, r <= P => r = P
  PROVE  IF r <= P THEN Rt!Give(Rt!Result(cls, r, random, "tail"))
                   ELSE Rt!AskQrcp("formation", P) /\ UNCHANGED R
<1>1. CASE span = {}
  <2>1. phase' = "done" /\ R' = [cls |-> cls, rank |-> r, random |-> random, by |-> "tail"]
    BY <1>1 DEF Claims, Answers
  <2>2. R' = Rt!Result(cls, r, random, "tail")
    BY <2>1 DEF Rt!Result
  <2>3. Rt!Give(R')
    BY <2>1, Gives
  <2> QED BY <1>1, <2>2, <2>3
<1>2. CASE span # {}
  <2>1. phase' = "done" /\ UNCHANGED R
    BY <1>2 DEF Claims
  <2> QED BY <1>2, <2>1, Asks
<1> QED BY <1>1, <1>2

\* A tail that answers claims what the source has, or asks the arbiter.
LEMMA TailAnsweredMaps ==
  ASSUME TailInv, RouteInv, TailAnswered
  PROVE  Rt!TailAnswers
<1>1. /\ phase = "tail" /\ UNCHANGED <<sys, grey, src, failed>> /\ R.cls = "none"
      /\ UNCHANGED kind
  BY DEF TailAnswered, RouteInv, data, InsertContradicts, FullRank, Proposes
<1>2. result = "none"
  BY DEF TailAnswered, InsertContradicts, FullRank, Proposes, ScanEnds, TailInv, ResultAtEnd
<1>3. MappedPc = "tail"
  BY <1>1, <1>2, Mapping
<1>4. (IF OnRoute THEN P ELSE 0) = P
  BY <1>3 DEF OnRoute
<1>5. UNCHANGED Rt!outside
  BY <1>1, Outside
<1>6. P \in Nat /\ Cols \in Nat /\ P <= Cols /\ sys.rank \in 0..Cols /\ P \in P..sys.rank
  BY RankOfSource, ColsIs, TailAssumption DEF RouteInv
<1>7. ASSUME NEW r \in P..sys.rank,
             LET claim(res) == IF r <= P THEN Rt!Give(res)
                                         ELSE Rt!AskQrcp("formation", P) /\ UNCHANGED R
             IN  \/ /\ ~sys.cons
                    /\ claim(Rt!Result("INCONSISTENT", r, FALSE, "tail")) /\ UNCHANGED berr
                 \/ /\ r = Cols /\ Rt!ScanDecides("tail")
                    /\ claim(Rt!Decided(r, "tail"))
                 \/ /\ r < Cols /\ Rt!ScanPasses("tail")
                    /\ claim(Rt!Result("INFINITE", r, TRUE, "tail"))
      PROVE  Rt!TailAnswers
  BY <1>1, <1>3, <1>4, <1>5, <1>7 DEF Rt!TailAnswers
<1> DEFINE r == IF span = {} THEN P ELSE P + 1
<1>8. /\ r \in P..sys.rank \/ (Full /\ sys.rank = Cols)
      /\ r <= P <=> span = {}
      /\ r <= P => r = P
  BY <1>6, RankOfTail DEF RouteInv
<1>9. CASE InsertContradicts /\ Claims("INCONSISTENT", FALSE) /\ UNCHANGED berr
  <2>1. i \in Remainder /\ kind[i] \in {"falsezero", "contradicts"}
    BY <1>9, TailAssumption DEF InsertContradicts, TailInv, TypeOK, ScanWithinCovered, Remainder
  <2>2. ~sys.cons
    BY <2>1, SourceRefuted DEF RouteInv
  <2>3. r \in P..sys.rank
    BY <1>6, RankOfTail DEF RouteInv
  <2>4. IF r <= P THEN Rt!Give(Rt!Result("INCONSISTENT", r, FALSE, "tail"))
                  ELSE Rt!AskQrcp("formation", P) /\ UNCHANGED R
    <3> HIDE DEF r
    <3> QED BY <1>1, <1>3, <1>8, <1>9, ClaimMaps
  <2> HIDE DEF r
  <2> QED BY <1>7, <1>9, <2>2, <2>3, <2>4
<1>10. CASE /\ FullRank /\ (result' = "UNIQUE") = Solvable /\ Claims(result', FALSE)
            /\ \E good \in BOOLEAN : (good => Solvable) /\ Scanned(good)
  <2>1. Full /\ result' \in {"UNIQUE", "INCONSISTENT"}
    BY <1>10 DEF FullRank, Return
  <2>2. sys.rank = Cols /\ Cols \in P..sys.rank
    BY <1>6, <2>1, RankOfTail DEF RouteInv
  <2>3. (Cols <= P <=> span = {}) /\ (Cols <= P => Cols = P)
    BY <1>6, <2>1, RankOfTail
  <2>4. Rt!ScanDecides("tail")
    BY <1>10 DEF Rt!ScanDecides, Rt!Scanned, Scanned, Solvable
  <2>5. Rt!Decided(Cols, "tail") = Rt!Result(result', Cols, FALSE, "tail")
    BY <1>10, <2>1 DEF Rt!Decided, Rt!Full, Solvable
  <2>6. result' # "none"
    BY <2>1
  <2>7. IF Cols <= P THEN Rt!Give(Rt!Result(result', Cols, FALSE, "tail"))
                     ELSE Rt!AskQrcp("formation", P) /\ UNCHANGED R
    BY <1>1, <1>3, <1>10, <2>3, <2>6, ClaimMaps
  <2> QED BY <1>7, <2>2, <2>4, <2>5, <2>7
<1>11. CASE /\ Proposes /\ Solvable /\ Claims("INFINITE", TRUE)
            /\ \E good \in BOOLEAN : Scanned(good)
  <2>1. ~Full
    BY <1>11 DEF Proposes
  <2>2. r \in P..sys.rank /\ r < Cols
    BY <1>6, <2>1, RankOfTail DEF RouteInv
  <2>3. Rt!ScanPasses("tail")
    BY <1>11 DEF Rt!ScanPasses, Rt!Scanned, Scanned, Solvable
  <2>4. IF r <= P THEN Rt!Give(Rt!Result("INFINITE", r, TRUE, "tail"))
                  ELSE Rt!AskQrcp("formation", P) /\ UNCHANGED R
    <3> HIDE DEF r
    <3> QED BY <1>1, <1>3, <1>8, <1>11, ClaimMaps
  <2> HIDE DEF r
  <2> QED BY <1>7, <2>2, <2>3, <2>4
<1> QED BY <1>9, <1>10, <1>11 DEF TailAnswered

\* A sketch or candidate without memory fails the route.
LEMMA NoMemoryMaps ==
  ASSUME SketchNoMemory \/ CandidateNoMemory
  PROVE  Rt!BlockFails
<1>1. /\ FailsFor("state") /\ UNCHANGED <<sys, grey, berr, src>>
      /\ phase = "keep" \/ (phase = "tail" /\ result = "declined")
  BY DEF SketchNoMemory, CandidateNoMemory, CandidateDue, data
<1>2. MappedPc = "block_sketch"
  BY <1>1, Mapping
<1> QED BY <1>1, <1>2, Fails DEF Rt!BlockFails

\* A row of the proof is refused, or there is no memory for it.
LEMMA KeepEndsMaps ==
  ASSUME KeepRefuses \/ KeepFails
  PROVE  Rt!BlockProofRowsFail
<1>1. /\ phase = "keep" /\ UNCHANGED <<sys, grey, berr, src>>
      /\ failed' = failed \/ failed' = failed \union {"proof"}
      /\ phase' = "done"
      /\ R' = [cls |-> "UNDECIDABLE", rank |-> P, random |-> FALSE, by |-> "none"]
  BY DEF KeepRefuses, KeepFails, Adding, Answers, data
<1>2. MappedPc = "block_sketch"
  BY <1>1, Mapping
<1>3. (IF OnRoute THEN P ELSE 0) = P
  BY <1>2 DEF OnRoute
<1>4. R' = Rt!Undecided(P)
  BY <1>1 DEF Rt!Undecided, Rt!Result
<1>5. Rt!Give(R')
  BY <1>1, Gives
<1>6. Rt!Give(Rt!Undecided(P))
  BY <1>4, <1>5
<1>7. UNCHANGED Rt!tls /\ UNCHANGED Rt!outside
  BY <1>1, Thread, Outside
<1> QED BY <1>1, <1>2, <1>3, <1>6, <1>7 DEF Rt!BlockProofRowsFail, Rt!Starved

\* The candidate goes to the scan, or the source is inserted from scratch.
LEMMA CandidateMaps ==
  ASSUME CandidateMade \/ CandidateRejected
  PROVE  Rt!BlockInsert
<1>1. phase = "keep" /\ UNCHANGED <<sys, grey, berr, src, R>>
  BY DEF CandidateMade, CandidateRejected, CandidateDue, data, report
<1>2. MappedPc = "block_sketch"
  BY <1>1, Mapping
<1>3. UNCHANGED Rt!tls /\ UNCHANGED Rt!outside
  BY <1>1, Thread, Outside
<1>4. P \in P..Cols
  BY RankOfSource, ColsIs, TailAssumption
<1>5. (IF OnRoute THEN P ELSE 0) = P
  BY <1>2 DEF OnRoute
<1>6. Rt!Checked(P, 1)
  <2>1. CASE CandidateMade
    <3>1. phase' = "scan" /\ UNCHANGED failed
      BY <2>1 DEF CandidateMade, report
    <3>2. MappedPc' = "scan"
      BY <3>1, Mapping
    <3> QED BY <1>1, <1>2, <3>1, <3>2 DEF Rt!Checked, OnRoute
  <2>2. CASE CandidateRejected
    <3>1. phase' = "reset" /\ failed' \in {failed, failed \union {"svd_scratch"}}
      BY <2>2 DEF CandidateRejected
    <3> QED BY <3>1, StartsOver DEF Rt!Checked
  <2> QED BY <2>1, <2>2
<1> QED BY <1>1, <1>2, <1>3, <1>4, <1>5, <1>6 DEF Rt!BlockInsert

-----------------------------------------------------------------------------
(* The reset.                                                              *)

\* When every row is accounted for, the basis spans the source and what
\* meets the basis meets the source.
LEMMA AllRepresented ==
  ASSUME RouteInv, \A r \in Source : Represented(r)
  PROVE  s.r = sys.rank /\ sys.cons
<1>1. s.basis \in SUBSET Source /\ Source \in SUBSET Source
  BY DEF RouteInv, Nonzero
<1>2. Axes(s.basis) = Axes(Source)
  <2>1. \A r \in Nonzero(Source) : \E b \in Nonzero(s.basis) : Axis(b) = Axis(r)
    BY DEF Represented, RouteInv, Nonzero
  <2>2. Nonzero(s.basis) \subseteq Nonzero(Source)
    BY <1>1 DEF Nonzero
  <2> QED BY <2>1, <2>2 DEF Axes
<1>3. s.r = sys.rank
  BY <1>1, <1>2, RankIs DEF RouteInv
<1>4. \A r \in Source \intersect Remainder : kind[r] # "falsezero"
  BY DEF Represented
<1>5. ASSUME NEW q \in Nonzero(Source), NEW r \in Nonzero(Source), Axis(q) = Axis(r)
      PROVE  Off(q) = Off(r)
  <2>1. PICK a \in s.basis : Axis(a) = Axis(q) /\ Off(a) = Off(q)
    BY DEF Represented, Nonzero
  <2>2. PICK b \in s.basis : Axis(b) = Axis(r) /\ Off(b) = Off(r)
    BY DEF Represented, Nonzero
  <2>3. a \in Nonzero(s.basis) /\ b \in Nonzero(s.basis)
    BY DEF RouteInv, Nonzero
  <2>4. Off(a) = Off(b)
    BY <1>5, <2>1, <2>2, <2>3 DEF RouteInv, Agree
  <2> QED BY <2>1, <2>2, <2>4
<1>6. Agree(Source)
  BY <1>4, <1>5 DEF Agree
<1> QED BY <1>3, <1>6 DEF RouteInv

\* What the reset gives back, whatever its answer.
LEMMA ResetGives ==
  ASSUME ResetBundle, RouteInv, phase = "reset", NEW cls, cls # "none", ResetReturns(cls, s.r)
  PROVE  /\ MappedPc = "reset" /\ Rt!SourceRows
         /\ Rt!Give(Rt!Result(cls, s.r, FALSE, IF cls = "UNDECIDABLE" THEN "none" ELSE "reset"))
         /\ UNCHANGED berr /\ UNCHANGED Rt!outside
         /\ s.r \in 0..sys.rank /\ s.r \in 0..Cols /\ sys.rank \in 0..Cols
         /\ amb => grey'
<1>1. /\ phase' = "done" /\ UNCHANGED <<sys, berr>>
      /\ R' = [cls |-> cls, rank |-> s.r, random |-> FALSE,
               by |-> IF cls = "UNDECIDABLE" THEN "none" ELSE "reset"]
      /\ grey' = (grey \/ "grey" \in seen)
      /\ failed' = failed \union (seen \ {"grey"})
  BY DEF ResetReturns, Answers, data
<1>2. MappedPc = "reset"
  BY Mapping
<1>3. Rt!SourceRows
  <2>1. CASE "grey" \in seen
    <3>1. grey' = TRUE
      BY <1>1, <2>1 DEF RouteInv
    <3>2. failed' \in {failed, failed \union {"svd_scratch"}}
      BY <1>1 DEF ResetBundle
    <3> QED BY <3>1, <3>2 DEF Rt!SourceRows
  <2>2. CASE "grey" \notin seen
    <3>1. seen = {}
      BY <2>2 DEF RouteInv, ResetBundle
    <3>2. grey' = grey /\ failed' = failed
      BY <1>1, <3>1 DEF RouteInv
    <3> QED BY <3>2 DEF Rt!SourceRows
  <2> QED BY <2>1, <2>2
<1>4. Rt!Give(Rt!Result(cls, s.r, FALSE, IF cls = "UNDECIDABLE" THEN "none" ELSE "reset"))
  <2>1. R' = Rt!Result(cls, s.r, FALSE, IF cls = "UNDECIDABLE" THEN "none" ELSE "reset")
    BY <1>1 DEF Rt!Result
  <2>2. Rt!Give(R')
    BY <1>1, Gives
  <2> QED BY <2>1, <2>2
<1>5. s.r \in 0..sys.rank /\ s.r \in 0..Cols /\ sys.rank \in 0..Cols
  <2>1. s.basis \in SUBSET Source /\ Source \in SUBSET Source
    BY DEF RouteInv, Nonzero
  <2>2. s.r <= sys.rank /\ s.r \in 0..Cols /\ sys.rank \in 0..Cols
    BY <2>1, RankMonotone, RankIs DEF RouteInv
  <2> QED BY <2>2, ColsIs
<1>6. amb => grey'
  BY <1>1 DEF RouteInv
<1> QED BY <1>1, <1>2, <1>3, <1>4, <1>5, <1>6, Outside

\* The reset fails, refutes, resolves or stays grey as Router has it.
LEMMA ResetEndsMaps ==
  ASSUME ResetBundle, RouteInv, ResetStep
  PROVE  Rt!Reset \/ UNCHANGED Rt!vars
<1>1. CASE ResetNoMemory
  <2>1. phase = "reset" /\ FailsFor("state") /\ UNCHANGED <<sys, grey, berr, src>>
    BY <1>1 DEF ResetNoMemory, data
  <2>2. Rt!ResetFails
    BY <2>1, Mapping, Fails DEF Rt!ResetFails
  <2> QED BY <2>2 DEF Rt!Reset
<1>2. CASE ResetContradicts
  <2>1. /\ phase = "reset" /\ row \in Source /\ UNCHANGED src
        /\ ResetReturns("INCONSISTENT", s.r)
    BY <1>2, TailAssumption DEF ResetContradicts, Resetting, ResetBundle, Source
  <2>2. ~sys.cons
    BY <1>2, <2>1, InsertRefutes DEF ResetContradicts, RouteInv
  <2>3. Rt!ResetRefutes
    BY <2>1, <2>2, ResetGives DEF Rt!ResetRefutes
  <2> QED BY <2>3 DEF Rt!Reset
<1>3. CASE ResetResolves
  <2> DEFINE cls == IF s.r = Cols THEN "UNIQUE" ELSE "INFINITE"
  <2>1. /\ phase = "reset" /\ row = M /\ (s.r = Cols \/ ~amb)
        /\ UNCHANGED src /\ ResetReturns(cls, s.r)
    BY <1>3 DEF ResetResolves, PassEnds, Resolved
  <2>2. cls # "none" /\ cls # "UNDECIDABLE"
    OBVIOUS
  <2>3. /\ MappedPc = "reset" /\ Rt!SourceRows
        /\ Rt!Give(Rt!Result(cls, s.r, FALSE, "reset"))
        /\ UNCHANGED berr /\ UNCHANGED Rt!outside
        /\ s.r \in 0..sys.rank /\ sys.rank \in 0..Cols
        /\ amb => grey'
    <3> HIDE DEF cls
    <3> QED BY <2>1, <2>2, ResetGives
  <2>4. ~amb => s.r = sys.rank /\ sys.cons
    <3>1. \A r \in Source : r < row
      BY <2>1, TailAssumption DEF Source
    <3> QED BY <3>1, AllRepresented DEF RouteInv
  <2>5. s.r = sys.rank
    BY <2>1, <2>3, <2>4, ColsIs
  <2>6. sys.cons \/ (sys.rank = Cols /\ grey')
    BY <2>1, <2>3, <2>4, <2>5
  <2>7. Rt!Full(sys.rank) = cls
    BY <2>5 DEF Rt!Full
  <2>8. Rt!Give(Rt!Result(Rt!Full(sys.rank), sys.rank, FALSE, "reset"))
    BY <2>3, <2>5, <2>7
  <2>9. Rt!ResetResolves
    BY <2>1, <2>3, <2>6, <2>8 DEF Rt!ResetResolves
  <2> QED BY <2>9 DEF Rt!Reset
<1>4. CASE ResetGrey
  <2>1. /\ phase = "reset" /\ s.r # Cols /\ amb /\ src' = [lo |-> s.r, hi |-> Cols]
        /\ ResetReturns("UNDECIDABLE", s.r)
    BY <1>4 DEF ResetGrey, PassEnds, Resolved
  <2>2. /\ MappedPc = "reset" /\ Rt!SourceRows
        /\ Rt!Give(Rt!Result("UNDECIDABLE", s.r, FALSE, "none"))
        /\ UNCHANGED berr /\ UNCHANGED Rt!outside
        /\ s.r \in 0..sys.rank /\ s.r \in 0..Cols
        /\ grey'
    BY <2>1, ResetGives
  <2>3. s.r < Cols
    BY <2>1, <2>2, ColsIs
  <2>4. Rt!ResetGrey
    BY <2>1, <2>2, <2>3 DEF Rt!ResetGrey, Rt!Undecided
  <2> QED BY <2>4 DEF Rt!Reset
<1>5. CASE ResetRow \/ ResetAgain
  BY <1>5, WithinStage
<1> QED BY <1>1, <1>2, <1>3, <1>4, <1>5 DEF ResetStep

-----------------------------------------------------------------------------
\* The rows decide as Router has it in one step per stage: the route refutes
\* only an unsolvable source and resolves only at its rank, whatever windows,
\* teams, draws and passes it takes (solve_blockprefix_qr, reset_source_guarded).
THEOREM BlockRouter == BlockSpec => ImplementsRouter
<1>1. BlockInv /\ RouteInv /\ [BlockNext]_blockVars => [Rt!Step]_(Rt!vars)
  <2> SUFFICES ASSUME BlockInv, RouteInv, [BlockNext]_blockVars
               PROVE  Rt!Step \/ UNCHANGED Rt!vars
    OBVIOUS
  <2>0. TailInv /\ ResetBundle
    BY DEF BlockInv
  <2>1. CASE TailStep
    <3>1. \/ Rt!TailFails \/ Rt!TailDeclines \/ Rt!TailAnswers \/ UNCHANGED Rt!vars
      BY <2>0, <2>1, TailNoMemoryMaps, TailDeclinedMaps, TailAnsweredMaps, WithinStage
      DEF TailStep
    <3> QED BY <3>1 DEF Rt!Step, Rt!BlockRoute
  <2>2. CASE WindowStep
    BY <2>2, WithinStage
  <2>3. CASE SketchStep
    <3>1. Rt!BlockFails \/ UNCHANGED Rt!vars
      BY <2>3, NoMemoryMaps, WithinStage DEF SketchStep
    <3> QED BY <3>1 DEF Rt!Step, Rt!BlockRoute
  <2>4. CASE KeepStep
    <3>1. Rt!BlockProofRowsFail \/ UNCHANGED Rt!vars
      BY <2>4, KeepEndsMaps, WithinStage DEF KeepStep
    <3> QED BY <3>1 DEF Rt!Step, Rt!BlockRoute
  <2>5. CASE CandidateStep
    <3>1. Rt!BlockFails \/ Rt!BlockInsert
      BY <2>5, NoMemoryMaps, CandidateMaps DEF CandidateStep
    <3> QED BY <3>1 DEF Rt!Step, Rt!BlockRoute
  <2>6. CASE ResetStep
    <3>1. Rt!Reset \/ UNCHANGED Rt!vars
      BY <2>0, <2>6, ResetEndsMaps
    <3> QED BY <3>1 DEF Rt!Step
  <2>7. CASE UNCHANGED blockVars
    BY <2>7 DEF blockVars, tail, vars, data, report, Rt!vars, MappedPc, OnRoute
  <2> QED BY <2>1, <2>2, <2>3, <2>4, <2>5, <2>6, <2>7 DEF BlockNext, BlockStep
<1> QED BY <1>1, BlockInvariant, RouteInvariant, PTL DEF BlockSpec, ImplementsRouter

=============================================================================
