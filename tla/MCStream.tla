------------------------------ MODULE MCStream ------------------------------
(***************************************************************************)
(* A small instance of Stream: rows over the two-element field, whose rank *)
(* and solvability are computed from the coefficients.                     *)
(***************************************************************************)
EXTENDS Stream, FiniteSetsExt

CONSTANTS z0, z1, p, p1, q, pq, t

\* Three columns: a zero row and a contradiction, two rows on the first axis
\* that contradict each other, two more directions and a dependent row.
MCRows == {z0, z1, p, p1, q, pq, t}
MCN == 3

Coefficients(a) ==
  CASE a \in {z0, z1} -> {}
    [] a \in {p, p1}  -> {1}
    [] a = q          -> {2}
    [] a = pq         -> {1, 2}
    [] a = t          -> {3}
Rhs(a) == IF a \in {z1, p1} THEN 1 ELSE 0

\* Column c of the sum of the rows of S over the field of two elements.
Column(S, c) == Cardinality({a \in S : c \in Coefficients(a)}) % 2
RhsSum(S)    == MapThenSumSet(Rhs, S) % 2

Vanishes(S)    == \A c \in 1..MCN : Column(S, c) = 0
Independent(S) == \A T \in SUBSET S \ {{}} : ~Vanishes(T)

RankTable ==
  [S \in SUBSET MCRows |->
     Max({Cardinality(T) : T \in {U \in SUBSET S : Independent(U)}})]
ConsistentTable ==
  [S \in SUBSET MCRows |-> \A T \in SUBSET S : Vanishes(T) => RhsSum(T) = 0]

MCRank(S)       == RankTable[S]
MCConsistent(S) == ConsistentTable[S]
=============================================================================
