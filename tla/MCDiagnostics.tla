---------------------------- MODULE MCDiagnostics ----------------------------
(* Instances of Diagnostics: the rows of one thread may be exchanged, and the *)
(* threads are alike.                                                         *)
EXTENDS Diagnostics, TLC

Symmetry == Permutations(Threads) \union Permutations(Rows)
=============================================================================
