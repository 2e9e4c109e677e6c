---------------------------- MODULE MCSecantTail ----------------------------
(***************************************************************************)
(* A tail of four rows behind a prefix of one, with windows of two after   *)
(* one quiet row: a window can be hit on either row, be followed by a      *)
(* rescan and by another window.  Two draws per row may fall into the same *)
(* of two buckets, and four outputs make the proof grow twice.             *)
(* Bounds on the data: at most one row is grey or contradicts, and of the  *)
(* two directions, which nothing tells apart, d1 comes first.              *)
(***************************************************************************)
EXTENDS BlockRows

CONSTANTS d1, d2

Bucket(r, d) == (r + d) % 2

Odd == {r \in Remainder : kind[r] \in {"falsezero", "contradicts", "grey"}}

MCInit == /\ BlockInit
          /\ Cardinality(Odd) <= 1
          /\ \A r \in Remainder : kind[r] = d2 => \E q \in P..r : kind[q] = d1

MCSpec == MCInit /\ [][BlockNext]_blockVars /\ WF_blockVars(BlockStep)
=============================================================================
