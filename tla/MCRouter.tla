------------------------------ MODULE MCRouter ------------------------------
(***************************************************************************)
(* A small instance of Router: three columns, with each rank threshold set *)
(* so that ranks fall on both sides of it.                                 *)
(***************************************************************************)
EXTENDS Router
=============================================================================
