-------------------------- MODULE MCShoppingSession --------------------------
(***************************************************************************)
(* Bounds for model-checking ShoppingSession.                              *)
(***************************************************************************)
EXTENDS ShoppingSession

\* No symmetry between the requests: the run checks liveness too.
CONSTANTS i1, c1, c2, w1, p1
=============================================================================
