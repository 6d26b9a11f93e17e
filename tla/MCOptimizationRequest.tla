------------------------ MODULE MCOptimizationRequest ------------------------
(***************************************************************************)
(* Bounds for model-checking OptimizationRequest.                          *)
(***************************************************************************)
EXTENDS OptimizationRequest

CONSTANTS w1, w2, r1, r2, a1, milk, bread
=============================================================================
