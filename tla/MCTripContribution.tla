-------------------------- MODULE MCTripContribution --------------------------
(***************************************************************************)
(* Bounds for model-checking TripContribution.                             *)
(***************************************************************************)
EXTENDS TripContribution

\* No symmetry between the executions: the run checks liveness too.
CONSTANTS w1, w2
=============================================================================
