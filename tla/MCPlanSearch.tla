----------------------------- MODULE MCPlanSearch -----------------------------
(***************************************************************************)
(* Bounds for model-checking PlanSearch.                                   *)
(***************************************************************************)
EXTENDS PlanSearch

\* Three stores on one corner, or one of them the other way.
Corners == {[s \in Shops |-> 1], [s \in Shops |-> IF s = 3 THEN -2 ELSE s]}
=============================================================================
