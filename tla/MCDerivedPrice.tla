----------------------------- MODULE MCDerivedPrice -----------------------------
(***************************************************************************)
(* Bounds for model-checking DerivedPrice.                                 *)
(***************************************************************************)
EXTENDS DerivedPrice, TLC

CONSTANTS w1, w2, r1, r2

\* Executions differ only by name, and so do readers.
Symmetry == Permutations(Workers) \cup Permutations(Readers)
=============================================================================
