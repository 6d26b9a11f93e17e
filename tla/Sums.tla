--------------------------------- MODULE Sums ---------------------------------
(***************************************************************************)
(* The sum of what a function makes of its domain, a finite set.           *)
(***************************************************************************)
EXTENDS FiniteSetsExt

Sum(numbers) == MapThenSumSet(LAMBDA e : numbers[e], DOMAIN numbers)
=============================================================================
