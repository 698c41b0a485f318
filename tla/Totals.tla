------------------------------- MODULE Totals -------------------------------
(***************************************************************************)
(* What a value of each unit comes to over some of the units: the cost of  *)
(* purchases, damage, scores, weights.                                     *)
(***************************************************************************)
EXTENDS FiniteSetsExt

Total(values, units) == MapThenSumSet(LAMBDA u : values[u], units)

=============================================================================
