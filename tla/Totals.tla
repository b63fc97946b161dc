------------------------------- MODULE Totals -------------------------------
(* The sum of a function over a finite set. *)
EXTENDS Integers, FiniteSetsExt

Total(f, S) == MapThenSumSet(LAMBDA x : f[x], S)
=============================================================================
