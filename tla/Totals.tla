------------------------------- MODULE Totals -------------------------------
(* Sums, as the code's loops over records compute them. *)
EXTENDS Integers, FiniteSetsExt

\* The sum of f over a finite set.
Total(f, S) == MapThenSumSet(LAMBDA x : f[x], S)
=============================================================================
