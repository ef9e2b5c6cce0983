-------------------------------- MODULE Sums --------------------------------
(* The sum of the values that a function has on a set.                     *)
EXTENDS Integers, FiniteSets, FiniteSetsExt

Total(f, S) == MapThenSumSet(LAMBDA x : f[x], S)

=============================================================================
