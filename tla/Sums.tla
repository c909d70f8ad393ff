---------------------------------- MODULE Sums ----------------------------------
(* Sums of what a function gives the elements of a set. *)
EXTENDS FiniteSetsExt

SumOver(f, S) == MapThenSumSet(LAMBDA x : f[x], S)
SumOf(f) == SumOver(f, DOMAIN f)
=============================================================================
