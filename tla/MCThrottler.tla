---- MODULE MCThrottler ----
(* The throttler with small sets of sockets, sizes and budgets for TLC.    *)
EXTENDS Throttler, TLC

Symmetry == Permutations(Sockets)
====
