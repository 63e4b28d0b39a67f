-------------------------------- MODULE MCLog --------------------------------
(* Instances of LogFileProxy for TLC. *)
EXTENDS LogFileProxy, TLC

CONSTANTS t1, t2, t3, l1, l2, l3, l4, f1, f2, f3

Symmetry == Permutations(Threads) \union Permutations(Lines) \union Permutations(Files)
=============================================================================
