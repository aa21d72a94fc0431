--------------------------- MODULE MCCh36xInterrupt ---------------------------
(* Instances of Ch36xInterrupt for TLC. *)
EXTENDS Ch36xInterrupt, TLC
Symmetry == Permutations(Threads)
===============================================================================
