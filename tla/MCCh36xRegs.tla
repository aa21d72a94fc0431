----------------------------- MODULE MCCh36xRegs -----------------------------
(* Instances of Ch36xRegs for TLC. *)
EXTENDS Ch36xRegs, TLC
Symmetry == Permutations(Threads)
StatusRegister == <<"io", 0>>
===============================================================================
