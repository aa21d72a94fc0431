----------------------------- MODULE MCCh36xDriver -----------------------------
(* Instances of Ch36xDriver for TLC. *)
EXTENDS Ch36xDriver, TLC
===============================================================================
