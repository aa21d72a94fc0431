------------------------------ MODULE MCCh36xSpi ------------------------------
(* Instances of Ch36xSpi for TLC. *)
EXTENDS Ch36xSpi, TLC
TwoModes == {{}, {"freq", "sdi"}}
===============================================================================
