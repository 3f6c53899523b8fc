------------------------------ MODULE MCMemory ------------------------------
(* Small instances of Memory.                                              *)
EXTENDS Memory
=============================================================================
