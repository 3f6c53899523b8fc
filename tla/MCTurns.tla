------------------------------ MODULE MCTurns ------------------------------
(* Small instances of Turns.                                               *)
EXTENDS Turns
=============================================================================
