---------------------------- MODULE MCKnowledge ----------------------------
(* Small instances of Knowledge: contents are interchangeable.             *)
EXTENDS Knowledge, TLC

Symmetry == Permutations(Contents)
=============================================================================
