---------------------------- MODULE MCRetention ----------------------------
(* Small instances of Retention: the first conversations are ann's.        *)
EXTENDS Retention, TLC

CONSTANTS ann, bob, Anns

MCOwner == [c \in Convs |-> IF c \in Anns THEN ann ELSE bob]
=============================================================================
