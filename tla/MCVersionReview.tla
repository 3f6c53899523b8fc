-------------------------- MODULE MCVersionReview --------------------------
(* Small instances of VersionReview.                                       *)
EXTENDS VersionReview, TLC

Symmetry == Permutations(Handlers) \cup Permutations(Conversations)
=============================================================================
