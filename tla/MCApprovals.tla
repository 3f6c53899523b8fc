---------------------------- MODULE MCApprovals ----------------------------
(* Small instances of Approvals: an asker and an admin, nobody named.      *)
EXTENDS Approvals, TLC

CONSTANTS ann, bob

MCPeople == {ann, bob}
MCRole == ann :> "member" @@ bob :> "admin"
MCStandIn == [p \in {ann, bob} |-> {}]

MCAnn == {ann}
MCNobody == {}

Symmetry == Permutations(Handlers) \cup Permutations(Executors)
=============================================================================
