---------------------------- MODULE MCOrgRights ----------------------------
(* Small instances of OrgRights.                                           *)
EXTENDS OrgRights, TLC

Symmetry == Permutations(Handlers)
=============================================================================
