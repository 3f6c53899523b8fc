------------------------------ MODULE MCChat ------------------------------
(* Small instances of Chat: two turns of one conversation, one of another. *)
EXTENDS Chat, TLC

CONSTANTS a1, a2, b1, ca, cb

MCTurns == {a1, a2, b1}
MCConvs == {ca, cb}
MCConvOf == (a1 :> ca) @@ (a2 :> ca) @@ (b1 :> cb)
=============================================================================
