-------------------------- MODULE ApprovalContract --------------------------
(***************************************************************************)
(* What a request promises to those who read only the docstring of         *)
(* models/approval.py: it is asked, a person agrees to one exact input, it *)
(* is performed at most once with that input and only between the yes and  *)
(* the end, and it ends once.  No process, clock, queue or crash is        *)
(* visible here; `Approvals' implements it.                                *)
(***************************************************************************)
EXTENDS Naturals, Sequences

CONSTANTS Requests, Inputs, None

VARIABLES
  phase,     \* "none", "asked", "agreed" or "ended"
  agreedOn,  \* the input agreed to, or None
  performed  \* what was done outside

cvars == <<phase, agreedOn, performed>>

Init ==
  /\ phase = [r \in Requests |-> "none"]
  /\ agreedOn = [r \in Requests |-> None]
  /\ performed = [r \in Requests |-> << >>]

Ask(r) ==
  /\ phase[r] = "none"
  /\ phase' = [phase EXCEPT ![r] = "asked"]
  /\ UNCHANGED <<agreedOn, performed>>

\* The yes may name the input asked for or, for the asker's own, an edited one.
Agree(r, i) ==
  /\ phase[r] = "asked"
  /\ phase' = [phase EXCEPT ![r] = "agreed"]
  /\ agreedOn' = [agreedOn EXCEPT ![r] = i]
  /\ UNCHANGED performed

Perform(r) ==
  /\ phase[r] = "agreed"
  /\ performed[r] = << >>
  /\ performed' = [performed EXCEPT ![r] = <<agreedOn[r]>>]
  /\ UNCHANGED <<phase, agreedOn>>

\* One statement may end several: a sweep, a pause, a person leaving.
End(R) ==
  /\ \A r \in R : phase[r] \in {"asked", "agreed"}
  /\ phase' = [r \in Requests |-> IF r \in R THEN "ended" ELSE phase[r]]
  /\ UNCHANGED <<agreedOn, performed>>

Next ==
  \/ \E r \in Requests : Ask(r) \/ Perform(r)
  \/ \E r \in Requests, i \in Inputs : Agree(r, i)
  \/ \E R \in SUBSET Requests : End(R)

Spec == Init /\ [][Next]_cvars
=============================================================================
