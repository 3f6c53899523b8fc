--------------------------- MODULE DecisionRights ---------------------------
(***************************************************************************)
(* Who may decide a request for a person (services/approvals.py, "who      *)
(* decides").  The module has no state of its own: every operator reads a  *)
(* snapshot of the organisation,                                           *)
(*                                                                         *)
(*   org.role       each person's effective role;                          *)
(*   org.active     the people whose membership and account are active;    *)
(*   org.named      the people the assistant names, groups expanded;       *)
(*   org.standIn    for each person, who stands in for them today;         *)
(*   org.soleSwitch the organisation's sole_reviewer_self_approval switch. *)
(*                                                                         *)
(* `Approvals' takes its decision rule from here; `OrgRights' lets the     *)
(* organisation change under a waiting request.                            *)
(***************************************************************************)

Roles == {"employee", "member", "admin", "owner"}

IsAdmin(org, u) == org.role[u] \in {"admin", "owner"}

Admins(org) == {u \in org.active : IsAdmin(org, u)}

NamedApprovers(org) == org.named \cap org.active

\* Only the stand-ins of people who are approvers themselves: a stand-in's own
\* stand-in decides nothing.
DelegatesOf(org, people) ==
  {d \in org.active : \E p \in people : d \in org.standIn[p]}

\* Everyone an approver request is put to, its asker left out.  The admins are
\* put in only when nobody active is named.
Deciders(org, asker) ==
  LET named == NamedApprovers(org)
      people == named \cup DelegatesOf(org, named)
  IN (IF people = {} THEN Admins(org) ELSE people) \ {asker}

\* The asker may decide an approver request of their own only when it is put to
\* nobody, with the organisation's switch on.
MayDecideOwn(org, asker) ==
  Deciders(org, asker) = {} /\ org.soleSwitch

\* Mutant of MayDecideOthers: a stand-in is asked, and refused.
NoStandIns(org, u) == IsAdmin(org, u) \/ u \in NamedApprovers(org)

MayDecideOthers(org, u) ==
  \/ IsAdmin(org, u)
  \/ u \in NamedApprovers(org)
  \/ u \in DelegatesOf(org, NamedApprovers(org))

\* assert_can_decide: true where it returns, false where it raises.
MayDecide(org, tier, asker, u) ==
  /\ u \in org.active
  /\ \/ tier = "asker" /\ u = asker
     \/ tier = "approver" /\ u = asker /\ MayDecideOwn(org, asker)
     \/ tier = "approver" /\ u # asker /\ MayDecideOthers(org, u)
=============================================================================
