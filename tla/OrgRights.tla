----------------------------- MODULE OrgRights -----------------------------
(***************************************************************************)
(* The people of one organisation: their roles, invitations, leaving and   *)
(* coming back (services/orgs.py, services/people.py), and what these make *)
(* of who may decide a request (DecisionRights) and who may approve a      *)
(* version (services/duties.py).                                           *)
(*                                                                         *)
(* An API request reads the members it is about, checks the rules and      *)
(* writes in the same transaction, with no row locked: what it checked may *)
(* have changed by the time it writes.  Each is therefore two steps, Ask   *)
(* and one that commits, and a request writes only its target's column.    *)
(*                                                                         *)
(* The organisation is a person's only one: its members' accounts are      *)
(* switched off and on with their membership.                              *)
(***************************************************************************)
EXTENDS DecisionRights, FiniteSets, Naturals

CONSTANTS
  People, Founder,
  Actors,         \* those who use the pages of the organisation
  Handlers,       \* API requests being served at one time
  InitialRoles,   \* the roles the founder has given out so far, an owner's perhaps among them
  Nameable, Delegators,  \* bounds: who is named, who hands over
  Overlaps,       \* bound: requests are served at once after the founder's first, too
  None

Operations == {"change_role", "deactivate", "reactivate", "invite", "join"}

ASSUME PeopleAssumption ==
  /\ Founder \in People /\ Actors \subseteq People
  /\ Nameable \subseteq People /\ Delegators \subseteq People
  /\ None \notin People

ASSUME RolesAssumption ==
  /\ InitialRoles \subseteq Roles \cup {"none"}
  /\ None \notin Roles \cup {"none"} /\ None \notin Operations

VARIABLES
  role,       \* each person's, "none" before they join
  active,     \* members who are not deactivated
  invite,     \* the open invite of each person's address, or NoInvite
  named,      \* the people named as the assistant's approvers
  standIn,    \* whom each person handed their requests to
  soleSwitch, \* sole_reviewer_self_approval
  handler,    \* the request each handler has checked and not yet committed
  so          \* far: the founder asked for nothing; no two requests were served at once

rights == <<named, standIn, soleSwitch>>
vars == <<role, active, invite, rights, handler, so>>

Org == [role |-> role, active |-> active, named |-> named, standIn |-> standIn,
        soleSwitch |-> soleSwitch]

Rank(r) == CASE r = "none" -> 0 [] r = "employee" -> 1 [] r = "member" -> 2
             [] r = "admin" -> 3 [] r = "owner" -> 4

NoInvite == [role |-> None, by |-> None]
NoWork == [op |-> None, actor |-> None, target |-> None, role |-> None]

Owners == {u \in active : role[u] = "owner"}

-----------------------------------------------------------------------------
(* The rules.                                                              *)

OtherOwners(u) == Owners \ {u}

\* Mutant of MayMove: only the rank of the change is looked at, as before.
MayGrantAny(a, u, r) == Rank(r) <= Rank(role[a]) \/ a = u

\* _authorise_role_change
MayMove(a, u, r) ==
  \/ a = u /\ Rank(r) <= Rank(role[u])
  \/ role[a] = "owner"
  \/ Rank(r) <= Rank(role[a]) /\ Rank(role[u]) < Rank(role[a])

\* authorise
MayRemove(a, u) == a # u /\ (role[a] = "owner" \/ Rank(role[u]) < Rank(role[a]))

\* inviter_still_may
InviterStillMay(i) ==
  i.by \in active /\ IsAdmin(Org, i.by) /\ Rank(i.role) <= Rank(role[i.by])

Administers(a) == a \in Actors \cap Admins(Org)

-----------------------------------------------------------------------------
(* What a request checks.                                                  *)

MayChangeRole(a, u, r) ==
  /\ Administers(a) /\ u \in active /\ r \in Roles \ {role[u]}
  /\ MayMove(a, u, r)
  /\ role[u] = "owner" => OtherOwners(u) # {}

MayDeactivate(a, u) ==
  /\ Administers(a) /\ u \in active
  /\ MayRemove(a, u)
  /\ role[u] = "owner" => OtherOwners(u) # {}

MayReactivate(a, u) ==
  /\ Administers(a) /\ role[u] # "none" /\ u \notin active
  /\ MayRemove(a, u)

MayInvite(a, u, r) ==
  /\ Administers(a) /\ role[u] = "none"
  /\ r \in Roles /\ Rank(r) <= Rank(role[a])

\* The invite a sent is used by its addressee.
MayJoin(a, u, r) ==
  /\ u \in Actors /\ role[u] = "none"
  /\ invite[u] = [role |-> r, by |-> a]
  /\ InviterStillMay(invite[u])

Ask(h, op, a, u, r) ==
  /\ handler[h] = NoWork
  /\ \/ op = "change_role" /\ MayChangeRole(a, u, r)
     \/ op = "deactivate" /\ r = None /\ MayDeactivate(a, u)
     \/ op = "reactivate" /\ r = None /\ MayReactivate(a, u)
     \/ op = "invite" /\ MayInvite(a, u, r)
     \/ op = "join" /\ MayJoin(a, u, r)
  /\ handler' = [handler EXCEPT ![h] = [op |-> op, actor |-> a, target |-> u, role |-> r]]
  /\ Overlaps \/ (so.quiet /\ a # Founder) \/ \A g \in Handlers : handler[g] = NoWork
  /\ so' = [quiet |-> so.quiet /\ a # Founder,
            alone |-> so.alone /\ \A g \in Handlers : handler[g] = NoWork]
  /\ UNCHANGED <<role, active, invite, rights>>

-----------------------------------------------------------------------------
(* What it commits.                                                        *)

Commits(h, op) ==
  /\ handler[h].op = op
  /\ handler' = [handler EXCEPT ![h] = NoWork]
  /\ UNCHANGED so

ChangeRole(h) ==
  /\ Commits(h, "change_role")
  /\ role' = [role EXCEPT ![handler[h].target] = handler[h].role]
  /\ UNCHANGED <<active, invite, rights>>

\* The leaver's open invites are withdrawn with them.
Deactivate(h) ==
  /\ Commits(h, "deactivate")
  /\ active' = active \ {handler[h].target}
  /\ invite' = [u \in People |->
       IF invite[u].by = handler[h].target THEN NoInvite ELSE invite[u]]
  /\ UNCHANGED <<role, rights>>

Reactivate(h) ==
  /\ Commits(h, "reactivate")
  /\ active' = active \cup {handler[h].target}
  /\ UNCHANGED <<role, invite, rights>>

Offer(h) == [role |-> handler[h].role, by |-> handler[h].actor]

\* One open invite for an address: the new one voids the old.
CreateInvite(h) ==
  /\ Commits(h, "invite")
  /\ invite' = [invite EXCEPT ![handler[h].target] = Offer(h)]
  /\ UNCHANGED <<role, active, rights>>

\* The membership is inserted (a second one for the same person is refused by the
\* table), and the invite it was checked with is used up.
Join(h) ==
  LET u == handler[h].target
  IN /\ Commits(h, "join")
     /\ role[u] = "none"
     /\ role' = [role EXCEPT ![u] = handler[h].role]
     /\ active' = active \cup {u}
     /\ invite' = [invite EXCEPT ![u] = IF @ = Offer(h) THEN NoInvite ELSE @]
     /\ UNCHANGED rights

Abandon(h) ==
  /\ handler[h] # NoWork
  /\ handler' = [handler EXCEPT ![h] = NoWork]
  /\ UNCHANGED <<role, active, invite, rights, so>>

-----------------------------------------------------------------------------
(* Requests of one step: what they check may as well change just after     *)
(* they commit as just before.                                             *)

RevokeInvite(a, u) ==
  /\ Administers(a)
  /\ invite[u] # NoInvite /\ Rank(invite[u].role) <= Rank(role[a])
  /\ invite' = [invite EXCEPT ![u] = NoInvite]
  /\ UNCHANGED <<role, active, rights, handler, so>>

\* A member's own use of an invite changes nothing else.
UseAsMember(u) ==
  /\ u \in Actors \cap active
  /\ invite[u] # NoInvite /\ InviterStillMay(invite[u])
  /\ invite' = [invite EXCEPT ![u] = NoInvite]
  /\ UNCHANGED <<role, active, rights, handler, so>>

SetApprovers(a, people) ==
  /\ Administers(a) /\ people \subseteq active
  /\ named' = people
  /\ UNCHANGED <<role, active, invite, standIn, soleSwitch, handler, so>>

SetSwitch(a, on) ==
  /\ a \in Actors \cap Owners
  /\ soleSwitch' = on
  /\ UNCHANGED <<role, active, invite, named, standIn, handler, so>>

Delegate(u, d) ==
  /\ u \in Actors \cap active /\ d \in active /\ d # u
  /\ standIn' = [standIn EXCEPT ![u] = @ \cup {d}]
  /\ UNCHANGED <<role, active, invite, named, soleSwitch, handler, so>>

\* Ended by the person, or lapsed.
EndDelegation(u, d) ==
  /\ d \in standIn[u]
  /\ standIn' = [standIn EXCEPT ![u] = @ \ {d}]
  /\ UNCHANGED <<role, active, invite, named, soleSwitch, handler, so>>

-----------------------------------------------------------------------------
Init ==
  /\ role \in [People -> InitialRoles \cup {"owner"}]
  /\ role[Founder] = "owner" /\ \A u \in People \ {Founder} : role[u] \in InitialRoles
  /\ active = {u \in People : role[u] # "none"}
  /\ invite = [u \in People |-> NoInvite]
  /\ named = {} /\ standIn = [u \in People |-> {}]
  /\ soleSwitch = TRUE
  /\ handler = [h \in Handlers |-> NoWork]
  /\ so = [quiet |-> TRUE, alone |-> TRUE]

HandlerNext(h) ==
  \/ \E op \in Operations, a, u \in People, r \in Roles \cup {None} : Ask(h, op, a, u, r)
  \/ ChangeRole(h) \/ Deactivate(h) \/ Reactivate(h)
  \/ CreateInvite(h) \/ Join(h) \/ Abandon(h)

Next ==
  \/ \E h \in Handlers : HandlerNext(h)
  \/ \E a \in Actors, u \in People : RevokeInvite(a, u)
  \/ \E u \in Actors : UseAsMember(u)
  \/ \E a \in Actors, people \in SUBSET Nameable : SetApprovers(a, people)
  \/ \E a \in Actors, on \in BOOLEAN : SetSwitch(a, on)
  \/ \E u \in Delegators, d \in People : Delegate(u, d) \/ EndDelegation(u, d)

Spec == Init /\ [][Next]_vars

-----------------------------------------------------------------------------
(* Who may approve a version (services/duties.py), for the people it       *)
(* involves: who submitted it and who built the assistant.                 *)

\* Mutant of OtherReviewers: those involved are counted.
EveryReviewer(involved) == Admins(Org)

OtherReviewers(involved) == Admins(Org) \ involved

MayApproveVersion(u, involved) ==
  /\ u \in Admins(Org)
  /\ u \in involved =>
       OtherReviewers(involved) = {} /\ role[u] = "owner" /\ soleSwitch

-----------------------------------------------------------------------------
(* Properties.                                                             *)

Work == [op : Operations, actor : People, target : People, role : Roles \cup {None}]

\* Every variable has its type.
TypeOK ==
  /\ role \in [People -> Roles \cup {"none"}]
  /\ active \subseteq {u \in People : role[u] # "none"}
  /\ invite \in [People -> [role : Roles, by : People] \cup {NoInvite}]
  /\ named \subseteq People /\ standIn \in [People -> SUBSET People]
  /\ soleSwitch \in BOOLEAN
  /\ handler \in [Handlers -> Work \cup {NoWork}]
  /\ so \in [quiet : BOOLEAN, alone : BOOLEAN]

\* "An organisation keeps at least one active owner."  Not kept by the code: two owners
\* may each be removed by the other at once.
AnOwnerRemains == Owners # {}

\* It does, as long as no two requests were served at once.
KeepsAnOwner == so.alone => AnOwnerRemains

\* The founder is the one owner as the behaviour begins.
SoleFounder == "owner" \notin InitialRoles

\* No takeover: whatever the others do, and in whatever order their requests are
\* served, a founder who is the one owner stays it until they ask for something themselves.
NoTakeover == SoleFounder /\ so.quiet => Owners = {Founder}

\* What makes it so: nothing on its way, no invite and no request being served, makes
\* an owner or moves the founder.
FounderReigns ==
  /\ Founder \in active
  /\ \A u \in People : role[u] = "owner" <=> u = Founder
  /\ \A u \in People : invite[u].role # "owner"
  /\ \A h \in Handlers :
       /\ handler[h].role # "owner"
       /\ handler[h].op \in {"change_role", "deactivate"} => handler[h].target # Founder

\* While one request is served at a time, the one that takes an owner away leaves
\* another.
LeavesAnOwner ==
  \A h \in Handlers :
    handler[h].op \in {"change_role", "deactivate"} /\ role[handler[h].target] = "owner"
      => OtherOwners(handler[h].target) # {}

\* Whoever a request is put to may answer it: deciders and assert_can_decide
\* agree, for every asker.
AskedMayAnswer ==
  \A asker \in active : \A u \in Deciders(Org, asker) :
    MayDecide(Org, "approver", asker, u)

\* With an owner, and the switch on, nobody's request or version waits for somebody
\* who does not exist.
NobodyIsStuck ==
  Owners # {} /\ soleSwitch =>
    /\ \A asker \in active : \E u \in active : MayDecide(Org, "approver", asker, u)
    /\ \A submitter, builder \in People :
         \E u \in active : MayApproveVersion(u, {submitter, builder})
=============================================================================
