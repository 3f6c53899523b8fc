-------------------------- MODULE OrgRightsProofs --------------------------
(***************************************************************************)
(* Proofs about OrgRights: its type invariant, that the others cannot take *)
(* the organisation from its founder in whatever order their requests are  *)
(* served, and that it keeps an owner while they are served one at a time. *)
(***************************************************************************)
EXTENDS OrgRights, TLAPS

-----------------------------------------------------------------------------
(* Type correctness.                                                       *)

(* A checked request has a type, and a role when it needs one.             *)
LEMMA AskTyped ==
  ASSUME TypeOK, NEW h \in Handlers, NEW op \in Operations, NEW a \in People,
         NEW u \in People, NEW r \in Roles \cup {None}, Ask(h, op, a, u, r)
  PROVE  /\ handler' \in [Handlers -> Work \cup {NoWork}]
         /\ so' \in [quiet : BOOLEAN, alone : BOOLEAN]
         /\ UNCHANGED <<role, active, invite, named, standIn, soleSwitch>>
<1>1. [op |-> op, actor |-> a, target |-> u, role |-> r] \in Work
  BY DEF Work
<1>2. /\ (so.quiet /\ a # Founder) \in BOOLEAN
      /\ (so.alone /\ \A g \in Handlers : handler[g] = NoWork) \in BOOLEAN
  BY Zenon
<1>3. so' = [quiet |-> so.quiet /\ a # Founder,
             alone |-> so.alone /\ \A g \in Handlers : handler[g] = NoWork]
  BY DEF Ask
<1>4. so' \in [quiet : BOOLEAN, alone : BOOLEAN]
  BY <1>2, <1>3, Zenon
<1> QED  BY <1>1, <1>4 DEF TypeOK, Ask, rights

(* What a request that commits had checked.                                *)
LEMMA CommitTyped ==
  ASSUME TypeOK, NEW h \in Handlers, NEW op \in Operations, Commits(h, op)
  PROVE  /\ handler[h] \in Work /\ handler[h].op = op
         /\ handler[h].target \in People /\ handler[h].actor \in People
         /\ handler' = [handler EXCEPT ![h] = NoWork]
         /\ handler' \in [Handlers -> Work \cup {NoWork}]
         /\ so' = so
<1>1. NoWork.op = None
  BY DEF NoWork
<1>2. handler[h] # NoWork
  BY <1>1, RolesAssumption DEF Commits
<1>3. handler[h] \in Work
  BY <1>2 DEF TypeOK
<1> QED  BY <1>3 DEF TypeOK, Commits, Work

(* The requests that carry a role carry one of the organisation's, and only *)
(* members are reactivated.                                                 *)
RolesGiven ==
  \A h \in Handlers :
    /\ handler[h].op \in {"change_role", "invite", "join"} => handler[h].role \in Roles
    /\ handler[h].op = "reactivate" => role[handler[h].target] # "none"

TypeInv == TypeOK /\ RolesGiven

(* The five requests that commit, and the ones abandoned.                  *)
LEMMA CommitKeepsType ==
  ASSUME TypeInv, NEW h \in Handlers,
         ChangeRole(h) \/ Deactivate(h) \/ Reactivate(h) \/ CreateInvite(h) \/ Join(h)
           \/ Abandon(h)
  PROVE  TypeOK'
<1> USE DEF TypeInv
<1>1. CASE ChangeRole(h)
  <2>1. Commits(h, "change_role")
    BY <1>1 DEF ChangeRole
  <2>2. handler[h].target \in People /\ handler[h].role \in Roles
        /\ handler' \in [Handlers -> Work \cup {NoWork}] /\ so' = so
    BY <2>1, CommitTyped DEF RolesGiven, Operations
  <2>3. handler[h].role # "none"
    BY <2>2 DEF Roles
  <2> QED  BY <1>1, <2>2, <2>3 DEF ChangeRole, TypeOK, rights
<1>2. CASE Deactivate(h)
  <2>1. Commits(h, "deactivate")
    BY <1>2 DEF Deactivate
  <2>2. handler' \in [Handlers -> Work \cup {NoWork}] /\ so' = so
    BY <2>1, CommitTyped DEF Operations
  <2> QED  BY <1>2, <2>2 DEF Deactivate, TypeOK, rights
<1>3. CASE Reactivate(h)
  <2>1. Commits(h, "reactivate")
    BY <1>3 DEF Reactivate
  <2>2. handler[h].target \in People /\ role[handler[h].target] # "none"
        /\ handler' \in [Handlers -> Work \cup {NoWork}] /\ so' = so
    BY <2>1, CommitTyped DEF RolesGiven, Operations
  <2> QED  BY <1>3, <2>2 DEF Reactivate, TypeOK, rights
<1>4. CASE CreateInvite(h)
  <2>1. Commits(h, "invite")
    BY <1>4 DEF CreateInvite
  <2>2. handler[h].target \in People /\ handler[h].actor \in People
        /\ handler[h].role \in Roles /\ handler' \in [Handlers -> Work \cup {NoWork}]
        /\ so' = so
    BY <2>1, CommitTyped DEF RolesGiven, Operations
  <2> QED  BY <1>4, <2>2 DEF CreateInvite, Offer, TypeOK, rights
<1>5. CASE Join(h)
  <2>1. Commits(h, "join")
    BY <1>5 DEF Join
  <2>2. handler[h].target \in People /\ handler[h].role \in Roles
        /\ handler' \in [Handlers -> Work \cup {NoWork}] /\ so' = so
    BY <2>1, CommitTyped DEF RolesGiven, Operations
  <2>3. handler[h].role # "none"
    BY <2>2 DEF Roles
  <2> QED  BY <1>5, <2>2, <2>3 DEF Join, TypeOK, rights
<1>6. CASE Abandon(h)
  BY <1>6 DEF Abandon, TypeOK, rights
<1> QED  BY <1>1, <1>2, <1>3, <1>4, <1>5, <1>6

(* Nobody's role is taken away altogether, and no handler but the one that *)
(* commits changes its request.                                            *)
LEMMA CommitKeepsRoles ==
  ASSUME TypeInv, NEW h \in Handlers,
         ChangeRole(h) \/ Deactivate(h) \/ Reactivate(h) \/ CreateInvite(h) \/ Join(h)
           \/ Abandon(h)
  PROVE  /\ \A g \in Handlers : handler'[g] = handler[g] \/ handler'[g] = NoWork
         /\ \A u \in People : role[u] # "none" => role'[u] # "none"
<1> USE DEF TypeInv
<1>1. \A g \in Handlers : handler'[g] = handler[g] \/ handler'[g] = NoWork
  BY DEF ChangeRole, Deactivate, Reactivate, CreateInvite, Join, Abandon, Commits, TypeOK
<1>2. CASE ChangeRole(h)
  <2>1. Commits(h, "change_role")
    BY <1>2 DEF ChangeRole
  <2>2. handler[h].target \in People /\ handler[h].role \in Roles
    BY <2>1, CommitTyped DEF RolesGiven, Operations
  <2>3. handler[h].role # "none"
    BY <2>2 DEF Roles
  <2>4. \A u \in People : role[u] # "none" => role'[u] # "none"
    BY <1>2, <2>2, <2>3 DEF ChangeRole, TypeOK
  <2> QED  BY <1>1, <2>4
<1>3. CASE Join(h)
  <2>1. Commits(h, "join")
    BY <1>3 DEF Join
  <2>2. handler[h].target \in People /\ role[handler[h].target] = "none"
    BY <1>3, <2>1, CommitTyped DEF Join, Operations
  <2>3. \A u \in People : role[u] # "none" => role'[u] # "none"
    BY <1>3, <2>2 DEF Join, TypeOK
  <2> QED  BY <1>1, <2>3
<1>4. CASE Deactivate(h) \/ Reactivate(h) \/ CreateInvite(h) \/ Abandon(h)
  BY <1>1, <1>4 DEF Deactivate, Reactivate, CreateInvite, Abandon
<1> QED  BY <1>2, <1>3, <1>4

(* What a request checked of the role it carries.                          *)
LEMMA AskGives ==
  ASSUME TypeInv, NEW h \in Handlers, NEW op \in Operations, NEW a \in People,
         NEW u \in People, NEW r \in Roles \cup {None}, Ask(h, op, a, u, r)
  PROVE  RolesGiven'
<1> USE DEF TypeInv
<1> DEFINE w == [op |-> op, actor |-> a, target |-> u, role |-> r]
<1>1. handler' = [handler EXCEPT ![h] = w] /\ role' = role
  BY DEF Ask
<1>2. op \in {"change_role", "invite"} => r \in Roles
  BY DEF Ask, MayChangeRole, MayInvite
<1>3. op = "join" => r \in Roles
  <2>1. SUFFICES ASSUME op = "join" PROVE r \in Roles
    OBVIOUS
  <2>2. invite[u] = [role |-> r, by |-> a]
    BY <2>1 DEF Ask, MayJoin
  <2>3. invite[u] # NoInvite
    BY <2>2, PeopleAssumption DEF NoInvite
  <2>4. invite[u] \in [role : Roles, by : People]
    BY <2>3 DEF TypeOK
  <2> QED  BY <2>2, <2>4
<1>4. op = "reactivate" => role[u] # "none"
  BY DEF Ask, MayReactivate
<1>5. \A g \in Handlers : handler'[g] = IF g = h THEN w ELSE handler[g]
  BY <1>1 DEF TypeOK
<1> QED  BY <1>1, <1>2, <1>3, <1>4, <1>5 DEF RolesGiven

(* A request of one step keeps the types.                                  *)
LEMMA OneStepKeepsType ==
  ASSUME TypeInv,
         \/ \E a \in Actors, u \in People : RevokeInvite(a, u)
         \/ \E u \in Actors : UseAsMember(u)
         \/ \E a \in Actors, people \in SUBSET Nameable : SetApprovers(a, people)
         \/ \E a \in Actors, on \in BOOLEAN : SetSwitch(a, on)
         \/ \E u \in Delegators, d \in People : Delegate(u, d) \/ EndDelegation(u, d)
  PROVE  TypeInv'
<1> USE PeopleAssumption DEF TypeInv, TypeOK, RolesGiven, rights
<1>1. ASSUME NEW a \in Actors, NEW u \in People, RevokeInvite(a, u)  PROVE TypeInv'
  BY <1>1 DEF RevokeInvite
<1>2. ASSUME NEW u \in Actors, UseAsMember(u)  PROVE TypeInv'
  BY <1>2 DEF UseAsMember
<1>3. ASSUME NEW a \in Actors, NEW people \in SUBSET Nameable, SetApprovers(a, people)
      PROVE TypeInv'
  BY <1>3 DEF SetApprovers
<1>4. ASSUME NEW a \in Actors, NEW on \in BOOLEAN, SetSwitch(a, on)  PROVE TypeInv'
  BY <1>4 DEF SetSwitch
<1>5. ASSUME NEW u \in Delegators, NEW d \in People, Delegate(u, d)  PROVE TypeInv'
  BY <1>5 DEF Delegate
<1>6. ASSUME NEW u \in Delegators, NEW d \in People, EndDelegation(u, d)  PROVE TypeInv'
  BY <1>6 DEF EndDelegation
<1> QED  BY <1>1, <1>2, <1>3, <1>4, <1>5, <1>6

LEMMA TypeStep == TypeInv /\ [Next]_vars => TypeInv'
<1> SUFFICES ASSUME TypeInv, [Next]_vars  PROVE TypeInv'
  OBVIOUS
<1>1. ASSUME NEW h \in Handlers, NEW op \in Operations, NEW a \in People,
             NEW u \in People, NEW r \in Roles \cup {None}, Ask(h, op, a, u, r)
      PROVE  TypeInv'
  <2>1. TypeOK'
    BY <1>1, AskTyped DEF TypeInv, TypeOK
  <2>2. RolesGiven'
    BY <1>1, AskGives
  <2> QED  BY <2>1, <2>2 DEF TypeInv
<1>2. ASSUME NEW h \in Handlers,
             ChangeRole(h) \/ Deactivate(h) \/ Reactivate(h) \/ CreateInvite(h) \/ Join(h)
               \/ Abandon(h)
      PROVE  TypeInv'
  <2>1. TypeOK'
    BY <1>2, CommitKeepsType
  <2>2. /\ \A g \in Handlers : handler'[g] = handler[g] \/ handler'[g] = NoWork
        /\ \A u \in People : role[u] # "none" => role'[u] # "none"
    BY <1>2, CommitKeepsRoles
  <2>3. ASSUME NEW g \in Handlers
        PROVE  /\ handler'[g].op \in {"change_role", "invite", "join"}
                    => handler'[g].role \in Roles
               /\ handler'[g].op = "reactivate" => role'[handler'[g].target] # "none"
    <3>1. CASE handler'[g] = NoWork
      BY <3>1, RolesAssumption DEF NoWork, Operations
    <3>2. CASE handler'[g] = handler[g] /\ handler[g] # NoWork
      <4>1. handler[g].target \in People
        BY <3>2 DEF TypeInv, TypeOK, Work
      <4> QED  BY <3>2, <4>1, <2>2 DEF TypeInv, RolesGiven
    <3> QED  BY <2>2, <3>1, <3>2
  <2> QED  BY <2>1, <2>3 DEF TypeInv, RolesGiven
<1>3. CASE UNCHANGED vars
  BY <1>3 DEF TypeInv, TypeOK, RolesGiven, vars, rights
<1> QED  BY <1>1, <1>2, <1>3, OneStepKeepsType DEF Next, HandlerNext

LEMMA TypeInit == Init => TypeInv
<1> SUFFICES ASSUME Init  PROVE TypeInv
  OBVIOUS
<1>1. handler \in [Handlers -> Work \cup {NoWork}] /\ \A h \in Handlers : handler[h] = NoWork
  BY DEF Init
<1>2. role \in [People -> Roles \cup {"none"}]
  BY RolesAssumption DEF Init, Roles
<1>3. TypeOK
  BY <1>1, <1>2 DEF Init, TypeOK
<1>4. RolesGiven
  BY <1>1, RolesAssumption DEF RolesGiven, NoWork, Operations
<1> QED  BY <1>3, <1>4 DEF TypeInv

(* Every variable keeps its type, for any number of people and requests.   *)
THEOREM TypeCorrect == Spec => []TypeOK
<1>1. TypeInv => TypeOK
  BY DEF TypeInv
<1> QED  BY <1>1, TypeInit, TypeStep, PTL DEF Spec

-----------------------------------------------------------------------------
(* No takeover.                                                            *)

(* Who is not an owner grants no owner's role and moves no owner.          *)
LEMMA BelowOwner ==
  ASSUME TypeInv, NEW a \in People, role[a] # "owner"
  PROVE  /\ \A u \in People, r \in Roles : MayMove(a, u, r) => r # "owner" /\ role[u] # "owner"
         /\ \A u \in People : MayRemove(a, u) => role[u] # "owner"
         /\ Rank("owner") > Rank(role[a])
<1>1. role[a] \in {"none", "employee", "member", "admin"}
  BY DEF TypeInv, TypeOK, Roles
<1>2. Rank("owner") = 4 /\ Rank(role[a]) \in 0..3
  BY <1>1 DEF Rank
<1>3. \A u \in People : MayRemove(a, u) => role[u] # "owner"
  BY <1>2 DEF MayRemove
<1>4. ASSUME NEW u \in People, NEW r \in Roles, MayMove(a, u, r)
      PROVE  r # "owner" /\ role[u] # "owner"
  <2>1. CASE a = u /\ Rank(r) <= Rank(role[u])
    BY <2>1, <1>2
  <2>2. CASE Rank(r) <= Rank(role[a]) /\ Rank(role[u]) < Rank(role[a])
    BY <2>2, <1>2
  <2> QED  BY <1>4, <2>1, <2>2 DEF MayMove
<1> QED  BY <1>2, <1>3, <1>4

(* A request of somebody else, as it is checked.                           *)
LEMMA AskKeepsFounder ==
  ASSUME TypeInv, FounderReigns, NEW h \in Handlers, NEW op \in Operations, NEW a \in People,
         NEW u \in People, NEW r \in Roles \cup {None}, Ask(h, op, a, u, r),
         a # Founder
  PROVE  FounderReigns'
<1> DEFINE w == [op |-> op, actor |-> a, target |-> u, role |-> r]
<1>1. handler' = [handler EXCEPT ![h] = w] /\ UNCHANGED <<role, active, invite>>
  BY DEF Ask
<1>2. \A g \in Handlers : handler'[g] = IF g = h THEN w ELSE handler[g]
  BY <1>1 DEF TypeInv, TypeOK
<1>3. role[a] # "owner"
  BY DEF FounderReigns
<1>4. r # "owner" /\ (op \in {"change_role", "deactivate"} => u # Founder)
  <2>1. CASE op = "change_role"
    <3>1. Administers(a) /\ r \in Roles /\ MayMove(a, u, r)
      BY <2>1 DEF Ask, MayChangeRole
    <3> QED  BY <3>1, <1>3, BelowOwner DEF FounderReigns
  <2>2. CASE op = "deactivate"
    <3>1. Administers(a) /\ r = None /\ MayRemove(a, u)
      BY <2>2 DEF Ask, MayDeactivate
    <3> QED  BY <3>1, <1>3, BelowOwner, RolesAssumption DEF FounderReigns, Roles
  <2>3. CASE op = "reactivate"
    BY <2>3, RolesAssumption DEF Ask, Roles
  <2>4. CASE op = "invite"
    <3>1. Administers(a) /\ Rank(r) <= Rank(role[a])
      BY <2>4 DEF Ask, MayInvite
    <3>2. Rank("owner") > Rank(role[a]) /\ Rank("owner") = 4 /\ Rank(role[a]) \in 0..3
      <4>1. role[a] \in {"none", "employee", "member", "admin"}
        BY <3>1, <1>3 DEF TypeInv, TypeOK, Roles
      <4> QED  BY <4>1 DEF Rank
    <3> QED  BY <2>4, <3>1, <3>2
  <2>5. CASE op = "join"
    <3>1. invite[u] = [role |-> r, by |-> a]
      BY <2>5 DEF Ask, MayJoin
    <3> QED  BY <2>5, <3>1 DEF FounderReigns
  <2> QED  BY <2>1, <2>2, <2>3, <2>4, <2>5 DEF Operations
<1> QED  BY <1>1, <1>2, <1>4 DEF FounderReigns

(* A request that commits.                                                 *)
LEMMA CommitKeepsFounder ==
  ASSUME TypeInv, FounderReigns, NEW h \in Handlers,
         ChangeRole(h) \/ Deactivate(h) \/ Reactivate(h) \/ CreateInvite(h) \/ Join(h)
           \/ Abandon(h)
  PROVE  FounderReigns'
<1>1. \A g \in Handlers : handler'[g] = handler[g] \/ handler'[g] = NoWork
  BY CommitKeepsRoles
<1>2. \A g \in Handlers :
        /\ handler'[g].role # "owner"
        /\ handler'[g].op \in {"change_role", "deactivate"} => handler'[g].target # Founder
  BY <1>1, RolesAssumption DEF NoWork, FounderReigns, Roles, Operations
<1>3. NoInvite.role # "owner"
  BY RolesAssumption DEF NoInvite, Roles
<1>4. CASE ChangeRole(h)
  <2>1. Commits(h, "change_role")
    BY <1>4 DEF ChangeRole
  <2>2. handler[h].op = "change_role" /\ handler[h].target \in People
    BY <2>1, CommitTyped DEF TypeInv, Operations
  <2>3. handler[h].target # Founder /\ handler[h].role # "owner"
        /\ role[handler[h].target] # "owner"
    BY <2>2 DEF FounderReigns
  <2>4. \A u \in People : role'[u] = IF u = handler[h].target THEN handler[h].role ELSE role[u]
    BY <1>4 DEF ChangeRole, TypeInv, TypeOK
  <2> QED  BY <1>2, <1>4, <2>3, <2>4 DEF FounderReigns, ChangeRole
<1>5. CASE Deactivate(h)
  <2>1. Commits(h, "deactivate")
    BY <1>5 DEF Deactivate
  <2>2. handler[h].target # Founder
    BY <2>1 DEF FounderReigns, Commits
  <2>3. \A u \in People : invite'[u].role # "owner"
    BY <1>5, <1>3 DEF Deactivate, FounderReigns
  <2> QED  BY <1>2, <1>5, <2>2, <2>3 DEF FounderReigns, Deactivate
<1>6. CASE Reactivate(h)
  BY <1>2, <1>6 DEF FounderReigns, Reactivate
<1>7. CASE CreateInvite(h)
  <2>1. Offer(h).role # "owner"
    BY DEF Offer, FounderReigns
  <2>2. \A u \in People : invite'[u] = invite[u] \/ invite'[u] = Offer(h)
    BY <1>7 DEF CreateInvite, TypeInv, TypeOK
  <2>3. \A u \in People : invite'[u].role # "owner"
    BY <2>1, <2>2 DEF FounderReigns
  <2> QED  BY <1>2, <1>7, <2>3 DEF FounderReigns, CreateInvite
<1>8. CASE Join(h)
  <2>1. Commits(h, "join")
    BY <1>8 DEF Join
  <2>2. handler[h].target \in People /\ role[handler[h].target] = "none"
    BY <1>8, <2>1, CommitTyped DEF Join, TypeInv, Operations
  <2>3. handler[h].target # Founder /\ handler[h].role # "owner"
    BY <2>2 DEF FounderReigns
  <2>4. \A u \in People : role'[u] = IF u = handler[h].target THEN handler[h].role ELSE role[u]
    BY <1>8 DEF Join, TypeInv, TypeOK
  <2>5. \A u \in People : invite'[u] = invite[u] \/ invite'[u] = NoInvite
    BY <1>8 DEF Join, TypeInv, TypeOK
  <2>6. active' = active \cup {handler[h].target}
    BY <1>8 DEF Join
  <2>7. \A u \in People : invite'[u].role # "owner"
    BY <1>3, <2>5 DEF FounderReigns
  <2> QED  BY <1>2, <2>2, <2>3, <2>4, <2>6, <2>7 DEF FounderReigns
<1>9. CASE Abandon(h)
  BY <1>2, <1>9 DEF FounderReigns, Abandon
<1> QED  BY <1>4, <1>5, <1>6, <1>7, <1>8, <1>9

(* A request of one step.                                                  *)
LEMMA OneStepKeepsFounder ==
  ASSUME TypeInv, FounderReigns,
         \/ \E a \in Actors, u \in People : RevokeInvite(a, u)
         \/ \E u \in Actors : UseAsMember(u)
         \/ \E a \in Actors, people \in SUBSET Nameable : SetApprovers(a, people)
         \/ \E a \in Actors, on \in BOOLEAN : SetSwitch(a, on)
         \/ \E u \in Delegators, d \in People : Delegate(u, d) \/ EndDelegation(u, d)
         \/ UNCHANGED vars
  PROVE  FounderReigns'
<1>1. NoInvite.role # "owner"
  BY RolesAssumption DEF NoInvite, Roles
<1>2. UNCHANGED <<role, active, handler>>
  BY DEF RevokeInvite, UseAsMember, SetApprovers, SetSwitch, Delegate, EndDelegation, vars
<1>3. \A u \in People : invite'[u] = invite[u] \/ invite'[u] = NoInvite
  BY DEF RevokeInvite, UseAsMember, SetApprovers, SetSwitch, Delegate, EndDelegation,
         vars, TypeInv, TypeOK
<1> QED  BY <1>1, <1>2, <1>3 DEF FounderReigns

LEMMA FounderInit == Init /\ SoleFounder => FounderReigns
<1> SUFFICES ASSUME Init, SoleFounder  PROVE FounderReigns
  OBVIOUS
<1>1. \A h \in Handlers : handler[h].role = None /\ handler[h].op = None
  BY DEF Init, NoWork
<1>2. \A u \in People : invite[u].role = None
  BY DEF Init, NoInvite
<1>3. Founder \in active
  BY PeopleAssumption DEF Init
<1>4. None # "owner" /\ None \notin {"change_role", "deactivate"}
  BY RolesAssumption DEF Roles, Operations
<1>5. \A u \in People : role[u] = "owner" <=> u = Founder
  BY PeopleAssumption DEF Init, SoleFounder
<1> QED  BY <1>1, <1>2, <1>3, <1>4, <1>5 DEF FounderReigns

(* Only a request that is checked changes what is known of the founder.    *)
LEMMA OnlyAskIsSeen ==
  ASSUME [Next]_vars,
         ~ \E h \in Handlers, op \in Operations, a, u \in People, r \in Roles \cup {None} :
             Ask(h, op, a, u, r)
  PROVE  so' = so
<1>1. ASSUME NEW h \in Handlers, HandlerNext(h)  PROVE so' = so
  BY <1>1 DEF HandlerNext, ChangeRole, Deactivate, Reactivate, CreateInvite, Join, Abandon,
              Commits
<1>2. CASE ~ \E h \in Handlers : HandlerNext(h)
  BY <1>2 DEF Next, RevokeInvite, UseAsMember, SetApprovers, SetSwitch, Delegate,
              EndDelegation, vars
<1> QED  BY <1>1, <1>2

(* A founder who is the one owner reigns until they ask for something.     *)
FounderInv == SoleFounder /\ so.quiet => FounderReigns

LEMMA FounderStep == TypeInv /\ FounderInv /\ [Next]_vars => FounderInv'
<1> SUFFICES ASSUME TypeInv, FounderInv, [Next]_vars, SoleFounder, so'.quiet
             PROVE FounderReigns'
  BY DEF FounderInv
<1>1. ASSUME NEW h \in Handlers, NEW op \in Operations, NEW a \in People,
             NEW u \in People, NEW r \in Roles \cup {None}, Ask(h, op, a, u, r)
      PROVE  FounderReigns'
  <2>1. so.quiet /\ a # Founder
    BY <1>1 DEF Ask
  <2> QED  BY <1>1, <2>1, AskKeepsFounder DEF FounderInv
<1>2. CASE ~ \E h \in Handlers, op \in Operations, a, u \in People, r \in Roles \cup {None} :
               Ask(h, op, a, u, r)
  <2>1. FounderReigns
    BY <1>2, OnlyAskIsSeen DEF FounderInv
  <2>2. ASSUME NEW h \in Handlers, HandlerNext(h)  PROVE FounderReigns'
    BY <1>2, <2>1, <2>2, CommitKeepsFounder DEF HandlerNext
  <2> QED  BY <2>1, <2>2, OneStepKeepsFounder DEF Next
<1> QED  BY <1>1, <1>2

(* A founder who is the one owner stays it until they ask for something,   *)
(* whatever the other members ask for and in whatever order it is served.  *)
THEOREM FounderStays == Spec => []NoTakeover
<1>1. TypeInv /\ FounderInv => NoTakeover
  BY PeopleAssumption DEF FounderInv, FounderReigns, NoTakeover, Owners, TypeInv, TypeOK
<1>2. Init => FounderInv
  BY FounderInit DEF FounderInv
<1> QED  BY <1>1, <1>2, FounderStep, TypeInit, TypeStep, PTL DEF Spec

-----------------------------------------------------------------------------
(* The last owner.                                                         *)

\* At most one request is being served, and the one that would take an owner away leaves
\* another.
OneAtATime == \A g, h \in Handlers : handler[g] # NoWork /\ handler[h] # NoWork => g = h

OwnerInv == AnOwnerRemains /\ LeavesAnOwner /\ OneAtATime

(* What a request has checked when it would take an owner away.            *)
LEMMA AskLeavesAnOwner ==
  ASSUME TypeInv, OwnerInv,
         NEW h \in Handlers, NEW op \in Operations, NEW a \in People,
         NEW u \in People, NEW r \in Roles \cup {None}, Ask(h, op, a, u, r),
         \A g \in Handlers : handler[g] = NoWork
  PROVE  OwnerInv'
<1> DEFINE w == [op |-> op, actor |-> a, target |-> u, role |-> r]
<1>1. handler' = [handler EXCEPT ![h] = w] /\ UNCHANGED <<role, active>>
  BY DEF Ask
<1>2. \A g \in Handlers : handler'[g] = IF g = h THEN w ELSE handler[g]
  BY <1>1 DEF TypeInv, TypeOK
<1>3. op \in {"change_role", "deactivate"} /\ role[u] = "owner" => OtherOwners(u) # {}
  BY DEF Ask, MayChangeRole, MayDeactivate
<1>4. \A v : OtherOwners(v)' = OtherOwners(v)
  BY <1>1 DEF OtherOwners, Owners
<1>5. AnOwnerRemains'
  BY <1>1 DEF OwnerInv, AnOwnerRemains, Owners
<1>6. LeavesAnOwner'
  BY <1>1, <1>2, <1>3, <1>4 DEF OwnerInv, LeavesAnOwner
<1>7. OneAtATime'
  BY <1>2 DEF OneAtATime
<1> QED  BY <1>5, <1>6, <1>7 DEF OwnerInv

(* A request that commits when no other is being served.                   *)
LEMMA CommitLeavesAnOwner ==
  ASSUME TypeInv, OwnerInv, NEW h \in Handlers,
         ChangeRole(h) \/ Deactivate(h) \/ Reactivate(h) \/ CreateInvite(h) \/ Join(h)
           \/ Abandon(h)
  PROVE  OwnerInv'
<1>1. handler' = [handler EXCEPT ![h] = NoWork]
  BY DEF ChangeRole, Deactivate, Reactivate, CreateInvite, Join, Abandon, Commits
<1>2. \A g \in Handlers : handler'[g] = NoWork
  <2>1. handler[h] # NoWork
    BY RolesAssumption DEF ChangeRole, Deactivate, Reactivate, CreateInvite, Join, Abandon,
                           Commits, NoWork, Operations
  <2> QED  BY <1>1, <2>1 DEF OwnerInv, OneAtATime, TypeInv, TypeOK
<1>3. LeavesAnOwner'
  BY <1>2, RolesAssumption DEF LeavesAnOwner, NoWork, Operations
<1>4. AnOwnerRemains'
  <2>1. CASE ChangeRole(h)
    <3>1. Commits(h, "change_role")
      BY <2>1 DEF ChangeRole
    <3>2. handler[h].op = "change_role" /\ handler[h].target \in People
      BY <3>1, CommitTyped DEF TypeInv, Operations
    <3>3. PICK v \in Owners : v # handler[h].target
      BY <3>2 DEF OwnerInv, AnOwnerRemains, LeavesAnOwner, OtherOwners, Owners
    <3>4. v \in active /\ role[v] = "owner" /\ v \in People
      BY DEF Owners, TypeInv, TypeOK
    <3>5. role'[v] = "owner" /\ active' = active
      BY <2>1, <3>3, <3>4 DEF ChangeRole, TypeInv, TypeOK
    <3> QED  BY <3>4, <3>5 DEF AnOwnerRemains, Owners
  <2>2. CASE Deactivate(h)
    <3>1. handler[h].op = "deactivate"
      BY <2>2 DEF Deactivate, Commits
    <3>2. PICK v \in Owners : v # handler[h].target
      BY <3>1 DEF OwnerInv, AnOwnerRemains, LeavesAnOwner, OtherOwners, Owners
    <3> QED  BY <2>2, <3>2 DEF Deactivate, AnOwnerRemains, Owners
  <2>3. CASE Join(h)
    <3>1. PICK v \in Owners : TRUE
      BY DEF OwnerInv, AnOwnerRemains
    <3>2. v \in active /\ role[v] = "owner" /\ v \in People
      BY DEF Owners, TypeInv, TypeOK
    <3>3. role[handler[h].target] = "none"
      BY <2>3 DEF Join
    <3>4. role'[v] = "owner" /\ v \in active'
      BY <2>3, <3>2, <3>3 DEF Join, TypeInv, TypeOK
    <3> QED  BY <3>4 DEF AnOwnerRemains, Owners
  <2>4. CASE Reactivate(h) \/ CreateInvite(h) \/ Abandon(h)
    <3>1. role' = role /\ active \subseteq active'
      BY <2>4 DEF Reactivate, CreateInvite, Abandon
    <3> QED  BY <3>1 DEF OwnerInv, AnOwnerRemains, Owners
  <2> QED  BY <2>1, <2>2, <2>3, <2>4
<1>5. OneAtATime'
  BY <1>2 DEF OneAtATime
<1> QED  BY <1>3, <1>4, <1>5 DEF OwnerInv

(* A request of one step.                                                  *)
LEMMA OneStepLeavesAnOwner ==
  ASSUME OwnerInv, UNCHANGED <<role, active, handler>>
  PROVE  OwnerInv'
BY DEF OwnerInv, AnOwnerRemains, LeavesAnOwner, OtherOwners, Owners, OneAtATime

(* As long as no two requests were served at once.                         *)
AloneInv == so.alone => OwnerInv

LEMMA OwnerStep == TypeInv /\ AloneInv /\ [Next]_vars => AloneInv'
<1> SUFFICES ASSUME TypeInv, AloneInv, [Next]_vars, so'.alone  PROVE OwnerInv'
  BY DEF AloneInv
<1>1. ASSUME NEW h \in Handlers, NEW op \in Operations, NEW a \in People,
             NEW u \in People, NEW r \in Roles \cup {None}, Ask(h, op, a, u, r)
      PROVE  OwnerInv'
  <2>1. so.alone /\ \A g \in Handlers : handler[g] = NoWork
    BY <1>1 DEF Ask
  <2> QED  BY <1>1, <2>1, AskLeavesAnOwner DEF AloneInv
<1>2. CASE ~ \E h \in Handlers, op \in Operations, a, u \in People, r \in Roles \cup {None} :
               Ask(h, op, a, u, r)
  <2>1. OwnerInv
    BY <1>2, OnlyAskIsSeen DEF AloneInv
  <2>2. ASSUME NEW h \in Handlers, HandlerNext(h)  PROVE OwnerInv'
    BY <1>2, <2>1, <2>2, CommitLeavesAnOwner DEF HandlerNext
  <2>3. CASE ~ \E h \in Handlers : HandlerNext(h)
    <3>1. UNCHANGED <<role, active, handler>>
      BY <2>3 DEF Next, RevokeInvite, UseAsMember, SetApprovers, SetSwitch, Delegate,
                  EndDelegation, vars
    <3> QED  BY <2>1, <3>1, OneStepLeavesAnOwner
  <2> QED  BY <2>2, <2>3
<1> QED  BY <1>1, <1>2

LEMMA OwnerInit == Init => OwnerInv
<1> SUFFICES ASSUME Init  PROVE OwnerInv
  OBVIOUS
<1>1. Founder \in Owners
  BY PeopleAssumption DEF Init, Owners
<1>2. LeavesAnOwner
  BY RolesAssumption DEF Init, LeavesAnOwner, NoWork, Operations
<1>3. OneAtATime
  BY DEF Init, OneAtATime
<1> QED  BY <1>1, <1>2, <1>3 DEF OwnerInv, AnOwnerRemains

(* Requests served one at a time never leave the organisation without an   *)
(* active owner; OrgOwners.cfg shows two served together that do.          *)
THEOREM OwnerKept == Spec => []KeepsAnOwner
<1>1. AloneInv => KeepsAnOwner
  BY DEF AloneInv, OwnerInv, KeepsAnOwner
<1>2. Init => AloneInv
  BY OwnerInit DEF AloneInv
<1> QED  BY <1>1, <1>2, OwnerStep, TypeInit, TypeStep, PTL DEF Spec

-----------------------------------------------------------------------------
(* Deciding.                                                               *)

(* Whoever a request is put to may answer it, in every organisation.       *)
THEOREM AskedMay == Spec => []AskedMayAnswer
<1>1. AskedMayAnswer
  BY DEF AskedMayAnswer, Deciders, MayDecide, MayDecideOthers, MayDecideOwn,
         NamedApprovers, DelegatesOf, Admins
<1> QED  BY <1>1, PTL

(* With an owner and the switch on there is always somebody to decide a    *)
(* request and to approve a version.                                       *)
THEOREM SomebodyDecides == Spec => []NobodyIsStuck
<1>1. ASSUME TypeInv, Owners # {}, soleSwitch  PROVE NobodyIsStuck
  <2>1. PICK o \in Owners : TRUE
    BY <1>1
  <2>2. o \in active /\ role[o] = "owner" /\ o \in People
    BY <1>1 DEF Owners, TypeInv, TypeOK
  <2>3. o \in Admins(Org) /\ Org.soleSwitch /\ Org.active = active
    BY <1>1, <2>2 DEF Admins, IsAdmin, Org
  <2>4. ASSUME NEW asker \in active
        PROVE  \E u \in active : MayDecide(Org, "approver", asker, u)
    <3>1. CASE o # asker
      <4>1. MayDecide(Org, "approver", asker, o)
        BY <2>2, <2>3, <3>1 DEF MayDecide, MayDecideOthers, Admins
      <4> QED  BY <2>2, <4>1
    <3>2. CASE o = asker /\ Deciders(Org, asker) = {}
      <4>1. MayDecide(Org, "approver", asker, o)
        BY <2>2, <2>3, <3>2 DEF MayDecide, MayDecideOwn
      <4> QED  BY <2>2, <4>1
    <3>3. CASE Deciders(Org, asker) # {}
      <4>1. PICK u \in Deciders(Org, asker) : TRUE
        BY <3>3
      <4>2. u \in active /\ u # asker /\ MayDecideOthers(Org, u)
        BY <4>1, <2>3 DEF Deciders, MayDecideOthers, NamedApprovers, DelegatesOf, Admins
      <4>3. MayDecide(Org, "approver", asker, u)
        BY <4>2, <2>3 DEF MayDecide
      <4> QED  BY <4>2, <4>3
    <3> QED  BY <3>1, <3>2, <3>3
  <2>5. ASSUME NEW submitter \in People, NEW builder \in People
        PROVE  \E u \in active : MayApproveVersion(u, {submitter, builder})
    <3>1. CASE OtherReviewers({submitter, builder}) = {}
      <4>1. MayApproveVersion(o, {submitter, builder})
        BY <1>1, <2>2, <2>3, <3>1 DEF MayApproveVersion
      <4> QED  BY <2>2, <4>1
    <3>2. CASE OtherReviewers({submitter, builder}) # {}
      <4>1. PICK u \in OtherReviewers({submitter, builder}) : TRUE
        BY <3>2
      <4>2. u \in active /\ MayApproveVersion(u, {submitter, builder})
        BY <4>1, <2>3 DEF MayApproveVersion, OtherReviewers, Admins
      <4> QED  BY <4>2
    <3> QED  BY <3>1, <3>2
  <2> QED  BY <2>4, <2>5 DEF NobodyIsStuck
<1>2. TypeInv => NobodyIsStuck
  BY <1>1 DEF NobodyIsStuck
<1> QED  BY <1>2, TypeInit, TypeStep, PTL DEF Spec
=============================================================================
