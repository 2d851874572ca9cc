------------------------ MODULE Organizations_proofs ------------------------
(***************************************************************************)
(* Proofs about Organizations, for any users, organizations, invitations   *)
(* and any number of requests that wait for their bodies.                  *)
(***************************************************************************)
EXTENDS Organizations, FiniteSetTheorems, TLAPS

Change == [Next]_vars

\* Whoever invited was entitled to give the roles in the invitation.
InvitationsAreSound ==
    \A i \in Invitations : invitation[i] # None => invitation[i].sound

IInv ==
    /\ TypeOK
    /\ InvitationsAreSound
    /\ OwnersAreAppointed
    /\ InvitationTakenOnce

LEMMA RowIsSome == \A r \in Row : r # None
  BY NoneIsNoInvitation

LEMMA InvitationRow ==
  ASSUME TypeOK, NEW i \in Invitations, invitation[i] # None
  PROVE  /\ invitation[i] \in Row
         /\ invitation[i].org \in Orgs /\ invitation[i].to \in Users
         /\ invitation[i].roles \subseteq Roles
         /\ invitation[i].takers \subseteq Users
BY DEF TypeOK, Row, RoleSets

\* Where one element is not the only one, there is another.
LEMMA Another ==
  ASSUME NEW S, IsFiniteSet(S), NEW x \in S, Cardinality(S) # 1
  PROVE  \E y \in S : y # x
<1> SUFFICES ASSUME \A y \in S : y = x PROVE FALSE
  OBVIOUS
<1>1. S = {x}
  OBVIOUS
<1> QED
  BY <1>1, FS_Singleton

LEMMA FiniteUsers ==
  ASSUME NEW S \in SUBSET Users
  PROVE  IsFiniteSet(S)
BY FS_Subset, OrganizationsAssumption

-----------------------------------------------------------------------------
\* What the steps do to a membership.

LEMMA AppointKeeps ==
  ASSUME TypeOK, OwnersAreAppointed,
         NEW o \in Orgs, NEW u \in Users, NEW roles \in SUBSET Roles,
         NEW entitled \in BOOLEAN,
         SetRoles(o, u, roles), Appoint(o, u, roles, entitled),
         "owner" \in roles => entitled \/ <<o, u>> \in appointed
  PROVE  /\ member' \in [Orgs -> [Users -> SUBSET Roles]]
         /\ appointed' \subseteq Orgs \X Users
         /\ OwnersAreAppointed'
<1>1. member' \in [Orgs -> [Users -> SUBSET Roles]]
  BY DEF TypeOK, SetRoles
<1>2. appointed' \subseteq Orgs \X Users
  BY DEF TypeOK, Appoint
<1>3. \A p \in Orgs, w \in Users :
         member'[p][w] = IF p = o /\ w = u THEN roles ELSE member[p][w]
  BY DEF TypeOK, SetRoles
<1>4. \A p \in Orgs, w \in Users : <<p, w>> # <<o, u>> =>
         (<<p, w>> \in appointed' <=> <<p, w>> \in appointed)
  BY DEF Appoint
<1>5. "owner" \in roles => <<o, u>> \in appointed'
  BY DEF Appoint
<1>6. ASSUME NEW p \in Orgs, NEW w \in Owners(p)' PROVE <<p, w>> \in appointed'
  <2>1. w \in Users /\ "owner" \in member'[p][w]
    BY <1>6 DEF Owners
  <2>2. CASE p = o /\ w = u
    BY <2>1, <2>2, <1>3, <1>5
  <2>3. CASE ~(p = o /\ w = u)
    <3>1. w \in Owners(p)
      BY <2>1, <2>3, <1>3 DEF Owners
    <3> QED
      BY <3>1, <2>1, <2>3, <1>4 DEF OwnersAreAppointed
  <2> QED
    BY <2>2, <2>3
<1> QED
  BY <1>1, <1>2, <1>6 DEF OwnersAreAppointed

LEMMA OthersKeep ==
  ASSUME OwnersAreAppointed, UNCHANGED <<member, appointed>>
  PROVE  OwnersAreAppointed'
BY DEF OwnersAreAppointed, Owners

\* Whoever may give the owner role is entitled to.
LEMMA GiverIsEntitled ==
  ASSUME NEW p, NEW o, NEW roles, MayGive(p, o, roles), "owner" \in roles
  PROVE  Owns(p, o)
BY DEF MayGive

-----------------------------------------------------------------------------
\* What the steps do to an invitation.

LEMMA InvitationKept ==
  ASSUME IInv, UNCHANGED invitation
  PROVE  /\ invitation' \in [Invitations -> Row \cup {None}]
         /\ InvitationsAreSound' /\ InvitationTakenOnce'
BY DEF IInv, TypeOK, InvitationsAreSound, InvitationTakenOnce

Written(i, row) == invitation' = [invitation EXCEPT ![i] = row]

LEMMA InvitationWritten ==
  ASSUME IInv, NEW i \in Invitations, NEW row \in Row, Written(i, row), row.sound,
         Cardinality(row.takers) <= 1, row.takers # {} => row.status = "accepted"
  PROVE  /\ invitation' \in [Invitations -> Row \cup {None}]
         /\ InvitationsAreSound' /\ InvitationTakenOnce'
<1>1. /\ invitation'[i] = row
      /\ \A j \in Invitations \ {i} : invitation'[j] = invitation[j]
      /\ invitation' \in [Invitations -> Row \cup {None}]
  BY DEF IInv, TypeOK, Written
<1> QED
  BY <1>1 DEF IInv, InvitationsAreSound, InvitationTakenOnce

LEMMA PendingUntaken ==
  ASSUME IInv, NEW i \in Invitations, Pending(i)
  PROVE  /\ invitation[i] # None /\ invitation[i] \in Row
         /\ invitation[i].takers = {} /\ Cardinality({}) = 0
         /\ invitation[i].sound
<1>1. invitation[i] # None /\ invitation[i] \in Row /\ invitation[i].status = "pending"
  BY InvitationRow DEF Pending, IInv
<1> QED
  BY <1>1, FS_EmptySet DEF IInv, InvitationTakenOnce, InvitationsAreSound

LEMMA EndKeeps ==
  ASSUME IInv, NEW i \in Invitations, Pending(i),
         NEW status \in {"declined", "revoked", "expired"}, End(i, status)
  PROVE  /\ invitation' \in [Invitations -> Row \cup {None}]
         /\ InvitationsAreSound' /\ InvitationTakenOnce'
<1> DEFINE row == [invitation[i] EXCEPT !.status = status]
<1>1. row \in Row /\ row.takers = {}
  BY PendingUntaken DEF Row
<1>3. row.sound
  BY PendingUntaken DEF Row
<1>2. Written(i, row)
  BY DEF End, Written, IInv, TypeOK
<1>4. Cardinality(row.takers) <= 1
  BY <1>1, FS_EmptySet
<1> HIDE DEF row
<1> QED
  BY <1>1, <1>2, <1>3, <1>4, InvitationWritten

LEMMA EndAcceptedKeeps ==
  ASSUME IInv, NEW i \in Invitations, Pending(i), NEW u \in Users, EndAccepted(i, u)
  PROVE  /\ invitation' \in [Invitations -> Row \cup {None}]
         /\ InvitationsAreSound' /\ InvitationTakenOnce'
<1> DEFINE row == [invitation[i] EXCEPT !.takers = {u}, !.status = "accepted"]
<1>1. row \in Row /\ row.takers = {u} /\ row.status = "accepted"
  BY PendingUntaken DEF Row
<1>4. row.sound
  BY PendingUntaken DEF Row
<1>2. Written(i, row)
  <2>1. invitation[i].takers \cup {u} = {u}
    BY PendingUntaken
  <2> QED
    BY <2>1 DEF EndAccepted, Written, IInv, TypeOK
<1>3. Cardinality(row.takers) <= 1
  BY <1>1, FS_Singleton
<1> HIDE DEF row
<1> QED
  BY <1>1, <1>2, <1>3, <1>4, InvitationWritten

-----------------------------------------------------------------------------
\* The steps keep the invariant.

LEMMA InitIInv == Init => IInv
  BY OrganizationsAssumption
     DEF Init, IInv, TypeOK, InvitationsAreSound, OwnersAreAppointed, Owners,
         InvitationTakenOnce

LEMMA TakesType ==
  ASSUME TypeOK, NEW q \in awaiting, NEW route, Takes(q, route)
  PROVE  q \in Request /\ awaiting' \subseteq Request
BY DEF TypeOK, Takes

\* The four parts of the invariant, the types of the tables apart.
LEMMA Together ==
  ASSUME user' \in [Users -> {"active", "barred", "deleted", "purged"}],
         administrators' \subseteq Users,
         org' \in [Orgs -> {"none", "active", "inactive", "removed"}],
         member' \in [Orgs -> [Users -> SUBSET Roles]],
         invitation' \in [Invitations -> Row \cup {None}],
         awaiting' \subseteq Request,
         appointed' \subseteq Orgs \X Users,
         InvitationsAreSound', OwnersAreAppointed', InvitationTakenOnce'
  PROVE  IInv'
BY DEF IInv, TypeOK

\* Steps that change no membership and no invitation.
LEMMA BystanderStep ==
  ASSUME IInv, UNCHANGED <<member, invitation, appointed>>,
         user' \in [Users -> {"active", "barred", "deleted", "purged"}],
         administrators' \subseteq Users,
         org' \in [Orgs -> {"none", "active", "inactive", "removed"}],
         awaiting' \subseteq Request
  PROVE  IInv'
BY InvitationKept, OthersKeep, Together DEF IInv, TypeOK

\* Steps that change an invitation only, requests apart.
LEMMA InvitationStep ==
  ASSUME IInv, UNCHANGED <<user, administrators, org, member, appointed>>,
         awaiting' \subseteq Request,
         invitation' \in [Invitations -> Row \cup {None}],
         InvitationsAreSound', InvitationTakenOnce'
  PROVE  IInv'
BY OthersKeep, Together DEF IInv, TypeOK

\* Steps that change the roles of one user in one organization.
LEMMA MemberStep ==
  ASSUME IInv, NEW o \in Orgs, NEW u \in Users, NEW roles \in SUBSET Roles,
         NEW entitled \in BOOLEAN, SetRoles(o, u, roles),
         Appoint(o, u, roles, entitled),
         "owner" \in roles => entitled \/ <<o, u>> \in appointed,
         UNCHANGED <<user, administrators>>,
         org' \in [Orgs -> {"none", "active", "inactive", "removed"}],
         awaiting' \subseteq Request,
         invitation' \in [Invitations -> Row \cup {None}],
         InvitationsAreSound', InvitationTakenOnce'
  PROVE  IInv'
<1>1. /\ member' \in [Orgs -> [Users -> SUBSET Roles]]
      /\ appointed' \subseteq Orgs \X Users
      /\ OwnersAreAppointed'
  BY AppointKeeps DEF IInv
<1> QED
  BY <1>1, Together DEF IInv, TypeOK

LEMMA OwnsIsBoolean ==
  ASSUME NEW p, NEW o
  PROVE  Owns(p, o) \in BOOLEAN
BY DEF Owns, AdministersRealm

LEMMA CreateStep ==
  ASSUME IInv, NEW q \in awaiting, NEW o \in Orgs, NEW u \in Users \cup {None},
         OrganizationCreate(q, o, u)
  PROVE  IInv'
<1>1. /\ awaiting' \subseteq Request
      /\ org' \in [Orgs -> {"none", "active", "inactive", "removed"}]
      /\ UNCHANGED <<user, administrators, invitation>>
  BY TakesType DEF OrganizationCreate, IInv, TypeOK, accounts
<1>2. CASE u = None
  BY <1>1, <1>2, BystanderStep DEF OrganizationCreate, IInv, TypeOK
<1>3. CASE u # None
  <2>1. SetRoles(o, u, {"owner"}) /\ Appoint(o, u, {"owner"}, TRUE)
    BY <1>3 DEF OrganizationCreate
  <2>2. {"owner"} \in SUBSET Roles /\ u \in Users
    BY <1>3, OrganizationsAssumption
  <2> QED
    BY <1>1, <2>1, <2>2, InvitationKept, MemberStep
<1> QED
  BY <1>2, <1>3

LEMMA PurgeStep ==
  ASSUME IInv, NEW o \in Orgs, NEW p \in Persons, OrganizationPurge(p, o)
  PROVE  IInv'
<1>1. /\ member' \in [Orgs -> [Users -> SUBSET Roles]]
      /\ appointed' \subseteq Orgs \X Users
      /\ org' \in [Orgs -> {"none", "active", "inactive", "removed"}]
      /\ UNCHANGED <<user, administrators, awaiting>>
  BY DEF OrganizationPurge, IInv, TypeOK, accounts
<1>2. /\ invitation' \in [Invitations -> Row \cup {None}]
      /\ \A i \in Invitations : invitation'[i] \in {invitation[i], None}
  BY DEF OrganizationPurge, IInv, TypeOK
<1>3. InvitationsAreSound' /\ InvitationTakenOnce'
  BY <1>2 DEF IInv, InvitationsAreSound, InvitationTakenOnce
<1>4. ASSUME NEW x \in Orgs, NEW w \in Owners(x)' PROVE <<x, w>> \in appointed'
  <2>1. x # o /\ w \in Owners(x)
    BY <1>4 DEF OrganizationPurge, Owners, IInv, TypeOK
  <2>2. <<x, w>> \in appointed
    BY <2>1 DEF IInv, OwnersAreAppointed
  <2> QED
    BY <2>1, <2>2 DEF OrganizationPurge
<1> QED
  BY <1>1, <1>2, <1>3, <1>4, Together DEF OwnersAreAppointed, IInv, TypeOK

LEMMA MembershipSteps ==
  ASSUME IInv, NEW q \in awaiting, NEW o \in Orgs, NEW u \in Users,
         NEW roles \in RoleSets,
         \/ OrganizationMembershipCreate(q, o, u, roles)
         \/ OrganizationMembershipUpdate(q, o, u, roles)
  PROVE  IInv'
<1>1. /\ awaiting' \subseteq Request
      /\ UNCHANGED <<user, administrators, org, invitation>>
      /\ SetRoles(o, u, roles) /\ Appoint(o, u, roles, Owns(q.by, o))
      /\ roles \in SUBSET Roles
  BY TakesType
     DEF OrganizationMembershipCreate, OrganizationMembershipUpdate, IInv, accounts,
         RoleSets
<1>2. "owner" \in roles => Owns(q.by, o)
  BY GiverIsEntitled DEF OrganizationMembershipCreate, OrganizationMembershipUpdate
<1> QED
  BY <1>1, <1>2, OwnsIsBoolean, InvitationKept, MemberStep DEF IInv, TypeOK

LEMMA RemoveStep ==
  ASSUME IInv, NEW p \in Persons, NEW o \in Orgs, NEW u \in Users,
         OrganizationMembershipRemove(p, o, u)
  PROVE  IInv'
<1>1. /\ UNCHANGED <<user, administrators, org, invitation, awaiting>>
      /\ SetRoles(o, u, {}) /\ Appoint(o, u, {}, TRUE)
  BY DEF OrganizationMembershipRemove, accounts
<1> QED
  BY <1>1, InvitationKept, MemberStep DEF IInv, TypeOK

LEMMA InviteStep ==
  ASSUME IInv, NEW q \in awaiting, NEW o \in Orgs, NEW u \in Users,
         NEW roles \in RoleSets, NEW i \in Invitations,
         OrganizationInvitationCreate(q, o, u, roles, i)
  PROVE  IInv'
<1>1. /\ awaiting' \subseteq Request
      /\ UNCHANGED <<user, administrators, org, member, appointed>>
      /\ "owner" \in roles => Owns(q.by, o)
  BY TakesType, GiverIsEntitled DEF OrganizationInvitationCreate, IInv, accounts
<1>2. PICK row \in Row :
         /\ row.takers = {} /\ row.sound
         /\ invitation'[i] = row
  <2> DEFINE row == [org |-> o, to |-> u, roles |-> roles, lapsed |-> FALSE,
                     status |-> "pending", takers |-> {},
                     sound |-> "owner" \in roles => Owns(q.by, o)]
  <2>1. row \in Row /\ row.takers = {}
    BY DEF Row
  <2>2. row.sound
    BY <1>1
  <2>3. invitation'[i] = row
    BY DEF OrganizationInvitationCreate
  <2> QED
    BY <2>1, <2>2, <2>3
<1>3. ASSUME NEW j \in Invitations \ {i}
      PROVE  /\ invitation'[j] \in Row \cup {None}
             /\ invitation'[j] # None =>
                  /\ invitation'[j].sound
                  /\ Cardinality(invitation'[j].takers) <= 1
                  /\ invitation'[j].takers # {} => invitation'[j].status = "accepted"
  <2>1. CASE Pending(j) /\ invitation'[j] = [invitation[j] EXCEPT !.status = "revoked"]
    <3>1. invitation'[j] \in Row /\ invitation'[j].takers = {}
      BY <2>1, PendingUntaken DEF Row
    <3>2. invitation'[j].sound
      BY <2>1, PendingUntaken DEF Row
    <3> QED
      BY <3>1, <3>2, FS_EmptySet
  <2>2. CASE invitation'[j] = invitation[j]
    BY <2>2 DEF IInv, TypeOK, InvitationsAreSound, InvitationTakenOnce
  <2> QED
    BY <2>1, <2>2 DEF OrganizationInvitationCreate
<1>4. \E f : invitation' = [j \in Invitations |-> f[j]]
  <2> DEFINE f == [j \in Invitations |->
           IF j = i THEN [org |-> o, to |-> u, roles |-> roles, lapsed |-> FALSE,
                          status |-> "pending", takers |-> {},
                          sound |-> "owner" \in roles => Owns(q.by, o)]
           ELSE IF Pending(j) /\ invitation[j].org = o /\ invitation[j].to = u
           THEN [invitation[j] EXCEPT !.status = "revoked"]
           ELSE invitation[j]]
  <2>1. invitation' = f
    BY DEF OrganizationInvitationCreate
  <2>2. f = [j \in Invitations |-> f[j]]
    OBVIOUS
  <2> QED
    BY <2>1, <2>2
<1>5. invitation' \in [Invitations -> Row \cup {None}]
  BY <1>2, <1>3, <1>4
<1>6. InvitationsAreSound' /\ InvitationTakenOnce'
  BY <1>2, <1>3, FS_EmptySet DEF InvitationsAreSound, InvitationTakenOnce
<1> QED
  BY <1>1, <1>5, <1>6, InvitationStep

LEMMA LapseStep ==
  ASSUME IInv, NEW i \in Invitations, Lapse(i)
  PROVE  IInv'
<1> DEFINE row == [invitation[i] EXCEPT !.lapsed = TRUE]
<1>1. row \in Row /\ row.takers = {}
  BY PendingUntaken DEF Row, Lapse
<1>2. row.sound
  BY PendingUntaken DEF Row, Lapse
<1>3. Written(i, row)
  BY DEF Lapse, Written, IInv, TypeOK
<1>4. Cardinality(row.takers) <= 1
  BY <1>1, FS_EmptySet
<1> HIDE DEF row
<1>5. /\ invitation' \in [Invitations -> Row \cup {None}]
      /\ InvitationsAreSound' /\ InvitationTakenOnce'
  BY <1>1, <1>2, <1>3, <1>4, InvitationWritten
<1> QED
  BY <1>5, InvitationStep DEF Lapse, accounts, IInv, TypeOK

LEMMA AcceptStep ==
  ASSUME IInv, NEW i \in Invitations, NEW u \in Users, InvitationAccept(i, u),
         awaiting' \subseteq Request
  PROVE  IInv'
<1>1. Pending(i) /\ UNCHANGED <<user, administrators, org>>
  BY DEF InvitationAccept, Acceptable, accounts
<1>2. /\ invitation[i] \in Row /\ invitation[i].org \in Orgs
      /\ invitation[i].roles \subseteq Roles /\ invitation[i].sound
  BY <1>1, PendingUntaken, InvitationRow DEF IInv
<1>3. CASE invitation[i].lapsed
  <2>1. End(i, "expired") /\ UNCHANGED <<member, appointed>>
    BY <1>3 DEF InvitationAccept
  <2> QED
    BY <1>1, <2>1, EndKeeps, InvitationStep
<1>4. CASE ~invitation[i].lapsed
  <2>1. PICK o \in Orgs, roles \in SUBSET Roles, entitled \in BOOLEAN :
           /\ SetRoles(o, u, roles) /\ Appoint(o, u, roles, entitled)
           /\ entitled
    <3>1. /\ SetRoles(invitation[i].org, u,
                      member[invitation[i].org][u] \cup invitation[i].roles)
          /\ Appoint(invitation[i].org, u,
                     member[invitation[i].org][u] \cup invitation[i].roles,
                     <<invitation[i].org, u>> \in appointed \/ invitation[i].sound)
      BY <1>4 DEF InvitationAccept
    <3>2. member[invitation[i].org][u] \cup invitation[i].roles \in SUBSET Roles
      BY <1>2 DEF IInv, TypeOK
    <3> QED
      BY <3>1, <3>2, <1>2
  <2>2. /\ invitation' \in [Invitations -> Row \cup {None}]
        /\ InvitationsAreSound' /\ InvitationTakenOnce'
    BY <1>1, <1>4, EndAcceptedKeeps DEF InvitationAccept
  <2> QED
    BY <1>1, <2>1, <2>2, MemberStep DEF IInv, TypeOK
<1> QED
  BY <1>3, <1>4

LEMMA DeclineStep ==
  ASSUME IInv, NEW i \in Invitations, InvitationDecline(i), awaiting' \subseteq Request
  PROVE  IInv'
BY EndKeeps, InvitationStep DEF InvitationDecline, accounts

LEMMA RevokeStep ==
  ASSUME IInv, NEW p \in Persons, NEW i \in Invitations, OrganizationInvitationRevoke(p, i)
  PROVE  IInv'
BY EndKeeps, InvitationStep DEF OrganizationInvitationRevoke, accounts, IInv, TypeOK

LEMMA UserPurgeStep ==
  ASSUME IInv, NEW p \in Persons, NEW u \in Users, UserPurge(p, u)
  PROVE  IInv'
<1>1. /\ user' \in [Users -> {"active", "barred", "deleted", "purged"}]
      /\ administrators' \subseteq Users
      /\ member' \in [Orgs -> [Users -> SUBSET Roles]]
      /\ appointed' \subseteq Orgs \X Users
      /\ UNCHANGED <<org, invitation, awaiting>>
  BY DEF UserPurge, IInv, TypeOK
<1>2. ASSUME NEW o \in Orgs, NEW w \in Owners(o)' PROVE <<o, w>> \in appointed'
  <2>1. w # u /\ w \in Owners(o)
    BY <1>2 DEF UserPurge, Owners, IInv, TypeOK
  <2> QED
    BY <2>1 DEF UserPurge, IInv, OwnersAreAppointed
<1> QED
  BY <1>1, <1>2, InvitationKept, Together DEF OwnersAreAppointed, IInv, TypeOK

LEMMA MeStep ==
  ASSUME IInv, NEW q \in awaiting, NEW i \in Invitations,
         OrganizationInvitationMeAccept(q, i) \/ OrganizationInvitationMeDecline(q, i)
  PROVE  IInv'
<1>1. Takes(q, "organization") /\ q.by = invitation[i].to /\ invitation[i] # None
  BY DEF OrganizationInvitationMeAccept, OrganizationInvitationMeDecline, Invited
<1>2. awaiting' \subseteq Request /\ q.by \in Users
  BY <1>1, TakesType, InvitationRow DEF IInv
<1> QED
  BY <1>2, AcceptStep, DeclineStep
     DEF OrganizationInvitationMeAccept, OrganizationInvitationMeDecline

LEMMA NextStep ==
  ASSUME IInv, Change
  PROVE  IInv'
<1>1. ASSUME NEW q \in Request, Admit(q) PROVE IInv'
  BY <1>1, BystanderStep DEF Admit, IInv, TypeOK
<1>2. ASSUME NEW q \in awaiting, NEW o \in Orgs, NEW u \in Users \cup {None},
             OrganizationCreate(q, o, u)
      PROVE  IInv'
  BY <1>2, CreateStep
<1>3. ASSUME NEW q \in awaiting, Refuse(q) PROVE IInv'
  BY <1>3, BystanderStep DEF Refuse, IInv, TypeOK
<1>4. ASSUME NEW q \in awaiting, NEW o \in Orgs,
             NEW s \in {"active", "inactive", "removed"}, OrganizationLifecycleSet(q, o, s)
      PROVE  IInv'
  <2>1. awaiting' \subseteq Request
    BY <1>4, TakesType DEF OrganizationLifecycleSet, IInv
  <2> QED
    BY <1>4, <2>1, BystanderStep DEF OrganizationLifecycleSet, IInv, TypeOK, accounts
<1>5. ASSUME NEW q \in awaiting, NEW u \in Users, RealmAdministratorGrant(q, u) PROVE IInv'
  <2>1. awaiting' \subseteq Request
    BY <1>5, TakesType DEF RealmAdministratorGrant, IInv
  <2> QED
    BY <1>5, <2>1, BystanderStep DEF RealmAdministratorGrant, IInv, TypeOK
<1>6. ASSUME NEW q \in awaiting, NEW s \in {"active", "barred"}, UserLifecycleSet(q, s)
      PROVE  IInv'
  <2>1. awaiting' \subseteq Request
    BY <1>6, TakesType DEF UserLifecycleSet, IInv
  <2> QED
    BY <1>6, <2>1, BystanderStep DEF UserLifecycleSet, IInv, TypeOK
<1>7. ASSUME NEW p \in Persons, NEW u \in Users,
             RealmAdministratorRevoke(p, u) \/ UserDelete(p, u)
      PROVE  IInv'
  BY <1>7, BystanderStep DEF RealmAdministratorRevoke, UserDelete, IInv, TypeOK
<1>8. ASSUME NEW i \in Invitations, NEW u \in Users,
             OrganizationInvitationAccept(i, u) \/ OrganizationInvitationDecline(i)
      PROVE  IInv'
  BY <1>8, AcceptStep, DeclineStep
     DEF OrganizationInvitationAccept, OrganizationInvitationDecline, IInv, TypeOK
<1>9. ASSUME NEW i \in Invitations, OrganizationInvitationDecline(i) PROVE IInv'
  BY <1>9, DeclineStep DEF OrganizationInvitationDecline, IInv, TypeOK
<1>10. CASE UNCHANGED vars
  BY <1>10, BystanderStep DEF vars, IInv, TypeOK
<1> QED
  BY <1>1, <1>2, <1>3, <1>4, <1>5, <1>6, <1>7, <1>8, <1>9, <1>10, PurgeStep,
     MembershipSteps, RemoveStep, InviteStep, LapseStep, RevokeStep, UserPurgeStep, MeStep
     DEF Change, Next

THEOREM Always == Spec => []IInv
<1>1. IInv /\ Change => IInv'
  BY NextStep
<1> QED
  BY InitIInv, <1>1, PTL DEF Spec, Change

\* TypeOK: the tables hold rows of their types, whatever is done to them.
THEOREM TypeCorrect == Spec => []TypeOK
  BY Always, PTL DEF IInv

\* OwnersAreAppointed: no way into a membership, and no invitation that is
\* taken after its author lost his role, makes an owner whom nobody entitled
\* appointed.
THEOREM Appointed == Spec => []OwnersAreAppointed
  BY Always, PTL DEF IInv

\* InvitationTakenOnce: the roles of an invitation go to one user at most.
THEOREM TakenOnce == Spec => []InvitationTakenOnce
  BY Always, PTL DEF IInv

-----------------------------------------------------------------------------
\* What a step may not do.

\* Steps after which everybody has the roles he had.
LEMMA QuietSteps ==
  ASSUME NEW q, NEW p, NEW o, NEW u, NEW roles, NEW i, NEW s,
         \/ Admit(q) \/ Refuse(q)
         \/ OrganizationInvitationCreate(q, o, u, roles, i)
         \/ Lapse(i)
         \/ OrganizationInvitationDecline(i) \/ OrganizationInvitationMeDecline(q, i)
         \/ OrganizationInvitationRevoke(p, i)
         \/ RealmAdministratorGrant(q, u) \/ RealmAdministratorRevoke(p, u)
         \/ UserLifecycleSet(q, s) \/ UserDelete(p, u)
  PROVE  UNCHANGED <<org, member>>
BY DEF Admit, Refuse, OrganizationInvitationCreate, Lapse,
       OrganizationInvitationDecline, OrganizationInvitationMeDecline,
       InvitationDecline, OrganizationInvitationRevoke, RealmAdministratorGrant,
       RealmAdministratorRevoke, UserLifecycleSet, UserDelete

\* Steps of others than the realm's administrators, as such, and the purge.
LEMMA OrganizationSteps ==
  ASSUME NEW q, NEW p, NEW o, NEW u, NEW roles, NEW i, NEW s,
         \/ Admit(q) \/ Refuse(q)
         \/ OrganizationCreate(q, o, u) \/ OrganizationLifecycleSet(q, o, s)
         \/ OrganizationPurge(p, o)
         \/ OrganizationMembershipCreate(q, o, u, roles)
         \/ OrganizationMembershipUpdate(q, o, u, roles)
         \/ OrganizationMembershipRemove(p, o, u)
         \/ OrganizationInvitationCreate(q, o, u, roles, i)
         \/ Lapse(i)
         \/ OrganizationInvitationAccept(i, u) \/ OrganizationInvitationMeAccept(q, i)
         \/ OrganizationInvitationDecline(i) \/ OrganizationInvitationMeDecline(q, i)
         \/ OrganizationInvitationRevoke(p, i)
         \/ UserLifecycleSet(q, s) \/ UserDelete(p, u)
  PROVE  UNCHANGED administrators
BY DEF accounts, Admit, Refuse, OrganizationCreate, OrganizationLifecycleSet,
       OrganizationPurge, OrganizationMembershipCreate, OrganizationMembershipUpdate,
       OrganizationMembershipRemove, OrganizationInvitationCreate, Lapse,
       InvitationAccept, InvitationDecline,
       OrganizationInvitationAccept, OrganizationInvitationDecline,
       OrganizationInvitationMeAccept, OrganizationInvitationMeDecline,
       OrganizationInvitationRevoke, UserLifecycleSet, UserDelete

LEMMA OthersStayOwners ==
  ASSUME TypeOK, NEW o \in Orgs, NEW u \in Users, NEW roles, NEW x \in Orgs,
         SetRoles(o, u, roles), NEW w \in Owners(x), w # u \/ x # o \/ "owner" \in roles
  PROVE  w \in Owners(x)'
BY DEF TypeOK, SetRoles, Owners

LEMMA OwnersStay ==
  ASSUME IInv, Change, NEW x \in Orgs, Owners(x) # {}, org'[x] # "none"
  PROVE  \/ Owners(x)' # {}
         \/ \E u \in Owners(x) : user[u] # "purged" /\ user'[u] = "purged"
<1>1. UNCHANGED member => Owners(x)' # {}
  BY DEF Owners
<1>2. ASSUME NEW o \in Orgs, NEW u \in Users, NEW roles, SetRoles(o, u, roles),
             "owner" \in roles \/ RetainsOwner(o, u)
      PROVE  Owners(x)' # {}
  <2>1. PICK w \in Owners(x) : w # u \/ x # o \/ "owner" \in roles
    <3>1. CASE x = o /\ u \in Owners(o) /\ "owner" \notin roles
      <4>1. IsFiniteSet(Owners(o)) /\ Cardinality(Owners(o)) # 1
        BY <1>2, <3>1, FiniteUsers DEF RetainsOwner, Owners
      <4> QED
        BY <4>1, <3>1, Another
    <3> QED
      BY <3>1
  <2> QED
    BY <2>1, <1>2, OthersStayOwners DEF IInv
<1>3. ASSUME NEW q \in awaiting, NEW o \in Orgs, NEW u \in Users \cup {None},
             OrganizationCreate(q, o, u)
      PROVE  Owners(x)' # {}
  BY <1>1, <1>2, <1>3 DEF OrganizationCreate
<1>4. ASSUME NEW q \in awaiting, NEW o \in Orgs, NEW u \in Users, NEW roles \in RoleSets,
             \/ OrganizationMembershipCreate(q, o, u, roles)
             \/ OrganizationMembershipUpdate(q, o, u, roles)
      PROVE  Owners(x)' # {}
  <2>1. OrganizationMembershipCreate(q, o, u, roles) => RetainsOwner(o, u)
    BY DEF OrganizationMembershipCreate, RetainsOwner, Owners
  <2> QED
    BY <2>1, <1>2, <1>4 DEF OrganizationMembershipCreate, OrganizationMembershipUpdate
<1>5. ASSUME NEW p \in Persons, NEW o \in Orgs, NEW u \in Users,
             OrganizationMembershipRemove(p, o, u)
      PROVE  Owners(x)' # {}
  BY <1>2, <1>5 DEF OrganizationMembershipRemove
<1>6. ASSUME NEW i \in Invitations, NEW u \in Users, InvitationAccept(i, u)
      PROVE  Owners(x)' # {}
  <2>1. CASE invitation[i].lapsed
    BY <1>1, <1>6, <2>1 DEF InvitationAccept
  <2>2. CASE ~invitation[i].lapsed
    <3>1. /\ invitation[i].org \in Orgs
          /\ SetRoles(invitation[i].org, u,
                      member[invitation[i].org][u] \cup invitation[i].roles)
      BY <1>6, <2>2, InvitationRow DEF InvitationAccept, Acceptable, Pending, IInv
    <3>2. \/ "owner" \in member[invitation[i].org][u] \cup invitation[i].roles
          \/ RetainsOwner(invitation[i].org, u)
      BY DEF RetainsOwner, Owners
    <3> QED
      BY <3>1, <3>2, <1>2
  <2> QED
    BY <2>1, <2>2
<1>7. ASSUME NEW p \in Persons, NEW o \in Orgs, OrganizationPurge(p, o)
      PROVE  Owners(x)' # {}
  BY <1>7 DEF OrganizationPurge, Owners, IInv, TypeOK
<1>8. ASSUME NEW p \in Persons, NEW u \in Users, UserPurge(p, u)
      PROVE  \/ Owners(x)' # {}
             \/ \E w \in Owners(x) : user[w] # "purged" /\ user'[w] = "purged"
  <2>1. CASE u \in Owners(x)
    BY <1>8, <2>1 DEF UserPurge, IInv, TypeOK
  <2>2. CASE u \notin Owners(x)
    BY <1>8, <2>2 DEF UserPurge, Owners, IInv, TypeOK
  <2> QED
    BY <2>1, <2>2
<1>9. ASSUME NEW q \in awaiting, NEW i \in Invitations,
             OrganizationInvitationMeAccept(q, i) \/ OrganizationInvitationMeDecline(q, i)
      PROVE  Owners(x)' # {}
  <2>1. q.by \in Users
    BY <1>9, InvitationRow
       DEF OrganizationInvitationMeAccept, OrganizationInvitationMeDecline, Invited, IInv
  <2> QED
    BY <2>1, <1>1, <1>6, <1>9
       DEF OrganizationInvitationMeAccept, OrganizationInvitationMeDecline, InvitationDecline
<1>10. ASSUME NEW q, NEW o, NEW s, OrganizationLifecycleSet(q, o, s)
       PROVE  Owners(x)' # {}
  BY <1>1, <1>10 DEF OrganizationLifecycleSet
<1>11. ASSUME NEW i \in Invitations, NEW u \in Users, OrganizationInvitationAccept(i, u)
       PROVE  Owners(x)' # {}
  BY <1>6, <1>11 DEF OrganizationInvitationAccept
<1> QED
  BY <1>1, <1>3, <1>4, <1>5, <1>7, <1>8, <1>9, <1>10, <1>11, QuietSteps
     DEF Change, Next, vars

\* OwnerRemains: updates, removals and acceptances in any order leave an owner.
THEOREM Remains == Spec => OwnerRemains
<1>1. IInv /\ Change =>
        [\A o \in Orgs : Owners(o) # {} /\ org'[o] # "none" =>
           \/ Owners(o)' # {}
           \/ \E u \in Owners(o) : user[u] # "purged" /\ user'[u] = "purged"]_vars
  BY OwnersStay
<1> QED
  BY <1>1, Always, PTL DEF Spec, Change, OwnerRemains

LEMMA NobodyJoins ==
  ASSUME IInv, Change, NEW o \in Orgs, org[o] \in {"inactive", "removed"}
  PROVE  /\ \A u \in Users : member'[o][u] \subseteq member[o][u]
         /\ org[o] = "removed" => org'[o] \in {"removed", "none"}
<1>1. ASSUME NEW p \in Orgs, NEW u \in Users, NEW roles, SetRoles(p, u, roles), p # o
      PROVE  member'[o] = member[o]
  BY <1>1 DEF SetRoles, IInv, TypeOK
<1>2. ASSUME NEW q \in awaiting, NEW p \in Orgs, NEW u \in Users, NEW roles \in RoleSets,
             \/ OrganizationMembershipCreate(q, p, u, roles)
             \/ OrganizationMembershipUpdate(q, p, u, roles)
      PROVE  UNCHANGED org /\ member'[o] = member[o]
  BY <1>1, <1>2 DEF OrganizationMembershipCreate, OrganizationMembershipUpdate
<1>3. ASSUME NEW q \in awaiting, NEW p \in Orgs, NEW u \in Users \cup {None},
             OrganizationCreate(q, p, u)
      PROVE  org'[o] = org[o] /\ member'[o] = member[o]
  BY <1>1, <1>3 DEF OrganizationCreate, IInv, TypeOK
<1>4. ASSUME NEW p \in Persons, NEW x \in Orgs, NEW u \in Users,
             OrganizationMembershipRemove(p, x, u)
      PROVE  UNCHANGED org /\ member'[o] = member[o]
  BY <1>1, <1>4 DEF OrganizationMembershipRemove
<1>5. ASSUME NEW i \in Invitations, NEW u \in Users, InvitationAccept(i, u)
      PROVE  UNCHANGED org /\ member'[o] = member[o]
  <2>1. invitation[i].org # o /\ invitation[i].org \in Orgs /\ UNCHANGED org
    BY <1>5, InvitationRow DEF InvitationAccept, Acceptable, Pending, IInv
  <2> QED
    BY <2>1, <1>1, <1>5 DEF InvitationAccept
<1>6. ASSUME NEW q \in awaiting, NEW i \in Invitations,
             OrganizationInvitationMeAccept(q, i) \/ OrganizationInvitationMeDecline(q, i)
      PROVE  UNCHANGED org /\ member'[o] = member[o]
  <2>1. q.by \in Users
    BY <1>6, InvitationRow
       DEF OrganizationInvitationMeAccept, OrganizationInvitationMeDecline, Invited, IInv
  <2> QED
    BY <2>1, <1>5, <1>6
       DEF OrganizationInvitationMeAccept, OrganizationInvitationMeDecline, InvitationDecline
<1>7. ASSUME NEW p \in Persons, NEW x \in Orgs, OrganizationPurge(p, x)
      PROVE  /\ \A u \in Users : member'[o][u] \subseteq member[o][u]
             /\ org'[o] \in {org[o], "none"}
  BY <1>7 DEF OrganizationPurge, IInv, TypeOK
<1>8. ASSUME NEW p \in Persons, NEW u \in Users, UserPurge(p, u)
      PROVE  UNCHANGED org /\ \A w \in Users : member'[o][w] \subseteq member[o][w]
  BY <1>8 DEF UserPurge, IInv, TypeOK
<1>9. ASSUME NEW q \in awaiting, NEW p \in Orgs, NEW s, OrganizationLifecycleSet(q, p, s)
      PROVE  UNCHANGED member /\ (org[o] = "removed" => org'[o] = "removed")
  BY <1>9 DEF OrganizationLifecycleSet, IInv, TypeOK
<1>10. ASSUME NEW i \in Invitations, NEW u \in Users, OrganizationInvitationAccept(i, u)
       PROVE  UNCHANGED org /\ member'[o] = member[o]
  BY <1>5, <1>10 DEF OrganizationInvitationAccept
<1> QED
  BY <1>2, <1>3, <1>4, <1>6, <1>7, <1>8, <1>9, <1>10, QuietSteps DEF Change, Next, vars

\* SuspendedIsFrozen: neither a request nor an invitation that was under way
\* gives a role in an organization that has been suspended or removed.
THEOREM Frozen == Spec => SuspendedIsFrozen
<1>1. IInv /\ Change =>
        [\A o \in Orgs : org[o] \in {"inactive", "removed"} =>
           /\ \A u \in Users : member'[o][u] \subseteq member[o][u]
           /\ org[o] = "removed" => org'[o] \in {"removed", "none"}]_vars
  BY NobodyJoins
<1> QED
  BY <1>1, Always, PTL DEF Spec, Change, SuspendedIsFrozen

LEMMA LastStays ==
  ASSUME IInv, Change, NEW u \in administrators, administrators' = {}
  PROVE  administrators = {u} /\ user[u] = "deleted" /\ user'[u] = "purged"
<1>1. ASSUME NEW p \in Persons, NEW w \in Users, RealmAdministratorRevoke(p, w)
      PROVE  FALSE
  <2>1. IsFiniteSet(administrators) /\ Cardinality(administrators) # 1
        /\ w \in administrators
    BY <1>1, FiniteUsers DEF RealmAdministratorRevoke, OthersRemain, IInv, TypeOK
  <2>2. \E y \in administrators : y # w
    BY <2>1, Another
  <2> QED
    BY <2>2, <1>1 DEF RealmAdministratorRevoke
<1>2. ASSUME NEW p \in Persons, NEW w \in Users, UserPurge(p, w)
      PROVE  administrators = {u} /\ user[u] = "deleted" /\ user'[u] = "purged"
  BY <1>2 DEF UserPurge, IInv, TypeOK
<1>3. ASSUME NEW q, NEW w, RealmAdministratorGrant(q, w) PROVE FALSE
  BY <1>3 DEF RealmAdministratorGrant
<1>4. ~UNCHANGED administrators
  OBVIOUS
<1> QED
  BY <1>1, <1>2, <1>3, <1>4, OrganizationSteps DEF Change, Next, vars

\* AdministratorRemains: no order of revocations takes the last administrator.
THEOREM LastAdministrator == Spec => AdministratorRemains
<1>1. IInv /\ Change =>
        [\A u \in administrators : administrators' = {} =>
           administrators = {u} /\ user[u] = "deleted" /\ user'[u] = "purged"]_vars
  BY LastStays
<1> QED
  BY <1>1, Always, PTL DEF Spec, Change, AdministratorRemains

=============================================================================
