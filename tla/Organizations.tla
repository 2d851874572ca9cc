---------------------------- MODULE Organizations ----------------------------
(***************************************************************************)
(* The organizations of one realm: their life, their memberships and       *)
(* invitations, the administrators of the realm, and what becomes of a     *)
(* user as far as it matters to them.                                      *)
(*                                                                         *)
(* A handler that reads a request body waits for it after the session was  *)
(* authenticated and acts when it has arrived: Admit is the first part,    *)
(* the action that takes a request q the second.  What a handler decided   *)
(* before the body came may be out of date by then.  A handler without a   *)
(* body runs in one turn; both kinds write in one storage transaction.     *)
(***************************************************************************)
EXTENDS Integers, FiniteSets

CONSTANTS
    Users, Orgs, Invitations,  \* ids
    Operator,       \* a bootstrap administrator or the holder of the system secret
    Roles,          \* organization roles, "owner" and "admin" among them
    FirstAdministrators,
    MaxAwaiting,    \* bound of the requests whose body is awaited
    None

ASSUME OrganizationsAssumption ==
    /\ {"owner", "admin"} \subseteq Roles
    /\ FirstAdministrators \subseteq Users
    /\ IsFiniteSet(Users)
    /\ Operator \notin Users /\ None \notin Users

VARIABLES
    user,            \* the state of a user; "barred" is any but active and deleted
    administrators,  \* the rows of realm_administrators
    org,             \* the status of an organization, "none" without a row
    member,          \* the roles in a membership row, {} without a row
    invitation,      \* the invitation table
    awaiting,        \* the requests that wait for their body
    appointed        \* history: owners that somebody entitled appointed

vars == <<user, administrators, org, member, invitation, awaiting, appointed>>
accounts == <<user, administrators>>

-----------------------------------------------------------------------------

Persons == Users \cup {Operator}
RoleSets == SUBSET Roles \ {{}}

\* to: the user whose address was invited; lapsed: expiresAt is past, which
\* matters while the invitation is pending; takers (history): who accepted;
\* sound (history): the inviter might give the roles.
Row == [org : Orgs, to : Users, roles : RoleSets, lapsed : BOOLEAN,
        status : {"pending", "accepted", "declined", "revoked", "expired"},
        takers : SUBSET Users, sound : BOOLEAN]
ASSUME NoneIsNoInvitation == None \notin Row

\* over: the user whom an administrator's request is about.
Request == [by : Persons, route : {"organization", "realm", "user"},
            over : Users \cup {None}]

Authenticated(p) == p \in {Operator} \cup {u \in Users : user[u] = "active"}
AdministersRealm(p) == p \in {Operator} \cup administrators

RolesOf(o, p) == IF p \in Users THEN member[o][p] ELSE {}
Owners(o) == {u \in Users : "owner" \in member[o][u]}

Owns(p, o) == AdministersRealm(p) \/ "owner" \in RolesOf(o, p)
ManagesMembers(p, o) ==
    AdministersRealm(p) \/ RolesOf(o, p) \cap {"owner", "admin"} # {}

\* Mutant: administrators hand out any role.
MayGiveAny(p, o, roles) == ManagesMembers(p, o)
\* organizationContextAuthorize for members.manage, requireOwner included.
MayGive(p, o, roles) ==
    ManagesMembers(p, o) /\ ("owner" \in roles => Owns(p, o))

\* Mutant: an owner may always go.
RetainsAny(o, u) == TRUE
RetainsOwner(o, u) == u \in Owners(o) => Cardinality(Owners(o)) # 1

\* An organization's administrator manages a user whose active memberships are
\* all in organizations that he administers, owners only where he is one.
ActiveOrgs(u) == {o \in Orgs : org[o] = "active" /\ member[o][u] # {}}
ManagesUser(p, u) ==
    \/ AdministersRealm(p)
    \/ /\ u \notin administrators
       /\ ActiveOrgs(u) # {}
       /\ \A o \in ActiveOrgs(u) :
             RolesOf(o, p) \cap {"owner", "admin"} # {}
                /\ ("owner" \in member[o][u] => "owner" \in RolesOf(o, p))

Init ==
    /\ user = [u \in Users |-> "active"]
    /\ administrators = FirstAdministrators
    /\ org = [o \in Orgs |-> "none"]
    /\ member = [o \in Orgs |-> [u \in Users |-> {}]]
    /\ invitation = [i \in Invitations |-> None]
    /\ awaiting = {}
    /\ appointed = {}

-----------------------------------------------------------------------------
\* Requests.

\* The session is authenticated; the routes of the realm's administrators and
\* of users also decide there whether the actor may do what they are for.
Admit(q) ==
    /\ Cardinality(awaiting) < MaxAwaiting /\ q \notin awaiting
    /\ Authenticated(q.by)
    /\ CASE q.route = "organization" -> q.over = None
         [] q.route = "realm" -> q.over = None /\ AdministersRealm(q.by)
         [] q.route = "user" -> q.over # None /\ ManagesUser(q.by, q.over)
    /\ awaiting' = awaiting \cup {q}
    /\ UNCHANGED <<user, administrators, org, member, invitation, appointed>>

\* The body is missing or malformed, or the handler refuses.
Refuse(q) ==
    /\ q \in awaiting
    /\ awaiting' = awaiting \ {q}
    /\ UNCHANGED <<user, administrators, org, member, invitation, appointed>>

Takes(q, route) ==
    /\ q \in awaiting /\ q.route = route
    /\ awaiting' = awaiting \ {q}

-----------------------------------------------------------------------------
\* Organizations and memberships.

SetRoles(o, u, roles) == member' = [member EXCEPT ![o][u] = roles]

\* u has the given roles from now on, by a decision that was entitled or not.
Appoint(o, u, roles, entitled) ==
    appointed' = IF "owner" \notin roles THEN appointed \ {<<o, u>>}
                 ELSE IF entitled THEN appointed \cup {<<o, u>>} ELSE appointed

\* The owner named in the request need not exist.
OrganizationCreate(q, o, u) ==
    /\ Takes(q, "organization")
    /\ AdministersRealm(q.by)
    /\ org[o] = "none"
    /\ org' = [org EXCEPT ![o] = "active"]
    /\ IF u = None THEN UNCHANGED <<member, appointed>>
       ELSE SetRoles(o, u, {"owner"}) /\ Appoint(o, u, {"owner"}, TRUE)
    /\ UNCHANGED <<accounts, invitation>>

OrganizationLifecycleSet(q, o, status) ==
    /\ Takes(q, "organization")
    /\ org[o] \in {"active", "inactive"} \ {status}
    /\ Owns(q.by, o)
    /\ org' = [org EXCEPT ![o] = status]
    /\ UNCHANGED <<accounts, member, invitation, appointed>>

\* The rows of the organization go with it.
OrganizationPurge(p, o) ==
    /\ Authenticated(p) /\ AdministersRealm(p)
    /\ org[o] = "removed"
    /\ org' = [org EXCEPT ![o] = "none"]
    /\ member' = [member EXCEPT ![o] = [u \in Users |-> {}]]
    /\ invitation' = [i \in Invitations |->
           IF invitation[i] # None /\ invitation[i].org = o THEN None
           ELSE invitation[i]]
    /\ appointed' = {a \in appointed : a[1] # o}
    /\ UNCHANGED <<accounts, awaiting>>

OrganizationMembershipCreate(q, o, u, roles) ==
    /\ Takes(q, "organization")
    /\ org[o] = "active"
    /\ MayGive(q.by, o, roles)
    /\ member[o][u] = {}
    /\ SetRoles(o, u, roles) /\ Appoint(o, u, roles, Owns(q.by, o))
    /\ UNCHANGED <<accounts, org, invitation>>

OrganizationMembershipUpdate(q, o, u, roles) ==
    /\ Takes(q, "organization")
    /\ org[o] = "active" /\ member[o][u] # {}
    /\ MayGive(q.by, o, roles \cup member[o][u])
    /\ "owner" \notin roles => RetainsOwner(o, u)
    /\ SetRoles(o, u, roles) /\ Appoint(o, u, roles, Owns(q.by, o))
    /\ UNCHANGED <<accounts, org, invitation>>

OrganizationMembershipRemove(p, o, u) ==
    /\ Authenticated(p)
    /\ org[o] = "active" /\ member[o][u] # {}
    /\ MayGive(p, o, member[o][u])
    /\ RetainsOwner(o, u)
    /\ SetRoles(o, u, {}) /\ Appoint(o, u, {}, TRUE)
    /\ UNCHANGED <<accounts, org, invitation, awaiting>>

-----------------------------------------------------------------------------
\* Invitations.

Pending(i) == invitation[i] # None /\ invitation[i].status = "pending"

\* The pending invitation of the same address is revoked.
OrganizationInvitationCreate(q, o, u, roles, i) ==
    /\ Takes(q, "organization")
    /\ org[o] = "active"
    /\ MayGive(q.by, o, roles)
    /\ invitation[i] = None
    /\ invitation' = [j \in Invitations |->
           IF j = i THEN [org |-> o, to |-> u, roles |-> roles, lapsed |-> FALSE,
                          status |-> "pending", takers |-> {},
                          sound |-> "owner" \in roles => Owns(q.by, o)]
           ELSE IF Pending(j) /\ invitation[j].org = o /\ invitation[j].to = u
           THEN [invitation[j] EXCEPT !.status = "revoked"]
           ELSE invitation[j]]
    /\ UNCHANGED <<accounts, org, member, appointed>>

Lapse(i) ==
    /\ Pending(i) /\ ~invitation[i].lapsed
    /\ invitation' = [invitation EXCEPT ![i].lapsed = TRUE]
    /\ UNCHANGED <<accounts, org, member, awaiting, appointed>>

End(i, status) == invitation' = [invitation EXCEPT ![i].status = status]

\* Mutant: an invitation that adds to a membership stays pending.
EndNewcomer(i, u) ==
    invitation' = [invitation EXCEPT ![i].takers = @ \cup {u},
        ![i].status = IF member[invitation[i].org][u] = {} THEN "accepted" ELSE @]
EndAccepted(i, u) ==
    invitation' = [invitation EXCEPT ![i].takers = @ \cup {u},
                                     ![i].status = "accepted"]

\* Mutant: the organization may be suspended.
AcceptableAnywhere(i) == Pending(i)
Acceptable(i) == Pending(i) /\ org[invitation[i].org] = "active"

\* A lapsed invitation is marked, and the answer is an error; else its roles
\* are added to those that the user has.
InvitationAccept(i, u) ==
    /\ Acceptable(i)
    /\ LET o == invitation[i].org
           roles == member[o][u] \cup invitation[i].roles
       IN IF invitation[i].lapsed
          THEN End(i, "expired") /\ UNCHANGED <<member, appointed>>
          ELSE /\ EndAccepted(i, u)
               /\ SetRoles(o, u, roles)
               /\ Appoint(o, u, roles, <<o, u>> \in appointed \/ invitation[i].sound)
    /\ UNCHANGED <<accounts, org>>

InvitationDecline(i) ==
    /\ Pending(i) /\ ~invitation[i].lapsed
    /\ End(i, "declined")
    /\ UNCHANGED <<accounts, org, member, appointed>>

\* The public routes take the user from the body: anyone, existing or not.
OrganizationInvitationAccept(i, u) ==
    InvitationAccept(i, u) /\ UNCHANGED awaiting
OrganizationInvitationDecline(i) ==
    InvitationDecline(i) /\ UNCHANGED awaiting

\* The routes under /me ask who is invited, and whether he is active by now.
Invited(q, i) ==
    /\ Takes(q, "organization")
    /\ invitation[i] # None /\ q.by = invitation[i].to /\ user[q.by] = "active"
OrganizationInvitationMeAccept(q, i) ==
    Invited(q, i) /\ InvitationAccept(i, q.by)
OrganizationInvitationMeDecline(q, i) ==
    Invited(q, i) /\ InvitationDecline(i)

OrganizationInvitationRevoke(p, i) ==
    /\ Authenticated(p)
    /\ Pending(i)
    /\ org[invitation[i].org] # "removed"
    /\ ManagesMembers(p, invitation[i].org)
    /\ End(i, "revoked")
    /\ UNCHANGED <<accounts, org, member, awaiting, appointed>>

-----------------------------------------------------------------------------
\* Administrators of the realm, and users.

RealmAdministratorGrant(q, u) ==
    /\ Takes(q, "realm")
    /\ user[u] \notin {"deleted", "purged"} /\ u \notin administrators
    /\ administrators' = administrators \cup {u}
    /\ UNCHANGED <<user, org, member, invitation, appointed>>

OthersRemain == Cardinality(administrators) > 1

RealmAdministratorRevoke(p, u) ==
    /\ Authenticated(p) /\ AdministersRealm(p)
    /\ u \in administrators /\ OthersRemain
    /\ administrators' = administrators \ {u}
    /\ UNCHANGED <<user, org, member, invitation, awaiting, appointed>>

UserLifecycleSet(q, state) ==
    /\ Takes(q, "user")
    /\ user[q.over] \in {"active", "barred"} \ {state}
    /\ user' = [user EXCEPT ![q.over] = state]
    /\ UNCHANGED <<administrators, org, member, invitation, appointed>>

\* Users may delete themselves; the memberships stay.
UserDelete(p, u) ==
    /\ Authenticated(p) /\ (p = u \/ ManagesUser(p, u))
    /\ user[u] \in {"active", "barred"}
    /\ user' = [user EXCEPT ![u] = "deleted"]
    /\ UNCHANGED <<administrators, org, member, invitation, awaiting, appointed>>

UserPurge(p, u) ==
    /\ Authenticated(p) /\ AdministersRealm(p)
    /\ user[u] = "deleted"
    /\ user' = [user EXCEPT ![u] = "purged"]
    /\ administrators' = administrators \ {u}
    /\ member' = [o \in Orgs |-> [member[o] EXCEPT ![u] = {}]]
    /\ appointed' = {a \in appointed : a[2] # u}
    /\ UNCHANGED <<org, invitation, awaiting>>

Next ==
    \/ \E q \in Request : Admit(q)
    \/ \E q \in awaiting :
          \/ Refuse(q)
          \/ \E o \in Orgs :
                \/ \E u \in Users \cup {None} : OrganizationCreate(q, o, u)
                \/ \E s \in {"active", "inactive", "removed"} :
                      OrganizationLifecycleSet(q, o, s)
                \/ \E u \in Users, roles \in RoleSets :
                      \/ OrganizationMembershipCreate(q, o, u, roles)
                      \/ OrganizationMembershipUpdate(q, o, u, roles)
                      \/ \E i \in Invitations :
                            OrganizationInvitationCreate(q, o, u, roles, i)
          \/ \E i \in Invitations : \/ OrganizationInvitationMeAccept(q, i)
                                    \/ OrganizationInvitationMeDecline(q, i)
          \/ \E u \in Users : RealmAdministratorGrant(q, u)
          \/ \E s \in {"active", "barred"} : UserLifecycleSet(q, s)
    \/ \E p \in Persons :
          \/ \E o \in Orgs : \/ OrganizationPurge(p, o)
                             \/ \E u \in Users : OrganizationMembershipRemove(p, o, u)
          \/ \E i \in Invitations : OrganizationInvitationRevoke(p, i)
          \/ \E u \in Users : \/ RealmAdministratorRevoke(p, u)
                              \/ UserDelete(p, u)
                              \/ UserPurge(p, u)
    \/ \E i \in Invitations : \/ Lapse(i)
                              \/ OrganizationInvitationDecline(i)
                              \/ \E u \in Users : OrganizationInvitationAccept(i, u)

Spec == Init /\ [][Next]_vars

-----------------------------------------------------------------------------
\* Properties.

\* The tables hold rows of their types, and a user may await several bodies.
TypeOK ==
    /\ user \in [Users -> {"active", "barred", "deleted", "purged"}]
    /\ administrators \subseteq Users
    /\ org \in [Orgs -> {"none", "active", "inactive", "removed"}]
    /\ member \in [Orgs -> [Users -> SUBSET Roles]]
    /\ invitation \in [Invitations -> Row \cup {None}]
    /\ awaiting \subseteq Request
    /\ appointed \subseteq Orgs \X Users

\* Every owner was appointed by a decision of somebody who was entitled to
\* appoint owners when it was made, however long the invitation, the request
\* or his own authority outlived that (organizationContextAuthorize.ts:80).
OwnersAreAppointed ==
    \A o \in Orgs : \A u \in Owners(o) : <<o, u>> \in appointed

\* An invitation gives its roles to one user at most, and none that was
\* declined, revoked, replaced or that expired gives any
\* (organizationInvitationAccept.ts:69).
InvitationTakenOnce ==
    \A i \in Invitations : invitation[i] # None =>
        /\ Cardinality(invitation[i].takers) <= 1
        /\ invitation[i].takers # {} => invitation[i].status = "accepted"

\* An organization that has an owner keeps one until it is purged or the
\* owner's account is (organizationMembershipUpdate.ts:81).
OwnerRemains ==
    [][\A o \in Orgs : Owners(o) # {} /\ org'[o] # "none" =>
           \/ Owners(o)' # {}
           \/ \E u \in Owners(o) : user[u] # "purged" /\ user'[u] = "purged"]_vars

\* Nobody gains a role in an organization that is suspended or removed, and a
\* removed one does not come back (organizationInvitationAccept.ts:73).
SuspendedIsFrozen ==
    [][\A o \in Orgs : org[o] \in {"inactive", "removed"} =>
           /\ \A u \in Users : member'[o][u] \subseteq member[o][u]
           /\ org[o] = "removed" => org'[o] \in {"removed", "none"}]_vars

\* The realm's last administrator goes only when his own account, deleted
\* before, is purged (realmAdministratorRevoke.ts:44).
AdministratorRemains ==
    [][\A u \in administrators : administrators' = {} =>
           administrators = {u} /\ user[u] = "deleted" /\ user'[u] = "purged"]_vars
=============================================================================
