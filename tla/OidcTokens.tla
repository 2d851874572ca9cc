----------------------------- MODULE OidcTokens -----------------------------
(***************************************************************************)
(* Authorization codes, access tokens and refresh-token families of one    *)
(* realm: the token, revocation and logout endpoints of features/oidc, and *)
(* what they read of sessions, users, clients and signing keys.            *)
(*                                                                         *)
(* Every handler runs inside storageTransactionRun on a synchronous SQLite *)
(* connection, so a handler is one step; steps of different requests       *)
(* interleave freely and the clock moves between them.  A handler that     *)
(* returns an error rolls its transaction back and is a stuttering step.   *)
(*                                                                         *)
(* A bearer secret and the row that stores its hash are one value, a       *)
(* member of Codes, RefreshTokens or AccessTokens.  A family, a fresh UUID *)
(* in the code, is named by the refresh token that starts it.  A timestamp *)
(* that the code only compares with null (usedAt, revokedAt) is a Boolean. *)
(***************************************************************************)
EXTENDS Integers, FiniteSetsExt

CONSTANTS
    Users, Sessions, Clients, Codes, RefreshTokens, AccessTokens,
    Owner,            \* the user each session id belongs to
    Scopes,           \* the scopes a grant may have besides openid and offline_access
    Policies,         \* the token policies an administrator may give a client
    InitialPolicy,    \* the policy every client is registered with
    SessionLifetimes, \* the lifetimes that sessions are given
    CodeLifetime, ClockSkew,
    MaxTime,          \* bound of the clock
    None              \* SQL NULL, and a row that does not exist

Grants == {"authorization_code", "refresh_token"}

Policy == [access : Nat, id : Nat, absolute : Nat, idle : Nat \cup {None},
           grants : SUBSET Grants]

ASSUME OidcTokensAssumption ==
    /\ Owner \in [Sessions -> Users]
    /\ Policies \subseteq Policy
    /\ InitialPolicy \in Policies
    /\ SessionLifetimes \subseteq Nat
    /\ {CodeLifetime, ClockSkew, MaxTime} \subseteq Nat
    /\ None \notin Nat \cup RefreshTokens

\* Both kinds of secrets are random.
ASSUME SecretsAssumption == RefreshTokens \cap AccessTokens = {}

VARIABLES
    now,
    user,             \* users.state
    session,          \* sessions rows
    client,           \* oidc_clients rows, and whether the client's project context holds
    signingKey,       \* whether the realm has an active RS256 signing key
    code,             \* oidc_authorization_codes rows
    refresh,          \* oidc_refresh_tokens rows
    access,           \* oidc_access_tokens rows
    familyRevoked,    \* oidc.refresh_token_family_revoked events appended per family
    replayed,         \* refresh tokens with an oidc.refresh_token_replay_detected event
    loggedOut         \* sessions with an oidc.logout event

vars == <<now, user, session, client, signingKey, code, refresh, access,
          familyRevoked, replayed, loggedOut>>
rows == <<session, code, refresh, access>>
auditLog == <<familyRevoked, replayed, loggedOut>>

-----------------------------------------------------------------------------
(* Rows.  "inactive" stands for every user state but active and deleted.   *)

UserState == {"active", "inactive", "deleted"}
ClientStatus == {"active", "inactive", "removed"}

SessionRow == [expiresAt : Nat, revoked : BOOLEAN]
ClientRow == [status : ClientStatus, policy : Policies, contextValid : BOOLEAN]
CodeRow == [client : Clients, session : Sessions, offline : BOOLEAN,
            scope : SUBSET Scopes, expiresAt : Nat, used : BOOLEAN]
RefreshRow == [family : RefreshTokens, client : Clients, session : Sessions,
               scope : SUBSET Scopes, createdAt : Nat, lastUsedAt : Nat \cup {None}, expiresAt : Nat,
               replacedBy : RefreshTokens \cup {None}, revoked : BOOLEAN]
\* idExpiresAt is the expiry of the ID token minted with the access token.
AccessRow == [client : Clients, session : Sessions, scope : SUBSET Scopes,
              family : RefreshTokens \cup {None}, expiresAt : Nat, idExpiresAt : Nat,
              revoked : BOOLEAN]

ASSUME NoneAssumption == None \notin SessionRow \cup CodeRow \cup RefreshRow \cup AccessRow

Init ==
    /\ now = 0
    /\ user = [u \in Users |-> "active"]
    /\ session = [s \in Sessions |-> None]
    /\ client = [c \in Clients |->
                    [status |-> "active", policy |-> InitialPolicy, contextValid |-> TRUE]]
    /\ signingKey = TRUE
    /\ code = [k \in Codes |-> None]
    /\ refresh = [r \in RefreshTokens |-> None]
    /\ access = [a \in AccessTokens |-> None]
    /\ familyRevoked = [f \in RefreshTokens |-> 0]
    /\ replayed = {}
    /\ loggedOut = {}

-----------------------------------------------------------------------------
(* What the handlers read.                                                 *)

Issued(table) == {x \in DOMAIN table : table[x] # None}

SessionLive(s) ==
    /\ session[s] # None
    /\ ~session[s].revoked
    /\ session[s].expiresAt > now

\* Mutant: the token endpoint looks at the user only.
SubjectValidIgnoringSession(s) == session[s] # None /\ user[Owner[s]] = "active"

\* oidcTokenSubjectGet and sessionAuthenticate agree on this much of a user session.
SubjectValid(s) == SessionLive(s) /\ user[Owner[s]] = "active"

ClientAuthenticated(c) == client[c].status = "active"

GrantAuthorized(c, grant) == ClientAuthenticated(c) /\ grant \in client[c].policy.grants

\* Mutant: a code can be exchanged again.
CodeUnexpired(k) == code[k] # None /\ code[k].expiresAt > now

CodeRedeemable(k) == code[k] # None /\ ~code[k].used /\ code[k].expiresAt > now

\* The rows the repository's bulk updates select: by client and family, by
\* owner and family, and by session.
SpentFamilyRefresh(c, f) ==   \* Mutant: misses the current token of a rotated family.
    {r \in Issued(refresh) : /\ refresh[r].client = c /\ refresh[r].family = f
                             /\ r = f \/ refresh[r].replacedBy # None}
FamilyRefresh(c, f) ==
    {r \in Issued(refresh) : refresh[r].client = c /\ refresh[r].family = f}
UnexpiredFamilyAccess(c, f) ==   \* Mutant: skips the expired rows.
    {a \in Issued(access) :
        access[a].client = c /\ access[a].family = f /\ access[a].expiresAt > now}
FamilyAccess(c, f) ==
    {a \in Issued(access) : access[a].client = c /\ access[a].family = f}
OwnedRefresh(u) == {r \in Issued(refresh) : Owner[refresh[r].session] = u}
OwnedAccess(u) == {a \in Issued(access) : Owner[access[a].session] = u}
SessionRefresh(s) == {r \in Issued(refresh) : refresh[r].session = s}
LooseSessionAccess(s) ==   \* Mutant: access tokens outside families only.
    {a \in Issued(access) : access[a].session = s /\ access[a].family = None}
SessionAccess(s) == {a \in Issued(access) : access[a].session = s}

Unrevoked(table, S) == {x \in S : ~table[x].revoked}

FamiliesOf(S) == {refresh[r].family : r \in S}

\* refreshTokenFamilyBoundsGet
FamilyCreatedAt(c, f) == Min({refresh[r].createdAt : r \in FamilyRefresh(c, f)})
LastActivity(r) ==
    IF refresh[r].lastUsedAt = None THEN refresh[r].createdAt ELSE refresh[r].lastUsedAt
FamilyLastActivityAt(c, f) == Max({LastActivity(r) : r \in FamilyRefresh(c, f)})

RefreshUsable(r) == ~refresh[r].revoked /\ refresh[r].expiresAt > now

LifetimeLapsed(c, f) ==
    LET policy == client[c].policy
    IN  \/ FamilyCreatedAt(c, f) + policy.absolute <= now
        \/ /\ policy.idle # None
           /\ FamilyLastActivityAt(c, f) + policy.idle <= now

-----------------------------------------------------------------------------
(* What they write.                                                        *)

Revoke(table, S) ==
    [x \in DOMAIN table |-> IF x \in S THEN [table[x] EXCEPT !.revoked = TRUE] ELSE table[x]]

AccessMint(c, s, f, scope) ==
    [client |-> c, session |-> s, family |-> f, scope |-> scope,
     expiresAt |-> now + client[c].policy.access, idExpiresAt |-> now + client[c].policy.id,
     revoked |-> FALSE]

\* Mutant: every rotation starts a new absolute lifetime.
RefreshMintSliding(c, s, f, scope, createdAt) ==
    [client |-> c, session |-> s, family |-> f, scope |-> scope, createdAt |-> now, lastUsedAt |-> None,
     expiresAt |-> now + client[c].policy.absolute,
     replacedBy |-> None, revoked |-> FALSE]

RefreshMint(c, s, f, scope, createdAt) ==
    [client |-> c, session |-> s, family |-> f, scope |-> scope, createdAt |-> now, lastUsedAt |-> None,
     expiresAt |-> createdAt + client[c].policy.absolute,
     replacedBy |-> None, revoked |-> FALSE]

\* Mutant: rotation records the successor but leaves the row usable.
SucceededBy(row, next) == [row EXCEPT !.lastUsedAt = now, !.replacedBy = next]

RotatedOut(row, next) ==
    [row EXCEPT !.lastUsedAt = now, !.replacedBy = next, !.revoked = TRUE]

\* One oidc.refresh_token_family_revoked event, always of aggregate version 1.
FamilyEventAppend(F) ==
    familyRevoked' = [f \in RefreshTokens |->
                        IF f \in F THEN familyRevoked[f] + 1 ELSE familyRevoked[f]]

-----------------------------------------------------------------------------
(* The surroundings: the clock, sessions, users, clients, signing keys.    *)

Tick ==
    /\ now < MaxTime
    /\ now' = now + 1
    /\ UNCHANGED <<user, rows, client, signingKey, auditLog>>

\* Whoever issues a session has looked at its user's state, some time before.
SessionIssue(s, lifetime) ==
    /\ session[s] = None
    /\ session' = [session EXCEPT ![s] =
                    [expiresAt |-> now + lifetime, revoked |-> FALSE]]
    /\ UNCHANGED <<now, user, client, signingKey, code, refresh, access, auditLog>>

Smaller(a, b) == IF a < b THEN a ELSE b

\* Resuming a recent session may shorten it, never prolong it.
SessionResume(s, lifetime) ==
    /\ SessionLive(s)
    /\ session' = [session EXCEPT ![s].expiresAt = Smaller(@, now + lifetime)]
    /\ UNCHANGED <<now, user, client, signingKey, code, refresh, access, auditLog>>

\* One session or all of a user.  Their token rows are left alone: the checks
\* of their use look the session up.
SessionsRevoke(S) ==
    /\ \A s \in S : session[s] # None /\ ~session[s].revoked
    /\ session' = Revoke(session, S)
    /\ UNCHANGED <<now, user, client, signingKey, code, refresh, access, auditLog>>

UserLifecycleSet(u, to) ==
    /\ <<user[u], to>> \in {<<"active", "inactive">>, <<"inactive", "active">>}
    /\ user' = [user EXCEPT ![u] = to]
    /\ UNCHANGED <<now, rows, client, signingKey, auditLog>>

UserDelete(u) ==
    /\ user[u] # "deleted"
    /\ user' = [user EXCEPT ![u] = "deleted"]
    /\ UNCHANGED <<now, rows, client, signingKey, auditLog>>

ClientUpdate(c, policy) ==
    /\ client[c].status # "removed"
    /\ client[c].contextValid
    /\ client' = [client EXCEPT ![c].policy = policy]
    /\ UNCHANGED <<now, user, rows, signingKey, auditLog>>

ClientLifecycleSet(c, status) ==
    /\ client[c].status \notin {"removed", status}
    /\ client' = [client EXCEPT ![c].status = status]
    /\ UNCHANGED <<now, user, rows, signingKey, auditLog>>

\* The client's project, application, organization or grant is deactivated
\* or reactivated by the projects and organizations features.
ClientContextChange(c) ==
    /\ client' = [client EXCEPT ![c].contextValid = ~@]
    /\ UNCHANGED <<now, user, rows, signingKey, auditLog>>

\* An administrator retires the only active key, or one is created again.
SigningKeyChange ==
    /\ signingKey' = ~signingKey
    /\ UNCHANGED <<now, user, rows, client, auditLog>>

-----------------------------------------------------------------------------
(* Authorization codes.                                                    *)

\* The last step of the authorize and consent endpoints.
AuthorizationCodeIssue(k, c, s, offline, scope) ==
    /\ code[k] = None
    /\ SubjectValid(s)
    /\ ClientAuthenticated(c)
    /\ client[c].contextValid
    /\ code' = [code EXCEPT ![k] =
                  [client |-> c, session |-> s, offline |-> offline, scope |-> scope,
                   expiresAt |-> now + CodeLifetime, used |-> FALSE]]
    /\ UNCHANGED <<now, user, session, client, signingKey, refresh, access, auditLog>>

\* /oauth2/code/redeem: consumes the code and mints nothing.
AuthorizationCodeRedeem(k) ==
    /\ CodeRedeemable(k)
    /\ ClientAuthenticated(code[k].client)
    /\ client[code[k].client].contextValid
    /\ SessionLive(code[k].session)
    /\ code' = [code EXCEPT ![k].used = TRUE]
    /\ UNCHANGED <<now, user, session, client, signingKey, refresh, access, auditLog>>

\* grant_type=authorization_code.  Without offline_access only an access
\* token, outside any family, is minted.
AuthorizationCodeExchange(k, a, r) ==
    /\ CodeRedeemable(k)
    /\ access[a] = None
    /\ refresh[r] = None
    /\ LET c == code[k].client
           s == code[k].session
           scope == code[k].scope
       IN  /\ GrantAuthorized(c, "authorization_code")
           /\ SubjectValid(s)
           /\ client[c].contextValid
           /\ signingKey
           /\ code' = [code EXCEPT ![k].used = TRUE]
           /\ \/ /\ code[k].offline
                 /\ access' = [access EXCEPT ![a] = AccessMint(c, s, r, scope)]
                 /\ refresh' = [refresh EXCEPT ![r] = RefreshMint(c, s, r, scope, now)]
              \/ /\ ~code[k].offline
                 /\ access' = [access EXCEPT ![a] = AccessMint(c, s, None, scope)]
                 /\ UNCHANGED refresh
    /\ UNCHANGED <<now, user, session, client, signingKey, auditLog>>

-----------------------------------------------------------------------------
(* grant_type=refresh_token: the ways an exchange of r can end other *)
(* than in a plain refusal.                                                *)

RefreshPresented(r) ==
    /\ refresh[r] # None
    /\ GrantAuthorized(refresh[r].client, "refresh_token")

\* The token was rotated out before: revoke its whole family.
RefreshReplay(r) ==
    /\ RefreshPresented(r)
    /\ refresh[r].revoked
    /\ refresh[r].replacedBy # None
    /\ LET c == refresh[r].client
           f == refresh[r].family
       IN  /\ refresh' = Revoke(refresh, FamilyRefresh(c, f))
           /\ access' = Revoke(access, FamilyAccess(c, f))
    /\ replayed' = replayed \cup {r}
    /\ UNCHANGED <<now, user, session, client, signingKey, code, familyRevoked, loggedOut>>

\* A refresh that is refused because a lifetime of the family has run out is
\* no step: oidcTokenRefreshFamilyKill revokes the family's rows, and the error
\* that is then returned makes storageTransactionRun roll that back.

\* Mutant: the requested scope is compared with the original grant.
ScopeOfGrant(r) == refresh[refresh[r].family].scope

\* A refresh may ask for fewer scopes than the presented token has; the new
\* tokens have only those.
ScopeOfToken(r) == refresh[r].scope

RefreshRotate(r, a, next, scope) ==
    /\ RefreshPresented(r)
    /\ RefreshUsable(r)
    /\ access[a] = None
    /\ refresh[next] = None
    /\ scope \subseteq ScopeOfToken(r)
    /\ LET c == refresh[r].client
           s == refresh[r].session
           f == refresh[r].family
       IN  /\ ~LifetimeLapsed(c, f)
           /\ SubjectValid(s)
           /\ client[c].contextValid
           /\ signingKey
           /\ refresh' = [refresh EXCEPT
                            ![r] = RotatedOut(@, next),
                            ![next] = RefreshMint(c, s, f, scope, FamilyCreatedAt(c, f))]
           /\ access' = [access EXCEPT ![a] = AccessMint(c, s, f, scope)]
    /\ UNCHANGED <<now, user, session, client, signingKey, code, auditLog>>

-----------------------------------------------------------------------------
(* Revocation and logout.                                                  *)

\* RFC 7009 on an access token: that token only.
AccessTokenRevoke(a) ==
    /\ access[a] # None
    /\ ClientAuthenticated(access[a].client)
    /\ ~access[a].revoked
    /\ access' = Revoke(access, {a})
    /\ UNCHANGED <<now, user, session, client, signingKey, code, refresh, auditLog>>

\* Mutant: the handler does not ask whether it revoked anything.
AnyRow(refreshRows, accessRows) == refreshRows \cup accessRows # {}

AnyLive(refreshRows, accessRows) ==
    Unrevoked(refresh, refreshRows) # {} \/ Unrevoked(access, accessRows) # {}

\* Revokes the given rows and appends one family event when one of them was live.
FamilyRevoke(f, refreshRows, accessRows) ==
    /\ AnyLive(refreshRows, accessRows)
    /\ refresh' = Revoke(refresh, refreshRows)
    /\ access' = Revoke(access, accessRows)
    /\ FamilyEventAppend({f})
    /\ UNCHANGED <<now, user, session, client, signingKey, code, replayed, loggedOut>>

\* RFC 7009 on a refresh token, spent or not: its whole family.
RefreshTokenRevoke(r) ==
    /\ refresh[r] # None
    /\ LET c == refresh[r].client
           f == refresh[r].family
       IN  /\ ClientAuthenticated(c)
           /\ FamilyRevoke(f, FamilyRefresh(c, f), FamilyAccess(c, f))

\* A signed-in user ends one of their own families from the account page.
FamilyMeRevoke(u, f) ==
    /\ \E s \in Sessions : Owner[s] = u /\ SubjectValid(s)
    /\ FamilyRevoke(f, {r \in OwnedRefresh(u) : refresh[r].family = f},
                       {a \in OwnedAccess(u) : access[a].family = f})

\* ... or all of them.  An access token outside every family survives.
FamiliesMeRevokeAll(u) ==
    LET families == FamiliesOf(OwnedRefresh(u))
        accessRows == {a \in OwnedAccess(u) : access[a].family \in families}
    IN  /\ \E s \in Sessions : Owner[s] = u /\ SubjectValid(s)
        /\ refresh' = Revoke(refresh, OwnedRefresh(u))
        /\ access' = Revoke(access, accessRows)
        /\ FamilyEventAppend(
                FamiliesOf(Unrevoked(refresh, OwnedRefresh(u)))
                  \cup {access[a].family : a \in Unrevoked(access, accessRows)})
        /\ UNCHANGED <<now, user, session, client, signingKey, code, replayed, loggedOut>>

\* RP-initiated logout, by an ID token of the client that has not been expired
\* for longer than the clock skew, or by the session itself.
Logout(c, s) ==
    /\ session[s] # None
    /\ ClientAuthenticated(c)
    /\ \/ SubjectValid(s)
       \/ \E a \in SessionAccess(s) :
             access[a].client = c /\ access[a].idExpiresAt + ClockSkew > now
    /\ session' = [session EXCEPT ![s].revoked = TRUE]
    /\ access' = Revoke(access, SessionAccess(s))
    /\ refresh' = Revoke(refresh, SessionRefresh(s))
    /\ FamilyEventAppend(FamiliesOf(Unrevoked(refresh, SessionRefresh(s))))
    /\ loggedOut' = loggedOut \cup {s}
    /\ UNCHANGED <<now, user, client, signingKey, code, replayed>>

-----------------------------------------------------------------------------
EnvironmentNext ==
    \/ Tick
    \/ SigningKeyChange
    \/ \E s \in Sessions, lifetime \in SessionLifetimes :
          SessionIssue(s, lifetime) \/ SessionResume(s, lifetime)
    \/ \E S \in SUBSET Sessions : SessionsRevoke(S)
    \/ \E u \in Users : UserDelete(u) \/ \E to \in UserState : UserLifecycleSet(u, to)
    \/ \E c \in Clients :
          \/ ClientContextChange(c)
          \/ \E p \in Policies : ClientUpdate(c, p)
          \/ \E status \in ClientStatus : ClientLifecycleSet(c, status)

CodeNext ==
    \E k \in Codes :
        \/ \E c \in Clients, s \in Sessions, offline \in BOOLEAN, scope \in SUBSET Scopes :
              AuthorizationCodeIssue(k, c, s, offline, scope)
        \/ AuthorizationCodeRedeem(k)
        \/ \E a \in AccessTokens, r \in RefreshTokens : AuthorizationCodeExchange(k, a, r)

RefreshNext ==
    \E r \in RefreshTokens :
        \/ RefreshReplay(r)
        \/ \E a \in AccessTokens, next \in RefreshTokens, scope \in SUBSET Scopes :
              RefreshRotate(r, a, next, scope)

RevokeNext ==
    \/ \E a \in AccessTokens : AccessTokenRevoke(a)
    \/ \E r \in RefreshTokens : RefreshTokenRevoke(r)
    \/ \E u \in Users :
          FamiliesMeRevokeAll(u) \/ \E f \in RefreshTokens : FamilyMeRevoke(u, f)
    \/ \E c \in Clients, s \in Sessions : Logout(c, s)

Next == EnvironmentNext \/ CodeNext \/ RefreshNext \/ RevokeNext

Spec == Init /\ [][Next]_vars

-----------------------------------------------------------------------------
(* What the token endpoints promise.                                       *)

\* The rows have the columns of their tables, and the audit log names rows.
TypeOK ==
    /\ now \in Nat
    /\ user \in [Users -> UserState]
    /\ session \in [Sessions -> SessionRow \cup {None}]
    /\ client \in [Clients -> ClientRow]
    /\ signingKey \in BOOLEAN
    /\ code \in [Codes -> CodeRow \cup {None}]
    /\ refresh \in [RefreshTokens -> RefreshRow \cup {None}]
    /\ access \in [AccessTokens -> AccessRow \cup {None}]
    /\ familyRevoked \in [RefreshTokens -> Nat]
    /\ replayed \subseteq RefreshTokens
    /\ loggedOut \subseteq Sessions

\* Rotation never forks a family: of all the refresh tokens a family ever had,
\* at most one is usable, whatever order exchanges, replays, revocations and
\* policy changes come in.
OneLiveTokenPerFamily ==
    \A q, r \in Issued(refresh) :
        refresh[q].family = refresh[r].family /\ ~refresh[q].revoked /\ ~refresh[r].revoked
            => q = r

\* A family dies whole: no access token minted for it stays unrevoked after
\* its last refresh token is gone.  The family revocations of four handlers
\* (replay, RFC 7009, account page, logout) select rows by different columns,
\* and each must reach both tables.
FamilyDiesTogether ==
    \A a \in Unrevoked(access, Issued(access)) :
        access[a].family # None =>
            \E r \in Unrevoked(refresh, Issued(refresh)) :
                refresh[r].family = access[a].family

\* Once a rotated-out token has been presented again, no token of its family
\* is ever accepted again: the replay revoked all of them and nothing adds one.
ReplayedFamilyDead ==
    \A p \in replayed :
        /\ \A r \in Issued(refresh) :
              refresh[r].family = refresh[p].family => refresh[r].revoked
        /\ \A a \in Issued(access) :
              access[a].family = refresh[p].family => access[a].revoked

\* After a logout of a session every token of it is revoked, also those a
\* still unused code of the session might have been exchanged for.
LoggedOutSessionHasNoLiveTokens ==
    \A s \in loggedOut :
        /\ Unrevoked(refresh, SessionRefresh(s)) = {}
        /\ Unrevoked(access, SessionAccess(s)) = {}

\* A token expires an absolute lifetime after its family began, however often
\* it was rotated: the lifetime is that of a policy the client once had.
ExpiryAnchoredToRoot ==
    \A r \in Issued(refresh) :
        \E p \in Policies :
            refresh[r].expiresAt = refresh[refresh[r].family].createdAt + p.absolute

\* A scope once given up by a refresh never comes back, and no access token of
\* a family exceeds what the user granted.
ScopeNeverWidens ==
    /\ \A r \in Issued(refresh) :
          refresh[r].replacedBy # None =>
              refresh[refresh[r].replacedBy].scope \subseteq refresh[r].scope
    /\ \A a \in Issued(access) :
          access[a].family # None =>
              access[a].scope \subseteq refresh[access[a].family].scope

\* The log holds at most one oidc.refresh_token_family_revoked event for a
\* family: it is always written with aggregate version 1, and no unique index
\* guards the event table against a second one.
FamilyRevokedEventOnce == \A f \in RefreshTokens : familyRevoked[f] <= 1

\* A code begets at most one family, and a family needs a consumed code of the
\* same client and session.
CodeBegetsOneFamily ==
    \A c \in Clients, s \in Sessions :
        Cardinality({r \in SessionRefresh(s) : refresh[r].client = c /\ refresh[r].family = r})
          <= Cardinality({k \in Issued(code) :
                code[k].client = c /\ code[k].session = s /\ code[k].used /\ code[k].offline})

\* No step brings a revoked token back or changes the successor of a spent one.
RevocationIsFinal ==
    [][/\ \A r \in Issued(refresh) :
            refresh[r].revoked =>
                refresh'[r].revoked /\ refresh'[r].replacedBy = refresh[r].replacedBy
       /\ \A a \in Issued(access) : access[a].revoked => access'[a].revoked]_vars

-----------------------------------------------------------------------------
(* The realm's token tables implement refresh-token families.              *)

Families == {f \in Issued(refresh) : refresh[f].family = f}
LiveOf(f) == {r \in Unrevoked(refresh, Issued(refresh)) : refresh[r].family = f}

HolderIn(live) == IF live = {} THEN None ELSE CHOOSE r \in live : TRUE

holderMap == [f \in RefreshTokens |-> HolderIn(LiveOf(f))]
bearerMap == [f \in RefreshTokens |->
                {a \in Unrevoked(access, Issued(access)) : access[a].family = f}]
endedMap == {f \in Families : LiveOf(f) = {}}
usedMap == Issued(refresh) \cup Issued(access)

Family == INSTANCE RefreshFamily WITH
            Refresh <- RefreshTokens, Access <- AccessTokens,
            holder <- holderMap, bearer <- bearerMap, ended <- endedMap, used <- usedMap

\* Every step of the token endpoints is a step of the family protocol or
\* leaves the families alone.
ImplementsRefreshFamily == Family!FamilySpec

-----------------------------------------------------------------------------
(* What it reads of a session is a session's life.                         *)

lifeMap == [s \in Issued(session) |->
              [owner |-> Owner[s], expiresAt |-> session[s].expiresAt,
               revoked |-> session[s].revoked]]

Life == INSTANCE SessionLife WITH
            Ids <- Sessions, People <- Users, Lifetimes <- SessionLifetimes,
            clock <- now, life <- lifeMap

\* No endpoint of this module does more to a session than end it.
ImplementsSessionLife == Life!LifeSpec

=============================================================================
