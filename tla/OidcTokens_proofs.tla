------------------------- MODULE OidcTokens_proofs --------------------------
(***************************************************************************)
(* Proofs about OidcTokens, for every value of its constants.              *)
(*                                                                         *)
(* The safety invariants are not inductive.  What makes them so is Rooted: *)
(* every token row of a family agrees with the row of its first refresh    *)
(* token on client and session.  Without it the four family revocations,   *)
(* which select by client, by owner or by session, could each split a      *)
(* family.                                                                 *)
(*                                                                         *)
(* What a step may do to the tokens is one of six things: nothing, a code  *)
(* spent, a family started, a rotation, an access token withdrawn, families*)
(* revoked.  That revocation is final and that the tables implement        *)
(* RefreshFamily are shown for each.  The log has an invariant of its own: *)
(* a family whose end is recorded is dead.  That a code begets one family  *)
(* is shown by counting the first tokens of a session and its spent codes. *)
(***************************************************************************)
EXTENDS OidcTokens, FiniteSetTheorems, TLAPS

\* Every refresh row belongs to the family of an existing first token, with
\* its client and session and no scope beyond its own, and is no older.
RefreshRooted ==
    \A r \in Issued(refresh) :
        LET root == refresh[refresh[r].family]
        IN  /\ root # None
            /\ root.family = refresh[r].family
            /\ root.client = refresh[r].client
            /\ root.session = refresh[r].session
            /\ refresh[r].scope \subseteq root.scope
            /\ root.createdAt <= refresh[r].createdAt
            /\ refresh[r].createdAt <= now
            /\ refresh[r].replacedBy # None => refresh[refresh[r].replacedBy] # None

AccessRooted ==
    \A a \in Issued(access) :
        access[a].family # None =>
            LET root == refresh[access[a].family]
            IN  /\ root # None
                /\ root.family = access[a].family
                /\ root.client = access[a].client
                /\ root.session = access[a].session
                /\ access[a].scope \subseteq root.scope

ReplayedIssued == replayed \subseteq Issued(refresh)

Rooted == RefreshRooted /\ AccessRooted /\ ReplayedIssued

FamilyInv ==
    /\ OneLiveTokenPerFamily
    /\ FamilyDiesTogether
    /\ ReplayedFamilyDead
    /\ ExpiryAnchoredToRoot
    /\ ScopeNeverWidens

IInv == TypeOK /\ Rooted /\ FamilyInv

-----------------------------------------------------------------------------
(* Lemmas about the operators.                                             *)

\* Revoking refresh rows changes nothing but revoked, and that only in them.
LEMMA RevokeRefreshFields ==
    ASSUME TypeOK, NEW S \in SUBSET Issued(refresh), refresh' = Revoke(refresh, S)
    PROVE  /\ refresh' \in [RefreshTokens -> RefreshRow \cup {None}]
           /\ Issued(refresh)' = Issued(refresh)
           /\ \A r \in Issued(refresh) :
                /\ refresh'[r].family = refresh[r].family
                /\ refresh'[r].client = refresh[r].client
                /\ refresh'[r].session = refresh[r].session
                /\ refresh'[r].scope = refresh[r].scope
                /\ refresh'[r].createdAt = refresh[r].createdAt
                /\ refresh'[r].expiresAt = refresh[r].expiresAt
                /\ refresh'[r].replacedBy = refresh[r].replacedBy
                /\ refresh'[r].revoked <=> (r \in S \/ refresh[r].revoked)
<1>1. refresh \in [RefreshTokens -> RefreshRow \cup {None}]
  BY DEF TypeOK
<1>2. \A r \in Issued(refresh) : r \in RefreshTokens /\ refresh[r] \in RefreshRow
  BY <1>1 DEF Issued
<1>3. \A r \in RefreshTokens :
        refresh'[r] = IF r \in S THEN [refresh[r] EXCEPT !.revoked = TRUE] ELSE refresh[r]
  BY <1>1 DEF Revoke
<1>4. \A r \in S : [refresh[r] EXCEPT !.revoked = TRUE] \in RefreshRow
  BY <1>2 DEF RefreshRow
<1>5. refresh' \in [RefreshTokens -> RefreshRow \cup {None}]
  BY <1>1, <1>4 DEF Revoke
<1>6. \A r \in RefreshTokens : refresh'[r] = None <=> refresh[r] = None
  BY <1>2, <1>3, <1>4, NoneAssumption
<1>7. Issued(refresh)' = Issued(refresh)
  BY <1>1, <1>5, <1>6 DEF Issued
<1>8. ASSUME NEW r \in Issued(refresh)
      PROVE  /\ refresh'[r].family = refresh[r].family
             /\ refresh'[r].client = refresh[r].client
             /\ refresh'[r].session = refresh[r].session
             /\ refresh'[r].scope = refresh[r].scope
             /\ refresh'[r].createdAt = refresh[r].createdAt
             /\ refresh'[r].expiresAt = refresh[r].expiresAt
             /\ refresh'[r].replacedBy = refresh[r].replacedBy
             /\ refresh'[r].revoked <=> (r \in S \/ refresh[r].revoked)
  BY <1>2, <1>3 DEF RefreshRow
<1>9. QED
  BY <1>5, <1>7, <1>8

\* The same of sessions, and what a resume does to one.
LEMMA RevokeSessionFields ==
    ASSUME TypeOK, NEW S \in SUBSET Issued(session), session' = Revoke(session, S)
    PROVE  /\ session' \in [Sessions -> SessionRow \cup {None}]
           /\ Issued(session)' = Issued(session)
           /\ \A s \in Issued(session) :
                /\ session'[s].expiresAt = session[s].expiresAt
                /\ session'[s].revoked = IF s \in S THEN TRUE ELSE session[s].revoked
<1>1. session \in [Sessions -> SessionRow \cup {None}]
  BY DEF TypeOK
<1>2. \A s \in Issued(session) : s \in Sessions /\ session[s] \in SessionRow
  BY <1>1 DEF Issued
<1>3. \A s \in Sessions :
        session'[s] = IF s \in S THEN [session[s] EXCEPT !.revoked = TRUE] ELSE session[s]
  BY <1>1 DEF Revoke
<1>4. \A s \in S : [session[s] EXCEPT !.revoked = TRUE] \in SessionRow
  BY <1>2 DEF SessionRow
<1>5. session' \in [Sessions -> SessionRow \cup {None}]
  BY <1>1, <1>4 DEF Revoke
<1>6. \A s \in Sessions : session'[s] = None <=> session[s] = None
  BY <1>2, <1>3, <1>4, NoneAssumption
<1>7. Issued(session)' = Issued(session)
  BY <1>1, <1>5, <1>6 DEF Issued
<1>8. ASSUME NEW s \in Issued(session)
      PROVE  /\ session'[s].expiresAt = session[s].expiresAt
             /\ session'[s].revoked = IF s \in S THEN TRUE ELSE session[s].revoked
  BY <1>2, <1>3 DEF SessionRow
<1> QED
  BY <1>5, <1>7, <1>8

LEMMA ResumeSessionFields ==
    ASSUME TypeOK, NEW s \in Sessions, NEW lifetime \in SessionLifetimes,
           SessionResume(s, lifetime)
    PROVE  /\ session' \in [Sessions -> SessionRow \cup {None}]
           /\ Issued(session)' = Issued(session)
           /\ s \in Issued(session)
           /\ ~session[s].revoked /\ ~session'[s].revoked
           /\ session'[s].expiresAt = Smaller(session[s].expiresAt, now + lifetime)
           /\ \A t \in Sessions \ {s} : session'[t] = session[t]
<1>1. session \in [Sessions -> SessionRow \cup {None}]
  BY DEF TypeOK
<1>2. session[s] \in SessionRow /\ session[s] # None /\ ~session[s].revoked
  BY <1>1 DEF SessionResume, SessionLive
<1> DEFINE e == Smaller(session[s].expiresAt, now + lifetime)
           row == [session[s] EXCEPT !.expiresAt = e]
<1>3. now + lifetime \in Nat
  BY OidcTokensAssumption DEF TypeOK
<1>4. e \in Nat
  BY <1>2, <1>3 DEF Smaller, SessionRow
<1>5. session' = [session EXCEPT ![s] = row]
  BY <1>1 DEF SessionResume
<1> HIDE DEF e
<1>6. row \in SessionRow /\ ~row.revoked /\ row.expiresAt = e
  BY <1>2, <1>4 DEF SessionRow
<1>7. row # None
  BY <1>6, NoneAssumption
<1> HIDE DEF row
<1>8. session'[s] = row /\ session' \in [Sessions -> SessionRow \cup {None}]
      /\ \A t \in Sessions \ {s} : session'[t] = session[t]
  BY <1>1, <1>5, <1>6
<1>9. Issued(session)' = Issued(session) /\ s \in Issued(session)
  BY <1>1, <1>2, <1>7, <1>8 DEF Issued
<1> QED
  BY <1>2, <1>6, <1>8, <1>9 DEF e

\* The same of access rows.
LEMMA RevokeAccessFields ==
    ASSUME TypeOK, NEW S \in SUBSET Issued(access), access' = Revoke(access, S)
    PROVE  /\ access' \in [AccessTokens -> AccessRow \cup {None}]
           /\ Issued(access)' = Issued(access)
           /\ \A a \in Issued(access) :
                /\ access'[a].family = access[a].family
                /\ access'[a].client = access[a].client
                /\ access'[a].session = access[a].session
                /\ access'[a].scope = access[a].scope
                /\ access'[a].revoked <=> (a \in S \/ access[a].revoked)
<1>1. access \in [AccessTokens -> AccessRow \cup {None}]
  BY DEF TypeOK
<1>2. \A a \in Issued(access) : a \in AccessTokens /\ access[a] \in AccessRow
  BY <1>1 DEF Issued
<1>3. \A a \in AccessTokens :
        access'[a] = IF a \in S THEN [access[a] EXCEPT !.revoked = TRUE] ELSE access[a]
  BY <1>1 DEF Revoke
<1>4. \A a \in S : [access[a] EXCEPT !.revoked = TRUE] \in AccessRow
  BY <1>2 DEF AccessRow
<1>5. access' \in [AccessTokens -> AccessRow \cup {None}]
  BY <1>1, <1>4 DEF Revoke
<1>6. \A a \in AccessTokens : access'[a] = None <=> access[a] = None
  BY <1>2, <1>3, <1>4, NoneAssumption
<1>7. Issued(access)' = Issued(access)
  BY <1>1, <1>5, <1>6 DEF Issued
<1>8. ASSUME NEW a \in Issued(access)
      PROVE  /\ access'[a].family = access[a].family
             /\ access'[a].client = access[a].client
             /\ access'[a].session = access[a].session
             /\ access'[a].scope = access[a].scope
             /\ access'[a].revoked <=> (a \in S \/ access[a].revoked)
  BY <1>2, <1>3 DEF AccessRow
<1>9. QED
  BY <1>5, <1>7, <1>8

LEMMA MinIsLeast ==
    ASSUME NEW T, NEW m \in T, \A x \in T : x \in Nat /\ m <= x
    PROVE  Min(T) = m
<1>1. \A x \in T : (\A y \in T : x <= y) => x = m
  <2>1. ASSUME NEW x \in T, \A y \in T : x <= y
        PROVE  x = m
    <3>1. x \in Nat /\ m \in Nat /\ m <= x /\ x <= m
      BY <2>1
    <3>2. QED
      BY <3>1
  <2>2. QED
    BY <2>1
<1>2. QED
  BY <1>1 DEF Min

\* refreshTokenFamilyBoundsGet finds the creation time of the first token.
LEMMA FamilyBeginsWithRoot ==
    ASSUME TypeOK, RefreshRooted, NEW r \in Issued(refresh)
    PROVE  FamilyCreatedAt(refresh[r].client, refresh[r].family)
             = refresh[refresh[r].family].createdAt
<1> DEFINE c == refresh[r].client
           f == refresh[r].family
           T == {refresh[q].createdAt : q \in FamilyRefresh(c, f)}
           m == refresh[f].createdAt
<1>1. \A q \in Issued(refresh) : q \in RefreshTokens /\ refresh[q] \in RefreshRow
  BY DEF Issued, TypeOK
<1>2. f \in Issued(refresh)
  BY <1>1 DEF RefreshRooted, Issued, TypeOK, RefreshRow
<1>3. m \in T
  BY <1>2 DEF RefreshRooted, FamilyRefresh
<1>4. \A x \in T : x \in Nat /\ m <= x
  BY <1>1 DEF RefreshRooted, FamilyRefresh, RefreshRow
<1>5. Min(T) = m
  BY <1>3, <1>4, MinIsLeast
<1>6. QED
  BY <1>5 DEF FamilyCreatedAt

-----------------------------------------------------------------------------
(* Type correctness.  The expiry of a rotated token is a number because    *)
(* its family has a first token.                                           *)

LEMMA MintTypes ==
    ASSUME TypeOK, NEW c \in Clients, NEW s \in Sessions
    PROVE  /\ \A f \in RefreshTokens \cup {None}, x \in SUBSET Scopes :
                AccessMint(c, s, f, x) \in AccessRow
           /\ \A f \in RefreshTokens, x \in SUBSET Scopes, n \in Nat :
                RefreshMint(c, s, f, x, n) \in RefreshRow
<1>1. {client[c].policy.access, client[c].policy.id, client[c].policy.absolute} \subseteq Nat
  BY OidcTokensAssumption DEF TypeOK, ClientRow, Policy
<1>2. now \in Nat
  BY DEF TypeOK
<1>3. ASSUME NEW f \in RefreshTokens \cup {None}, NEW x \in SUBSET Scopes
      PROVE  AccessMint(c, s, f, x) \in AccessRow
  BY <1>1, <1>2 DEF AccessMint, AccessRow
<1>4. ASSUME NEW f \in RefreshTokens, NEW x \in SUBSET Scopes, NEW n \in Nat
      PROVE  RefreshMint(c, s, f, x, n) \in RefreshRow
  BY <1>1, <1>2 DEF RefreshMint, RefreshRow
<1>5. QED
  BY <1>3, <1>4

LEMMA FamilyEventType ==
    ASSUME TypeOK, NEW F, FamilyEventAppend(F)
    PROVE  familyRevoked' \in [RefreshTokens -> Nat]
BY DEF FamilyEventAppend, TypeOK

\* The steps of the surroundings.
LEMMA EnvironmentTypes ==
    ASSUME TypeOK, EnvironmentNext
    PROVE  TypeOK'
<1> USE DEF TypeOK, auditLog, rows
<1>1. CASE Tick
  BY <1>1 DEF Tick
<1>2. CASE SigningKeyChange
  BY <1>2 DEF SigningKeyChange
<1>3. ASSUME \/ \E s \in Sessions, lifetime \in SessionLifetimes :
                   SessionIssue(s, lifetime) \/ SessionResume(s, lifetime)
             \/ \E S \in SUBSET Sessions : SessionsRevoke(S)
      PROVE  TypeOK'
  <2>1. ASSUME NEW s \in Sessions, NEW lifetime \in SessionLifetimes, SessionIssue(s, lifetime)
        PROVE  TypeOK'
    <3>1. now + lifetime \in Nat
      BY OidcTokensAssumption
    <3> QED
      BY <2>1, <3>1 DEF SessionIssue, SessionRow
  <2>2. ASSUME NEW s \in Sessions, NEW lifetime \in SessionLifetimes, SessionResume(s, lifetime)
        PROVE  TypeOK'
    <3>1. session' \in [Sessions -> SessionRow \cup {None}]
      BY <2>2, ResumeSessionFields
    <3> QED
      BY <2>2, <3>1 DEF SessionResume
  <2>3. ASSUME NEW S \in SUBSET Sessions, SessionsRevoke(S)
        PROVE  TypeOK'
    <3>1. S \in SUBSET Issued(session) /\ session' = Revoke(session, S)
      BY <2>3 DEF SessionsRevoke, Issued
    <3>2. session' \in [Sessions -> SessionRow \cup {None}]
      BY <3>1, RevokeSessionFields
    <3> QED
      BY <2>3, <3>2 DEF SessionsRevoke
  <2> QED
    BY <1>3, <2>1, <2>2, <2>3
<1>4. ASSUME NEW u \in Users, UserDelete(u) \/ \E to \in UserState : UserLifecycleSet(u, to)
      PROVE  TypeOK'
  BY <1>4 DEF UserDelete, UserLifecycleSet, UserState
<1>5. ASSUME NEW c \in Clients,
             \/ ClientContextChange(c)
             \/ \E p \in Policies : ClientUpdate(c, p)
             \/ \E status \in ClientStatus : ClientLifecycleSet(c, status)
      PROVE  TypeOK'
  <2>1. CASE ClientContextChange(c)
    BY <2>1 DEF ClientContextChange, ClientRow
  <2>2. ASSUME NEW p \in Policies, ClientUpdate(c, p)
        PROVE  TypeOK'
    BY <2>2 DEF ClientUpdate, ClientRow
  <2>3. ASSUME NEW status \in ClientStatus, ClientLifecycleSet(c, status)
        PROVE  TypeOK'
    BY <2>3 DEF ClientLifecycleSet, ClientRow
  <2>4. QED
    BY <1>5, <2>1, <2>2, <2>3
<1>6. QED
  BY <1>1, <1>2, <1>3, <1>4, <1>5 DEF EnvironmentNext

LEMMA CodeTypes ==
    ASSUME TypeOK, CodeNext
    PROVE  TypeOK'
<1>1. ASSUME NEW k \in Codes, NEW c \in Clients, NEW s \in Sessions, NEW offline \in BOOLEAN,
             NEW x \in SUBSET Scopes, AuthorizationCodeIssue(k, c, s, offline, x)
      PROVE  TypeOK'
  <2>1. now + CodeLifetime \in Nat
    BY OidcTokensAssumption DEF TypeOK
  <2>2. code' \in [Codes -> CodeRow \cup {None}]
    BY <1>1, <2>1 DEF AuthorizationCodeIssue, TypeOK, CodeRow
  <2>3. QED
    BY <1>1, <2>2 DEF AuthorizationCodeIssue, TypeOK, auditLog
<1>2. ASSUME NEW k \in Codes, CodeRedeemable(k)
      PROVE  [code EXCEPT ![k].used = TRUE] \in [Codes -> CodeRow \cup {None}]
  BY <1>2 DEF CodeRedeemable, TypeOK, CodeRow
<1>3. ASSUME NEW k \in Codes, AuthorizationCodeRedeem(k)
      PROVE  TypeOK'
  BY <1>2, <1>3 DEF AuthorizationCodeRedeem, TypeOK, auditLog
<1>4. ASSUME NEW k \in Codes, NEW a \in AccessTokens, NEW r \in RefreshTokens,
             AuthorizationCodeExchange(k, a, r)
      PROVE  TypeOK'
  <2> DEFINE c == code[k].client
             s == code[k].session
             x == code[k].scope
  <2>1. CodeRedeemable(k) /\ code' = [code EXCEPT ![k].used = TRUE]
    BY <1>4 DEF AuthorizationCodeExchange
  <2>2. c \in Clients /\ s \in Sessions /\ x \in SUBSET Scopes
    BY <2>1 DEF CodeRedeemable, TypeOK, CodeRow
  <2>3. AccessMint(c, s, r, x) \in AccessRow /\ AccessMint(c, s, None, x) \in AccessRow
    BY <2>2, MintTypes
  <2>4. RefreshMint(c, s, r, x, now) \in RefreshRow
    BY <2>2, MintTypes DEF TypeOK
  <2>5. access' \in [AccessTokens -> AccessRow \cup {None}]
    BY <1>4, <2>3 DEF AuthorizationCodeExchange, TypeOK
  <2>6. refresh' \in [RefreshTokens -> RefreshRow \cup {None}]
    BY <1>4, <2>4 DEF AuthorizationCodeExchange, TypeOK
  <2>7. QED
    BY <1>2, <1>4, <2>1, <2>5, <2>6 DEF AuthorizationCodeExchange, TypeOK, auditLog
<1>5. QED
  BY <1>1, <1>3, <1>4 DEF CodeNext

LEMMA RefreshTypes ==
    ASSUME TypeOK, RefreshRooted, RefreshNext
    PROVE  TypeOK'
<1>1. ASSUME NEW r \in RefreshTokens, RefreshPresented(r)
      PROVE  /\ r \in Issued(refresh)
             /\ refresh[r] \in RefreshRow
             /\ refresh[r].client \in Clients
             /\ refresh[r].session \in Sessions
             /\ refresh[r].family \in RefreshTokens
  BY <1>1 DEF RefreshPresented, Issued, TypeOK, RefreshRow
<1>2. ASSUME NEW r \in RefreshTokens, RefreshReplay(r)
      PROVE  TypeOK'
  <2> DEFINE R == FamilyRefresh(refresh[r].client, refresh[r].family)
             A == FamilyAccess(refresh[r].client, refresh[r].family)
  <2>1. refresh' = Revoke(refresh, R) /\ access' = Revoke(access, A)
    BY <1>2 DEF RefreshReplay
  <2>2. R \in SUBSET Issued(refresh) /\ A \in SUBSET Issued(access)
    BY DEF FamilyRefresh, FamilyAccess
  <2>3. refresh' \in [RefreshTokens -> RefreshRow \cup {None}]
    BY <2>1, <2>2, RevokeRefreshFields
  <2>4. access' \in [AccessTokens -> AccessRow \cup {None}]
    BY <2>1, <2>2, RevokeAccessFields
  <2>5. QED
    BY <1>2, <2>3, <2>4 DEF RefreshReplay, TypeOK
<1>3. ASSUME NEW r \in RefreshTokens, NEW a \in AccessTokens, NEW next \in RefreshTokens,
             NEW x \in SUBSET Scopes, RefreshRotate(r, a, next, x)
      PROVE  TypeOK'
  <2> DEFINE c == refresh[r].client
             s == refresh[r].session
             f == refresh[r].family
  <2>1. /\ r \in Issued(refresh)
        /\ refresh[r] \in RefreshRow
        /\ c \in Clients /\ s \in Sessions /\ f \in RefreshTokens
    BY <1>1, <1>3 DEF RefreshRotate
  <2>2. FamilyCreatedAt(c, f) \in Nat
    <3>1. FamilyCreatedAt(c, f) = refresh[f].createdAt
      BY <2>1, FamilyBeginsWithRoot
    <3>2. refresh[f] \in RefreshRow
      BY <2>1 DEF RefreshRooted, TypeOK
    <3>3. QED
      BY <3>1, <3>2 DEF RefreshRow
  <2>3. RefreshMint(c, s, f, x, FamilyCreatedAt(c, f)) \in RefreshRow
    BY <2>1, <2>2, MintTypes
  <2>4. AccessMint(c, s, f, x) \in AccessRow
    BY <2>1, MintTypes
  <2>5. RotatedOut(refresh[r], next) \in RefreshRow
    BY <2>1 DEF RotatedOut, RefreshRow, TypeOK
  <2>6. refresh' \in [RefreshTokens -> RefreshRow \cup {None}]
    BY <1>3, <2>3, <2>5 DEF RefreshRotate, TypeOK
  <2>7. access' \in [AccessTokens -> AccessRow \cup {None}]
    BY <1>3, <2>4 DEF RefreshRotate, TypeOK
  <2>8. QED
    BY <1>3, <2>6, <2>7 DEF RefreshRotate, TypeOK, auditLog
<1>4. QED
  BY <1>2, <1>3 DEF RefreshNext

\* FamilyRevoke keeps the types whatever rows its caller selects.
LEMMA FamilyRevokeTypes ==
    ASSUME TypeOK, NEW f \in RefreshTokens,
           NEW R \in SUBSET Issued(refresh), NEW A \in SUBSET Issued(access),
           FamilyRevoke(f, R, A)
    PROVE  TypeOK'
<1>1. refresh' = Revoke(refresh, R) /\ access' = Revoke(access, A) /\ FamilyEventAppend({f})
  BY DEF FamilyRevoke
<1>2. refresh' \in [RefreshTokens -> RefreshRow \cup {None}]
  BY <1>1, RevokeRefreshFields
<1>3. access' \in [AccessTokens -> AccessRow \cup {None}]
  BY <1>1, RevokeAccessFields
<1>4. familyRevoked' \in [RefreshTokens -> Nat]
  BY <1>1, FamilyEventType
<1>5. QED
  BY <1>2, <1>3, <1>4 DEF FamilyRevoke, TypeOK

LEMMA RevokeTypes ==
    ASSUME TypeOK, RevokeNext
    PROVE  TypeOK'
<1>1. ASSUME NEW a \in AccessTokens, AccessTokenRevoke(a)
      PROVE  TypeOK'
  <2>1. {a} \in SUBSET Issued(access) /\ access' = Revoke(access, {a})
    BY <1>1 DEF AccessTokenRevoke, Issued, TypeOK
  <2>2. access' \in [AccessTokens -> AccessRow \cup {None}]
    BY <2>1, RevokeAccessFields
  <2>3. QED
    BY <1>1, <2>2 DEF AccessTokenRevoke, TypeOK, auditLog
<1>2. ASSUME NEW r \in RefreshTokens, RefreshTokenRevoke(r)
      PROVE  TypeOK'
  <2> DEFINE R == FamilyRefresh(refresh[r].client, refresh[r].family)
             A == FamilyAccess(refresh[r].client, refresh[r].family)
  <2>1. refresh[r].family \in RefreshTokens
    BY <1>2 DEF RefreshTokenRevoke, TypeOK, RefreshRow
  <2>2. R \in SUBSET Issued(refresh) /\ A \in SUBSET Issued(access)
    BY DEF FamilyRefresh, FamilyAccess
  <2>3. FamilyRevoke(refresh[r].family, R, A)
    BY <1>2 DEF RefreshTokenRevoke
  <2>4. QED
    BY <2>1, <2>2, <2>3, FamilyRevokeTypes
<1>3. ASSUME NEW u \in Users, NEW f \in RefreshTokens, FamilyMeRevoke(u, f)
      PROVE  TypeOK'
  <2> DEFINE R == {r \in OwnedRefresh(u) : refresh[r].family = f}
             A == {a \in OwnedAccess(u) : access[a].family = f}
  <2>1. R \in SUBSET Issued(refresh) /\ A \in SUBSET Issued(access)
    BY DEF OwnedRefresh, OwnedAccess
  <2>2. FamilyRevoke(f, R, A)
    BY <1>3 DEF FamilyMeRevoke
  <2>3. QED
    BY <2>1, <2>2, FamilyRevokeTypes
<1>4. ASSUME NEW u \in Users, FamiliesMeRevokeAll(u)
      PROVE  TypeOK'
  <2> DEFINE A == {a \in OwnedAccess(u) : access[a].family \in FamiliesOf(OwnedRefresh(u))}
  <2>1. refresh' = Revoke(refresh, OwnedRefresh(u)) /\ access' = Revoke(access, A)
    BY <1>4 DEF FamiliesMeRevokeAll
  <2>2. OwnedRefresh(u) \in SUBSET Issued(refresh) /\ A \in SUBSET Issued(access)
    BY DEF OwnedRefresh, OwnedAccess
  <2>3. refresh' \in [RefreshTokens -> RefreshRow \cup {None}]
    BY <2>1, <2>2, RevokeRefreshFields
  <2>4. access' \in [AccessTokens -> AccessRow \cup {None}]
    BY <2>1, <2>2, RevokeAccessFields
  <2>5. familyRevoked' \in [RefreshTokens -> Nat]
    BY <1>4, FamilyEventType DEF FamiliesMeRevokeAll
  <2>6. QED
    BY <1>4, <2>3, <2>4, <2>5 DEF FamiliesMeRevokeAll, TypeOK
<1>5. ASSUME NEW c \in Clients, NEW s \in Sessions, Logout(c, s)
      PROVE  TypeOK'
  <2>1. SessionRefresh(s) \in SUBSET Issued(refresh) /\ SessionAccess(s) \in SUBSET Issued(access)
    BY DEF SessionRefresh, SessionAccess
  <2>2. refresh' \in [RefreshTokens -> RefreshRow \cup {None}]
    BY <1>5, <2>1, RevokeRefreshFields DEF Logout
  <2>3. access' \in [AccessTokens -> AccessRow \cup {None}]
    BY <1>5, <2>1, RevokeAccessFields DEF Logout
  <2>4. familyRevoked' \in [RefreshTokens -> Nat]
    BY <1>5, FamilyEventType DEF Logout
  <2>5. session' \in [Sessions -> SessionRow \cup {None}]
    BY <1>5 DEF Logout, TypeOK, SessionRow
  <2>6. QED
    BY <1>5, <2>2, <2>3, <2>4, <2>5 DEF Logout, TypeOK
<1>6. QED
  BY <1>1, <1>2, <1>3, <1>4, <1>5 DEF RevokeNext

LEMMA TypeStep ==
    ASSUME TypeOK, RefreshRooted, [Next]_vars
    PROVE  TypeOK'
<1>1. CASE UNCHANGED vars
  BY <1>1 DEF vars, TypeOK
<1>2. CASE Next
  BY <1>2, EnvironmentTypes, CodeTypes, RefreshTypes, RevokeTypes DEF Next
<1>3. QED
  BY <1>1, <1>2

-----------------------------------------------------------------------------
(* The inductive step.  As far as the families are concerned a request     *)
(* does one of five things: nothing, mint an access token outside all      *)
(* families, start a family, rotate one, or revoke some rows.              *)

LEMMA QuietStep ==
    ASSUME IInv, now' \in Nat, now <= now', UNCHANGED <<refresh, access, replayed>>
    PROVE  Rooted' /\ FamilyInv'
<1>1. RefreshRooted'
  <2>1. ASSUME NEW r \in Issued(refresh), refresh[r].createdAt <= now
        PROVE  refresh[r].createdAt <= now'
    <3>1. refresh[r].createdAt \in Nat /\ now \in Nat
      BY DEF IInv, TypeOK, Issued, RefreshRow
    <3>2. QED
      BY <2>1, <3>1
  <2>2. QED
    BY <2>1 DEF IInv, Rooted, RefreshRooted, Issued
<1>2. AccessRooted' /\ ReplayedIssued'
  BY DEF IInv, Rooted, AccessRooted, ReplayedIssued, Issued
<1>3. FamilyInv'
  BY DEF IInv, FamilyInv, OneLiveTokenPerFamily, FamilyDiesTogether, ReplayedFamilyDead,
         ExpiryAnchoredToRoot, ScopeNeverWidens, Issued, Unrevoked
<1>4. QED
  BY <1>1, <1>2, <1>3 DEF Rooted

\* Rows may be revoked in any combination that takes, with a refresh token,
\* every access token of its family.
LEMMA RevokingStep ==
    ASSUME IInv, UNCHANGED now,
           NEW R \in SUBSET Issued(refresh), refresh' = Revoke(refresh, R),
           NEW A \in SUBSET Issued(access), access' = Revoke(access, A),
           \A r \in R, a \in Issued(access) :
                access[a].family = refresh[r].family => a \in A,
           replayed' \subseteq Issued(refresh),
           \A p \in replayed' \ replayed :
                /\ \A r \in Issued(refresh) : refresh[r].family = refresh[p].family => r \in R
                /\ \A a \in Issued(access) : access[a].family = refresh[p].family => a \in A
    PROVE  Rooted' /\ FamilyInv'
<1>1. TypeOK
  BY DEF IInv
<1>2. /\ Issued(refresh)' = Issued(refresh)
      /\ \A r \in Issued(refresh) :
            /\ refresh'[r].family = refresh[r].family
            /\ refresh'[r].client = refresh[r].client
            /\ refresh'[r].session = refresh[r].session
            /\ refresh'[r].scope = refresh[r].scope
            /\ refresh'[r].createdAt = refresh[r].createdAt
            /\ refresh'[r].expiresAt = refresh[r].expiresAt
            /\ refresh'[r].replacedBy = refresh[r].replacedBy
            /\ refresh'[r].revoked <=> (r \in R \/ refresh[r].revoked)
  BY <1>1, RevokeRefreshFields
<1>3. /\ Issued(access)' = Issued(access)
      /\ \A a \in Issued(access) :
            /\ access'[a].family = access[a].family
            /\ access'[a].client = access[a].client
            /\ access'[a].session = access[a].session
            /\ access'[a].scope = access[a].scope
            /\ access'[a].revoked <=> (a \in A \/ access[a].revoked)
  BY <1>1, RevokeAccessFields
<1>4. /\ \A r \in Issued(refresh) : refresh[r].family \in Issued(refresh)
      /\ \A a \in Issued(access) :
            access[a].family # None => access[a].family \in Issued(refresh)
      /\ \A r \in Issued(refresh) :
            refresh[r].replacedBy # None => refresh[r].replacedBy \in Issued(refresh)
  BY DEF IInv, TypeOK, Rooted, RefreshRooted, AccessRooted, Issued, RefreshRow, AccessRow
<1>5. \A r \in RefreshTokens : r \in Issued(refresh) => refresh'[r] # None
  BY <1>2 DEF Issued
<1>6. RefreshRooted'
  BY <1>2, <1>4, <1>5 DEF IInv, Rooted, RefreshRooted, Issued, TypeOK
<1>7. AccessRooted'
  BY <1>2, <1>3, <1>4, <1>5 DEF IInv, Rooted, AccessRooted, Issued, TypeOK
<1>8. ReplayedIssued'
  BY <1>2 DEF ReplayedIssued
<1>9. OneLiveTokenPerFamily'
  BY <1>2 DEF IInv, FamilyInv, OneLiveTokenPerFamily
<1>10. FamilyDiesTogether'
  <2>1. ASSUME NEW a \in Issued(access), ~access'[a].revoked, access'[a].family # None
        PROVE  \E r \in Issued(refresh) :
                  ~refresh'[r].revoked /\ refresh'[r].family = access'[a].family
    <3>1. ~access[a].revoked /\ access[a].family # None /\ a \notin A
      BY <1>3, <2>1
    <3>2. PICK r \in Issued(refresh) :
              ~refresh[r].revoked /\ refresh[r].family = access[a].family
      BY <3>1 DEF IInv, FamilyInv, FamilyDiesTogether, Unrevoked
    <3>3. r \notin R
      BY <3>1, <3>2
    <3>4. QED
      BY <1>2, <1>3, <3>2, <3>3
  <2>2. QED
    BY <1>2, <1>3, <2>1 DEF FamilyDiesTogether, Unrevoked
<1>11. ReplayedFamilyDead'
  <2>1. ASSUME NEW p \in replayed'
        PROVE  /\ \A r \in Issued(refresh) :
                     refresh'[r].family = refresh'[p].family => refresh'[r].revoked
               /\ \A a \in Issued(access) :
                     access'[a].family = refresh'[p].family => access'[a].revoked
    <3>1. refresh'[p].family = refresh[p].family
      BY <1>2
    <3>2. CASE p \in replayed
      BY <1>2, <1>3, <3>1, <3>2 DEF IInv, FamilyInv, ReplayedFamilyDead
    <3>3. CASE p \notin replayed
      BY <1>2, <1>3, <3>1, <3>3
    <3>4. QED
      BY <3>2, <3>3
  <2>2. QED
    BY <1>2, <1>3, <2>1 DEF ReplayedFamilyDead
<1>12. ExpiryAnchoredToRoot'
  BY <1>2, <1>4 DEF IInv, FamilyInv, ExpiryAnchoredToRoot
<1>13. ScopeNeverWidens'
  BY <1>2, <1>3, <1>4 DEF IInv, FamilyInv, ScopeNeverWidens
<1>14. QED
  BY <1>6, <1>7, <1>8, <1>9, <1>10, <1>11, <1>12, <1>13 DEF Rooted, FamilyInv

\* An authorization code without offline_access.
LEMMA SpendStep ==
    ASSUME IInv, UNCHANGED <<now, refresh, replayed>>,
           NEW a \in AccessTokens, access[a] = None,
           NEW row \in AccessRow, access' = [access EXCEPT ![a] = row], row.family = None
    PROVE  Rooted' /\ FamilyInv'
<1>1. access \in [AccessTokens -> AccessRow \cup {None}] /\ row # None
  BY NoneAssumption DEF IInv, TypeOK
<1>2. /\ Issued(access)' = Issued(access) \cup {a}
      /\ access'[a].family = None
      /\ \A b \in Issued(access) : access'[b] = access[b]
  BY <1>1 DEF Issued
<1>3. RefreshRooted' /\ ReplayedIssued'
  BY DEF IInv, Rooted, RefreshRooted, ReplayedIssued, Issued
<1>4. AccessRooted'
  BY <1>2 DEF IInv, Rooted, AccessRooted
<1>5. OneLiveTokenPerFamily' /\ ExpiryAnchoredToRoot'
  BY DEF IInv, FamilyInv, OneLiveTokenPerFamily, ExpiryAnchoredToRoot, Issued
<1>6. FamilyDiesTogether'
  <2>1. Unrevoked(refresh, Issued(refresh))' = Unrevoked(refresh, Issued(refresh))
    BY DEF Unrevoked, Issued
  <2>2. QED
    BY <1>2, <2>1 DEF IInv, FamilyInv, FamilyDiesTogether, Unrevoked
<1>7. ReplayedFamilyDead'
  <2>1. Issued(refresh)' = Issued(refresh)
    BY DEF Issued
  <2>2. \A p \in replayed : refresh[p].family # None
    BY OidcTokensAssumption DEF IInv, Rooted, ReplayedIssued, Issued, TypeOK, RefreshRow
  <2>3. ASSUME NEW p \in replayed
        PROVE  \A b \in Issued(access)' :
                  access'[b].family = refresh[p].family => access'[b].revoked
    <3>1. access'[a].family # refresh[p].family
      BY <1>2, <2>2
    <3>2. QED
      BY <1>2, <3>1 DEF IInv, FamilyInv, ReplayedFamilyDead
  <2>4. ASSUME NEW p \in replayed
        PROVE  \A r \in Issued(refresh) :
                  refresh[r].family = refresh[p].family => refresh[r].revoked
    BY DEF IInv, FamilyInv, ReplayedFamilyDead
  <2>5. QED
    BY <2>1, <2>3, <2>4 DEF ReplayedFamilyDead
<1>8. ScopeNeverWidens'
  <2>1. Issued(refresh)' = Issued(refresh)
    BY DEF Issued
  <2>2. QED
    BY <1>2, <2>1, ZenonT(60) DEF IInv, FamilyInv, ScopeNeverWidens
<1>9. QED
  BY <1>3, <1>4, <1>5, <1>6, <1>7, <1>8 DEF Rooted, FamilyInv

\* An authorization code with offline_access.
LEMMA StartStep ==
    ASSUME IInv, UNCHANGED <<now, replayed>>,
           NEW c \in Clients, NEW s \in Sessions,
           NEW x \in SUBSET Scopes, NEW f \in RefreshTokens, refresh[f] = None,
           NEW a \in AccessTokens, access[a] = None,
           access' = [access EXCEPT ![a] = AccessMint(c, s, f, x)],
           refresh' = [refresh EXCEPT ![f] = RefreshMint(c, s, f, x, now)]
    PROVE  Rooted' /\ FamilyInv'
<1>1. /\ refresh \in [RefreshTokens -> RefreshRow \cup {None}]
      /\ access \in [AccessTokens -> AccessRow \cup {None}]
      /\ now \in Nat
  BY DEF IInv, TypeOK
<1>2. AccessMint(c, s, f, x) # None /\ RefreshMint(c, s, f, x, now) # None
  BY MintTypes, NoneAssumption DEF IInv, TypeOK
<1>3. /\ Issued(refresh)' = Issued(refresh) \cup {f}
      /\ f \notin Issued(refresh)
      /\ \A r \in Issued(refresh) : refresh'[r] = refresh[r]
      /\ refresh'[f] = RefreshMint(c, s, f, x, now)
  BY <1>1, <1>2 DEF Issued
<1>4. /\ Issued(access)' = Issued(access) \cup {a}
      /\ \A b \in Issued(access) : access'[b] = access[b]
      /\ access'[a] = AccessMint(c, s, f, x)
  BY <1>1, <1>2 DEF Issued
<1>5. /\ \A r \in Issued(refresh) : refresh[r].family \in Issued(refresh)
      /\ \A b \in Issued(access) :
            access[b].family # None => access[b].family \in Issued(refresh)
      /\ \A r \in Issued(refresh) :
            refresh[r].replacedBy # None => refresh[r].replacedBy \in Issued(refresh)
      /\ None # f
  BY OidcTokensAssumption
     DEF IInv, TypeOK, Rooted, RefreshRooted, AccessRooted, Issued, RefreshRow, AccessRow
<1>6. /\ refresh'[f].family = f /\ ~refresh'[f].revoked
      /\ refresh'[f].client = c /\ refresh'[f].session = s
      /\ refresh'[f].createdAt = now /\ refresh'[f].scope = x
      /\ refresh'[f].expiresAt = now + client[c].policy.absolute
      /\ refresh'[f].replacedBy = None
  BY <1>3 DEF RefreshMint
<1>7. /\ access'[a].family = f /\ access'[a].client = c /\ access'[a].session = s
      /\ access'[a].scope = x
  BY <1>4 DEF AccessMint
<1>8. RefreshRooted'
  <2>1. ASSUME NEW r \in Issued(refresh)
        PROVE  LET root == refresh'[refresh'[r].family]
               IN  /\ root # None
                   /\ root.family = refresh'[r].family
                   /\ root.client = refresh'[r].client
                   /\ root.session = refresh'[r].session
                   /\ refresh'[r].scope \subseteq root.scope
                   /\ root.createdAt <= refresh'[r].createdAt
                   /\ refresh'[r].createdAt <= now
                   /\ refresh'[r].replacedBy # None => refresh'[refresh'[r].replacedBy] # None
    BY <1>3, <1>5 DEF IInv, Rooted, RefreshRooted
  <2>2. refresh'[f] # None /\ now <= now
    BY <1>1, <1>2, <1>3
  <2>3. QED
    BY <1>3, <1>6, <2>1, <2>2 DEF RefreshRooted
<1>9. AccessRooted'
  BY <1>2, <1>3, <1>4, <1>5, <1>6, <1>7 DEF IInv, Rooted, AccessRooted
<1>10. ReplayedIssued'
  BY <1>3 DEF IInv, Rooted, ReplayedIssued
<1>11. OneLiveTokenPerFamily'
  BY <1>3, <1>5, <1>6 DEF IInv, FamilyInv, OneLiveTokenPerFamily
<1>12. FamilyDiesTogether'
  <2>1. ASSUME NEW b \in Issued(access)', ~access'[b].revoked, access'[b].family # None
        PROVE  \E r \in Issued(refresh)' :
                  ~refresh'[r].revoked /\ refresh'[r].family = access'[b].family
    <3>1. CASE b = a
      BY <1>3, <1>6, <1>7, <3>1
    <3>2. CASE b \in Issued(access)
      <4>1. PICK r \in Issued(refresh) :
                ~refresh[r].revoked /\ refresh[r].family = access[b].family
        BY <1>4, <2>1, <3>2 DEF IInv, FamilyInv, FamilyDiesTogether, Unrevoked
      <4>2. QED
        BY <1>3, <1>4, <3>2, <4>1
    <3>3. QED
      BY <1>4, <3>1, <3>2
  <2>2. QED
    BY <2>1 DEF FamilyDiesTogether, Unrevoked
<1>13. ReplayedFamilyDead'
  <2>1. ASSUME NEW p \in replayed
        PROVE  /\ p \in Issued(refresh)
               /\ refresh'[p].family = refresh[p].family
               /\ refresh[p].family # f
    BY <1>3, <1>5 DEF IInv, Rooted, ReplayedIssued
  <2>2. ASSUME NEW p \in replayed, NEW r \in Issued(refresh)',
               refresh'[r].family = refresh'[p].family
        PROVE  refresh'[r].revoked
    <3>1. r \in Issued(refresh) /\ refresh'[r] = refresh[r]
      BY <1>3, <1>6, <2>1, <2>2
    <3>2. QED
      BY <2>1, <2>2, <3>1 DEF IInv, FamilyInv, ReplayedFamilyDead
  <2>3. ASSUME NEW p \in replayed, NEW b \in Issued(access)',
               access'[b].family = refresh'[p].family
        PROVE  access'[b].revoked
    <3>1. b \in Issued(access) /\ access'[b] = access[b]
      BY <1>4, <1>7, <2>1, <2>3
    <3>2. QED
      BY <2>1, <2>3, <3>1 DEF IInv, FamilyInv, ReplayedFamilyDead
  <2>4. QED
    BY <2>2, <2>3 DEF ReplayedFamilyDead
<1>14. ExpiryAnchoredToRoot'
  <2>1. client[c].policy \in Policies
    BY DEF IInv, TypeOK, ClientRow
  <2>2. QED
    BY <1>3, <1>5, <1>6, <2>1 DEF IInv, FamilyInv, ExpiryAnchoredToRoot
<1>15. ScopeNeverWidens'
  <2>1. ASSUME NEW r \in Issued(refresh)', refresh'[r].replacedBy # None
        PROVE  refresh'[refresh'[r].replacedBy].scope \subseteq refresh'[r].scope
    <3>1. r \in Issued(refresh)
      BY <1>3, <1>6, <2>1
    <3>2. QED
      BY <1>3, <1>5, <2>1, <3>1 DEF IInv, FamilyInv, ScopeNeverWidens
  <2>2. QED
    BY <1>9, <2>1 DEF AccessRooted, ScopeNeverWidens
<1>16. QED
  BY <1>8, <1>9, <1>10, <1>11, <1>12, <1>13, <1>14, <1>15 DEF Rooted, FamilyInv

\* A rotation: r is spent, next takes its place.
LEMMA RotateStep ==
    ASSUME IInv,
           NEW r \in RefreshTokens, NEW a \in AccessTokens, NEW next \in RefreshTokens,
           NEW x \in SUBSET Scopes, RefreshRotate(r, a, next, x)
    PROVE  Rooted' /\ FamilyInv'
<1> DEFINE c == refresh[r].client
           s == refresh[r].session
           f == refresh[r].family
           row == RefreshMint(c, s, f, x, FamilyCreatedAt(c, f))
<1>1. /\ refresh \in [RefreshTokens -> RefreshRow \cup {None}]
      /\ access \in [AccessTokens -> AccessRow \cup {None}]
      /\ now \in Nat /\ now' = now /\ replayed' = replayed
      /\ access[a] = None /\ refresh[next] = None
      /\ r \in Issued(refresh) /\ ~refresh[r].revoked /\ r # next
      /\ x \subseteq refresh[r].scope
      /\ access' = [access EXCEPT ![a] = AccessMint(c, s, f, x)]
      /\ refresh' = [refresh EXCEPT ![r] = RotatedOut(refresh[r], next), ![next] = row]
  BY DEF IInv, TypeOK, RefreshRotate, RefreshPresented, RefreshUsable, ScopeOfToken, auditLog,
         Issued
<1>2. /\ refresh[r] \in RefreshRow /\ c \in Clients /\ s \in Sessions
      /\ f \in RefreshTokens /\ f \in Issued(refresh) /\ f # next
      /\ refresh[f].family = f /\ refresh[f].client = c /\ refresh[f].session = s
      /\ refresh[f].createdAt \in Nat /\ refresh[f].createdAt <= now
  <2>1. refresh[r] \in RefreshRow /\ c \in Clients /\ s \in Sessions /\ f \in RefreshTokens
    BY <1>1 DEF Issued, RefreshRow
  <2>2. /\ f \in Issued(refresh)
        /\ refresh[f].family = f /\ refresh[f].client = c /\ refresh[f].session = s
    BY <1>1, <2>1 DEF IInv, Rooted, RefreshRooted, Issued
  <2>3. refresh[f] \in RefreshRow /\ f # next
    BY <1>1, <2>2 DEF Issued
  <2>4. refresh[f].createdAt <= now /\ refresh[f].createdAt \in Nat
    BY <2>2, <2>3 DEF IInv, Rooted, RefreshRooted, RefreshRow
  <2>5. QED
    BY <2>1, <2>2, <2>3, <2>4
<1>3. FamilyCreatedAt(c, f) = refresh[f].createdAt
  BY <1>1, FamilyBeginsWithRoot DEF IInv, Rooted
<1>4. AccessMint(c, s, f, x) # None /\ row # None /\ RotatedOut(refresh[r], next) # None
  <2>1. AccessMint(c, s, f, x) \in AccessRow /\ row \in RefreshRow
    BY <1>2, <1>3, MintTypes DEF IInv
  <2>2. RotatedOut(refresh[r], next) \in RefreshRow
    BY <1>1, <1>2 DEF RotatedOut, RefreshRow
  <2>3. QED
    BY <2>1, <2>2, NoneAssumption
<1>5. /\ Issued(refresh)' = Issued(refresh) \cup {next}
      /\ next \notin Issued(refresh)
      /\ refresh'[next] = row
      /\ refresh'[r] = RotatedOut(refresh[r], next)
      /\ \A q \in Issued(refresh) \ {r} : refresh'[q] = refresh[q]
  BY <1>1, <1>4 DEF Issued
<1>6. \A q \in Issued(refresh) :
        /\ refresh'[q].family = refresh[q].family
        /\ refresh'[q].client = refresh[q].client
        /\ refresh'[q].session = refresh[q].session
        /\ refresh'[q].scope = refresh[q].scope
        /\ refresh'[q].createdAt = refresh[q].createdAt
        /\ refresh'[q].expiresAt = refresh[q].expiresAt
        /\ refresh'[q].replacedBy = IF q = r THEN next ELSE refresh[q].replacedBy
        /\ refresh'[q].revoked <=> (q = r \/ refresh[q].revoked)
  <2>1. /\ refresh'[r].family = f /\ refresh'[r].client = c /\ refresh'[r].session = s
        /\ refresh'[r].scope = refresh[r].scope
        /\ refresh'[r].createdAt = refresh[r].createdAt
        /\ refresh'[r].expiresAt = refresh[r].expiresAt
        /\ refresh'[r].replacedBy = next
        /\ refresh'[r].revoked
    BY <1>2, <1>5 DEF RotatedOut, RefreshRow
  <2>2. QED
    BY <1>5, <2>1
<1>7. /\ refresh'[next].family = f /\ refresh'[next].client = c
      /\ refresh'[next].session = s /\ refresh'[next].createdAt = now
      /\ refresh'[next].scope = x /\ refresh'[next].replacedBy = None
      /\ refresh'[next].expiresAt = refresh[f].createdAt + client[c].policy.absolute
      /\ ~refresh'[next].revoked
  BY <1>3, <1>5 DEF RefreshMint
<1>8. /\ Issued(access)' = Issued(access) \cup {a}
      /\ \A b \in Issued(access) : access'[b] = access[b]
      /\ access'[a].family = f /\ access'[a].client = c /\ access'[a].session = s
      /\ access'[a].scope = x
  BY <1>1, <1>4 DEF Issued, AccessMint
<1>9. /\ \A q \in Issued(refresh) : refresh[q].family \in Issued(refresh)
      /\ \A b \in Issued(access) :
            access[b].family # None => access[b].family \in Issued(refresh)
      /\ \A q \in Issued(refresh) :
            refresh[q].replacedBy # None => refresh[q].replacedBy \in Issued(refresh)
      /\ \A q \in Issued(refresh)' : refresh'[q] # None
  BY DEF IInv, TypeOK, Rooted, RefreshRooted, AccessRooted, Issued, RefreshRow, AccessRow
<1>10. RefreshRooted'
  <2>1. ASSUME NEW q \in Issued(refresh)
        PROVE  LET root == refresh'[refresh'[q].family]
               IN  /\ root # None
                   /\ root.family = refresh'[q].family
                   /\ root.client = refresh'[q].client
                   /\ root.session = refresh'[q].session
                   /\ refresh'[q].scope \subseteq root.scope
                   /\ root.createdAt <= refresh'[q].createdAt
                   /\ refresh'[q].createdAt <= now
                   /\ refresh'[q].replacedBy # None => refresh'[refresh'[q].replacedBy] # None
    BY <1>5, <1>6, <1>9 DEF IInv, Rooted, RefreshRooted
  <2>2. LET root == refresh'[f]
        IN  /\ root # None /\ root.family = f /\ root.client = c /\ root.session = s
            /\ x \subseteq root.scope
            /\ root.createdAt <= now
    <3>1. x \subseteq refresh[f].scope
      BY <1>1 DEF IInv, Rooted, RefreshRooted
    <3>2. QED
      BY <1>2, <1>5, <1>6, <1>9, <3>1
  <2>3. now <= now
    BY <1>1
  <2>4. LET root == refresh'[refresh'[next].family]
        IN  /\ root # None
            /\ root.family = refresh'[next].family
            /\ root.client = refresh'[next].client
            /\ root.session = refresh'[next].session
            /\ refresh'[next].scope \subseteq root.scope
            /\ root.createdAt <= refresh'[next].createdAt
            /\ refresh'[next].createdAt <= now
            /\ refresh'[next].replacedBy = None
    BY <1>7, <2>2, <2>3
  <2>5. ASSUME NEW q \in Issued(refresh)'
        PROVE  LET root == refresh'[refresh'[q].family]
               IN  /\ root # None
                   /\ root.family = refresh'[q].family
                   /\ root.client = refresh'[q].client
                   /\ root.session = refresh'[q].session
                   /\ refresh'[q].scope \subseteq root.scope
                   /\ root.createdAt <= refresh'[q].createdAt
                   /\ refresh'[q].createdAt <= now'
                   /\ refresh'[q].replacedBy # None =>
                         refresh'[refresh'[q].replacedBy] # None
    <3>1. now' = now
      BY <1>1
    <3>2. CASE q = next
      BY <2>4, <3>1, <3>2
    <3>3. CASE q # next
      BY <1>5, <2>1, <3>1, <3>3
    <3>4. QED
      BY <3>2, <3>3
  <2>6. QED
    BY <2>5 DEF RefreshRooted
<1>11. AccessRooted'
  <2>1. ASSUME NEW b \in Issued(access), access[b].family # None
        PROVE  LET root == refresh'[access[b].family]
               IN  /\ root # None
                   /\ root.family = access[b].family
                   /\ root.client = access[b].client
                   /\ root.session = access[b].session
                   /\ access[b].scope \subseteq root.scope
    BY <1>5, <1>6, <1>9, <2>1 DEF IInv, Rooted, AccessRooted
  <2>2. LET root == refresh'[f]
        IN  /\ root # None /\ root.family = f /\ root.client = c /\ root.session = s
            /\ x \subseteq root.scope
    <3>1. x \subseteq refresh[f].scope
      BY <1>1 DEF IInv, Rooted, RefreshRooted
    <3>2. QED
      BY <1>2, <1>5, <1>6, <1>9, <3>1
  <2>3. QED
    BY <1>8, <2>1, <2>2 DEF AccessRooted
<1>12. ReplayedIssued'
  BY <1>1, <1>5 DEF IInv, Rooted, ReplayedIssued
<1>13. OneLiveTokenPerFamily'
  <2>1. ASSUME NEW q \in Issued(refresh), refresh[q].family = f, ~refresh'[q].revoked
        PROVE  FALSE
    BY <1>1, <1>6, <2>1 DEF IInv, FamilyInv, OneLiveTokenPerFamily
  <2>2. ASSUME NEW p \in Issued(refresh), NEW q \in Issued(refresh),
               refresh'[p].family = refresh'[q].family,
               ~refresh'[p].revoked, ~refresh'[q].revoked
        PROVE  p = q
    BY <1>6, <2>2 DEF IInv, FamilyInv, OneLiveTokenPerFamily
  <2>3. QED
    BY <1>5, <1>6, <1>7, <2>1, <2>2 DEF OneLiveTokenPerFamily
<1>14. FamilyDiesTogether'
  <2>1. ASSUME NEW b \in Issued(access)', ~access'[b].revoked, access'[b].family # None
        PROVE  \E q \in Issued(refresh)' :
                  ~refresh'[q].revoked /\ refresh'[q].family = access'[b].family
    <3>1. CASE access'[b].family = f
      BY <1>5, <1>7, <3>1
    <3>2. CASE access'[b].family # f
      <4>1. b \in Issued(access) /\ access'[b] = access[b]
        BY <1>8, <3>2
      <4>2. PICK q \in Issued(refresh) :
                ~refresh[q].revoked /\ refresh[q].family = access[b].family
        BY <2>1, <4>1 DEF IInv, FamilyInv, FamilyDiesTogether, Unrevoked
      <4>3. q # r
        BY <3>2, <4>1, <4>2
      <4>4. QED
        BY <1>5, <4>1, <4>2, <4>3
    <3>3. QED
      BY <3>1, <3>2
  <2>2. QED
    BY <2>1 DEF FamilyDiesTogether, Unrevoked
<1>15. ReplayedFamilyDead'
  <2>1. ASSUME NEW p \in replayed
        PROVE  /\ p \in Issued(refresh)
               /\ refresh'[p].family = refresh[p].family
               /\ refresh[p].family # f
    BY <1>1, <1>6 DEF IInv, Rooted, ReplayedIssued, FamilyInv, ReplayedFamilyDead
  <2>2. ASSUME NEW p \in replayed, NEW q \in Issued(refresh)',
               refresh'[q].family = refresh'[p].family
        PROVE  refresh'[q].revoked
    <3>1. q \in Issued(refresh)
      BY <1>5, <1>7, <2>1, <2>2
    <3>2. QED
      BY <1>6, <2>1, <2>2, <3>1 DEF IInv, FamilyInv, ReplayedFamilyDead
  <2>3. ASSUME NEW p \in replayed, NEW b \in Issued(access)',
               access'[b].family = refresh'[p].family
        PROVE  access'[b].revoked
    <3>1. b \in Issued(access) /\ access'[b] = access[b]
      BY <1>8, <2>1, <2>3
    <3>2. QED
      BY <2>1, <2>3, <3>1 DEF IInv, FamilyInv, ReplayedFamilyDead
  <2>4. QED
    BY <1>1, <2>2, <2>3 DEF ReplayedFamilyDead
<1>16. ExpiryAnchoredToRoot'
  <2>1. client[c].policy \in Policies
    BY <1>2 DEF IInv, TypeOK, ClientRow
  <2>2. ASSUME NEW q \in Issued(refresh)
        PROVE  \E p \in Policies :
                  refresh'[q].expiresAt = refresh'[refresh'[q].family].createdAt + p.absolute
    BY <1>6, <1>9 DEF IInv, FamilyInv, ExpiryAnchoredToRoot
  <2>3. refresh'[next].expiresAt
          = refresh'[refresh'[next].family].createdAt + client[c].policy.absolute
    BY <1>2, <1>6, <1>7
  <2>4. QED
    BY <1>5, <2>1, <2>2, <2>3 DEF ExpiryAnchoredToRoot
<1>17. ScopeNeverWidens'
  <2>1. ASSUME NEW q \in Issued(refresh)', refresh'[q].replacedBy # None
        PROVE  refresh'[refresh'[q].replacedBy].scope \subseteq refresh'[q].scope
    <3>1. CASE q = r
      BY <1>1, <1>6, <1>7, <3>1
    <3>2. CASE q # r
      BY <1>5, <1>6, <1>7, <1>9, <2>1, <3>2 DEF IInv, FamilyInv, ScopeNeverWidens
    <3>3. QED
      BY <3>1, <3>2
  <2>2. ASSUME NEW b \in Issued(access)', access'[b].family # None
        PROVE  access'[b].scope \subseteq refresh'[access'[b].family].scope
    BY <1>11, <2>2 DEF AccessRooted
  <2>3. QED
    BY <2>1, <2>2 DEF ScopeNeverWidens
<1>18. QED
  BY <1>10, <1>11, <1>12, <1>13, <1>14, <1>15, <1>16, <1>17 DEF Rooted, FamilyInv

\* All tokens of a family are of one client and one session.
LEMMA FamilyOfOneSession ==
    ASSUME IInv, NEW r \in Issued(refresh)
    PROVE  /\ \A q \in Issued(refresh) :
                refresh[q].family = refresh[r].family =>
                    refresh[q].client = refresh[r].client /\ refresh[q].session = refresh[r].session
           /\ \A a \in Issued(access) :
                access[a].family = refresh[r].family =>
                    access[a].client = refresh[r].client /\ access[a].session = refresh[r].session
<1>1. refresh[r].family # None
  BY OidcTokensAssumption DEF IInv, TypeOK, Issued, RefreshRow
<1>2. QED
  BY <1>1 DEF IInv, Rooted, RefreshRooted, AccessRooted

LEMMA EnvironmentStep ==
    ASSUME IInv, EnvironmentNext
    PROVE  Rooted' /\ FamilyInv'
<1>1. now \in Nat
  BY DEF IInv, TypeOK
<1>2. now' \in Nat /\ now <= now' /\ UNCHANGED <<refresh, access, replayed>>
  BY <1>1 DEF EnvironmentNext, Tick, SigningKeyChange, SessionIssue, SessionResume, SessionsRevoke,
              UserDelete, UserLifecycleSet, ClientContextChange, ClientUpdate, ClientLifecycleSet,
              rows, auditLog
<1>3. QED
  BY <1>2, QuietStep

LEMMA CodeStep ==
    ASSUME IInv, CodeNext
    PROVE  Rooted' /\ FamilyInv'
<1>1. now \in Nat /\ now <= now
  BY DEF IInv, TypeOK
<1>2. ASSUME NEW k \in Codes,
             \/ \E c \in Clients, s \in Sessions, offline \in BOOLEAN,
                      x \in SUBSET Scopes : AuthorizationCodeIssue(k, c, s, offline, x)
             \/ AuthorizationCodeRedeem(k)
      PROVE  Rooted' /\ FamilyInv'
  <2>1. now' = now /\ UNCHANGED <<refresh, access, replayed>>
    BY <1>2 DEF AuthorizationCodeIssue, AuthorizationCodeRedeem, auditLog
  <2>2. QED
    BY <1>1, <2>1, QuietStep
<1>3. ASSUME NEW k \in Codes, NEW a \in AccessTokens, NEW r \in RefreshTokens,
             AuthorizationCodeExchange(k, a, r)
      PROVE  Rooted' /\ FamilyInv'
  <2> DEFINE c == code[k].client
             s == code[k].session
             x == code[k].scope
  <2>1. c \in Clients /\ s \in Sessions /\ x \in SUBSET Scopes
    BY <1>3 DEF AuthorizationCodeExchange, CodeRedeemable, IInv, TypeOK, CodeRow
  <2>2. now' = now /\ replayed' = replayed /\ access[a] = None /\ refresh[r] = None
    BY <1>3 DEF AuthorizationCodeExchange, auditLog
  <2>3. CASE /\ access' = [access EXCEPT ![a] = AccessMint(c, s, r, x)]
             /\ refresh' = [refresh EXCEPT ![r] = RefreshMint(c, s, r, x, now)]
    BY <2>1, <2>2, <2>3, StartStep
  <2>4. CASE access' = [access EXCEPT ![a] = AccessMint(c, s, None, x)] /\ UNCHANGED refresh
    <3>1. AccessMint(c, s, None, x) \in AccessRow
      BY <2>1, MintTypes DEF IInv
    <3>2. AccessMint(c, s, None, x).family = None
      BY DEF AccessMint
    <3>3. QED
      BY <2>2, <2>4, <3>1, <3>2, SpendStep
  <2>5. QED
    BY <1>3, <2>3, <2>4 DEF AuthorizationCodeExchange
<1>4. QED
  BY <1>2, <1>3 DEF CodeNext

LEMMA RefreshStep ==
    ASSUME IInv, RefreshNext
    PROVE  Rooted' /\ FamilyInv'
<1>1. ASSUME NEW r \in RefreshTokens, RefreshReplay(r)
      PROVE  Rooted' /\ FamilyInv'
  <2> DEFINE R == FamilyRefresh(refresh[r].client, refresh[r].family)
             A == FamilyAccess(refresh[r].client, refresh[r].family)
  <2>1. /\ now' = now /\ refresh' = Revoke(refresh, R) /\ access' = Revoke(access, A)
        /\ replayed' = replayed \cup {r} /\ r \in Issued(refresh)
    BY <1>1 DEF RefreshReplay, RefreshPresented, Issued, IInv, TypeOK
  <2>2. R \in SUBSET Issued(refresh) /\ A \in SUBSET Issued(access)
    BY DEF FamilyRefresh, FamilyAccess
  <2>3. \A q \in Issued(refresh) : refresh[q].family = refresh[r].family => q \in R
    BY <2>1, FamilyOfOneSession DEF FamilyRefresh
  <2>4. \A a \in Issued(access) : access[a].family = refresh[r].family => a \in A
    BY <2>1, FamilyOfOneSession DEF FamilyAccess
  <2>5. \A q \in R, a \in Issued(access) : access[a].family = refresh[q].family => a \in A
    BY <2>4 DEF FamilyRefresh
  <2>6. replayed' \subseteq Issued(refresh)
    BY <2>1 DEF IInv, Rooted, ReplayedIssued
  <2>7. \A p \in replayed' \ replayed :
            /\ \A q \in Issued(refresh) : refresh[q].family = refresh[p].family => q \in R
            /\ \A a \in Issued(access) : access[a].family = refresh[p].family => a \in A
    BY <2>1, <2>3, <2>4
  <2>8. QED
    BY <2>1, <2>2, <2>5, <2>6, <2>7, RevokingStep
<1>2. QED
  BY <1>1, RotateStep DEF RefreshNext

\* Handlers that revoke without detecting a replay: it is enough that the
\* access tokens of the families they touch are among what they revoke.
LEMMA RevokingWithoutReplay ==
    ASSUME IInv, UNCHANGED <<now, replayed>>,
           NEW R \in SUBSET Issued(refresh), refresh' = Revoke(refresh, R),
           NEW A \in SUBSET Issued(access), access' = Revoke(access, A),
           \A r \in R, a \in Issued(access) :
                access[a].family = refresh[r].family => a \in A
    PROVE  Rooted' /\ FamilyInv'
<1>1. replayed' \subseteq Issued(refresh) /\ replayed' \ replayed = {}
  BY DEF IInv, Rooted, ReplayedIssued
<1>2. QED
  BY <1>1, RevokingStep

LEMMA RevokeStep ==
    ASSUME IInv, RevokeNext
    PROVE  Rooted' /\ FamilyInv'
<1>1. ASSUME NEW a \in AccessTokens, AccessTokenRevoke(a)
      PROVE  Rooted' /\ FamilyInv'
  <2>1. /\ UNCHANGED <<now, refresh, replayed>> /\ access' = Revoke(access, {a})
        /\ {a} \in SUBSET Issued(access)
    BY <1>1 DEF AccessTokenRevoke, auditLog, Issued, IInv, TypeOK
  <2>2. refresh' = Revoke(refresh, {})
    BY <2>1 DEF Revoke, IInv, TypeOK
  <2>3. QED
    BY <2>1, <2>2, RevokingWithoutReplay
<1>2. ASSUME NEW r \in RefreshTokens, RefreshTokenRevoke(r)
      PROVE  Rooted' /\ FamilyInv'
  <2> DEFINE R == FamilyRefresh(refresh[r].client, refresh[r].family)
             A == FamilyAccess(refresh[r].client, refresh[r].family)
  <2>1. /\ UNCHANGED <<now, replayed>> /\ r \in Issued(refresh)
        /\ refresh' = Revoke(refresh, R) /\ access' = Revoke(access, A)
    BY <1>2 DEF RefreshTokenRevoke, FamilyRevoke, Issued, IInv, TypeOK
  <2>2. R \in SUBSET Issued(refresh) /\ A \in SUBSET Issued(access)
    BY DEF FamilyRefresh, FamilyAccess
  <2>3. \A q \in R, a \in Issued(access) : access[a].family = refresh[q].family => a \in A
    BY <2>1, FamilyOfOneSession DEF FamilyRefresh, FamilyAccess
  <2>4. QED
    BY <2>1, <2>2, <2>3, RevokingWithoutReplay
<1>3. ASSUME NEW u \in Users, NEW f \in RefreshTokens, FamilyMeRevoke(u, f)
      PROVE  Rooted' /\ FamilyInv'
  <2> DEFINE R == {r \in OwnedRefresh(u) : refresh[r].family = f}
             A == {a \in OwnedAccess(u) : access[a].family = f}
  <2>1. UNCHANGED <<now, replayed>> /\ refresh' = Revoke(refresh, R) /\ access' = Revoke(access, A)
    BY <1>3 DEF FamilyMeRevoke, FamilyRevoke
  <2>2. R \in SUBSET Issued(refresh) /\ A \in SUBSET Issued(access)
    BY DEF OwnedRefresh, OwnedAccess
  <2>3. \A q \in R, a \in Issued(access) : access[a].family = refresh[q].family => a \in A
    BY FamilyOfOneSession DEF OwnedRefresh, OwnedAccess
  <2>4. QED
    BY <2>1, <2>2, <2>3, RevokingWithoutReplay
<1>4. ASSUME NEW u \in Users, FamiliesMeRevokeAll(u)
      PROVE  Rooted' /\ FamilyInv'
  <2> DEFINE R == OwnedRefresh(u)
             A == {a \in OwnedAccess(u) : access[a].family \in FamiliesOf(OwnedRefresh(u))}
  <2>1. UNCHANGED <<now, replayed>> /\ refresh' = Revoke(refresh, R) /\ access' = Revoke(access, A)
    BY <1>4 DEF FamiliesMeRevokeAll
  <2>2. R \in SUBSET Issued(refresh) /\ A \in SUBSET Issued(access)
    BY DEF OwnedRefresh, OwnedAccess
  <2>3. \A q \in R, a \in Issued(access) : access[a].family = refresh[q].family => a \in A
    BY FamilyOfOneSession DEF OwnedRefresh, OwnedAccess, FamiliesOf
  <2>4. QED
    BY <2>1, <2>2, <2>3, RevokingWithoutReplay
<1>5. ASSUME NEW c \in Clients, NEW s \in Sessions, Logout(c, s)
      PROVE  Rooted' /\ FamilyInv'
  <2>1. /\ UNCHANGED <<now, replayed>>
        /\ refresh' = Revoke(refresh, SessionRefresh(s)) /\ access' = Revoke(access, SessionAccess(s))
    BY <1>5 DEF Logout
  <2>2. SessionRefresh(s) \in SUBSET Issued(refresh) /\ SessionAccess(s) \in SUBSET Issued(access)
    BY DEF SessionRefresh, SessionAccess
  <2>3. \A q \in SessionRefresh(s), a \in Issued(access) :
            access[a].family = refresh[q].family => a \in SessionAccess(s)
    BY FamilyOfOneSession DEF SessionRefresh, SessionAccess
  <2>4. QED
    BY <2>1, <2>2, <2>3, RevokingWithoutReplay
<1>6. QED
  BY <1>1, <1>2, <1>3, <1>4, <1>5 DEF RevokeNext

-----------------------------------------------------------------------------
LEMMA InitIInv == Init => IInv
<1> SUFFICES ASSUME Init
             PROVE  IInv
  OBVIOUS
<1>1. Issued(refresh) = {} /\ Issued(access) = {}
  BY DEF Init, Issued
<1>2. TypeOK
  BY OidcTokensAssumption DEF Init, TypeOK, ClientRow, ClientStatus, UserState
<1>3. Rooted
  BY <1>1 DEF Init, Rooted, RefreshRooted, AccessRooted, ReplayedIssued
<1>4. FamilyInv
  BY <1>1 DEF Init, FamilyInv, OneLiveTokenPerFamily, FamilyDiesTogether, ReplayedFamilyDead,
              ExpiryAnchoredToRoot, ScopeNeverWidens, Unrevoked
<1>5. QED
  BY <1>2, <1>3, <1>4 DEF IInv

LEMMA NextIInv == IInv /\ [Next]_vars => IInv'
<1> SUFFICES ASSUME IInv, [Next]_vars
             PROVE  IInv'
  OBVIOUS
<1>1. TypeOK'
  BY TypeStep DEF IInv, Rooted
<1>2. CASE UNCHANGED vars
  <2>1. now \in Nat /\ now' = now /\ now <= now' /\ UNCHANGED <<refresh, access, replayed>>
    BY <1>2 DEF vars, IInv, TypeOK
  <2>2. QED
    BY <1>1, <2>1, QuietStep DEF IInv
<1>3. CASE Next
  BY <1>1, <1>3, EnvironmentStep, CodeStep, RefreshStep, RevokeStep DEF Next, IInv
<1>4. QED
  BY <1>2, <1>3

\* The inductive invariant holds of every behaviour of the token endpoints.
THEOREM InductiveInvariance == Spec => []IInv
<1>1. QED
  BY InitIInv, NextIInv, PTL DEF Spec

\* The token, session, client and user rows always have their types; the
\* expiry a rotation computes from the family's bounds is a number.
THEOREM TypeCorrectness == Spec => []TypeOK
<1>1. IInv => TypeOK
  BY DEF IInv
<1>2. QED
  BY <1>1, InductiveInvariance, PTL

\* Rotation never forks a refresh-token family.
THEOREM RotationNeverForks == Spec => []OneLiveTokenPerFamily
<1>1. IInv => OneLiveTokenPerFamily
  BY DEF IInv, FamilyInv
<1>2. QED
  BY <1>1, InductiveInvariance, PTL

\* A family's access tokens die with its refresh tokens.
THEOREM FamiliesDieTogether == Spec => []FamilyDiesTogether
<1>1. IInv => FamilyDiesTogether
  BY DEF IInv, FamilyInv
<1>2. QED
  BY <1>1, InductiveInvariance, PTL

\* After a detected replay no token of the family is usable ever again.
THEOREM ReplayKillsTheFamily == Spec => []ReplayedFamilyDead
<1>1. IInv => ReplayedFamilyDead
  BY DEF IInv, FamilyInv
<1>2. QED
  BY <1>1, InductiveInvariance, PTL

\* Scopes given up by a refresh stay given up.
THEOREM ScopesOnlyShrink == Spec => []ScopeNeverWidens
<1>1. IInv => ScopeNeverWidens
  BY DEF IInv, FamilyInv
<1>2. QED
  BY <1>1, InductiveInvariance, PTL

\* Rotation never moves the start of a family's absolute lifetime.
THEOREM AbsoluteLifetimeIsAnchored == Spec => []ExpiryAnchoredToRoot
<1>1. IInv => ExpiryAnchoredToRoot
  BY DEF IInv, FamilyInv
<1>2. QED
  BY <1>1, InductiveInvariance, PTL

-----------------------------------------------------------------------------
(* What a step does to the token tables.                                   *)

\* Revoking R and A revokes whole families: all of every family in R, and of
\* A nothing else but tokens outside all families.
WholeFamilies(R, A) ==
    /\ R \in SUBSET Issued(refresh)
    /\ A \in SUBSET Issued(access)
    /\ \A r \in R :
          /\ \A q \in Issued(refresh) : refresh[q].family = refresh[r].family => q \in R
          /\ \A a \in Issued(access) : access[a].family = refresh[r].family => a \in A
    /\ \A a \in A :
          access[a].family # None => \E r \in R : refresh[r].family = access[a].family

Quiet == UNCHANGED <<refresh, access>>

Spends(a, s) ==
    /\ access[a] = None
    /\ SessionLive(s)
    /\ UNCHANGED refresh
    /\ \E c \in Clients, x \in SUBSET Scopes :
          access' = [access EXCEPT ![a] = AccessMint(c, s, None, x)]

Starts(f, a, s) ==
    /\ refresh[f] = None
    /\ access[a] = None
    /\ SessionLive(s)
    /\ \E c \in Clients, x \in SUBSET Scopes :
          /\ access' = [access EXCEPT ![a] = AccessMint(c, s, f, x)]
          /\ refresh' = [refresh EXCEPT ![f] = RefreshMint(c, s, f, x, now)]

Rotates(r, next, a) == \E x \in SUBSET Scopes : RefreshRotate(r, a, next, x)

Withdraws(a) ==
    /\ a \in Unrevoked(access, Issued(access))
    /\ UNCHANGED refresh
    /\ access' = Revoke(access, {a})

Revokes(R, A) ==
    /\ WholeFamilies(R, A)
    /\ refresh' = Revoke(refresh, R)
    /\ access' = Revoke(access, A)

TokenStep ==
    \/ Quiet
    \/ \E a \in AccessTokens, s \in Sessions : Spends(a, s)
    \/ \E f \in RefreshTokens, a \in AccessTokens, s \in Sessions : Starts(f, a, s)
    \/ \E r, next \in RefreshTokens, a \in AccessTokens : Rotates(r, next, a)
    \/ \E a \in AccessTokens : Withdraws(a)
    \/ \E R \in SUBSET RefreshTokens, A \in SUBSET AccessTokens : Revokes(R, A)

\* The first token of a family that has an access token.
LEMMA RootOfAccess ==
    ASSUME IInv, NEW a \in Issued(access), access[a].family # None
    PROVE  /\ access[a].family \in Issued(refresh)
           /\ refresh[access[a].family].family = access[a].family
           /\ refresh[access[a].family].client = access[a].client
           /\ refresh[access[a].family].session = access[a].session
BY DEF IInv, Rooted, AccessRooted, TypeOK, AccessRow, Issued

\* The selections of the handlers that revoke are whole families: those of
\* one family, ...
LEMMA OneFamilyIsWhole ==
    ASSUME IInv, NEW r \in Issued(refresh)
    PROVE  WholeFamilies(FamilyRefresh(refresh[r].client, refresh[r].family),
                         FamilyAccess(refresh[r].client, refresh[r].family))
<1> DEFINE R == FamilyRefresh(refresh[r].client, refresh[r].family)
           A == FamilyAccess(refresh[r].client, refresh[r].family)
<1>1. R \in SUBSET Issued(refresh) /\ A \in SUBSET Issued(access)
  BY DEF FamilyRefresh, FamilyAccess
<1>2. \A q \in R : refresh[q].family = refresh[r].family
  BY DEF FamilyRefresh
<1>3. \A q \in Issued(refresh) : refresh[q].family = refresh[r].family => q \in R
  BY FamilyOfOneSession DEF FamilyRefresh
<1>4. \A a \in Issued(access) : access[a].family = refresh[r].family => a \in A
  BY FamilyOfOneSession DEF FamilyAccess
<1>5. r \in R /\ \A a \in A : access[a].family = refresh[r].family
  BY DEF FamilyRefresh, FamilyAccess
<1> QED
  BY <1>1, <1>2, <1>3, <1>4, <1>5 DEF WholeFamilies

\* ... one or all of a user's families, ...
LEMMA OwnFamiliesAreWhole ==
    ASSUME IInv, NEW u \in Users, NEW F \in SUBSET RefreshTokens
    PROVE  WholeFamilies({r \in OwnedRefresh(u) : refresh[r].family \in F},
                         {a \in OwnedAccess(u) : access[a].family \in F})
<1> DEFINE R == {r \in OwnedRefresh(u) : refresh[r].family \in F}
           A == {a \in OwnedAccess(u) : access[a].family \in F}
<1>1. R \in SUBSET Issued(refresh) /\ A \in SUBSET Issued(access)
  BY DEF OwnedRefresh, OwnedAccess
<1>2. ASSUME NEW r \in R
      PROVE  /\ \A q \in Issued(refresh) : refresh[q].family = refresh[r].family => q \in R
             /\ \A a \in Issued(access) : access[a].family = refresh[r].family => a \in A
  BY FamilyOfOneSession DEF OwnedRefresh, OwnedAccess
<1>3. ASSUME NEW a \in A, access[a].family # None
      PROVE  \E r \in R : refresh[r].family = access[a].family
  BY <1>3, RootOfAccess DEF OwnedRefresh, OwnedAccess
<1> QED
  BY <1>1, <1>2, <1>3 DEF WholeFamilies

\* ... and those of a session.
LEMMA SessionFamiliesAreWhole ==
    ASSUME IInv, NEW s \in Sessions
    PROVE  WholeFamilies(SessionRefresh(s), SessionAccess(s))
<1>1. ASSUME NEW r \in SessionRefresh(s)
      PROVE  /\ \A q \in Issued(refresh) :
                   refresh[q].family = refresh[r].family => q \in SessionRefresh(s)
             /\ \A a \in Issued(access) :
                   access[a].family = refresh[r].family => a \in SessionAccess(s)
  BY FamilyOfOneSession DEF SessionRefresh, SessionAccess
<1>2. ASSUME NEW a \in SessionAccess(s), access[a].family # None
      PROVE  \E r \in SessionRefresh(s) : refresh[r].family = access[a].family
  BY <1>2, RootOfAccess DEF SessionRefresh, SessionAccess
<1> QED
  BY <1>1, <1>2 DEF WholeFamilies, SessionRefresh, SessionAccess

LEMMA FamilyRevokeShape ==
    ASSUME IInv, NEW r \in RefreshTokens, RefreshTokenRevoke(r)
    PROVE  /\ r \in Issued(refresh)
           /\ Revokes(FamilyRefresh(refresh[r].client, refresh[r].family),
                      FamilyAccess(refresh[r].client, refresh[r].family))
<1>1. r \in Issued(refresh)
  BY DEF RefreshTokenRevoke, Issued, IInv, TypeOK
<1> QED
  BY <1>1, OneFamilyIsWhole DEF RefreshTokenRevoke, FamilyRevoke, Revokes

LEMMA FamilyMeRevokeShape ==
    ASSUME IInv, NEW u \in Users, NEW f \in RefreshTokens, FamilyMeRevoke(u, f)
    PROVE  Revokes({r \in OwnedRefresh(u) : refresh[r].family = f},
                   {a \in OwnedAccess(u) : access[a].family = f})
<1>1. WholeFamilies({r \in OwnedRefresh(u) : refresh[r].family \in {f}},
                    {a \in OwnedAccess(u) : access[a].family \in {f}})
  BY OwnFamiliesAreWhole
<1>2. /\ {r \in OwnedRefresh(u) : refresh[r].family \in {f}}
           = {r \in OwnedRefresh(u) : refresh[r].family = f}
      /\ {a \in OwnedAccess(u) : access[a].family \in {f}}
           = {a \in OwnedAccess(u) : access[a].family = f}
  OBVIOUS
<1> QED
  BY <1>1, <1>2 DEF FamilyMeRevoke, FamilyRevoke, Revokes

LEMMA FamiliesMeRevokeAllShape ==
    ASSUME IInv, NEW u \in Users, FamiliesMeRevokeAll(u)
    PROVE  Revokes(OwnedRefresh(u),
                   {a \in OwnedAccess(u) : access[a].family \in FamiliesOf(OwnedRefresh(u))})
<1> DEFINE F == FamiliesOf(OwnedRefresh(u))
<1>1. F \in SUBSET RefreshTokens
  BY DEF FamiliesOf, OwnedRefresh, Issued, IInv, TypeOK, RefreshRow
<1>2. {r \in OwnedRefresh(u) : refresh[r].family \in F} = OwnedRefresh(u)
  BY DEF FamiliesOf
<1> HIDE DEF F
<1>3. WholeFamilies(OwnedRefresh(u), {a \in OwnedAccess(u) : access[a].family \in F})
  BY <1>1, <1>2, OwnFamiliesAreWhole
<1> QED
  BY <1>3 DEF FamiliesMeRevokeAll, Revokes, F

LEMMA LogoutShape ==
    ASSUME IInv, NEW c \in Clients, NEW s \in Sessions, Logout(c, s)
    PROVE  Revokes(SessionRefresh(s), SessionAccess(s))
BY SessionFamiliesAreWhole DEF Logout, Revokes

LEMMA ReplayShape ==
    ASSUME IInv, NEW r \in RefreshTokens, RefreshReplay(r)
    PROVE  Revokes(FamilyRefresh(refresh[r].client, refresh[r].family),
                   FamilyAccess(refresh[r].client, refresh[r].family))
<1>1. r \in Issued(refresh)
  BY DEF RefreshReplay, RefreshPresented, Issued, IInv, TypeOK
<1> QED
  BY <1>1, OneFamilyIsWhole DEF RefreshReplay, Revokes

LEMMA RevokesIsTokenStep ==
    ASSUME IInv, NEW R, NEW A, Revokes(R, A)
    PROVE  TokenStep
BY DEF Revokes, WholeFamilies, Issued, IInv, TypeOK, TokenStep

LEMMA ExchangeShape ==
    ASSUME IInv, NEW k \in Codes, NEW a \in AccessTokens, NEW r \in RefreshTokens,
           AuthorizationCodeExchange(k, a, r)
    PROVE  /\ code[k].session \in Sessions
           /\ \/ code[k].offline /\ Starts(r, a, code[k].session)
              \/ ~code[k].offline /\ Spends(a, code[k].session)
<1>1. code[k].client \in Clients /\ code[k].session \in Sessions /\ code[k].scope \in SUBSET Scopes
  BY DEF AuthorizationCodeExchange, CodeRedeemable, IInv, TypeOK, CodeRow
<1>2. access[a] = None /\ refresh[r] = None /\ SessionLive(code[k].session)
  BY DEF AuthorizationCodeExchange, SubjectValid
<1> QED
  BY <1>1, <1>2 DEF AuthorizationCodeExchange, Starts, Spends

\* Every step does one of six things to the tables.
LEMMA TokenSteps == IInv /\ [Next]_vars => TokenStep
<1> SUFFICES ASSUME IInv, [Next]_vars PROVE TokenStep
  OBVIOUS
<1>1. CASE UNCHANGED vars
  BY <1>1 DEF vars, TokenStep, Quiet
<1>2. CASE EnvironmentNext
  <2>1. UNCHANGED <<refresh, access>>
    BY <1>2 DEF EnvironmentNext, Tick, SigningKeyChange, SessionIssue, SessionResume, SessionsRevoke,
                UserDelete, UserLifecycleSet, ClientContextChange, ClientUpdate,
                ClientLifecycleSet, rows
  <2> QED
    BY <2>1 DEF TokenStep, Quiet
<1>3. CASE CodeNext
  <2>1. ASSUME NEW k \in Codes, NEW a \in AccessTokens, NEW r \in RefreshTokens,
               AuthorizationCodeExchange(k, a, r)
        PROVE  TokenStep
    BY <2>1, ExchangeShape DEF TokenStep
  <2>2. ASSUME NEW k \in Codes,
               \/ \E c \in Clients, s \in Sessions, offline \in BOOLEAN,
                        x \in SUBSET Scopes : AuthorizationCodeIssue(k, c, s, offline, x)
               \/ AuthorizationCodeRedeem(k)
        PROVE  TokenStep
    BY <2>2 DEF AuthorizationCodeIssue, AuthorizationCodeRedeem, TokenStep, Quiet
  <2> QED
    BY <1>3, <2>1, <2>2 DEF CodeNext
<1>4. CASE RefreshNext
  <2>1. ASSUME NEW r \in RefreshTokens, RefreshReplay(r) PROVE TokenStep
    BY <2>1, ReplayShape, RevokesIsTokenStep
  <2>2. ASSUME NEW r \in RefreshTokens, NEW a \in AccessTokens, NEW next \in RefreshTokens,
               NEW x \in SUBSET Scopes, RefreshRotate(r, a, next, x)
        PROVE  TokenStep
    BY <2>2 DEF TokenStep, Rotates
  <2> QED
    BY <1>4, <2>1, <2>2 DEF RefreshNext
<1>5. CASE RevokeNext
  <2>1. ASSUME NEW a \in AccessTokens, AccessTokenRevoke(a) PROVE TokenStep
    <3>1. Withdraws(a)
      BY <2>1 DEF AccessTokenRevoke, Withdraws, Unrevoked, Issued, IInv, TypeOK
    <3> QED
      BY <3>1 DEF TokenStep
  <2>2. ASSUME NEW r \in RefreshTokens, RefreshTokenRevoke(r) PROVE TokenStep
    BY <2>2, FamilyRevokeShape, RevokesIsTokenStep
  <2>3. ASSUME NEW u \in Users, NEW f \in RefreshTokens, FamilyMeRevoke(u, f) PROVE TokenStep
    BY <2>3, FamilyMeRevokeShape, RevokesIsTokenStep
  <2>4. ASSUME NEW u \in Users, FamiliesMeRevokeAll(u) PROVE TokenStep
    BY <2>4, FamiliesMeRevokeAllShape, RevokesIsTokenStep
  <2>5. ASSUME NEW c \in Clients, NEW s \in Sessions, Logout(c, s) PROVE TokenStep
    BY <2>5, LogoutShape, RevokesIsTokenStep
  <2> QED
    BY <1>5, <2>1, <2>2, <2>3, <2>4, <2>5 DEF RevokeNext
<1> QED
  BY <1>1, <1>2, <1>3, <1>4, <1>5 DEF Next

-----------------------------------------------------------------------------
(* What becomes of a token, whatever the step.                             *)

\* A refresh token that exists stays, of the same family, and dead once it
\* is; a new one is of a live session, and of a new or a living family.
RefreshFate ==
    /\ \A r \in Issued(refresh) :
          /\ r \in Issued(refresh)'
          /\ refresh'[r].family = refresh[r].family
          /\ refresh'[r].client = refresh[r].client
          /\ refresh'[r].session = refresh[r].session
          /\ refresh[r].revoked =>
                refresh'[r].revoked /\ refresh'[r].replacedBy = refresh[r].replacedBy
    /\ \A r \in Issued(refresh)' \ Issued(refresh) :
          /\ SessionLive(refresh'[r].session)
          /\ \/ refresh'[r].family \notin Issued(refresh)
             \/ \E q \in Unrevoked(refresh, Issued(refresh)) :
                    refresh[q].family = refresh'[r].family

AccessFate ==
    /\ \A a \in Issued(access) :
          /\ a \in Issued(access)'
          /\ access'[a].family = access[a].family
          /\ access'[a].session = access[a].session
          /\ access[a].revoked => access'[a].revoked
    /\ \A a \in Issued(access)' \ Issued(access) :
          /\ SessionLive(access'[a].session)
          /\ \/ access'[a].family \notin Issued(refresh)
             \/ \E q \in Unrevoked(refresh, Issued(refresh)) :
                    refresh[q].family = access'[a].family

LEMMA NoneIsNoRow ==
    /\ \A row \in RefreshRow : row # None
    /\ \A row \in AccessRow : row # None
BY NoneAssumption

\* A new row, in its table.
LEMMA NewRefresh ==
    ASSUME NEW old \in [RefreshTokens -> RefreshRow \cup {None}],
           NEW r \in RefreshTokens, NEW row \in RefreshRow,
           refresh' = [old EXCEPT ![r] = row]
    PROVE  /\ Issued(refresh)' = Issued(old) \cup {r}
           /\ refresh'[r] = row
           /\ \A q \in Issued(old) : q # r => refresh'[q] = old[q]
BY NoneIsNoRow DEF Issued

LEMMA NewAccess ==
    ASSUME TypeOK, NEW a \in AccessTokens, NEW row \in AccessRow,
           access' = [access EXCEPT ![a] = row]
    PROVE  /\ Issued(access)' = Issued(access) \cup {a}
           /\ access'[a] = row
           /\ \A b \in Issued(access) : b # a => access'[b] = access[b]
BY NoneIsNoRow DEF Issued, TypeOK

LEMMA SpendsFields ==
    ASSUME IInv, NEW a \in AccessTokens, NEW s \in Sessions, Spends(a, s)
    PROVE  /\ Issued(access)' = Issued(access) \cup {a} /\ a \notin Issued(access)
           /\ access'[a].family = None /\ access'[a].session = s /\ ~access'[a].revoked
           /\ \A b \in Issued(access) : access'[b] = access[b]
<1>1. PICK c \in Clients, x \in SUBSET Scopes :
          access' = [access EXCEPT ![a] = AccessMint(c, s, None, x)]
  BY DEF Spends
<1>2. AccessMint(c, s, None, x) \in AccessRow
  BY MintTypes DEF IInv
<1>3. a \notin Issued(access)
  BY DEF Spends, Issued
<1> DEFINE row == AccessMint(c, s, None, x)
<1>4. row.family = None /\ row.session = s /\ ~row.revoked
  BY DEF AccessMint
<1> HIDE DEF row
<1> QED
  BY <1>1, <1>2, <1>3, <1>4, NewAccess DEF IInv, row

LEMMA StartsFields ==
    ASSUME IInv, NEW f \in RefreshTokens, NEW a \in AccessTokens, NEW s \in Sessions,
           Starts(f, a, s)
    PROVE  /\ Issued(refresh)' = Issued(refresh) \cup {f} /\ f \notin Issued(refresh)
           /\ refresh'[f].family = f /\ refresh'[f].session = s /\ ~refresh'[f].revoked
           /\ \A q \in Issued(refresh) : refresh'[q] = refresh[q]
           /\ Issued(access)' = Issued(access) \cup {a} /\ a \notin Issued(access)
           /\ access'[a].family = f /\ access'[a].session = s /\ ~access'[a].revoked
           /\ \A b \in Issued(access) : access'[b] = access[b]
<1>1. PICK c \in Clients, x \in SUBSET Scopes :
          /\ access' = [access EXCEPT ![a] = AccessMint(c, s, f, x)]
          /\ refresh' = [refresh EXCEPT ![f] = RefreshMint(c, s, f, x, now)]
  BY DEF Starts
<1> DEFINE mint == RefreshMint(c, s, f, x, now)
           row == AccessMint(c, s, f, x)
<1>2. mint \in RefreshRow /\ row \in AccessRow
  BY MintTypes DEF IInv, TypeOK
<1>3. /\ mint.family = f /\ mint.session = s /\ ~mint.revoked
      /\ row.family = f /\ row.session = s /\ ~row.revoked
  BY DEF RefreshMint, AccessMint
<1>4. refresh \in [RefreshTokens -> RefreshRow \cup {None}] /\ TypeOK
  BY DEF IInv, TypeOK
<1>5. f \notin Issued(refresh) /\ a \notin Issued(access)
  BY DEF Starts, Issued
<1>6. refresh' = [refresh EXCEPT ![f] = mint] /\ access' = [access EXCEPT ![a] = row]
  BY <1>1
<1> HIDE DEF mint, row
<1>7. /\ Issued(refresh)' = Issued(refresh) \cup {f}
      /\ refresh'[f] = mint
      /\ \A q \in Issued(refresh) : q # f => refresh'[q] = refresh[q]
  BY <1>2, <1>4, <1>6, NewRefresh
<1>8. /\ Issued(access)' = Issued(access) \cup {a}
      /\ access'[a] = row
      /\ \A b \in Issued(access) : b # a => access'[b] = access[b]
  BY <1>2, <1>4, <1>6, NewAccess
<1> QED
  BY <1>3, <1>5, <1>7, <1>8

LEMMA RotatesFields ==
    ASSUME IInv, NEW r \in RefreshTokens, NEW next \in RefreshTokens, NEW a \in AccessTokens,
           Rotates(r, next, a)
    PROVE  /\ r \in Issued(refresh) /\ ~refresh[r].revoked
           /\ SessionLive(refresh[r].session)
           /\ Issued(refresh)' = Issued(refresh) \cup {next} /\ next \notin Issued(refresh)
           /\ refresh'[next].family = refresh[r].family
           /\ refresh'[next].session = refresh[r].session
           /\ ~refresh'[next].revoked
           /\ refresh'[r] = RotatedOut(refresh[r], next)
           /\ refresh'[r].family = refresh[r].family
           /\ refresh'[r].client = refresh[r].client
           /\ refresh'[r].session = refresh[r].session
           /\ refresh'[r].revoked
           /\ \A q \in Issued(refresh) \ {r} : refresh'[q] = refresh[q]
           /\ Issued(access)' = Issued(access) \cup {a} /\ a \notin Issued(access)
           /\ access'[a].family = refresh[r].family
           /\ access'[a].session = refresh[r].session /\ ~access'[a].revoked
           /\ \A b \in Issued(access) : access'[b] = access[b]
<1>1. PICK x \in SUBSET Scopes : RefreshRotate(r, a, next, x)
  BY DEF Rotates
<1> DEFINE c == refresh[r].client
           s == refresh[r].session
           f == refresh[r].family
           old == [refresh EXCEPT ![r] = RotatedOut(refresh[r], next)]
<1>2. TypeOK /\ refresh \in [RefreshTokens -> RefreshRow \cup {None}]
  BY DEF IInv, TypeOK
<1>3. /\ r \in Issued(refresh) /\ ~refresh[r].revoked /\ SessionLive(s)
      /\ refresh[next] = None /\ access[a] = None
  BY <1>1, <1>2 DEF RefreshRotate, RefreshPresented, RefreshUsable, SubjectValid, Issued
<1>4. refresh[r] \in RefreshRow
  BY <1>2, <1>3 DEF Issued
<1>5. c \in Clients /\ s \in Sessions /\ f \in RefreshTokens
  BY <1>4 DEF RefreshRow
<1>6. FamilyCreatedAt(c, f) \in Nat
  <2>1. FamilyCreatedAt(c, f) = refresh[f].createdAt
    BY <1>3, FamilyBeginsWithRoot DEF IInv, Rooted
  <2>2. refresh[f] \in RefreshRow
    BY <1>2, <1>3, <1>5 DEF IInv, Rooted, RefreshRooted
  <2> QED
    BY <2>1, <2>2 DEF RefreshRow
<1>7. RotatedOut(refresh[r], next) \in RefreshRow
  BY <1>2, <1>4 DEF RotatedOut, RefreshRow, TypeOK
<1>8. old \in [RefreshTokens -> RefreshRow \cup {None}]
  BY <1>2, <1>7
<1>9. Issued(old) = Issued(refresh)
  BY <1>2, <1>3, <1>7, <1>8, NoneIsNoRow DEF Issued
<1>10. old[r] = RotatedOut(refresh[r], next) /\ \A q \in RefreshTokens \ {r} : old[q] = refresh[q]
  BY <1>2
<1> DEFINE mint == RefreshMint(c, s, f, x, FamilyCreatedAt(c, f))
           row == AccessMint(c, s, f, x)
<1>11. mint \in RefreshRow /\ row \in AccessRow
  BY <1>2, <1>5, <1>6, MintTypes
<1>12. /\ mint.family = f /\ mint.session = s /\ ~mint.revoked
       /\ row.family = f /\ row.session = s /\ ~row.revoked
  BY DEF RefreshMint, AccessMint
<1>13. refresh' = [old EXCEPT ![next] = mint] /\ access' = [access EXCEPT ![a] = row]
  BY <1>1 DEF RefreshRotate
<1> HIDE DEF old, c, s, f, mint, row
<1>14. /\ Issued(refresh)' = Issued(refresh) \cup {next}
       /\ refresh'[next] = mint
       /\ \A q \in Issued(refresh) : q # next => refresh'[q] = old[q]
  BY <1>8, <1>9, <1>11, <1>13, NewRefresh
<1>15. /\ Issued(access)' = Issued(access) \cup {a}
       /\ access'[a] = row
       /\ \A b \in Issued(access) : b # a => access'[b] = access[b]
  BY <1>2, <1>11, <1>13, NewAccess
<1>16. next \notin Issued(refresh) /\ a \notin Issued(access) /\ Issued(refresh) \subseteq RefreshTokens
  BY <1>2, <1>3 DEF Issued
<1>17. refresh'[r] = RotatedOut(refresh[r], next)
  BY <1>3, <1>10, <1>14, <1>16
<1>18. /\ refresh'[r].family = refresh[r].family /\ refresh'[r].client = refresh[r].client
       /\ refresh'[r].session = refresh[r].session /\ refresh'[r].revoked
  BY <1>4, <1>17 DEF RotatedOut, RefreshRow
<1>19. \A q \in Issued(refresh) \ {r} : refresh'[q] = refresh[q]
  BY <1>10, <1>14, <1>16
<1> QED
  BY <1>3, <1>12, <1>14, <1>16, <1>17, <1>18, <1>19, <1>15 DEF c, s, f

LEMMA WithdrawsFields ==
    ASSUME IInv, NEW a \in AccessTokens, Withdraws(a)
    PROVE  /\ a \in Issued(access) /\ ~access[a].revoked
           /\ Issued(access)' = Issued(access)
           /\ \A b \in Issued(access) :
                 /\ access'[b].family = access[b].family
                 /\ access'[b].session = access[b].session
                 /\ access'[b].revoked <=> (b = a \/ access[b].revoked)
<1>1. a \in Issued(access) /\ ~access[a].revoked /\ access' = Revoke(access, {a})
  BY DEF Withdraws, Unrevoked
<1>2. {a} \in SUBSET Issued(access)
  BY <1>1
<1> QED
  BY <1>1, <1>2, RevokeAccessFields DEF IInv

LEMMA RevokesFields ==
    ASSUME IInv, NEW R, NEW A, Revokes(R, A)
    PROVE  /\ Issued(refresh)' = Issued(refresh)
           /\ \A r \in Issued(refresh) :
                /\ refresh'[r].family = refresh[r].family
                /\ refresh'[r].client = refresh[r].client
                /\ refresh'[r].session = refresh[r].session
                /\ refresh'[r].replacedBy = refresh[r].replacedBy
                /\ refresh'[r].revoked <=> (r \in R \/ refresh[r].revoked)
           /\ Issued(access)' = Issued(access)
           /\ \A a \in Issued(access) :
                /\ access'[a].family = access[a].family
                /\ access'[a].session = access[a].session
                /\ access'[a].revoked <=> (a \in A \/ access[a].revoked)
<1>1. /\ R \in SUBSET Issued(refresh) /\ refresh' = Revoke(refresh, R)
      /\ A \in SUBSET Issued(access) /\ access' = Revoke(access, A)
  BY DEF Revokes, WholeFamilies
<1> QED
  BY <1>1, RevokeRefreshFields, RevokeAccessFields DEF IInv

\* The fates under each of the six.
LEMMA Fates == IInv /\ TokenStep => RefreshFate /\ AccessFate
<1> SUFFICES ASSUME IInv, TokenStep PROVE RefreshFate /\ AccessFate
  OBVIOUS
<1>1. None \notin Issued(refresh)
  BY OidcTokensAssumption DEF Issued, IInv, TypeOK
<1>2. CASE Quiet
  BY <1>2 DEF Quiet, RefreshFate, AccessFate, Issued
<1>3. ASSUME NEW a \in AccessTokens, NEW s \in Sessions, Spends(a, s)
      PROVE  RefreshFate /\ AccessFate
  <2>1. UNCHANGED refresh /\ SessionLive(s)
    BY <1>3 DEF Spends
  <2>2. RefreshFate
    BY <2>1 DEF RefreshFate, Issued
  <2>3. AccessFate
    BY <1>3, <1>1, <2>1, SpendsFields DEF AccessFate
  <2> QED
    BY <2>2, <2>3
<1>4. ASSUME NEW f \in RefreshTokens, NEW a \in AccessTokens, NEW s \in Sessions,
             Starts(f, a, s)
      PROVE  RefreshFate /\ AccessFate
  <2>1. SessionLive(s)
    BY <1>4 DEF Starts
  <2>2. RefreshFate
    BY <1>4, <2>1, StartsFields DEF RefreshFate
  <2>3. AccessFate
    BY <1>4, <2>1, StartsFields DEF AccessFate
  <2> QED
    BY <2>2, <2>3
<1>5. ASSUME NEW r \in RefreshTokens, NEW next \in RefreshTokens, NEW a \in AccessTokens,
             Rotates(r, next, a)
      PROVE  RefreshFate /\ AccessFate
  <2>1. r \in Unrevoked(refresh, Issued(refresh))
    BY <1>5, RotatesFields DEF Unrevoked
  <2>2. RefreshFate
    BY <1>5, <2>1, RotatesFields DEF RefreshFate
  <2>3. AccessFate
    BY <1>5, <2>1, RotatesFields DEF AccessFate
  <2> QED
    BY <2>2, <2>3
<1>6. ASSUME NEW a \in AccessTokens, Withdraws(a)
      PROVE  RefreshFate /\ AccessFate
  <2>1. UNCHANGED refresh
    BY <1>6 DEF Withdraws
  <2>2. RefreshFate
    BY <2>1 DEF RefreshFate, Issued
  <2>3. AccessFate
    BY <1>6, WithdrawsFields DEF AccessFate
  <2> QED
    BY <2>2, <2>3
<1>7. ASSUME NEW R, NEW A, Revokes(R, A)
      PROVE  RefreshFate /\ AccessFate
  <2>1. RefreshFate
    BY <1>7, RevokesFields DEF RefreshFate
  <2>2. AccessFate
    BY <1>7, RevokesFields DEF AccessFate
  <2> QED
    BY <2>1, <2>2
<1> QED
  BY <1>2, <1>3, <1>4, <1>5, <1>6, <1>7 DEF TokenStep

\* A revoked token stays revoked and a spent one keeps its successor.
THEOREM RevocationStands == Spec => RevocationIsFinal
<1> DEFINE Final ==
        /\ \A r \in Issued(refresh) :
              refresh[r].revoked =>
                  refresh'[r].revoked /\ refresh'[r].replacedBy = refresh[r].replacedBy
        /\ \A a \in Issued(access) : access[a].revoked => access'[a].revoked
<1>1. IInv /\ [Next]_vars => Final
  BY TokenSteps, Fates DEF RefreshFate, AccessFate
<1>2. IInv /\ [Next]_vars => [Final]_vars
  BY <1>1
<1> QED
  BY <1>2, InductiveInvariance, PTL DEF Spec, RevocationIsFinal

-----------------------------------------------------------------------------
(* The log: a family's end is recorded once, and a logout is complete.     *)

Dead(f) ==
    /\ \A r \in Issued(refresh) : refresh[r].family = f => refresh[r].revoked
    /\ \A a \in Issued(access) : access[a].family = f => access[a].revoked

\* A family whose end is recorded exists and is dead.
EndsRecorded ==
    \A f \in RefreshTokens :
        /\ familyRevoked[f] <= 1
        /\ familyRevoked[f] = 1 => f \in Issued(refresh) /\ Dead(f)

\* A session that was logged out is revoked, and so is what it was given.
LogoutsComplete ==
    \A s \in loggedOut :
        /\ session[s] # None
        /\ session[s].revoked
        /\ \A r \in Issued(refresh) : refresh[r].session = s => refresh[r].revoked
        /\ \A a \in Issued(access) : access[a].session = s => access[a].revoked

LogInv == EndsRecorded /\ LogoutsComplete

\* Nobody brings a dead family back to life.
LEMMA DeadStays ==
    ASSUME IInv, TokenStep, NEW f \in Issued(refresh), Dead(f)
    PROVE  f \in Issued(refresh)' /\ Dead(f)'
<1>1. RefreshFate /\ AccessFate
  BY Fates
<1>2. ASSUME NEW r \in Issued(refresh)', refresh'[r].family = f
      PROVE  refresh'[r].revoked
  <2>1. r \in Issued(refresh)
    BY <1>1, <1>2 DEF RefreshFate, Dead, Unrevoked
  <2> QED
    BY <1>1, <1>2, <2>1 DEF RefreshFate, Dead
<1>3. ASSUME NEW a \in Issued(access)', access'[a].family = f
      PROVE  access'[a].revoked
  <2>1. a \in Issued(access)
    BY <1>1, <1>3 DEF AccessFate, Dead, Unrevoked
  <2> QED
    BY <1>1, <1>3, <2>1 DEF AccessFate, Dead
<1> QED
  BY <1>1, <1>2, <1>3 DEF RefreshFate, Dead

\* The families that a step records as ended were alive and are not any more.
Records(F) ==
    /\ FamilyEventAppend(F)
    /\ \A f \in F : f \in Issued(refresh)' /\ ~Dead(f) /\ Dead(f)'

\* Whole families that are revoked are dead.
LEMMA RevokedAreDead ==
    ASSUME IInv, NEW R, NEW A, Revokes(R, A), NEW f, \E r \in R : refresh[r].family = f
    PROVE  f \in Issued(refresh)' /\ Dead(f)'
<1>1. PICK r \in R : refresh[r].family = f
  OBVIOUS
<1>2. /\ \A q \in Issued(refresh) : refresh[q].family = f => q \in R
      /\ \A a \in Issued(access) : access[a].family = f => a \in A
      /\ r \in Issued(refresh)
  BY <1>1 DEF Revokes, WholeFamilies
<1>3. f \in Issued(refresh)
  BY <1>1, <1>2 DEF IInv, Rooted, RefreshRooted, TypeOK, RefreshRow, Issued
<1>4. Dead(f)'
  BY <1>2, RevokesFields DEF Dead
<1> QED
  BY <1>3, <1>4, RevokesFields

LEMMA LiveIsAlive ==
    /\ \A r \in Issued(refresh) : ~refresh[r].revoked => ~Dead(refresh[r].family)
    /\ \A a \in Issued(access) : ~access[a].revoked => ~Dead(access[a].family)
BY DEF Dead

\* One family that has a live row: by a client, ...
LEMMA TokenRevokeRecords ==
    ASSUME IInv, NEW r \in RefreshTokens, RefreshTokenRevoke(r)
    PROVE  \E F : Records(F)
<1>1. PICK f : f = refresh[r].family
  OBVIOUS
<1> DEFINE R == FamilyRefresh(refresh[r].client, f)
           A == FamilyAccess(refresh[r].client, f)
<1>2. r \in Issued(refresh) /\ Revokes(R, A) /\ r \in R
  BY <1>1, FamilyRevokeShape DEF FamilyRefresh
<1>3. FamilyEventAppend({f}) /\ AnyLive(R, A)
  BY <1>1 DEF RefreshTokenRevoke, FamilyRevoke
<1>4. f \in Issued(refresh)' /\ Dead(f)'
  BY <1>1, <1>2, RevokedAreDead
<1>5. ~Dead(f)
  BY <1>3, LiveIsAlive DEF AnyLive, Unrevoked, FamilyRefresh, FamilyAccess
<1>6. Records({f})
  BY <1>3, <1>4, <1>5 DEF Records
<1> QED
  BY <1>6

\* ... or by its owner.
LEMMA MeRevokeRecords ==
    ASSUME IInv, NEW u \in Users, NEW f \in RefreshTokens, FamilyMeRevoke(u, f)
    PROVE  \E F : Records(F)
<1> DEFINE R == {r \in OwnedRefresh(u) : refresh[r].family = f}
           A == {a \in OwnedAccess(u) : access[a].family = f}
<1>1. Revokes(R, A)
  BY FamilyMeRevokeShape
<1>2. FamilyEventAppend({f}) /\ AnyLive(R, A)
  BY DEF FamilyMeRevoke, FamilyRevoke
<1>3. ~Dead(f)
  BY <1>2, LiveIsAlive DEF AnyLive, Unrevoked, OwnedRefresh, OwnedAccess
<1>4. f # None
  BY OidcTokensAssumption
<1>5. \E r \in R : refresh[r].family = f
  <2>1. R # {} \/ A # {}
    BY <1>2 DEF AnyLive, Unrevoked
  <2>2. \A a \in A : \E r \in R : refresh[r].family = access[a].family
    BY <1>1, <1>4 DEF Revokes, WholeFamilies
  <2> QED
    BY <2>1, <2>2
<1>6. f \in Issued(refresh)' /\ Dead(f)'
  BY <1>1, <1>5, RevokedAreDead
<1>7. Records({f})
  BY <1>2, <1>3, <1>6 DEF Records
<1> QED
  BY <1>7

\* Each family of a user that has a live row, ...
LEMMA MeRevokeAllRecords ==
    ASSUME IInv, NEW u \in Users, FamiliesMeRevokeAll(u)
    PROVE  \E F : Records(F)
<1> DEFINE R == OwnedRefresh(u)
           A == {a \in OwnedAccess(u) : access[a].family \in FamiliesOf(OwnedRefresh(u))}
           F == FamiliesOf(Unrevoked(refresh, R)) \cup {access[a].family : a \in Unrevoked(access, A)}
<1>1. Revokes(R, A)
  BY FamiliesMeRevokeAllShape
<1>2. FamilyEventAppend(F)
  BY DEF FamiliesMeRevokeAll
<1>3. ASSUME NEW f \in F PROVE f \in Issued(refresh)' /\ ~Dead(f) /\ Dead(f)'
  <2>1. \E r \in R : refresh[r].family = f
    BY DEF FamiliesOf, Unrevoked
  <2>2. f \in Issued(refresh)' /\ Dead(f)'
    BY <1>1, <2>1, RevokedAreDead
  <2>3. ~Dead(f)
    BY LiveIsAlive DEF FamiliesOf, Unrevoked, OwnedRefresh, OwnedAccess
  <2> QED
    BY <2>2, <2>3
<1> QED
  BY <1>2, <1>3 DEF Records

\* ... or of a session a live refresh token.
LEMMA LogoutRecords ==
    ASSUME IInv, NEW c \in Clients, NEW s \in Sessions, Logout(c, s)
    PROVE  \E F : Records(F)
<1> DEFINE F == FamiliesOf(Unrevoked(refresh, SessionRefresh(s)))
<1>1. Revokes(SessionRefresh(s), SessionAccess(s))
  BY LogoutShape
<1>2. FamilyEventAppend(F)
  BY DEF Logout
<1>3. ASSUME NEW f \in F PROVE f \in Issued(refresh)' /\ ~Dead(f) /\ Dead(f)'
  <2>1. PICK r \in SessionRefresh(s) : refresh[r].family = f /\ ~refresh[r].revoked
    BY DEF FamiliesOf, Unrevoked
  <2>2. f \in Issued(refresh)' /\ Dead(f)'
    BY <1>1, <2>1, RevokedAreDead
  <2>3. ~Dead(f)
    BY <2>1, LiveIsAlive DEF SessionRefresh
  <2> QED
    BY <2>2, <2>3
<1> QED
  BY <1>2, <1>3 DEF Records

\* Every step that writes to the log records the ends it brings about.
LEMMA LogSteps ==
    ASSUME IInv, [Next]_vars
    PROVE  UNCHANGED familyRevoked \/ \E F : Records(F)
<1>1. CASE EnvironmentNext \/ CodeNext \/ RefreshNext \/ UNCHANGED vars
  BY <1>1 DEF EnvironmentNext, Tick, SigningKeyChange, SessionIssue, SessionResume, SessionsRevoke,
              UserDelete, UserLifecycleSet, ClientContextChange, ClientUpdate,
              ClientLifecycleSet, auditLog, CodeNext, AuthorizationCodeIssue, AuthorizationCodeRedeem, AuthorizationCodeExchange,
              RefreshNext, RefreshReplay, RefreshRotate, vars
<1>2. CASE RevokeNext
  <2>1. \A a \in AccessTokens : AccessTokenRevoke(a) => UNCHANGED familyRevoked
    BY DEF AccessTokenRevoke, auditLog
  <2> QED
    BY <1>2, <2>1, TokenRevokeRecords, MeRevokeRecords, MeRevokeAllRecords, LogoutRecords
       DEF RevokeNext
<1> QED
  BY <1>1, <1>2 DEF Next

LEMMA EndsRecordedStep ==
    ASSUME IInv, EndsRecorded, [Next]_vars
    PROVE  EndsRecorded'
<1>1. TokenStep
  BY TokenSteps
<1>2. familyRevoked \in [RefreshTokens -> Nat]
  BY DEF IInv, TypeOK
<1>3. \A f \in RefreshTokens : familyRevoked[f] \in {0, 1}
  BY <1>2 DEF EndsRecorded
<1>4. CASE UNCHANGED familyRevoked
  BY <1>1, <1>4, DeadStays DEF EndsRecorded
<1>5. ASSUME NEW F, Records(F)
      PROVE  EndsRecorded'
  <2> SUFFICES ASSUME NEW f \in RefreshTokens
               PROVE  /\ familyRevoked'[f] <= 1
                      /\ familyRevoked'[f] = 1 => f \in Issued(refresh)' /\ Dead(f)'
    BY DEF EndsRecorded
  <2>1. familyRevoked'[f] = IF f \in F THEN familyRevoked[f] + 1 ELSE familyRevoked[f]
    BY <1>5 DEF Records, FamilyEventAppend
  <2>2. CASE f \in F
    <3>1. familyRevoked[f] = 0
      BY <1>3, <1>5, <2>2 DEF EndsRecorded, Records
    <3> QED
      BY <1>5, <2>1, <2>2, <3>1 DEF Records
  <2>3. CASE f \notin F
    BY <1>1, <1>3, <2>1, <2>3, DeadStays DEF EndsRecorded
  <2> QED
    BY <2>2, <2>3
<1> QED
  BY <1>4, <1>5, LogSteps

\* What a step may do to sessions: nothing, issue one, shorten one, end some.
SessionChange ==
    \/ UNCHANGED session
    \/ \E s \in Sessions, lifetime \in SessionLifetimes :
          SessionIssue(s, lifetime) \/ SessionResume(s, lifetime)
    \/ now' = now /\ \E S \in SUBSET Issued(session) : session' = Revoke(session, S)

LEMMA SessionChanges ==
    ASSUME TypeOK, [Next]_vars
    PROVE  /\ SessionChange
           /\ now' = now \/ Tick
           /\ UNCHANGED loggedOut \/ \E c \in Clients, s \in Sessions : Logout(c, s)
<1> DEFINE Logged == \E c \in Clients, s \in Sessions : Logout(c, s)
           Plain == UNCHANGED <<now, session, loggedOut>>
<1>1. CASE EnvironmentNext
  <2>1. ASSUME NEW s \in Sessions, NEW lifetime \in SessionLifetimes,
               SessionIssue(s, lifetime) \/ SessionResume(s, lifetime)
        PROVE  SessionChange /\ UNCHANGED <<now, loggedOut>>
    BY <2>1 DEF SessionChange, SessionIssue, SessionResume, auditLog
  <2>2. ASSUME NEW S \in SUBSET Sessions, SessionsRevoke(S)
        PROVE  SessionChange /\ UNCHANGED <<now, loggedOut>>
    <3>1. S \in SUBSET Issued(session)
      BY <2>2 DEF SessionsRevoke, Issued, TypeOK
    <3> QED
      BY <2>2, <3>1 DEF SessionsRevoke, SessionChange, auditLog
  <2>3. CASE Tick
    BY <2>3 DEF Tick, SessionChange, rows, auditLog
  <2>4. CASE \/ SigningKeyChange
             \/ \E u \in Users : UserDelete(u) \/ \E to \in UserState : UserLifecycleSet(u, to)
             \/ \E c \in Clients : \/ ClientContextChange(c)
                                   \/ \E p \in Policies : ClientUpdate(c, p)
                                   \/ \E status \in ClientStatus : ClientLifecycleSet(c, status)
    BY <2>4 DEF SigningKeyChange, UserDelete, UserLifecycleSet, ClientContextChange,
                ClientUpdate, ClientLifecycleSet, SessionChange, rows, auditLog
  <2> QED
    BY <1>1, <2>1, <2>2, <2>3, <2>4 DEF EnvironmentNext
<1>2. CASE CodeNext \/ RefreshNext \/ UNCHANGED vars
  <2>1. Plain
    BY <1>2 DEF CodeNext, AuthorizationCodeIssue, AuthorizationCodeRedeem, auditLog,
                AuthorizationCodeExchange, RefreshNext, RefreshReplay, RefreshRotate, vars
  <2> QED
    BY <2>1 DEF SessionChange
<1>3. CASE RevokeNext
  <2>1. ASSUME NEW c \in Clients, NEW s \in Sessions, Logout(c, s)
        PROVE  SessionChange /\ now' = now /\ Logged
    <3>1. {s} \in SUBSET Issued(session) /\ session' = Revoke(session, {s}) /\ now' = now
      BY <2>1 DEF Logout, Issued, Revoke, TypeOK
    <3> QED
      BY <2>1, <3>1 DEF SessionChange
  <2>2. Plain \/ Logged
    BY <1>3 DEF RevokeNext, AccessTokenRevoke, RefreshTokenRevoke, FamilyMeRevoke,
                FamilyRevoke, FamiliesMeRevokeAll, auditLog
  <2> QED
    BY <2>1, <2>2 DEF SessionChange
<1> QED
  BY <1>1, <1>2, <1>3 DEF Next

\* A revoked session stays revoked, and one that is logged out is.
LEMMA SessionSteps ==
    ASSUME IInv, [Next]_vars
    PROVE  /\ \A s \in Sessions : session[s] # None /\ session[s].revoked
                                    => session'[s] # None /\ session'[s].revoked
           /\ UNCHANGED loggedOut \/ \E c \in Clients, s \in Sessions : Logout(c, s)
<1>0. TypeOK
  BY DEF IInv
<1>1. ASSUME NEW s \in Sessions, session[s] # None, session[s].revoked
      PROVE  session'[s] # None /\ session'[s].revoked
  <2>0. s \in Issued(session)
    BY <1>0, <1>1 DEF TypeOK, Issued
  <2>1. CASE UNCHANGED session
    BY <1>1, <2>1
  <2>2. ASSUME NEW t \in Sessions, NEW lifetime \in SessionLifetimes, SessionIssue(t, lifetime)
        PROVE  session'[s] # None /\ session'[s].revoked
    BY <1>0, <1>1, <2>2 DEF SessionIssue, TypeOK
  <2>3. ASSUME NEW t \in Sessions, NEW lifetime \in SessionLifetimes, SessionResume(t, lifetime)
        PROVE  session'[s] # None /\ session'[s].revoked
    <3>1. s # t /\ session'[s] = session[s]
      BY <1>0, <1>1, <2>3, ResumeSessionFields
    <3> QED
      BY <1>1, <3>1
  <2>4. ASSUME NEW S \in SUBSET Issued(session), session' = Revoke(session, S)
        PROVE  session'[s] # None /\ session'[s].revoked
    <3>1. s \in Issued(session)' /\ session'[s].revoked
      BY <1>0, <1>1, <2>0, <2>4, RevokeSessionFields
    <3> QED
      BY <3>1 DEF Issued
  <2> QED
    BY <1>0, <2>1, <2>2, <2>3, <2>4, SessionChanges DEF SessionChange
<1> QED
  BY <1>0, <1>1, SessionChanges

LEMMA LogoutsCompleteStep ==
    ASSUME IInv, LogoutsComplete, [Next]_vars
    PROVE  LogoutsComplete'
<1>1. RefreshFate /\ AccessFate
  BY TokenSteps, Fates
<1>2. loggedOut \subseteq Sessions
  BY DEF IInv, TypeOK
<1>3. ASSUME NEW s \in loggedOut
      PROVE  /\ session'[s] # None /\ session'[s].revoked
             /\ \A r \in Issued(refresh)' : refresh'[r].session = s => refresh'[r].revoked
             /\ \A a \in Issued(access)' : access'[a].session = s => access'[a].revoked
  <2>1. session[s] # None /\ session[s].revoked /\ ~SessionLive(s)
    BY DEF LogoutsComplete, SessionLive
  <2>2. session'[s] # None /\ session'[s].revoked
    BY <1>2, <2>1, SessionSteps
  <2>3. ASSUME NEW r \in Issued(refresh)', refresh'[r].session = s
        PROVE  refresh'[r].revoked
    BY <1>1, <2>1, <2>3 DEF RefreshFate, LogoutsComplete
  <2>4. ASSUME NEW a \in Issued(access)', access'[a].session = s
        PROVE  access'[a].revoked
    BY <1>1, <2>1, <2>4 DEF AccessFate, LogoutsComplete
  <2> QED
    BY <2>2, <2>3, <2>4
<1>4. CASE UNCHANGED loggedOut
  BY <1>3, <1>4 DEF LogoutsComplete
<1>5. ASSUME NEW c \in Clients, NEW t \in Sessions, Logout(c, t)
      PROVE  LogoutsComplete'
  <2>1. loggedOut' = loggedOut \cup {t}
    BY <1>5 DEF Logout
  <2>2. session'[t] # None /\ session'[t].revoked
    <3>1. session[t] \in SessionRow /\ session' = [session EXCEPT ![t].revoked = TRUE]
      BY <1>5 DEF Logout, IInv, TypeOK
    <3>2. session'[t] = [session[t] EXCEPT !.revoked = TRUE]
      BY <3>1 DEF IInv, TypeOK
    <3>3. session'[t] \in SessionRow /\ session'[t].revoked
      BY <3>1, <3>2 DEF SessionRow
    <3> QED
      BY <3>3, NoneAssumption
  <2>3. Revokes(SessionRefresh(t), SessionAccess(t))
    BY <1>5, LogoutShape
  <2>4. /\ \A r \in Issued(refresh)' : refresh'[r].session = t => refresh'[r].revoked
        /\ \A a \in Issued(access)' : access'[a].session = t => access'[a].revoked
    BY <2>3, RevokesFields DEF SessionRefresh, SessionAccess
  <2> QED
    BY <1>3, <2>1, <2>2, <2>4 DEF LogoutsComplete
<1> QED
  BY <1>4, <1>5, SessionSteps

LEMMA InitLogInv == Init => LogInv
BY DEF Init, LogInv, EndsRecorded, LogoutsComplete

THEOREM LogInvariance == Spec => []LogInv
<1>1. IInv /\ LogInv /\ [Next]_vars => LogInv'
  BY EndsRecordedStep, LogoutsCompleteStep DEF LogInv
<1> QED
  BY <1>1, InitLogInv, InductiveInvariance, PTL DEF Spec

\* The end of a family is recorded at most once, whoever ends it and however
\* often.
THEOREM EndRecordedOnce == Spec => []FamilyRevokedEventOnce
<1>1. LogInv => FamilyRevokedEventOnce
  BY DEF LogInv, EndsRecorded, FamilyRevokedEventOnce
<1> QED
  BY <1>1, LogInvariance, PTL

\* No token outlives the logout of its session, nor is minted after it.
THEOREM LogoutLeavesNothing == Spec => []LoggedOutSessionHasNoLiveTokens
<1>1. LogInv => LoggedOutSessionHasNoLiveTokens
  BY DEF LogInv, LogoutsComplete, LoggedOutSessionHasNoLiveTokens, Unrevoked, SessionRefresh,
         SessionAccess
<1> QED
  BY <1>1, LogInvariance, PTL

-----------------------------------------------------------------------------
(* The token tables implement the family protocol: each of the six kinds   *)
(* of step starts, rotates, withdraws from or ends families, or none.      *)

Bearers(f) == {a \in Unrevoked(access, Issued(access)) : access[a].family = f}

FamilyStep == Family!FamilyNext \/ UNCHANGED Family!familyVars

LEMMA HolderOfOne ==
    /\ HolderIn({}) = None
    /\ \A r : HolderIn({r}) = r
BY DEF HolderIn

\* What the families are made of.
LEMMA LiveRows ==
    ASSUME IInv, NEW f \in RefreshTokens
    PROVE  /\ LiveOf(f) \subseteq RefreshTokens
           /\ \A r \in LiveOf(f) : LiveOf(f) = {r} /\ holderMap[f] = r
           /\ LiveOf(f) = {} => Bearers(f) = {} /\ holderMap[f] = None
           /\ LiveOf(f) # {} => f \in Families /\ holderMap[f] # None
           /\ f \notin Issued(refresh) => LiveOf(f) = {} /\ Bearers(f) = {}
<1>1. refresh \in [RefreshTokens -> RefreshRow \cup {None}]
  BY DEF IInv, TypeOK
<1>2. LiveOf(f) \subseteq RefreshTokens
  BY <1>1 DEF LiveOf, Unrevoked, Issued
<1>3. ASSUME NEW r \in LiveOf(f)
      PROVE  /\ LiveOf(f) = {r} /\ holderMap[f] = r /\ holderMap[f] # None
             /\ f \in Families /\ f \in Issued(refresh)
  <2>1. r \in Issued(refresh) /\ refresh[r].family = f
    BY DEF LiveOf, Unrevoked
  <2>2. LiveOf(f) = {r}
    BY DEF LiveOf, Unrevoked, IInv, FamilyInv, OneLiveTokenPerFamily
  <2>3. f \in Families /\ f \in Issued(refresh)
    BY <1>1, <2>1 DEF IInv, Rooted, RefreshRooted, Families, Issued
  <2>4. holderMap[f] = r /\ r # None
    BY <1>2, <2>2, HolderOfOne, OidcTokensAssumption DEF holderMap
  <2> QED
    BY <2>2, <2>3, <2>4
<1>4. ASSUME LiveOf(f) = {}
      PROVE  Bearers(f) = {} /\ holderMap[f] = None
  <2>1. holderMap[f] = None
    BY <1>4, HolderOfOne DEF holderMap
  <2>2. f # None
    BY OidcTokensAssumption
  <2>3. Bearers(f) = {}
    BY <1>4, <2>2 DEF Bearers, LiveOf, IInv, FamilyInv, FamilyDiesTogether
  <2> QED
    BY <2>1, <2>3
<1> QED
  BY <1>2, <1>3, <1>4

LEMMA HoldersKept ==
    ASSUME \A f \in RefreshTokens : LiveOf(f)' = LiveOf(f)
    PROVE  holderMap' = holderMap
BY DEF holderMap

LEMMA BearersKept ==
    ASSUME \A f \in RefreshTokens : Bearers(f)' = Bearers(f)
    PROVE  bearerMap' = bearerMap
BY DEF bearerMap, Bearers

LEMMA HolderChanged ==
    ASSUME NEW f \in RefreshTokens, NEW r, LiveOf(f)' = {r},
           \A g \in RefreshTokens \ {f} : LiveOf(g)' = LiveOf(g)
    PROVE  holderMap' = [holderMap EXCEPT ![f] = r]
<1>1. HolderIn(LiveOf(f)') = r
  BY HolderOfOne
<1> HIDE DEF HolderIn
<1> QED
  BY <1>1 DEF holderMap

LEMMA BearersChanged ==
    ASSUME NEW f \in RefreshTokens, NEW B, Bearers(f)' = B,
           \A g \in RefreshTokens \ {f} : Bearers(g)' = Bearers(g)
    PROVE  bearerMap' = [bearerMap EXCEPT ![f] = B]
BY DEF bearerMap, Bearers

LEMMA Tables ==
    ASSUME IInv
    PROVE  /\ Issued(refresh) \subseteq RefreshTokens
           /\ Issued(access) \subseteq AccessTokens
           /\ \A f \in RefreshTokens : bearerMap[f] = Bearers(f)
BY DEF IInv, TypeOK, Issued, bearerMap, Bearers

LEMMA QuietIsNone == Quiet => FamilyStep
BY DEF Quiet, FamilyStep, Family!familyVars, holderMap, LiveOf, bearerMap, endedMap, Families,
       usedMap, Issued, Unrevoked

LEMMA SpendsIsSpend ==
    ASSUME IInv, NEW a \in AccessTokens, NEW s \in Sessions, Spends(a, s)
    PROVE  FamilyStep
<1>1. UNCHANGED refresh
  BY DEF Spends
<1>2. holderMap' = holderMap /\ endedMap' = endedMap
  BY <1>1 DEF holderMap, LiveOf, endedMap, Families, Unrevoked, Issued
<1>3. \A f \in RefreshTokens : f # None
  BY OidcTokensAssumption
<1>4. bearerMap' = bearerMap
  <2>1. ASSUME NEW f \in RefreshTokens PROVE Bearers(f)' = Bearers(f)
    BY <1>3, SpendsFields DEF Bearers, Unrevoked
  <2> QED
    BY <2>1, BearersKept
<1>5. usedMap' = usedMap \cup {a}
  BY <1>1, SpendsFields DEF usedMap, Issued
<1>6. a \notin usedMap
  BY SpendsFields, Tables, SecretsAssumption DEF usedMap
<1>7. Family!Spend(a)
  BY <1>2, <1>4, <1>5, <1>6 DEF Family!Spend
<1> QED
  BY <1>7 DEF FamilyStep, Family!FamilyNext

LEMMA StartsIsStart ==
    ASSUME IInv, NEW f \in RefreshTokens, NEW a \in AccessTokens, NEW s \in Sessions,
           Starts(f, a, s)
    PROVE  FamilyStep
<1>1. f \notin Issued(refresh) /\ a \notin Issued(access)
  BY StartsFields
<1>2. LiveOf(f) = {} /\ Bearers(f) = {} /\ holderMap[f] = None
  BY <1>1, LiveRows
<1>3. LiveOf(f)' = {f} /\ \A g \in RefreshTokens \ {f} : LiveOf(g)' = LiveOf(g)
  BY <1>2, StartsFields DEF LiveOf, Unrevoked
<1>4. Bearers(f)' = {a} /\ \A g \in RefreshTokens \ {f} : Bearers(g)' = Bearers(g)
  BY <1>2, StartsFields DEF Bearers, Unrevoked
<1>5. holderMap' = [holderMap EXCEPT ![f] = f] /\ bearerMap' = [bearerMap EXCEPT ![f] = {a}]
  BY <1>3, <1>4, HolderChanged, BearersChanged
<1>6. Families' = Families \cup {f} /\ f \notin Families
  BY <1>1, StartsFields DEF Families
<1>7. endedMap' = endedMap /\ f \notin endedMap
  <2>1. \A g \in Families : g \in RefreshTokens /\ g # f
    BY <1>6, Tables DEF Families
  <2> QED
    BY <1>3, <1>6, <2>1 DEF endedMap
<1>8. usedMap' = usedMap \cup {f, a} /\ {f, a} \cap usedMap = {}
  BY <1>1, StartsFields, Tables, SecretsAssumption DEF usedMap
<1>9. Family!Start(f, a)
  BY <1>2, <1>5, <1>7, <1>8 DEF Family!Start, Family!Unborn
<1> QED
  BY <1>9 DEF FamilyStep, Family!FamilyNext

LEMMA RotatesIsRotate ==
    ASSUME IInv, NEW r \in RefreshTokens, NEW next \in RefreshTokens, NEW a \in AccessTokens,
           Rotates(r, next, a)
    PROVE  FamilyStep
<1>1. /\ r \in Issued(refresh) /\ ~refresh[r].revoked
      /\ next \notin Issued(refresh) /\ a \notin Issued(access)
  BY RotatesFields
<1>2. PICK f \in RefreshTokens : f = refresh[r].family
  BY <1>1 DEF IInv, TypeOK, RefreshRow, Issued
<1>3. r \in LiveOf(f)
  BY <1>1, <1>2 DEF LiveOf, Unrevoked
<1>4. LiveOf(f) = {r} /\ f \in Families /\ holderMap[f] # None
  BY <1>3, LiveRows
<1>5. LiveOf(f)' = {next} /\ \A g \in RefreshTokens \ {f} : LiveOf(g)' = LiveOf(g)
  <2>1. LiveOf(f)' = {next}
    BY <1>1, <1>2, <1>4, RotatesFields DEF LiveOf, Unrevoked
  <2>2. ASSUME NEW g \in RefreshTokens \ {f} PROVE LiveOf(g)' = LiveOf(g)
    BY <1>1, <1>2, RotatesFields DEF LiveOf, Unrevoked
  <2> QED
    BY <2>1, <2>2
<1>6. Bearers(f)' = Bearers(f) \cup {a} /\ \A g \in RefreshTokens \ {f} : Bearers(g)' = Bearers(g)
  BY <1>2, RotatesFields DEF Bearers, Unrevoked
<1>7. holderMap' = [holderMap EXCEPT ![f] = next]
  BY <1>5, HolderChanged
<1>8. bearerMap' = [bearerMap EXCEPT ![f] = bearerMap[f] \cup {a}]
  BY <1>6, BearersChanged, Tables
<1>9. Families' = Families
  BY <1>1, <1>2, <1>4, RotatesFields DEF Families
<1>10. endedMap' = endedMap
  <2>1. Families \subseteq RefreshTokens
    BY Tables DEF Families
  <2> QED
    BY <1>4, <1>5, <1>9, <2>1 DEF endedMap
<1>11. usedMap' = usedMap \cup {next, a} /\ {next, a} \cap usedMap = {}
  BY <1>1, RotatesFields, Tables, SecretsAssumption DEF usedMap
<1>12. Family!Rotate(f, next, a)
  BY <1>4, <1>7, <1>8, <1>10, <1>11 DEF Family!Rotate
<1> QED
  BY <1>12 DEF FamilyStep, Family!FamilyNext

LEMMA WithdrawsIsWithdraw ==
    ASSUME IInv, NEW a \in AccessTokens, Withdraws(a)
    PROVE  FamilyStep
<1>1. UNCHANGED refresh
  BY DEF Withdraws
<1>2. holderMap' = holderMap /\ endedMap' = endedMap
  BY <1>1 DEF holderMap, LiveOf, endedMap, Families, Unrevoked, Issued
<1>3. usedMap' = usedMap
  BY <1>1, WithdrawsFields DEF usedMap, Issued
<1>4. PICK f : f = access[a].family
  OBVIOUS
<1>5. f \in RefreshTokens \cup {None}
  BY <1>4, WithdrawsFields DEF IInv, TypeOK, AccessRow, Issued
<1>6. \A g \in RefreshTokens \ {f} : Bearers(g)' = Bearers(g)
  BY <1>4, WithdrawsFields DEF Bearers, Unrevoked
<1>7. CASE f = None
  <2>1. bearerMap' = bearerMap
    BY <1>6, <1>7, BearersKept, OidcTokensAssumption
  <2> QED
    BY <1>2, <1>3, <2>1 DEF FamilyStep, Family!familyVars
<1>8. CASE f \in RefreshTokens
  <2>1. Bearers(f)' = Bearers(f) \ {a} /\ a \in Bearers(f)
    BY <1>4, WithdrawsFields DEF Bearers, Unrevoked
  <2>2. bearerMap' = [bearerMap EXCEPT ![f] = bearerMap[f] \ {a}] /\ a \in bearerMap[f]
    BY <1>6, <1>8, <2>1, BearersChanged, Tables
  <2>3. Family!Withdraw(f, a)
    BY <1>2, <1>3, <2>2 DEF Family!Withdraw
  <2> QED
    BY <1>8, <2>3 DEF FamilyStep, Family!FamilyNext
<1> QED
  BY <1>5, <1>7, <1>8

LEMMA RevokesIsEnd ==
    ASSUME IInv, NEW R, NEW A, Revokes(R, A)
    PROVE  FamilyStep
<1>1. PICK F : F = {f \in RefreshTokens : LiveOf(f) # {} /\ LiveOf(f)' = {}}
  OBVIOUS
<1>2. Families' = Families /\ usedMap' = usedMap
  BY RevokesFields DEF Families, usedMap
<1>3. ASSUME NEW f \in RefreshTokens
      PROVE  LiveOf(f)' = IF f \in F THEN {} ELSE LiveOf(f)
  <2>1. LiveOf(f)' \subseteq LiveOf(f)
    BY RevokesFields DEF LiveOf, Unrevoked
  <2>2. LiveOf(f)' = {} \/ LiveOf(f)' = LiveOf(f)
    <3>1. CASE LiveOf(f) = {}
      BY <2>1, <3>1
    <3>2. ASSUME NEW r \in LiveOf(f) PROVE LiveOf(f)' = {} \/ LiveOf(f)' = LiveOf(f)
      <4>1. LiveOf(f) = {r}
        BY LiveRows
      <4> QED
        BY <2>1, <4>1
    <3> QED
      BY <3>1, <3>2
  <2>3. f \in F <=> LiveOf(f) # {} /\ LiveOf(f)' = {}
    BY <1>1
  <2>4. CASE f \in F
    BY <2>3, <2>4
  <2>5. CASE f \notin F
    BY <2>1, <2>2, <2>3, <2>5
  <2> QED
    BY <2>4, <2>5
<1>4. ASSUME NEW f \in RefreshTokens
      PROVE  Bearers(f)' = IF f \in F THEN {} ELSE Bearers(f)
  <2>1. Bearers(f)' \subseteq Bearers(f)
    BY RevokesFields DEF Bearers, Unrevoked
  <2>2. CASE f \in F
    <3>1. PICK r \in LiveOf(f) : r \notin LiveOf(f)'
      BY <1>1, <2>2
    <3>2. r \in R /\ refresh[r].family = f
      BY <3>1, RevokesFields DEF LiveOf, Unrevoked
    <3>3. \A a \in Issued(access) : access[a].family = f => a \in A
      BY <3>2 DEF Revokes, WholeFamilies
    <3> QED
      BY <2>2, <3>3, RevokesFields DEF Bearers, Unrevoked
  <2>3. CASE LiveOf(f) = {}
    BY <1>1, <2>1, <2>3, LiveRows
  <2>4. CASE f \notin F /\ LiveOf(f) # {}
    <3>1. PICK q \in LiveOf(f) : q \in LiveOf(f)'
      BY <1>3, <2>4
    <3>2. q \in Issued(refresh) /\ refresh[q].family = f /\ q \notin R
      BY <3>1, RevokesFields DEF LiveOf, Unrevoked
    <3>3. \A r \in R : refresh[r].family # f
      BY <3>2 DEF Revokes, WholeFamilies
    <3>4. \A a \in A : access[a].family # f
      BY <3>3, OidcTokensAssumption DEF Revokes, WholeFamilies
    <3> QED
      BY <2>4, <3>4, RevokesFields DEF Bearers, Unrevoked
  <2> QED
    BY <2>2, <2>3, <2>4
<1>5. CASE F = {}
  <2>1. holderMap' = holderMap /\ bearerMap' = bearerMap
    BY <1>3, <1>4, <1>5, HoldersKept, BearersKept
  <2>2. endedMap' = endedMap
    BY <1>2, <1>3, <1>5, Tables DEF endedMap, Families
  <2> QED
    BY <1>2, <2>1, <2>2 DEF FamilyStep, Family!familyVars
<1>6. CASE F # {}
  <2>1. \A f \in F : holderMap[f] # None /\ f \in Families
    BY <1>1, LiveRows
  <2>2. holderMap' = [f \in RefreshTokens |-> IF f \in F THEN None ELSE holderMap[f]]
    BY <1>3, HolderOfOne DEF holderMap
  <2>3. bearerMap' = [f \in RefreshTokens |-> IF f \in F THEN {} ELSE bearerMap[f]]
    BY <1>4 DEF bearerMap, Bearers
  <2>4. endedMap' = endedMap \cup F
    <3>1. Families \subseteq RefreshTokens
      BY Tables DEF Families
    <3> QED
      BY <1>1, <1>2, <1>3, <2>1, <3>1 DEF endedMap
  <2>5. Family!End(F)
    BY <1>2, <1>6, <2>1, <2>2, <2>3, <2>4 DEF Family!End
  <2>6. F \in SUBSET RefreshTokens
    BY <1>1
  <2> QED
    BY <2>5, <2>6 DEF FamilyStep, Family!FamilyNext
<1> QED
  BY <1>5, <1>6

LEMMA InitIsFamilyInit == Init => Family!FamilyInit
<1> SUFFICES ASSUME Init PROVE Family!FamilyInit
  OBVIOUS
<1>1. Issued(refresh) = {} /\ Issued(access) = {}
  BY DEF Init, Issued
<1>2. \A f : LiveOf(f) = {} /\ Bearers(f) = {}
  BY <1>1 DEF LiveOf, Bearers, Unrevoked
<1>3. holderMap = [f \in RefreshTokens |-> None]
  BY <1>2, HolderOfOne DEF holderMap
<1>4. bearerMap = [f \in RefreshTokens |-> {}]
  BY <1>2 DEF bearerMap, Bearers
<1>5. endedMap = {} /\ usedMap = {}
  BY <1>1 DEF endedMap, Families, usedMap
<1> QED
  BY <1>3, <1>4, <1>5 DEF Family!FamilyInit

\* The tables implement the family protocol: whatever the endpoints do, the
\* usable tokens of a realm start, rotate and end as RefreshFamily says.
THEOREM TablesImplementFamilies == Spec => ImplementsRefreshFamily
<1>1. IInv /\ [Next]_vars => [Family!FamilyNext]_(Family!familyVars)
  <2> SUFFICES ASSUME IInv, TokenStep PROVE FamilyStep
    BY TokenSteps DEF FamilyStep
  <2> QED
    BY QuietIsNone, SpendsIsSpend, StartsIsStart, RotatesIsRotate, WithdrawsIsWithdraw,
       RevokesIsEnd DEF TokenStep
<1> QED
  BY <1>1, InitIsFamilyInit, InductiveInvariance, PTL
     DEF Spec, ImplementsRefreshFamily, Family!FamilySpec

-----------------------------------------------------------------------------
(* Families are counted against consumed codes.                            *)

Roots(c, s) == {r \in SessionRefresh(s) : refresh[r].client = c /\ refresh[r].family = r}

SpentCodes(c, s) ==
    {k \in Issued(code) :
        code[k].client = c /\ code[k].session = s /\ code[k].used /\ code[k].offline}

Counted(c, s) ==
    /\ IsFiniteSet(Roots(c, s)) /\ IsFiniteSet(SpentCodes(c, s))
    /\ Cardinality(Roots(c, s)) <= Cardinality(SpentCodes(c, s))

CodesCounted == \A c \in Clients, s \in Sessions : Counted(c, s)

\* One more element for one more, and more codes never hurt.
LEMMA CountTogether ==
    ASSUME NEW R, NEW K, NEW r, NEW k, IsFiniteSet(R), IsFiniteSet(K),
           Cardinality(R) <= Cardinality(K), k \notin K
    PROVE  /\ IsFiniteSet(R \cup {r}) /\ IsFiniteSet(K \cup {k})
           /\ Cardinality(R \cup {r}) <= Cardinality(K \cup {k})
           /\ Cardinality(R) <= Cardinality(K \cup {k})
<1>1. /\ IsFiniteSet(R \cup {r}) /\ IsFiniteSet(K \cup {k})
      /\ Cardinality(R) \in Nat /\ Cardinality(K) \in Nat
  BY FS_AddElement, FS_CardinalityType
<1>2. Cardinality(K \cup {k}) = Cardinality(K) + 1
  BY FS_AddElement
<1>3. Cardinality(R \cup {r}) <= Cardinality(R) + 1
  BY <1>1, FS_AddElement
<1> QED
  BY <1>1, <1>2, <1>3, FS_CardinalityType

LEMMA CountedWithCode ==
    ASSUME NEW c, NEW s, NEW k, NEW r, Counted(c, s), k \notin SpentCodes(c, s),
           SpentCodes(c, s)' = SpentCodes(c, s) \cup {k},
           Roots(c, s)' \in {Roots(c, s), Roots(c, s) \cup {r}}
    PROVE  Counted(c, s)'
<1>1. PICK R, K : R = Roots(c, s) /\ K = SpentCodes(c, s)
  OBVIOUS
<1>2. IsFiniteSet(R) /\ IsFiniteSet(K) /\ Cardinality(R) <= Cardinality(K)
  BY <1>1 DEF Counted
<1>3. /\ IsFiniteSet(R \cup {r}) /\ IsFiniteSet(K \cup {k})
      /\ Cardinality(R \cup {r}) <= Cardinality(K \cup {k})
      /\ Cardinality(R) <= Cardinality(K \cup {k})
  BY <1>1, <1>2, CountTogether
<1>4. SpentCodes(c, s)' = K \cup {k} /\ Roots(c, s)' \in {R, R \cup {r}}
  BY <1>1
<1> QED
  BY <1>2, <1>3, <1>4 DEF Counted

\* A code row that is written.
LEMMA CodeWritten ==
    ASSUME IInv, NEW k \in Codes, NEW row \in CodeRow, code' = [code EXCEPT ![k] = row]
    PROVE  /\ Issued(code)' = Issued(code) \cup {k}
           /\ code'[k] = row
           /\ \A j \in Issued(code) \ {k} : code'[j] = code[j]
<1>1. row # None
  BY NoneAssumption
<1> QED
  BY <1>1 DEF IInv, TypeOK, Issued

\* Consuming a code.
LEMMA CodeConsumed ==
    ASSUME IInv, NEW k \in Codes, CodeRedeemable(k), code' = [code EXCEPT ![k].used = TRUE],
           NEW c \in Clients, NEW s \in Sessions
    PROVE  /\ k \notin SpentCodes(c, s)
           /\ SpentCodes(c, s)' =
                IF code[k].offline /\ code[k].client = c /\ code[k].session = s
                THEN SpentCodes(c, s) \cup {k} ELSE SpentCodes(c, s)
<1> DEFINE row == [code[k] EXCEPT !.used = TRUE]
<1>1. code[k] \in CodeRow /\ ~code[k].used /\ k \in Issued(code)
  BY DEF CodeRedeemable, IInv, TypeOK, Issued
<1>2. /\ row \in CodeRow /\ row.used /\ row.client = code[k].client
      /\ row.session = code[k].session /\ row.offline = code[k].offline
  BY <1>1 DEF CodeRow
<1>3. code' = [code EXCEPT ![k] = row]
  OBVIOUS
<1> HIDE DEF row
<1>4. /\ Issued(code)' = Issued(code) \cup {k}
      /\ code'[k] = row
      /\ \A j \in Issued(code) \ {k} : code'[j] = code[j]
  BY <1>2, <1>3, CodeWritten
<1>5. k \notin SpentCodes(c, s)
  BY <1>1 DEF SpentCodes
<1>6. /\ \A j : j # k => (j \in SpentCodes(c, s)' <=> j \in SpentCodes(c, s))
      /\ k \in SpentCodes(c, s)' <=>
            code[k].offline /\ code[k].client = c /\ code[k].session = s
  <2>1. ASSUME NEW j, j # k
        PROVE  j \in SpentCodes(c, s)' <=> j \in SpentCodes(c, s)
    BY <1>4, <2>1 DEF SpentCodes
  <2>2. k \in Issued(code)' /\ code'[k].used /\ code'[k].client = code[k].client
        /\ code'[k].session = code[k].session /\ code'[k].offline = code[k].offline
    BY <1>2, <1>4
  <2>3. k \in SpentCodes(c, s)' <=>
            code[k].offline /\ code[k].client = c /\ code[k].session = s
    BY <2>2 DEF SpentCodes
  <2> QED
    BY <2>1, <2>3
<1>7. CASE code[k].offline /\ code[k].client = c /\ code[k].session = s
  <2>1. SpentCodes(c, s)' = SpentCodes(c, s) \cup {k}
    BY <1>6, <1>7
  <2> QED
    BY <1>5, <1>7, <2>1
<1>8. CASE ~(code[k].offline /\ code[k].client = c /\ code[k].session = s)
  <2>1. SpentCodes(c, s)' = SpentCodes(c, s)
    BY <1>5, <1>6, <1>8
  <2> QED
    BY <1>5, <1>8, <2>1
<1> QED
  BY <1>7, <1>8

LEMMA RootsOfRevokes ==
    ASSUME IInv, NEW R, NEW A, Revokes(R, A), NEW c \in Clients, NEW s \in Sessions
    PROVE  Roots(c, s)' = Roots(c, s)
BY RevokesFields DEF Roots, SessionRefresh

LEMMA RootsOfRotates ==
    ASSUME IInv, NEW r \in RefreshTokens, NEW next \in RefreshTokens, NEW a \in AccessTokens,
           Rotates(r, next, a), NEW c \in Clients, NEW s \in Sessions
    PROVE  Roots(c, s)' = Roots(c, s)
<1>1. refresh[r].family \in Issued(refresh)
  BY RotatesFields DEF IInv, Rooted, RefreshRooted, TypeOK, RefreshRow, Issued
<1>2. next # refresh[r].family /\ refresh'[next].family = refresh[r].family
  BY <1>1, RotatesFields
<1> QED
  BY <1>2, RotatesFields DEF Roots, SessionRefresh

\* No refresh or revocation begins a family or touches a code.
LEMMA OthersCountNothing ==
    ASSUME IInv, RefreshNext \/ RevokeNext, NEW c \in Clients, NEW s \in Sessions
    PROVE  Roots(c, s)' = Roots(c, s) /\ SpentCodes(c, s)' = SpentCodes(c, s)
<1>1. UNCHANGED code
  BY DEF RefreshNext, RefreshReplay, RefreshRotate, RevokeNext, AccessTokenRevoke,
         RefreshTokenRevoke, FamilyMeRevoke, FamilyRevoke, FamiliesMeRevokeAll, Logout
<1>2. SpentCodes(c, s)' = SpentCodes(c, s)
  BY <1>1 DEF SpentCodes, Issued
<1>3. CASE RefreshNext
  <2>1. ASSUME NEW r \in RefreshTokens, RefreshReplay(r)
        PROVE  Roots(c, s)' = Roots(c, s)
    BY <2>1, ReplayShape, RootsOfRevokes
  <2>2. ASSUME NEW r \in RefreshTokens, NEW a \in AccessTokens, NEW next \in RefreshTokens,
               NEW x \in SUBSET Scopes, RefreshRotate(r, a, next, x)
        PROVE  Roots(c, s)' = Roots(c, s)
    <3>1. Rotates(r, next, a)
      BY <2>2 DEF Rotates
    <3> QED
      BY <3>1, RootsOfRotates
  <2> QED
    BY <1>2, <1>3, <2>1, <2>2 DEF RefreshNext
<1>4. CASE RevokeNext
  <2>1. ASSUME NEW a \in AccessTokens, AccessTokenRevoke(a)
        PROVE  Roots(c, s)' = Roots(c, s)
    BY <2>1 DEF AccessTokenRevoke, Roots, SessionRefresh, Issued
  <2>2. ASSUME NEW r \in RefreshTokens, RefreshTokenRevoke(r)
        PROVE  Roots(c, s)' = Roots(c, s)
    BY <2>2, FamilyRevokeShape, RootsOfRevokes
  <2>3. ASSUME NEW u \in Users, FamiliesMeRevokeAll(u)
        PROVE  Roots(c, s)' = Roots(c, s)
    BY <2>3, FamiliesMeRevokeAllShape, RootsOfRevokes
  <2>4. ASSUME NEW u \in Users, NEW f \in RefreshTokens, FamilyMeRevoke(u, f)
        PROVE  Roots(c, s)' = Roots(c, s)
    BY <2>4, FamilyMeRevokeShape, RootsOfRevokes
  <2>5. ASSUME NEW d \in Clients, NEW t \in Sessions, Logout(d, t)
        PROVE  Roots(c, s)' = Roots(c, s)
    BY <2>5, LogoutShape, RootsOfRevokes
  <2> QED
    BY <1>2, <1>4, <2>1, <2>2, <2>3, <2>4, <2>5 DEF RevokeNext
<1> QED
  BY <1>2, <1>3, <1>4

LEMMA ExchangeCounts ==
    ASSUME IInv, NEW k \in Codes, NEW a \in AccessTokens, NEW r \in RefreshTokens,
           AuthorizationCodeExchange(k, a, r), NEW c \in Clients, NEW s \in Sessions,
           Counted(c, s)
    PROVE  Counted(c, s)'
<1> DEFINE mine == code[k].offline /\ code[k].client = c /\ code[k].session = s
<1>1. /\ k \notin SpentCodes(c, s)
      /\ SpentCodes(c, s)' = IF mine THEN SpentCodes(c, s) \cup {k} ELSE SpentCodes(c, s)
  <2>1. CodeRedeemable(k) /\ code' = [code EXCEPT ![k].used = TRUE]
    BY DEF AuthorizationCodeExchange
  <2> QED
    BY <2>1, CodeConsumed
<1>2. Roots(c, s)' = IF mine THEN Roots(c, s) \cup {r} ELSE Roots(c, s)
  <2>1. CASE ~code[k].offline
    <3>1. refresh' = refresh /\ ~mine
      BY <2>1 DEF AuthorizationCodeExchange
    <3> QED
      BY <3>1 DEF Roots, SessionRefresh, Issued
  <2>2. CASE code[k].offline
    <3> DEFINE mint == RefreshMint(code[k].client, code[k].session, r, code[k].scope, now)
    <3>1. refresh' = [refresh EXCEPT ![r] = mint]
      BY <2>2 DEF AuthorizationCodeExchange
    <3>2. code[k] \in CodeRow /\ now \in Nat
      BY DEF AuthorizationCodeExchange, CodeRedeemable, IInv, TypeOK
    <3>3. mint \in RefreshRow
      BY <3>2, MintTypes DEF IInv, CodeRow
    <3>4. mint.family = r /\ mint.client = code[k].client /\ mint.session = code[k].session
      BY DEF RefreshMint
    <3> HIDE DEF mint
    <3>5. refresh \in [RefreshTokens -> RefreshRow \cup {None}] /\ r \notin Issued(refresh)
      BY DEF IInv, TypeOK, Issued, AuthorizationCodeExchange
    <3>6. /\ Issued(refresh)' = Issued(refresh) \cup {r}
          /\ refresh'[r] = mint
          /\ \A q \in Issued(refresh) : q # r => refresh'[q] = refresh[q]
      BY <3>1, <3>3, <3>5, NewRefresh
    <3> QED
      BY <2>2, <3>4, <3>5, <3>6 DEF Roots, SessionRefresh
  <2> QED
    BY <2>1, <2>2
<1>3. CASE mine
  BY <1>1, <1>2, <1>3, CountedWithCode
<1>4. CASE ~mine
  BY <1>1, <1>2, <1>4 DEF Counted
<1> QED
  BY <1>3, <1>4

LEMMA RedeemCounts ==
    ASSUME IInv, NEW k \in Codes, AuthorizationCodeRedeem(k),
           NEW c \in Clients, NEW s \in Sessions, Counted(c, s)
    PROVE  Counted(c, s)'
<1>1. /\ k \notin SpentCodes(c, s)
      /\ \/ SpentCodes(c, s)' = SpentCodes(c, s) \cup {k}
         \/ SpentCodes(c, s)' = SpentCodes(c, s)
  <2>1. CodeRedeemable(k) /\ code' = [code EXCEPT ![k].used = TRUE]
    BY DEF AuthorizationCodeRedeem
  <2>2. /\ k \notin SpentCodes(c, s)
        /\ SpentCodes(c, s)' =
              IF code[k].offline /\ code[k].client = c /\ code[k].session = s
              THEN SpentCodes(c, s) \cup {k} ELSE SpentCodes(c, s)
    BY <2>1, CodeConsumed
  <2> QED
    BY <2>2
<1>2. Roots(c, s)' = Roots(c, s)
  BY DEF AuthorizationCodeRedeem, Roots, SessionRefresh, Issued
<1>3. CASE SpentCodes(c, s)' = SpentCodes(c, s) \cup {k}
  BY <1>1, <1>2, <1>3, CountedWithCode
<1>4. CASE SpentCodes(c, s)' = SpentCodes(c, s)
  BY <1>2, <1>4 DEF Counted
<1> QED
  BY <1>1, <1>3, <1>4

LEMMA IssueCounts ==
    ASSUME IInv, NEW k \in Codes, NEW d \in Clients, NEW t \in Sessions,
           NEW offline \in BOOLEAN, NEW x \in SUBSET Scopes,
           AuthorizationCodeIssue(k, d, t, offline, x), NEW c \in Clients, NEW s \in Sessions
    PROVE  Roots(c, s)' = Roots(c, s) /\ SpentCodes(c, s)' = SpentCodes(c, s)
<1>1. Roots(c, s)' = Roots(c, s)
  BY DEF AuthorizationCodeIssue, Roots, SessionRefresh, Issued
<1> DEFINE row == [client |-> d, session |-> t, offline |-> offline, scope |-> x,
                   expiresAt |-> now + CodeLifetime, used |-> FALSE]
<1>2. row \in CodeRow /\ ~row.used
  BY OidcTokensAssumption DEF CodeRow, IInv, TypeOK
<1>3. code' = [code EXCEPT ![k] = row] /\ k \notin Issued(code)
  BY DEF AuthorizationCodeIssue, Issued
<1> HIDE DEF row
<1>4. /\ Issued(code)' = Issued(code) \cup {k}
      /\ code'[k] = row
      /\ \A j \in Issued(code) \ {k} : code'[j] = code[j]
  BY <1>2, <1>3, CodeWritten
<1> QED
  BY <1>1, <1>2, <1>3, <1>4 DEF SpentCodes

LEMMA CodesCountedStep == IInv /\ CodesCounted /\ [Next]_vars => CodesCounted'
<1> SUFFICES ASSUME IInv, CodesCounted, [Next]_vars, NEW c \in Clients, NEW s \in Sessions
             PROVE  Counted(c, s)'
  BY DEF CodesCounted
<1>1. Counted(c, s)
  BY DEF CodesCounted
<1>2. CASE EnvironmentNext \/ UNCHANGED vars
  <2>1. UNCHANGED <<code, refresh>>
    BY <1>2 DEF EnvironmentNext, Tick, SigningKeyChange, SessionIssue, SessionResume, SessionsRevoke,
                UserDelete, UserLifecycleSet, ClientContextChange, ClientUpdate,
                ClientLifecycleSet, rows, vars
  <2>2. Roots(c, s)' = Roots(c, s) /\ SpentCodes(c, s)' = SpentCodes(c, s)
    BY <2>1 DEF Roots, SessionRefresh, SpentCodes, Issued
  <2> QED
    BY <1>1, <2>2 DEF Counted
<1>3. CASE CodeNext
  <2>1. ASSUME NEW k \in Codes, NEW d \in Clients, NEW t \in Sessions,
               NEW offline \in BOOLEAN, NEW x \in SUBSET Scopes,
               AuthorizationCodeIssue(k, d, t, offline, x)
        PROVE  Counted(c, s)'
    BY <1>1, <2>1, IssueCounts DEF Counted
  <2> QED
    BY <1>1, <1>3, <2>1, RedeemCounts, ExchangeCounts DEF CodeNext
<1>4. CASE RefreshNext \/ RevokeNext
  BY <1>1, <1>4, OthersCountNothing DEF Counted
<1> QED
  BY <1>2, <1>3, <1>4 DEF Next

LEMMA InitCodesCounted == Init => CodesCounted
<1> SUFFICES ASSUME Init, NEW c \in Clients, NEW s \in Sessions PROVE Counted(c, s)
  BY DEF CodesCounted
<1>1. Roots(c, s) = {} /\ SpentCodes(c, s) = {}
  BY DEF Init, Issued, Roots, SessionRefresh, SpentCodes
<1> QED
  BY <1>1, FS_EmptySet DEF Counted

\* A grant of offline access begets one family of refresh tokens: no code
\* begets two, and no family begins without one.
THEOREM FamiliesNeedCodes == Spec => []CodeBegetsOneFamily
<1>1. IInv /\ CodesCounted /\ [Next]_vars => CodesCounted'
  BY CodesCountedStep
<1>2. CodesCounted => CodeBegetsOneFamily
  BY DEF CodesCounted, Counted, CodeBegetsOneFamily, Roots, SpentCodes
<1> QED
  BY <1>1, <1>2, InitCodesCounted, InductiveInvariance, PTL DEF Spec


-----------------------------------------------------------------------------
(* Sessions, as the token endpoints see them, live a SessionLife; and that *)
(* is all these endpoints assume of them.                                  *)

LifeOf(s) ==
    [owner |-> Owner[s], expiresAt |-> session[s].expiresAt, revoked |-> session[s].revoked]

LEMMA LifeByEntries ==
    /\ lifeMap = [s \in Issued(session) |-> LifeOf(s)]
    /\ lifeMap' = [s \in Issued(session)' |-> LifeOf(s)']
BY DEF lifeMap, LifeOf

LEMMA IssueIsBirth ==
    ASSUME TypeOK, NEW s \in Sessions, NEW lifetime \in SessionLifetimes,
           SessionIssue(s, lifetime)
    PROVE  Life!LifeBegins(s, Owner[s], lifetime)
<1> DEFINE row == [expiresAt |-> now + lifetime, revoked |-> FALSE]
<1>1. row \in SessionRow
  BY OidcTokensAssumption DEF TypeOK, SessionRow
<1>2. row # None /\ session[s] = None /\ now' = now /\ session' = [session EXCEPT ![s] = row]
  BY <1>1, NoneAssumption DEF SessionIssue
<1>3. session'[s] = row /\ \A t \in Sessions \ {s} : session'[t] = session[t]
  BY <1>2 DEF TypeOK
<1>4. DOMAIN session = Sessions /\ DOMAIN session' = Sessions
  BY <1>2 DEF TypeOK
<1>5. Issued(session)' = Issued(session) \cup {s} /\ s \notin Issued(session)
  BY <1>2, <1>3, <1>4 DEF Issued
<1>6. LifeOf(s)' = Life!Entry(Owner[s], now + lifetime, FALSE)
  BY <1>3 DEF LifeOf, Life!Entry
<1>7. \A t \in Issued(session) : LifeOf(t)' = LifeOf(t)
  BY <1>3, <1>4, <1>5 DEF LifeOf, Issued
<1>8. lifeMap' = [t \in Issued(session) \cup {s} |->
                    IF t = s THEN Life!Entry(Owner[s], now + lifetime, FALSE) ELSE lifeMap[t]]
  BY <1>5, <1>6, <1>7, LifeByEntries
<1>9. DOMAIN lifeMap = Issued(session)
  BY LifeByEntries
<1> QED
  BY <1>2, <1>5, <1>8, <1>9 DEF Life!LifeBegins, Life!Begun

LEMMA ResumeIsShortening ==
    ASSUME TypeOK, NEW s \in Sessions, NEW lifetime \in SessionLifetimes,
           SessionResume(s, lifetime)
    PROVE  Life!LifeIsShortened(s, lifetime)
<1>1. /\ Issued(session)' = Issued(session) /\ s \in Issued(session) /\ now' = now
      /\ ~session[s].revoked /\ ~session'[s].revoked
      /\ session'[s].expiresAt = Smaller(session[s].expiresAt, now + lifetime)
      /\ \A t \in Sessions \ {s} : session'[t] = session[t]
  BY ResumeSessionFields DEF SessionResume
<1>2. DOMAIN session = Sessions /\ session[s] \in SessionRow /\ session'[s] \in SessionRow
  BY <1>1, ResumeSessionFields DEF TypeOK, Issued
<1>3. LifeOf(s)' = Life!Entry(LifeOf(s).owner,
                              Life!Earlier(LifeOf(s).expiresAt, now + lifetime), FALSE)
  BY <1>1, <1>2 DEF LifeOf, Life!Entry, Life!Earlier, Smaller, SessionRow
<1>4. \A t \in Issued(session) \ {s} : LifeOf(t)' = LifeOf(t)
  BY <1>1, <1>2 DEF LifeOf, Issued
<1>5. DOMAIN lifeMap = Issued(session) /\ \A t \in Issued(session) : lifeMap[t] = LifeOf(t)
  BY LifeByEntries
<1>6. Life!Lives(s)
  BY <1>1, <1>5 DEF Life!Lives, LifeOf, SessionResume, SessionLive
<1>7. lifeMap' = [t \in Issued(session) |->
          IF t = s
          THEN Life!Entry(lifeMap[t].owner, Life!Earlier(lifeMap[t].expiresAt, now + lifetime), FALSE)
          ELSE lifeMap[t]]
  BY <1>1, <1>3, <1>4, <1>5, LifeByEntries
<1> QED
  BY <1>1, <1>5, <1>6, <1>7 DEF Life!LifeIsShortened, Life!Begun

\* A logout may name a session that is revoked already, which does not count.
LEMMA RevocationIsDeath ==
    ASSUME TypeOK, NEW S \in SUBSET Issued(session), session' = Revoke(session, S), now' = now
    PROVE  \E T \in SUBSET Issued(session) : Life!LivesAreRevoked(T)
<1> DEFINE T == {s \in S : ~session[s].revoked}
<1>1. /\ Issued(session)' = Issued(session)
      /\ \A s \in Issued(session) :
            /\ session'[s].expiresAt = session[s].expiresAt
            /\ session'[s].revoked = IF s \in S THEN TRUE ELSE session[s].revoked
  BY RevokeSessionFields
<1>2. \A s \in Issued(session) : session[s].revoked \in BOOLEAN
  BY DEF TypeOK, Issued, SessionRow
<1>3. \A s \in T : s \in Issued(session) /\ LifeOf(s)' = Life!Entry(LifeOf(s).owner, LifeOf(s).expiresAt, TRUE)
  BY <1>1 DEF LifeOf, Life!Entry
<1>4. \A s \in Issued(session) \ T : LifeOf(s)' = LifeOf(s)
  BY <1>1, <1>2 DEF LifeOf
<1>5. DOMAIN lifeMap = Issued(session) /\ \A t \in Issued(session) : lifeMap[t] = LifeOf(t)
  BY LifeByEntries
<1>6. \A s \in T : ~lifeMap[s].revoked
  BY <1>3, <1>5 DEF LifeOf
<1> HIDE DEF T
<1>7. lifeMap' = [t \in Issued(session) |->
          IF t \in T THEN Life!Entry(lifeMap[t].owner, lifeMap[t].expiresAt, TRUE) ELSE lifeMap[t]]
  BY <1>1, <1>3, <1>4, <1>5, LifeByEntries
<1>8. Life!LivesAreRevoked(T)
  BY <1>5, <1>6, <1>7 DEF Life!LivesAreRevoked, Life!Begun
<1>9. T \in SUBSET Issued(session)
  BY DEF T
<1> QED
  BY <1>8, <1>9

\* ImplementsSessionLife: of all that the token endpoints do, only the logout
\* touches a session, and it ends it.
THEOREM TokensRespectSessions == Spec => ImplementsSessionLife
<1>1. Init => Life!LifeInit
  <2> SUFFICES ASSUME Init PROVE Life!LifeInit
    OBVIOUS
  <2>1. Issued(session) = {} /\ now = 0
    BY DEF Init, Issued
  <2>2. lifeMap = [s \in {} |-> 0]
    BY <2>1 DEF lifeMap
  <2> QED
    BY <2>1, <2>2 DEF Life!LifeInit
<1>2. TypeOK /\ [Next]_vars => [Life!LifeNext]_(Life!lifeVars)
  <2> SUFFICES ASSUME TypeOK, [Next]_vars PROVE [Life!LifeNext]_(Life!lifeVars)
    OBVIOUS
  <2>1. Life!Begun = Issued(session)
    BY LifeByEntries DEF Life!Begun
  <2>2. CASE UNCHANGED session
    <3>1. lifeMap' = lifeMap
      BY <2>2 DEF lifeMap, Issued
    <3>2. now' = now \/ now' = now + 1
      BY SessionChanges DEF Tick
    <3> QED
      BY <3>1, <3>2 DEF Life!lifeVars, Life!LifeNext, Life!LifePasses
  <2>3. ASSUME NEW s \in Sessions, NEW lifetime \in SessionLifetimes, SessionIssue(s, lifetime)
        PROVE  Life!LifeNext
    BY <2>3, IssueIsBirth, OidcTokensAssumption DEF Life!LifeNext
  <2>4. ASSUME NEW s \in Sessions, NEW lifetime \in SessionLifetimes, SessionResume(s, lifetime)
        PROVE  Life!LifeNext
    BY <2>4, ResumeIsShortening DEF Life!LifeNext
  <2>5. ASSUME now' = now, NEW S \in SUBSET Issued(session), session' = Revoke(session, S)
        PROVE  Life!LifeNext
    BY <2>1, <2>5, RevocationIsDeath DEF Life!LifeNext
  <2> QED
    BY <2>2, <2>3, <2>4, <2>5, SessionChanges DEF SessionChange
<1> QED
  BY <1>1, <1>2, TypeCorrectness, PTL DEF Spec, ImplementsSessionLife, Life!LifeSpec

\* A table of sessions is what their lives say.
LEMMA RowFromLife ==
    ASSUME NEW table \in [Sessions -> SessionRow \cup {None}], NEW lives,
           lives = [s \in Issued(table) |->
                      [owner |-> Owner[s], expiresAt |-> table[s].expiresAt,
                       revoked |-> table[s].revoked]]
    PROVE  /\ DOMAIN lives = Issued(table)
           /\ \A s \in Issued(table) :
                /\ s \in Sessions /\ table[s] \in SessionRow /\ table[s] # None
                /\ table[s] = [expiresAt |-> lives[s].expiresAt, revoked |-> lives[s].revoked]
                /\ lives[s].owner = Owner[s]
                /\ table[s].expiresAt = lives[s].expiresAt
                /\ table[s].revoked = lives[s].revoked
           /\ \A s \in Sessions \ Issued(table) : table[s] = None
<1>1. \A s \in Issued(table) : s \in Sessions /\ table[s] \in SessionRow /\ table[s] # None
  BY DEF Issued
<1>2. ASSUME NEW row \in SessionRow
      PROVE  row = [expiresAt |-> row.expiresAt, revoked |-> row.revoked]
  BY DEF SessionRow
<1>3. \A s \in Issued(table) :
        /\ lives[s].owner = Owner[s] /\ lives[s].expiresAt = table[s].expiresAt
        /\ lives[s].revoked = table[s].revoked
  OBVIOUS
<1> QED
  BY <1>1, <1>2, <1>3 DEF Issued

LEMMA SameRow ==
    ASSUME NEW r \in SessionRow, NEW q \in SessionRow,
           r.expiresAt = q.expiresAt, r.revoked = q.revoked
    PROVE  r = q
BY DEF SessionRow

LEMMA RowShortened ==
    ASSUME NEW row \in SessionRow, NEW e \in Nat, ~row.revoked
    PROVE  [row EXCEPT !.expiresAt = e] = [expiresAt |-> e, revoked |-> FALSE]
<1> DEFINE r == [row EXCEPT !.expiresAt = e]
           q == [expiresAt |-> e, revoked |-> FALSE]
<1>1. r \in SessionRow /\ r.expiresAt = e /\ ~r.revoked
  BY DEF SessionRow
<1>2. q \in SessionRow /\ q.expiresAt = e /\ ~q.revoked
  BY DEF SessionRow
<1>3. r.revoked = q.revoked
  <2>1. r.revoked \in BOOLEAN /\ q.revoked \in BOOLEAN
    BY <1>1, <1>2 DEF SessionRow
  <2> HIDE DEF r, q
  <2> QED
    BY <1>1, <1>2, <2>1
<1> HIDE DEF r, q
<1> QED
  BY <1>1, <1>2, <1>3, SameRow DEF r, q

LEMMA RowRevoked ==
    ASSUME NEW row \in SessionRow
    PROVE  [row EXCEPT !.revoked = TRUE] = [expiresAt |-> row.expiresAt, revoked |-> TRUE]
<1> DEFINE r == [row EXCEPT !.revoked = TRUE]
           q == [expiresAt |-> row.expiresAt, revoked |-> TRUE]
<1>1. r \in SessionRow /\ r.expiresAt = row.expiresAt /\ r.revoked = TRUE
  BY DEF SessionRow
<1>2. q \in SessionRow /\ q.expiresAt = row.expiresAt /\ q.revoked = TRUE
  BY DEF SessionRow
<1> HIDE DEF r, q
<1>3. r = q
  BY <1>1, <1>2, SameRow
<1> QED
  BY <1>3 DEF r, q

\* Two tables of the same lives are one.
LEMMA SameLivesSameTable ==
    ASSUME NEW t \in [Sessions -> SessionRow \cup {None}],
           NEW u \in [Sessions -> SessionRow \cup {None}],
           Issued(t) = Issued(u),
           \A s \in Issued(t) : t[s].expiresAt = u[s].expiresAt /\ t[s].revoked = u[s].revoked
    PROVE  t = u
<1>2. \A s \in Issued(t) : s \in Sessions /\ t[s] \in SessionRow /\ u[s] \in SessionRow
  BY DEF Issued
<1>3. \A s \in Issued(t) : t[s] = u[s]
  BY <1>2, SameRow
<1>4. \A s \in Sessions \ Issued(t) : t[s] = u[s]
  BY DEF Issued
<1> QED
  BY <1>3, <1>4

\* Whatever sessions may do by SessionLife, to any of them and at any moment, is
\* a step that the other theorems about the token endpoints have accounted for.
\* With SessionsImplementLife of Sessions_proofs, they hold under what Sessions
\* does: sign-ins, resumes, impersonations, single and mass revocations.
THEOREM SessionsMayLiveAnyLife ==
    ASSUME TypeOK, TypeOK', now' <= MaxTime, Life!LifeNext,
           UNCHANGED <<user, client, signingKey, code, refresh, access, auditLog>>
    PROVE  Next \/ UNCHANGED vars
<1>1. /\ session \in [Sessions -> SessionRow \cup {None}]
      /\ session' \in [Sessions -> SessionRow \cup {None}]
      /\ now \in Nat /\ now' \in Nat /\ MaxTime \in Nat
  BY OidcTokensAssumption DEF TypeOK
<1>2. /\ DOMAIN lifeMap = Issued(session)
      /\ \A s \in Issued(session) :
           /\ s \in Sessions /\ session[s] \in SessionRow /\ session[s] # None
           /\ session[s] = [expiresAt |-> lifeMap[s].expiresAt, revoked |-> lifeMap[s].revoked]
           /\ session[s].expiresAt = lifeMap[s].expiresAt /\ session[s].revoked = lifeMap[s].revoked
      /\ \A s \in Sessions \ Issued(session) : session[s] = None
  <2>1. lifeMap = [s \in Issued(session) |->
          [owner |-> Owner[s], expiresAt |-> session[s].expiresAt, revoked |-> session[s].revoked]]
    BY DEF lifeMap
  <2> QED
    BY <1>1, <2>1, RowFromLife
<1>3. /\ DOMAIN lifeMap' = Issued(session')
      /\ \A s \in Issued(session') :
           /\ s \in Sessions /\ session'[s] \in SessionRow /\ session'[s] # None
           /\ session'[s] = [expiresAt |-> lifeMap'[s].expiresAt, revoked |-> lifeMap'[s].revoked]
           /\ session'[s].expiresAt = lifeMap'[s].expiresAt /\ session'[s].revoked = lifeMap'[s].revoked
      /\ \A s \in Sessions \ Issued(session') : session'[s] = None
  <2>1. lifeMap' = [s \in Issued(session') |->
          [owner |-> Owner[s], expiresAt |-> session'[s].expiresAt, revoked |-> session'[s].revoked]]
    <3>1. lifeMap' = [s \in Issued(session)' |->
            [owner |-> Owner[s], expiresAt |-> session'[s].expiresAt, revoked |-> session'[s].revoked]]
      BY DEF lifeMap
    <3>2. Issued(session)' = Issued(session')
      BY DEF Issued
    <3> QED
      BY <3>1, <3>2
  <2> QED
    BY <1>1, <2>1, RowFromLife
<1>4. Life!Begun = Issued(session)
  BY <1>2 DEF Life!Begun
<1>5. CASE Life!LifePasses
  <2>1. Issued(session) = Issued(session')
        /\ \A s \in Issued(session) : session[s].expiresAt = session'[s].expiresAt
                                      /\ session[s].revoked = session'[s].revoked
    BY <1>2, <1>3, <1>5 DEF Life!LifePasses
  <2>2. session' = session
    BY <1>1, <2>1, SameLivesSameTable
  <2>3. Tick
    BY <1>1, <1>5, <2>2 DEF Life!LifePasses, Tick, rows, auditLog
  <2> QED
    BY <2>3 DEF Next, EnvironmentNext
<1>6. ASSUME NEW s \in Sessions, NEW p \in Users, NEW lifetime \in SessionLifetimes,
             Life!LifeBegins(s, p, lifetime)
      PROVE  Next
  <2>1. s \notin Issued(session) /\ now' = now
        /\ lifeMap' = [x \in Issued(session) \cup {s} |->
              IF x = s THEN Life!Entry(p, now + lifetime, FALSE) ELSE lifeMap[x]]
    BY <1>4, <1>6 DEF Life!LifeBegins
  <2>2. Issued(session') = Issued(session) \cup {s}
    BY <1>3, <2>1
  <2>3. session'[s] = [expiresAt |-> now + lifetime, revoked |-> FALSE]
    BY <1>3, <2>1, <2>2 DEF Life!Entry
  <2>4. ASSUME NEW t \in Sessions \ {s}
        PROVE  session'[t] = session[t]
    <3>1. CASE t \in Issued(session)
      <4>1. lifeMap'[t] = lifeMap[t] /\ t \in Issued(session')
        BY <2>1, <2>2, <3>1
      <4>2. session'[t] = [expiresAt |-> lifeMap'[t].expiresAt, revoked |-> lifeMap'[t].revoked]
        BY <1>3, <4>1
      <4>3. session[t] = [expiresAt |-> lifeMap[t].expiresAt, revoked |-> lifeMap[t].revoked]
        BY <1>2, <3>1
      <4> QED
        BY <4>1, <4>2, <4>3
    <3>2. CASE t \notin Issued(session)
      BY <1>2, <1>3, <2>2, <3>2
    <3> QED
      BY <3>1, <3>2
  <2>5. SessionIssue(s, lifetime)
    BY <1>1, <1>2, <2>1, <2>3, <2>4 DEF SessionIssue, auditLog
  <2> QED
    BY <2>5 DEF Next, EnvironmentNext
<1>7. ASSUME NEW s \in Sessions, NEW lifetime \in SessionLifetimes,
             Life!LifeIsShortened(s, lifetime)
      PROVE  Next
  <2>1. /\ s \in Issued(session) /\ now' = now
        /\ ~lifeMap[s].revoked /\ lifeMap[s].expiresAt > now
        /\ lifeMap' = [x \in Issued(session) |->
             IF x = s
             THEN Life!Entry(lifeMap[x].owner, Life!Earlier(lifeMap[x].expiresAt, now + lifetime), FALSE)
             ELSE lifeMap[x]]
    BY <1>4, <1>7 DEF Life!LifeIsShortened, Life!Lives
  <2>2. Issued(session') = Issued(session)
    BY <1>3, <2>1
  <2> DEFINE e == Smaller(session[s].expiresAt, now + lifetime)
  <2>3. session'[s] = [expiresAt |-> e, revoked |-> FALSE]
    BY <1>2, <1>3, <2>1, <2>2 DEF Life!Entry, Life!Earlier, Smaller
  <2>4. session[s] \in SessionRow /\ ~session[s].revoked
    BY <1>2, <2>1
  <2>5. [session[s] EXCEPT !.expiresAt = e] = [expiresAt |-> e, revoked |-> FALSE]
    <3>1. now + lifetime \in Nat /\ session[s].expiresAt \in Nat
      BY <1>1, <2>4, OidcTokensAssumption DEF SessionRow
    <3>2. e \in Nat
      BY <3>1 DEF Smaller
    <3> QED
      BY <2>4, <3>2, RowShortened
  <2> HIDE DEF e
  <2>6. ASSUME NEW t \in Sessions \ {s}
        PROVE  session'[t] = session[t]
    <3>1. CASE t \in Issued(session)
      <4>1. lifeMap'[t] = lifeMap[t] /\ t \in Issued(session')
        BY <2>1, <2>2, <3>1
      <4>2. session'[t] = [expiresAt |-> lifeMap'[t].expiresAt, revoked |-> lifeMap'[t].revoked]
        BY <1>3, <4>1
      <4>3. session[t] = [expiresAt |-> lifeMap[t].expiresAt, revoked |-> lifeMap[t].revoked]
        BY <1>2, <3>1
      <4> QED
        BY <4>1, <4>2, <4>3
    <3>2. CASE t \notin Issued(session)
      BY <1>2, <1>3, <2>2, <3>2
    <3> QED
      BY <3>1, <3>2
  <2>7. session' = [session EXCEPT ![s] = [session[s] EXCEPT !.expiresAt = e]]
    BY <1>1, <1>2, <2>1, <2>3, <2>5, <2>6
  <2>8. session' = [session EXCEPT ![s].expiresAt = Smaller(@, now + lifetime)]
    BY <1>1, <2>7 DEF e
  <2>9. SessionResume(s, lifetime)
    BY <1>2, <2>1, <2>8 DEF SessionResume, SessionLive, auditLog
  <2> QED
    BY <2>9 DEF Next, EnvironmentNext
<1>8. ASSUME NEW S \in SUBSET Issued(session), Life!LivesAreRevoked(S)
      PROVE  Next
  <2>1. /\ \A s \in S : ~lifeMap[s].revoked
        /\ now' = now
        /\ lifeMap' = [x \in Issued(session) |->
             IF x \in S THEN Life!Entry(lifeMap[x].owner, lifeMap[x].expiresAt, TRUE) ELSE lifeMap[x]]
    BY <1>4, <1>8 DEF Life!LivesAreRevoked
  <2>2. Issued(session') = Issued(session)
    BY <1>3, <2>1
  <2>3. ASSUME NEW s \in S
        PROVE  session'[s] = [session[s] EXCEPT !.revoked = TRUE]
    <3>1. session'[s] = [expiresAt |-> session[s].expiresAt, revoked |-> TRUE]
      BY <1>2, <1>3, <2>1, <2>2 DEF Life!Entry
    <3>2. session[s] \in SessionRow
      BY <1>2
    <3> QED
      BY <3>1, <3>2, RowRevoked
  <2>4. ASSUME NEW t \in Sessions \ S
        PROVE  session'[t] = session[t]
    <3>1. CASE t \in Issued(session)
      <4>1. lifeMap'[t] = lifeMap[t] /\ t \in Issued(session')
        BY <2>1, <2>2, <3>1
      <4>2. session'[t] = [expiresAt |-> lifeMap'[t].expiresAt, revoked |-> lifeMap'[t].revoked]
        BY <1>3, <4>1
      <4>3. session[t] = [expiresAt |-> lifeMap[t].expiresAt, revoked |-> lifeMap[t].revoked]
        BY <1>2, <3>1
      <4> QED
        BY <4>1, <4>2, <4>3
    <3>2. CASE t \notin Issued(session)
      BY <1>2, <1>3, <2>2, <3>2
    <3> QED
      BY <3>1, <3>2
  <2>5. session' = Revoke(session, S)
    BY <1>1, <2>3, <2>4 DEF Revoke
  <2>6. \A s \in S : session[s] # None /\ ~session[s].revoked
    BY <1>2, <2>1
  <2>7. SessionsRevoke(S) /\ S \in SUBSET Sessions
    BY <1>2, <2>1, <2>5, <2>6 DEF SessionsRevoke, auditLog
  <2> QED
    BY <2>7 DEF Next, EnvironmentNext
<1> QED
  BY <1>4, <1>5, <1>6, <1>7, <1>8 DEF Life!LifeNext
=============================================================================
