------------------------ MODULE ExternalIdentities_proofs ------------------------
(***************************************************************************)
(* Proofs about ExternalIdentities, for any number of users, providers,    *)
(* transactions and callbacks, any lifetimes and a clock without a bound   *)
(* that matters.                                                           *)
(***************************************************************************)
EXTENDS ExternalIdentities, FiniteSetTheorems, TLAPS

Change == [Next]_vars

\* What a transaction's row says of its history: it grants once and is
\* consumed then, and its version tells whether a subject has been stored.
RowSound(t) ==
    /\ granted[t] <= 1
    /\ granted[t] > 0 => row[t] # None /\ row[t].consumed
    /\ row[t] # None =>
        /\ row[t].version >= 1
        /\ row[t].intent = "sign_in" => row[t].subject = None
        /\ row[t].subject # None => /\ row[t].version >= 2
                                    /\ claim[t] # None
                                    /\ claim[t].subject = row[t].subject
        /\ row[t].intent = "link" /\ row[t].subject = None
                => row[t].version = 1 /\ ~row[t].consumed

\* What a callback has read: its row was open, and if it is a link's, new.
ReadSound(q) ==
    Is(q, "callback") =>
        /\ row[request[q].row] # None
        /\ row[request[q].row].intent = "link" => request[q].version = 1

\* When it has read it.
ReadInTime(q) ==
    Is(q, "callback") =>
        /\ request[q].at < row[request[q].row].expiresAt
        /\ request[q].at <= now
        /\ now <= request[q].at + ExchangeMax
        /\ \/ provider[row[request[q].row].provider].enabled
           \/ provider[row[request[q].row].provider].disabledAt >= request[q].at

\* A linked subject belongs to an account that has a row, and is founded.
Founded(s) ==
    identity[s] # None => HasRow(identity[s]) /\ \E t \in Rows : Founds(t, s)

RowsSound == \A t \in Rows : RowSound(t)
ReadsSound == \A q \in Requests : ReadSound(q) /\ ReadInTime(q)
AllFounded == \A s \in Subjects : Founded(s)

IInv == TypeOK /\ RowsSound /\ ReadsSound /\ AllFounded

LEMMA NoneFacts ==
  /\ \A r \in OAuthRow : r # None
  /\ \A r \in PasskeyRow : r # None
  /\ \A r \in Request : r # None
  /\ \A r \in Claim : r # None
  /\ \A u \in Users : u # None
  /\ \A s \in Subjects : s # None
  BY NoneAssumption, ExternalIdentitiesAssumption

\* The handlers are told apart by their records.
LEMMA RequestCases ==
  ASSUME TypeOK, NEW q \in Requests
  PROVE  /\ Is(q, "callback") => request[q] \in CallbackRequest
         /\ Is(q, "start") => request[q] \in StartRequest
         /\ Is(q, "account") => request[q] \in AccountRequest
  BY NoneFacts DEF TypeOK, Is, Request, CallbackRequest, StartRequest, AccountRequest

LEMMA InitIInv == Init => IInv
<1> SUFFICES ASSUME Init PROVE IInv
  OBVIOUS
<1>1. provider \in [Providers -> ProviderRow]
  <2>1. [enabled : {TRUE}, creation : BOOLEAN, disabledAt : {0}] \subseteq ProviderRow
    <3>1. {TRUE} \subseteq BOOLEAN /\ {0} \subseteq Nat
      OBVIOUS
    <3> QED
      BY <3>1, Zenon DEF ProviderRow
  <2> QED
    BY <2>1 DEF Init
<1>2. user \in [Users -> UserRow]
  BY DEF Init, UserRow
<1>3. TypeOK
  BY <1>1, <1>2 DEF Init, TypeOK
<1> QED
  BY <1>3, NoneAssumption, ExternalIdentitiesAssumption
     DEF Init, IInv, RowsSound, ReadsSound, AllFounded, RowSound, ReadSound,
         ReadInTime, Founded, Is

-----------------------------------------------------------------------------
(* Types.                                                                   *)

\* Steps that neither touch a row nor open a callback.
RowsKept ==
    /\ UNCHANGED <<now, provider, row, claim, granted>>
    /\ request' \in [Requests -> Request \cup {None}]
    /\ \A q \in Requests : request'[q] = request[q] \/ ~Is(q, "callback")'

LEMMA OpenKeeps ==
  ASSUME TypeOK, NEW q \in Requests, NEW r \in Request, Open(q, r)
  PROVE  /\ request' \in [Requests -> Request \cup {None}]
         /\ \A p \in Requests : request'[p] = request[p] \/ request'[p] = r
  BY DEF TypeOK, Open

LEMMA CloseKeeps ==
  ASSUME TypeOK, NEW q \in Requests, Close(q)
  PROVE  /\ request' \in [Requests -> Request \cup {None}]
         /\ \A p \in Requests : request'[p] = request[p] \/ ~Is(p, "callback")'
         /\ request'[q] = None
         /\ \A p \in Requests \ {q} : request'[p] = request[p]
  BY DEF TypeOK, Close, Is

LEMMA AbandonKeeps ==
  ASSUME TypeOK, NEW q \in Requests, Abandon(q)
  PROVE  TypeOK' /\ RowsKept
  BY CloseKeeps DEF Abandon, TypeOK, RowsKept

LEMMA StartKeeps ==
  ASSUME TypeOK, NEW q \in Requests, NEW p \in Providers,
         NEW u \in Users \cup {None}, Start(q, u, p)
  PROVE  TypeOK' /\ RowsKept
<1> DEFINE r == [op |-> "start",
                 intent |-> IF u = None THEN "sign_in" ELSE "link", user |-> u,
                 provider |-> p, at |-> now]
<1>1. r \in Request /\ r.op # "callback"
  BY DEF Request, StartRequest, TypeOK
<1>2. Open(q, r) /\ UNCHANGED <<now, user, provider, autoLinking, row, identity,
                                password, passkey, claim, granted>>
  BY DEF Start
<1> HIDE DEF r
<1> QED
  BY <1>1, <1>2, OpenKeeps DEF TypeOK, RowsKept, Is

LEMMA AccountRequestKeeps ==
  ASSUME TypeOK, NEW q \in Requests, NEW u \in Users, AccountRequestStart(q, u)
  PROVE  TypeOK' /\ RowsKept
<1> DEFINE r == [op |-> "account", user |-> u]
<1>1. r \in Request /\ r.op # "callback"
  BY DEF Request, AccountRequest
<1>2. Open(q, r) /\ UNCHANGED <<now, user, provider, autoLinking, row, identity,
                                password, passkey, claim, granted>>
  BY DEF AccountRequestStart
<1> HIDE DEF r
<1> QED
  BY <1>1, <1>2, OpenKeeps DEF TypeOK, RowsKept, Is

LEMMA PasskeyRegisterKeeps ==
  ASSUME TypeOK, NEW q \in Requests, NEW k \in Passkeys, PasskeyRegister(q, k)
  PROVE  TypeOK' /\ RowsKept
<1>1. request[q].user \in Users
  BY RequestCases DEF PasskeyRegister, AccountRequest
<1> QED
  BY <1>1, CloseKeeps DEF PasskeyRegister, TypeOK, RowsKept, PasskeyRow

\* Revoking a passkey, by its user or by an administrator.
Revoked(k) ==
    passkey' = [passkey EXCEPT ![k].revoked = TRUE]

LEMMA RevokedType ==
  ASSUME TypeOK, NEW k \in Passkeys, passkey[k] # None, Revoked(k)
  PROVE  passkey' \in [Passkeys -> PasskeyRow \cup {None}]
  BY DEF TypeOK, Revoked, PasskeyRow

LEMMA PasskeyRevokeKeeps ==
  ASSUME TypeOK, NEW q \in Requests, NEW k \in Passkeys, PasskeyRevoke(q, k)
  PROVE  TypeOK' /\ RowsKept
<1>1. passkey' \in [Passkeys -> PasskeyRow \cup {None}]
  BY RevokedType DEF PasskeyRevoke, Revoked, UsablePasskeysOf, PasskeysOf
<1> QED
  BY <1>1, CloseKeeps DEF PasskeyRevoke, TypeOK, RowsKept

LEMMA AdministratorRevokeKeeps ==
  ASSUME TypeOK, NEW k \in Passkeys, PasskeyAdministratorRevoke(k)
  PROVE  TypeOK' /\ RowsKept
<1>1. passkey' \in [Passkeys -> PasskeyRow \cup {None}]
  BY RevokedType DEF PasskeyAdministratorRevoke, Revoked
<1> QED
  BY <1>1 DEF PasskeyAdministratorRevoke, TypeOK, RowsKept

LEMMA PlainKeeps ==
  ASSUME TypeOK,
         \/ \E u \in Users, s \in Subjects : Unlink(u, s)
         \/ \E u \in Users : PasswordCredentialReplace(u)
         \/ PolicySet
  PROVE  TypeOK' /\ RowsKept
<1>1. CASE \E u \in Users, s \in Subjects : Unlink(u, s)
  BY <1>1 DEF Unlink, TypeOK, RowsKept
<1>2. CASE \E u \in Users : PasswordCredentialReplace(u)
  BY <1>2 DEF PasswordCredentialReplace, TypeOK, RowsKept
<1>3. CASE PolicySet
  BY <1>3 DEF PolicySet, TypeOK, RowsKept
<1> QED
  BY <1>1, <1>2, <1>3

\* The steps that write the users' rows.
UserStep(u) ==
    \/ \E a \in Addresses : UserCreate(u, a)
    \/ UserLifecycleSet(u)
    \/ UserDelete(u)
    \/ UserPurge(u)

LEMMA UserStepKeeps ==
  ASSUME TypeOK, NEW u \in Users, UserStep(u)
  PROVE  TypeOK' /\ RowsKept
<1>1. CASE \E a \in Addresses : UserCreate(u, a)
  BY <1>1 DEF UserCreate, TypeOK, RowsKept, UserRow
<1>2. CASE UserLifecycleSet(u)
  BY <1>2 DEF UserLifecycleSet, TypeOK, RowsKept, UserRow
<1>3. CASE UserDelete(u)
  BY <1>3 DEF UserDelete, TypeOK, RowsKept, UserRow
<1>4. CASE UserPurge(u)
  <2>1. identity' \in [Subjects -> Users \cup {None}]
    BY <1>4 DEF UserPurge, TypeOK
  <2>2. passkey' \in [Passkeys -> PasskeyRow \cup {None}]
    BY <1>4 DEF UserPurge, TypeOK
  <2>3. user' \in [Users -> UserRow]
    BY <1>4 DEF UserPurge, TypeOK, UserRow
  <2> QED
    BY <1>4, <2>1, <2>2, <2>3 DEF UserPurge, TypeOK, RowsKept
<1> QED
  BY <1>1, <1>2, <1>3, <1>4 DEF UserStep

\* The remaining steps: those that write a row or open a callback, and those
\* of the clock and the providers.
RowWritten(t, r) ==
    /\ r \in OAuthRow
    /\ row' = [row EXCEPT ![t] = r]
    /\ UNCHANGED <<now, provider>>
    /\ request' \in [Requests -> Request \cup {None}]
    /\ \A q \in Requests : request'[q] = request[q] \/ ~Is(q, "callback")'

StoredRow(q) ==
    [intent |-> request[q].intent, user |-> request[q].user,
     provider |-> request[q].provider, expiresAt |-> ExpiryOf(request[q].at),
     subject |-> None, consumed |-> FALSE, version |-> 1]

LEMMA StartStoreWrites ==
  ASSUME TypeOK, NEW q \in Requests, NEW t \in Rows, StartStore(q, t)
  PROVE  TypeOK' /\ RowWritten(t, StoredRow(q))
<1>1. StoredRow(q) \in OAuthRow
  BY RequestCases, ExternalIdentitiesAssumption
     DEF StartStore, StoredRow, OAuthRow, StartRequest, ExpiryOf
<1>2. row' = [row EXCEPT ![t] = StoredRow(q)]
  BY DEF StartStore, StoredRow
<1> QED
  BY <1>1, <1>2, CloseKeeps, ZenonT(60) DEF StartStore, RowWritten, TypeOK

LinkedRow(t, s, version) ==
    [row[t] EXCEPT !.subject = s, !.version = version + 1]
ConsumedRow(t, version) ==
    [row[t] EXCEPT !.consumed = TRUE, !.version = version + 1]

LEMMA RowFields ==
  ASSUME NEW r \in OAuthRow, NEW s \in Subjects \cup {None}, NEW w \in Nat
  PROVE  /\ [r EXCEPT !.consumed = TRUE, !.version = w] \in OAuthRow
         /\ [r EXCEPT !.subject = s, !.version = w] \in OAuthRow
  BY DEF OAuthRow

LEMMA NewRows ==
  ASSUME TypeOK, NEW t \in Rows, row[t] # None, NEW version \in Nat
  PROVE  /\ ConsumedRow(t, version) \in OAuthRow
         /\ \A s \in Subjects : LinkedRow(t, s, version) \in OAuthRow
<1>1. row[t] \in OAuthRow /\ version + 1 \in Nat
  BY DEF TypeOK
<1> QED
  BY <1>1, RowFields DEF ConsumedRow, LinkedRow

LEMMA CallbackFacts ==
  ASSUME TypeOK, NEW q \in Requests, Is(q, "callback")
  PROVE  /\ request[q].row \in Rows
         /\ request[q].version \in Nat
         /\ request[q].at \in Nat
         /\ request[q].creation \in BOOLEAN
  BY RequestCases DEF CallbackRequest

LEMMA CallbackLinkWrites ==
  ASSUME TypeOK, NEW q \in Requests, NEW t \in Rows, NEW s \in Subjects,
         row[t] # None, CallbackLink(q, t, s)
  PROVE  TypeOK' /\ RowWritten(t, LinkedRow(t, s, request[q].version))
<1>1. LinkedRow(t, s, request[q].version) \in OAuthRow
  BY NewRows, CallbackFacts DEF CallbackLink, Answered
<1>2. row' = [row EXCEPT ![t] = LinkedRow(t, s, request[q].version)]
  BY DEF CallbackLink, LinkedRow
<1>3. claim' \in [Rows -> Claim \cup {None}]
  BY DEF CallbackLink, TypeOK, Claim
<1>4. row' \in [Rows -> OAuthRow \cup {None}]
  BY <1>1, <1>2 DEF TypeOK
<1>5. /\ Close(q)
      /\ UNCHANGED <<now, user, provider, autoLinking, identity, password,
                     passkey, granted>>
  BY DEF CallbackLink
<1>6. /\ request' \in [Requests -> Request \cup {None}]
      /\ \A p \in Requests : request'[p] = request[p] \/ ~Is(p, "callback")'
  BY <1>5, CloseKeeps
<1> HIDE DEF LinkedRow
<1> QED
  BY <1>1, <1>2, <1>3, <1>4, <1>5, <1>6 DEF RowWritten, TypeOK

\* What a sign-in does to the accounts.
SignIn(q, u, s, a, v) ==
    \/ SignInLinked(u, s)
    \/ SignInAutoLink(u, s, a, v)
    \/ SignInCreate(q, u, s, a, v)

LEMMA SignInFacts ==
  ASSUME TypeOK, NEW q \in Requests, NEW u \in Users, NEW s \in Subjects,
         NEW a \in Addresses \cup {None}, NEW v \in BOOLEAN, SignIn(q, u, s, a, v)
  PROVE  /\ identity' = [identity EXCEPT ![s] = u]
         /\ identity[s] \in {u, None}
         /\ user' \in [Users -> UserRow]
         /\ \A w \in Users : HasRow(w) => HasRow(w)' /\ user'[w].address = user[w].address
         /\ HasRow(u)'
         /\ identity[s] = None => v /\ user'[u].address = a
<1>1. CASE SignInLinked(u, s)
  BY <1>1, NoneFacts DEF SignInLinked, TypeOK, Active, HasRow
<1>2. CASE SignInAutoLink(u, s, a, v)
  BY <1>2 DEF SignInAutoLink, TypeOK, Active, HasRow, MayAutoLink, HoldersOf
<1>3. CASE SignInCreate(q, u, s, a, v)
  BY <1>3 DEF SignInCreate, TypeOK, HasRow, UserRow
<1> QED
  BY <1>1, <1>2, <1>3 DEF SignIn

LEMMA CallbackSignInWrites ==
  ASSUME TypeOK, NEW q \in Requests, NEW t \in Rows, NEW u \in Users,
         NEW s \in Subjects, NEW a \in Addresses \cup {None}, NEW v \in BOOLEAN,
         row[t] # None, CallbackSignIn(q, t, u, s, a, v)
  PROVE  /\ TypeOK' /\ RowWritten(t, ConsumedRow(t, request[q].version))
         /\ SignIn(q, u, s, a, v)
         /\ granted' = [granted EXCEPT ![t] = granted[t] + 1]
<1>1. ConsumedRow(t, request[q].version) \in OAuthRow
  BY NewRows, CallbackFacts DEF CallbackSignIn, Answered
<1>2. row' = [row EXCEPT ![t] = ConsumedRow(t, request[q].version)]
  BY DEF CallbackSignIn, Consume, ConsumedRow
<1>3. claim' \in [Rows -> Claim \cup {None}]
  BY DEF CallbackSignIn, TypeOK, Claim
<1>4. SignIn(q, u, s, a, v)
  BY DEF CallbackSignIn, SignIn
<1>5. granted' = [granted EXCEPT ![t] = granted[t] + 1]
  BY DEF CallbackSignIn, Consume, TypeOK
<1>6. identity' \in [Subjects -> Users \cup {None}] /\ user' \in [Users -> UserRow]
  BY <1>4, SignInFacts DEF TypeOK
<1>7. granted' \in [Rows -> Nat]
  BY <1>5 DEF TypeOK
<1> QED
  BY <1>1, <1>2, <1>3, <1>4, <1>5, <1>6, <1>7, CloseKeeps
     DEF CallbackSignIn, RowWritten, TypeOK

LEMMA LinkCompleteWrites ==
  ASSUME TypeOK, NEW q \in Requests, NEW t \in Rows, LinkComplete(q, t)
  PROVE  /\ TypeOK' /\ RowWritten(t, ConsumedRow(t, row[t].version))
         /\ granted' = [granted EXCEPT ![t] = granted[t] + 1]
         /\ identity' = [identity EXCEPT ![row[t].subject] = request[q].user]
         /\ row[t].subject \in Subjects
         /\ request[q].user \in Users
<1>1. row[t] # None /\ row[t] \in OAuthRow /\ row[t].subject # None
  BY DEF LinkComplete, Confirmable, TypeOK
<1>2. ConsumedRow(t, row[t].version) \in OAuthRow
  BY <1>1, NewRows DEF OAuthRow
<1>3. row' = [row EXCEPT ![t] = ConsumedRow(t, row[t].version)]
  BY DEF LinkComplete, Consume, ConsumedRow
<1>4. row[t].subject \in Subjects /\ request[q].user \in Users
  BY <1>1, RequestCases DEF LinkComplete, OAuthRow, AccountRequest
<1>5. identity' = [identity EXCEPT ![row[t].subject] = request[q].user]
  BY DEF LinkComplete
<1>6. granted' = [granted EXCEPT ![t] = granted[t] + 1]
  BY DEF LinkComplete, Consume, TypeOK
<1>7. granted' \in [Rows -> Nat] /\ identity' \in [Subjects -> Users \cup {None}]
  BY <1>4, <1>5, <1>6 DEF TypeOK
<1> QED
  BY <1>2, <1>3, <1>4, <1>5, <1>6, <1>7, CloseKeeps
     DEF LinkComplete, RowWritten, TypeOK

\* The record of a callback that has just been let through.
ReadNow(t) ==
    [op |-> "callback", row |-> t, version |-> row[t].version,
     creation |-> provider[row[t].provider].creation, at |-> now]

LEMMA CallbackType ==
  ASSUME TypeOK, NEW q \in Requests, NEW t \in Rows, Callback(q, t)
  PROVE  /\ TypeOK'
         /\ request' = [request EXCEPT ![q] = ReadNow(t)]
         /\ ReadNow(t) \in CallbackRequest
<1>1. row[t] \in OAuthRow
  BY DEF Callback, Callable, TypeOK
<1>2. row[t].version \in Nat /\ provider[row[t].provider].creation \in BOOLEAN
  BY <1>1 DEF TypeOK, OAuthRow, ProviderRow
<1>3. ReadNow(t) \in CallbackRequest
  BY <1>2 DEF ReadNow, CallbackRequest, TypeOK
<1>4. request' = [request EXCEPT ![q] = ReadNow(t)]
  BY DEF Callback, Open, ReadNow
<1>5. request' \in [Requests -> Request \cup {None}]
  BY <1>3, <1>4 DEF TypeOK, Request
<1> QED
  BY <1>3, <1>4, <1>5 DEF Callback, TypeOK

LEMMA TickType == TypeOK /\ Tick => TypeOK'
  BY DEF TypeOK, Tick

LEMMA ProviderUpdateType ==
  ASSUME TypeOK, NEW p \in Providers, NEW e \in BOOLEAN, NEW c \in BOOLEAN,
         ProviderUpdate(p, e, c)
  PROVE  TypeOK'
<1> DEFINE r == [enabled |-> e, creation |-> c,
                 disabledAt |-> IF provider[p].enabled /\ ~e THEN now
                                ELSE provider[p].disabledAt]
<1>1. r.disabledAt \in Nat
  BY DEF TypeOK, ProviderRow
<1>2. r \in ProviderRow
  BY <1>1 DEF ProviderRow
<1>3. provider' = [provider EXCEPT ![p] = r]
  BY DEF ProviderUpdate
<1> HIDE DEF r
<1> QED
  BY <1>2, <1>3 DEF ProviderUpdate, TypeOK

-----------------------------------------------------------------------------
(* Transactions and what callbacks have read of them.                       *)

LEMMA KeptRows ==
  ASSUME IInv, RowsKept
  PROVE  RowsSound' /\ ReadsSound'
<1>1. RowsSound'
  BY DEF IInv, RowsSound, RowSound, RowsKept
<1>2. ReadsSound'
  BY DEF IInv, ReadsSound, ReadSound, ReadInTime, RowsKept, Is
<1> QED
  BY <1>1, <1>2

LEMMA WrittenRows ==
  ASSUME IInv, NEW t \in Rows, NEW r, RowWritten(t, r), RowSound(t)',
         row[t] # None => /\ r.intent = row[t].intent
                          /\ r.expiresAt = row[t].expiresAt
                          /\ r.provider = row[t].provider,
         \A x \in Rows \ {t} : granted'[x] = granted[x] /\ claim'[x] = claim[x]
  PROVE  RowsSound' /\ ReadsSound'
<1>1. /\ row'[t] = r /\ r # None
      /\ \A x \in Rows \ {t} : row'[x] = row[x]
  BY NoneFacts DEF RowWritten, IInv, TypeOK
<1>2. RowsSound'
  BY <1>1 DEF IInv, RowsSound, RowSound
<1>3. ASSUME NEW q \in Requests, Is(q, "callback")'
      PROVE  (ReadSound(q) /\ ReadInTime(q))'
  <2>1. request'[q] = request[q] /\ Is(q, "callback")
    BY <1>3 DEF RowWritten, Is
  <2>2. ReadSound(q) /\ ReadInTime(q) /\ request[q].row \in Rows
    BY <2>1, CallbackFacts DEF IInv, ReadsSound
  <2> QED
    BY <1>1, <2>1, <2>2 DEF ReadSound, ReadInTime, RowWritten
<1>4. ReadsSound'
  BY <1>3 DEF ReadsSound, ReadSound, ReadInTime
<1> QED
  BY <1>2, <1>4

LEMMA StartStoreRows ==
  ASSUME IInv, NEW q \in Requests, NEW t \in Rows, StartStore(q, t)
  PROVE  RowsSound' /\ ReadsSound'
<1>1. RowWritten(t, StoredRow(q)) /\ row[t] = None
      /\ granted' = granted /\ claim' = claim
  BY StartStoreWrites DEF IInv, StartStore
<1>2. row'[t] = StoredRow(q)
  BY <1>1 DEF RowWritten, IInv, TypeOK
<1>3. RowSound(t)'
  BY <1>1, <1>2 DEF IInv, RowsSound, RowSound, StoredRow
<1> QED
  BY <1>1, <1>3, WrittenRows

LEMMA LinkedFields ==
  ASSUME NEW t \in Rows, row[t] \in OAuthRow, NEW s \in Subjects, NEW v \in Nat
  PROVE  LET r == LinkedRow(t, s, v)
         IN  /\ r.subject = s /\ r.version = v + 1
             /\ r.intent = row[t].intent /\ r.consumed = row[t].consumed
             /\ r.expiresAt = row[t].expiresAt /\ r.provider = row[t].provider
             /\ r.user = row[t].user
  BY DEF LinkedRow, OAuthRow

LEMMA ConsumedFields ==
  ASSUME NEW t \in Rows, row[t] \in OAuthRow, NEW v \in Nat
  PROVE  LET r == ConsumedRow(t, v)
         IN  /\ r.subject = row[t].subject /\ r.version = v + 1
             /\ r.intent = row[t].intent /\ r.consumed
             /\ r.expiresAt = row[t].expiresAt /\ r.provider = row[t].provider
             /\ r.user = row[t].user
  BY DEF ConsumedRow, OAuthRow

\* A callback that commits finds its row as it has read it: open, and new if
\* it is a link's.
LEMMA FoundFacts ==
  ASSUME IInv, NEW q \in Requests, NEW t \in Rows, NEW s \in Subjects,
         Answered(q, t, s), Found(q)
  PROVE  /\ row[t] # None /\ row[t] \in OAuthRow
         /\ row[t].version = request[q].version
         /\ ~row[t].consumed
         /\ row[t].subject = None
         /\ request[q].version \in Nat /\ request[q].version >= 1
<1>1. Is(q, "callback") /\ request[q].row = t
  BY DEF Answered
<1>2. row[t] # None /\ row[t] \in OAuthRow /\ request[q].version \in Nat
  BY <1>1, CallbackFacts DEF IInv, ReadsSound, ReadSound, TypeOK
<1>3. row[t].version = request[q].version /\ ~row[t].consumed
  BY <1>1 DEF Found
<1>4. row[t].subject = None /\ row[t].version >= 1
  <2>1. RowSound(t)
    BY DEF IInv, RowsSound
  <2>2. CASE row[t].intent = "sign_in"
    BY <1>2, <2>1, <2>2 DEF RowSound
  <2>3. CASE row[t].intent = "link"
    <3>1. row[t].version = 1
      BY <1>1, <1>3, <2>3 DEF IInv, ReadsSound, ReadSound
    <3> QED
      BY <1>2, <2>1, <3>1 DEF RowSound
  <2> QED
    BY <1>2, <2>2, <2>3 DEF OAuthRow
<1> QED
  BY <1>2, <1>3, <1>4

LEMMA CallbackLinkRows ==
  ASSUME IInv, NEW q \in Requests, NEW t \in Rows, NEW s \in Subjects,
         CallbackLink(q, t, s)
  PROVE  TypeOK' /\ RowsSound' /\ ReadsSound'
<1> DEFINE r == LinkedRow(t, s, request[q].version)
<1>1. /\ row[t] # None /\ row[t] \in OAuthRow /\ ~row[t].consumed
      /\ request[q].version \in Nat /\ request[q].version >= 1
  BY FoundFacts DEF CallbackLink
<1>2. TypeOK' /\ RowWritten(t, r)
  BY <1>1, CallbackLinkWrites DEF IInv
<1>3. /\ r.subject = s /\ r.version = request[q].version + 1
      /\ r.intent = "link" /\ r.intent = row[t].intent /\ r.consumed = row[t].consumed
      /\ r.expiresAt = row[t].expiresAt /\ r.provider = row[t].provider
  BY <1>1, LinkedFields DEF CallbackLink
<1> HIDE DEF r
<1>4. row'[t] = r
  BY <1>2 DEF RowWritten, IInv, TypeOK
<1>5. /\ granted' = granted
      /\ claim'[t] = [subject |-> s, address |-> None]
      /\ claim'[t] \in Claim
      /\ \A x \in Rows \ {t} : claim'[x] = claim[x]
  BY DEF CallbackLink, IInv, TypeOK, Claim
<1>6. RowSound(t)'
  <2>1. granted[t] <= 1 /\ ~(granted[t] > 0)
    BY <1>1 DEF IInv, RowsSound, RowSound
  <2> QED
    BY <1>1, <1>3, <1>4, <1>5, <2>1, NoneFacts DEF RowSound
<1> QED
  BY <1>2, <1>3, <1>5, <1>6, WrittenRows

\* Both ways to consume a row.
LEMMA ConsumedRows ==
  ASSUME IInv, NEW t \in Rows, row[t] # None, ~row[t].consumed, NEW w \in Nat,
         w >= 1, RowWritten(t, ConsumedRow(t, w)),
         row[t].subject = None => row[t].intent = "sign_in",
         row[t].subject # None => claim'[t] = claim[t],
         granted' = [granted EXCEPT ![t] = granted[t] + 1],
         \A x \in Rows \ {t} : claim'[x] = claim[x]
  PROVE  RowsSound' /\ ReadsSound'
<1> DEFINE r == ConsumedRow(t, w)
<1>1. row[t] \in OAuthRow /\ row'[t] = r /\ granted'[t] = granted[t] + 1
  BY DEF IInv, TypeOK, RowWritten
<1>2. /\ r.subject = row[t].subject /\ r.version = w + 1
      /\ r.intent = row[t].intent /\ r.consumed
      /\ r.expiresAt = row[t].expiresAt /\ r.provider = row[t].provider
      /\ r # None
  BY <1>1, ConsumedFields, NoneFacts DEF RowWritten
<1>3. granted[t] = 0 /\ RowSound(t)
  BY DEF IInv, RowsSound, RowSound, TypeOK
<1> HIDE DEF r
<1>4. RowSound(t)'
  BY <1>1, <1>2, <1>3 DEF RowSound
<1>5. \A x \in Rows \ {t} : granted'[x] = granted[x]
  BY DEF IInv, TypeOK
<1> QED
  BY <1>2, <1>4, <1>5, WrittenRows DEF r

LEMMA CallbackSignInRows ==
  ASSUME IInv, NEW q \in Requests, NEW t \in Rows, NEW u \in Users,
         NEW s \in Subjects, NEW a \in Addresses \cup {None}, NEW v \in BOOLEAN,
         CallbackSignIn(q, t, u, s, a, v)
  PROVE  TypeOK' /\ RowsSound' /\ ReadsSound'
<1>1. /\ row[t] # None /\ ~row[t].consumed /\ row[t].subject = None
      /\ request[q].version \in Nat /\ request[q].version >= 1
  BY FoundFacts DEF CallbackSignIn
<1>2. /\ TypeOK' /\ RowWritten(t, ConsumedRow(t, request[q].version))
      /\ granted' = [granted EXCEPT ![t] = granted[t] + 1]
  BY <1>1, CallbackSignInWrites DEF IInv
<1>3. /\ row[t].intent = "sign_in"
      /\ \A x \in Rows \ {t} : claim'[x] = claim[x]
  BY DEF CallbackSignIn, IInv, TypeOK
<1> QED
  BY <1>1, <1>2, <1>3, ConsumedRows

LEMMA LinkCompleteRows ==
  ASSUME IInv, NEW q \in Requests, NEW t \in Rows, LinkComplete(q, t)
  PROVE  TypeOK' /\ RowsSound' /\ ReadsSound'
<1>1. row[t] # None /\ ~row[t].consumed /\ row[t].subject # None /\ claim' = claim
  BY DEF LinkComplete, Confirmable
<1>2. row[t].version \in Nat /\ row[t].version >= 1
  BY <1>1 DEF IInv, TypeOK, OAuthRow, RowsSound, RowSound
<1>3. /\ TypeOK' /\ RowWritten(t, ConsumedRow(t, row[t].version))
      /\ granted' = [granted EXCEPT ![t] = granted[t] + 1]
  BY LinkCompleteWrites DEF IInv
<1> QED
  BY <1>1, <1>2, <1>3, ConsumedRows

LEMMA CallbackRows ==
  ASSUME IInv, NEW q \in Requests, NEW t \in Rows, Callback(q, t)
  PROVE  TypeOK' /\ RowsSound' /\ ReadsSound'
<1>1. /\ TypeOK'
      /\ request' = [request EXCEPT ![q] = ReadNow(t)]
  BY CallbackType DEF IInv
<1>2. UNCHANGED <<now, provider, row, claim, granted>>
  BY DEF Callback
<1>3. RowsSound'
  BY <1>2 DEF IInv, RowsSound, RowSound
<1>4. ASSUME NEW p \in Requests PROVE (ReadSound(p) /\ ReadInTime(p))'
  <2>1. CASE p = q
    <3>1. request'[p] = ReadNow(t) /\ ReadNow(t).row = t
          /\ ReadNow(t).version = row[t].version /\ ReadNow(t).at = now
      BY <1>1, <2>1 DEF ReadNow, IInv, TypeOK
    <3>2. row[t].intent = "link" => row[t].version = 1
      BY DEF Callback, Callable, IInv, RowsSound, RowSound
    <3>3. /\ row[t] # None /\ now < row[t].expiresAt
          /\ provider[row[t].provider].enabled
      BY DEF Callback, Callable, ProviderServes, IInv, TypeOK, OAuthRow
    <3>4. now \in Nat /\ now <= now + ExchangeMax
      BY ExternalIdentitiesAssumption DEF IInv, TypeOK
    <3> QED
      BY <1>2, <3>1, <3>2, <3>3, <3>4 DEF ReadSound, ReadInTime
  <2>2. CASE p # q
    <3>1. request'[p] = request[p]
      BY <1>1, <2>2 DEF IInv, TypeOK
    <3> QED
      BY <1>2, <3>1 DEF IInv, ReadsSound, ReadSound, ReadInTime, Is
  <2> QED
    BY <2>1, <2>2
<1> QED
  BY <1>1, <1>3, <1>4 DEF ReadsSound

LEMMA TickRows ==
  ASSUME IInv, Tick
  PROVE  TypeOK' /\ RowsSound' /\ ReadsSound'
<1>1. /\ now' = now + 1 /\ now \in Nat
      /\ UNCHANGED <<provider, row, claim, granted, request>>
  BY DEF Tick, IInv, TypeOK
<1>2. RowsSound'
  BY <1>1 DEF IInv, RowsSound, RowSound
<1>3. ASSUME NEW q \in Requests PROVE (ReadSound(q) /\ ReadInTime(q))'
  <2>1. CASE Is(q, "callback")
    <3>1. now < request[q].at + ExchangeMax
      BY <2>1 DEF Tick
    <3>2. request[q].at \in Nat /\ ExchangeMax \in Nat
      BY <2>1, CallbackFacts, ExternalIdentitiesAssumption DEF IInv
    <3>3. ReadSound(q) /\ ReadInTime(q)
      BY DEF IInv, ReadsSound
    <3>4. now + 1 <= request[q].at + ExchangeMax /\ request[q].at <= now + 1
      BY <1>1, <2>1, <3>1, <3>2, <3>3 DEF ReadInTime
    <3> QED
      BY <1>1, <2>1, <3>3, <3>4 DEF ReadSound, ReadInTime
  <2>2. CASE ~Is(q, "callback")
    BY <1>1, <2>2 DEF ReadSound, ReadInTime, Is
  <2> QED
    BY <2>1, <2>2
<1> QED
  BY <1>2, <1>3, TickType DEF IInv, ReadsSound

LEMMA ProviderUpdateRows ==
  ASSUME IInv, NEW p \in Providers, NEW e \in BOOLEAN, NEW c \in BOOLEAN,
         ProviderUpdate(p, e, c)
  PROVE  TypeOK' /\ RowsSound' /\ ReadsSound'
<1>1. UNCHANGED <<now, row, claim, granted, request>>
  BY DEF ProviderUpdate
<1>2. RowsSound'
  BY <1>1 DEF IInv, RowsSound, RowSound
<1>3. ASSUME NEW q \in Requests, Is(q, "callback")
      PROVE  (ReadSound(q) /\ ReadInTime(q))'
  <2> DEFINE x == row[request[q].row].provider
  <2>1. ReadSound(q) /\ ReadInTime(q) /\ request[q].row \in Rows
        /\ request[q].at \in Nat /\ now \in Nat
    BY <1>3, CallbackFacts DEF IInv, ReadsSound, TypeOK
  <2>2. x \in Providers
    BY <1>3, <2>1 DEF ReadSound, IInv, TypeOK, OAuthRow
  <2>3. provider'[x].enabled \/ provider'[x].disabledAt >= request[q].at
    <3>1. CASE x # p
      BY <1>3, <2>1, <2>2, <3>1 DEF ProviderUpdate, IInv, TypeOK, ReadInTime
    <3>2. CASE x = p
      <4>1. provider'[x] = [enabled |-> e, creation |-> c,
                            disabledAt |-> IF provider[x].enabled /\ ~e THEN now
                                           ELSE provider[x].disabledAt]
        BY <2>2, <3>2 DEF ProviderUpdate, IInv, TypeOK
      <4>2. provider[x].enabled \/ provider[x].disabledAt >= request[q].at
        BY <1>3, <2>1 DEF ReadInTime
      <4> QED
        BY <1>3, <2>1, <4>1, <4>2 DEF ReadInTime
    <3> QED
      BY <3>1, <3>2
  <2> QED
    BY <1>1, <1>3, <2>1, <2>3 DEF ReadSound, ReadInTime
<1>4. ReadsSound'
  BY <1>1, <1>3 DEF ReadsSound, ReadSound, ReadInTime, Is
<1> QED
  BY <1>2, <1>4, ProviderUpdateType DEF IInv

-----------------------------------------------------------------------------
(* Identities and their foundation.                                         *)

\* A transaction that has been consumed is not written again.
ConsumedKept ==
    \A t \in Rows : row[t] # None /\ row[t].consumed
                        => row'[t] = row[t] /\ claim'[t] = claim[t]

LEMMA FoundedStays ==
  ASSUME IInv, ConsumedKept, NEW s \in Subjects, identity[s] # None,
         identity'[s] = identity[s], HasRow(identity[s])',
         user'[identity[s]].address = user[identity[s]].address
  PROVE  Founded(s)'
<1>1. PICK t \in Rows : Founds(t, s)
  BY DEF IInv, AllFounded, Founded
<1>2. Founds(t, s)'
  BY <1>1 DEF Founds, ConsumedKept
<1> QED
  BY <1>2 DEF Founded, HasRow

LEMMA OwnersHaveRows ==
  ASSUME IInv, NEW s \in Subjects, identity[s] # None
  PROVE  identity[s] \in Users /\ HasRow(identity[s])
  BY DEF IInv, AllFounded, Founded, TypeOK

\* Steps that take no account's row or address and link nothing.
AccountsKept ==
    /\ \A u \in Users : HasRow(u) => HasRow(u)' /\ user'[u].address = user[u].address
    /\ \A s \in Subjects : identity'[s] \in {identity[s], None}

LEMMA KeptFounded ==
  ASSUME IInv, ConsumedKept, AccountsKept
  PROVE  AllFounded'
<1> SUFFICES ASSUME NEW s \in Subjects, identity'[s] # None PROVE Founded(s)'
  BY DEF AllFounded, Founded
<1>1. identity'[s] = identity[s] /\ identity[s] # None
  BY DEF AccountsKept
<1>2. identity[s] \in Users /\ HasRow(identity[s])
  BY <1>1, OwnersHaveRows
<1> QED
  BY <1>1, <1>2, FoundedStays DEF AccountsKept

LEMMA UserStepFounded ==
  ASSUME IInv, NEW u \in Users, UserStep(u)
  PROVE  AllFounded'
<1>0. ConsumedKept
  BY DEF UserStep, UserCreate, UserLifecycleSet, UserDelete, UserPurge, ConsumedKept
<1>1. CASE \E a \in Addresses : UserCreate(u, a)
  <2>1. AccountsKept
    BY <1>1 DEF UserCreate, AccountsKept, HasRow, IInv, TypeOK
  <2> QED
    BY <1>0, <2>1, KeptFounded
<1>2. CASE UserLifecycleSet(u) \/ UserDelete(u)
  <2>1. AccountsKept
    BY <1>2 DEF UserLifecycleSet, UserDelete, AccountsKept, HasRow, IInv, TypeOK, UserRow
  <2> QED
    BY <1>0, <2>1, KeptFounded
<1>3. CASE UserPurge(u)
  <2> SUFFICES ASSUME NEW s \in Subjects, identity'[s] # None PROVE Founded(s)'
    BY DEF AllFounded, Founded
  <2>1. identity'[s] = identity[s] /\ identity[s] # None /\ identity[s] # u
    BY <1>3, NoneFacts DEF UserPurge
  <2>2. identity[s] \in Users /\ HasRow(identity[s])
    BY <2>1, OwnersHaveRows
  <2>3. user'[identity[s]] = user[identity[s]]
    BY <1>3, <2>1, <2>2 DEF UserPurge, IInv, TypeOK
  <2> QED
    BY <1>0, <2>1, <2>2, <2>3, FoundedStays DEF HasRow
<1> QED
  BY <1>1, <1>2, <1>3 DEF UserStep

LEMMA CallbackLinkFounded ==
  ASSUME IInv, NEW q \in Requests, NEW t \in Rows, NEW s \in Subjects,
         CallbackLink(q, t, s)
  PROVE  AllFounded'
<1>1. ~row[t].consumed
  BY FoundFacts DEF CallbackLink
<1>2. ConsumedKept
  BY <1>1 DEF CallbackLink, ConsumedKept, IInv, TypeOK
<1>3. AccountsKept
  BY DEF CallbackLink, AccountsKept, HasRow
<1> QED
  BY <1>2, <1>3, KeptFounded

LEMMA CallbackSignInFounded ==
  ASSUME IInv, NEW q \in Requests, NEW t \in Rows, NEW u \in Users,
         NEW s \in Subjects, NEW a \in Addresses \cup {None}, NEW v \in BOOLEAN,
         CallbackSignIn(q, t, u, s, a, v)
  PROVE  AllFounded'
<1>1. /\ row[t] # None /\ row[t] \in OAuthRow /\ ~row[t].consumed
      /\ request[q].version \in Nat
  BY FoundFacts DEF CallbackSignIn
<1>2. /\ SignIn(q, u, s, a, v)
      /\ row' = [row EXCEPT ![t] = ConsumedRow(t, request[q].version)]
  BY <1>1, CallbackSignInWrites DEF IInv, RowWritten
<1>3. /\ claim'[t] = [subject |-> s, address |-> IF v THEN a ELSE None]
      /\ claim'[t] \in Claim
      /\ \A x \in Rows \ {t} : claim'[x] = claim[x]
      /\ row[t].intent = "sign_in"
  BY DEF CallbackSignIn, IInv, TypeOK, Claim
<1>4. ConsumedKept
  BY <1>1, <1>2, <1>3 DEF ConsumedKept, IInv, TypeOK
<1>5. /\ identity' = [identity EXCEPT ![s] = u]
      /\ identity[s] \in {u, None}
      /\ \A w \in Users : HasRow(w) => HasRow(w)' /\ user'[w].address = user[w].address
      /\ HasRow(u)'
      /\ identity[s] = None => v /\ user'[u].address = a
  BY <1>2, SignInFacts DEF IInv
<1> SUFFICES ASSUME NEW x \in Subjects, identity'[x] # None PROVE Founded(x)'
  BY DEF AllFounded, Founded
<1>6. CASE identity[x] = identity'[x]
  <2>1. identity[x] \in Users /\ HasRow(identity[x])
    BY <1>6, OwnersHaveRows
  <2> QED
    BY <1>4, <1>5, <1>6, <2>1, FoundedStays
<1>7. CASE identity[x] # identity'[x]
  <2>1. x = s /\ identity[s] = None /\ identity'[s] = u
    BY <1>5, <1>7 DEF IInv, TypeOK
  <2>2. row'[t] = ConsumedRow(t, request[q].version)
    BY <1>2 DEF IInv, TypeOK
  <2>3. /\ row'[t].consumed /\ row'[t].intent = "sign_in"
        /\ row'[t] # None
    <3>1. ConsumedRow(t, request[q].version) \in OAuthRow
      BY <1>1, NewRows DEF IInv
    <3> QED
      BY <1>1, <1>3, <2>2, <3>1, ConsumedFields, NoneFacts
  <2>4. claim'[t] # None /\ claim'[t].subject = s
    BY <1>3, NoneFacts
  <2>5. claim'[t].address = a
    BY <1>3, <1>5, <2>1
  <2>6. user'[identity'[s]].address = a
    BY <1>5, <2>1
  <2>7. Founds(t, s)'
    BY <2>3, <2>4, <2>5, <2>6 DEF Founds
  <2> QED
    BY <1>5, <2>1, <2>7 DEF Founded, HasRow
<1> QED
  BY <1>6, <1>7

LEMMA LinkCompleteFounded ==
  ASSUME IInv, NEW q \in Requests, NEW t \in Rows, LinkComplete(q, t)
  PROVE  AllFounded'
<1>0. PICK u \in Users, s \in Subjects : u = request[q].user /\ s = row[t].subject
  BY LinkCompleteWrites DEF IInv
<1>1. /\ row[t] # None /\ row[t] \in OAuthRow /\ ~row[t].consumed
      /\ row[t].intent = "link" /\ row[t].user = u /\ s # None
      /\ identity[s] = None /\ HasRow(u)
      /\ user' = user /\ claim' = claim
  BY <1>0 DEF LinkComplete, Confirmable, Unclaimed, IInv, TypeOK
<1>2. /\ row' = [row EXCEPT ![t] = ConsumedRow(t, row[t].version)]
      /\ identity' = [identity EXCEPT ![s] = u]
  BY <1>0, LinkCompleteWrites DEF IInv, RowWritten
<1>3. ConsumedKept
  BY <1>1, <1>2 DEF ConsumedKept, IInv, TypeOK
<1>4. claim[t] # None /\ claim[t].subject = s
  BY <1>0, <1>1 DEF IInv, RowsSound, RowSound
<1>5. /\ row'[t].consumed /\ row'[t].intent = "link"
      /\ row'[t].user = u /\ row'[t] # None
  <2>1. row[t].version \in Nat
    BY <1>1 DEF OAuthRow
  <2>2. ConsumedRow(t, row[t].version) \in OAuthRow
    BY <1>1, <2>1, NewRows DEF IInv
  <2> QED
    BY <1>1, <1>2, <2>1, <2>2, ConsumedFields, NoneFacts DEF IInv, TypeOK
<1> SUFFICES ASSUME NEW x \in Subjects, identity'[x] # None PROVE Founded(x)'
  BY DEF AllFounded, Founded
<1>6. CASE x = s
  <2>1. identity'[s] = u
    BY <1>2 DEF IInv, TypeOK
  <2>2. Founds(t, s)'
    BY <1>1, <1>4, <1>5, <2>1 DEF Founds
  <2> QED
    BY <1>1, <1>6, <2>1, <2>2 DEF Founded, HasRow
<1>7. CASE x # s
  <2>1. identity'[x] = identity[x]
    BY <1>2, <1>7 DEF IInv, TypeOK
  <2>2. identity[x] \in Users /\ HasRow(identity[x])
    BY <2>1, OwnersHaveRows
  <2> QED
    BY <1>1, <1>3, <2>1, <2>2, FoundedStays DEF HasRow
<1> QED
  BY <1>6, <1>7

\* The steps that change no account's row and link nothing, by name.
PlainStep ==
    \/ \E q \in Requests :
        \/ Abandon(q)
        \/ \E p \in Providers, u \in Users \cup {None} : Start(q, u, p)
        \/ \E u \in Users : AccountRequestStart(q, u)
        \/ \E k \in Passkeys : PasskeyRegister(q, k) \/ PasskeyRevoke(q, k)
    \/ \E u \in Users, s \in Subjects : Unlink(u, s)
    \/ \E k \in Passkeys : PasskeyAdministratorRevoke(k)
    \/ \E u \in Users : PasswordCredentialReplace(u)
    \/ PolicySet

LEMMA PlainStepIInv == IInv /\ PlainStep => IInv'
<1> SUFFICES ASSUME IInv, PlainStep PROVE IInv'
  OBVIOUS
<1>1. TypeOK' /\ RowsKept
  BY AbandonKeeps, StartKeeps, AccountRequestKeeps, PasskeyRegisterKeeps,
     PasskeyRevokeKeeps, AdministratorRevokeKeeps, PlainKeeps DEF PlainStep, IInv
<1>2. ConsumedKept
  BY <1>1 DEF RowsKept, ConsumedKept
<1>3. UNCHANGED user
  BY DEF PlainStep, Abandon, Start, AccountRequestStart, PasskeyRegister,
         PasskeyRevoke, Unlink, PasskeyAdministratorRevoke,
         PasswordCredentialReplace, PolicySet
<1>4. \A s \in Subjects : identity'[s] \in {identity[s], None}
  <2>1. CASE \E u \in Users, s \in Subjects : Unlink(u, s)
    BY <2>1 DEF Unlink, IInv, TypeOK
  <2>2. CASE ~\E u \in Users, s \in Subjects : Unlink(u, s)
    BY <2>2 DEF PlainStep, Abandon, Start, AccountRequestStart, PasskeyRegister,
           PasskeyRevoke, PasskeyAdministratorRevoke,
           PasswordCredentialReplace, PolicySet
  <2> QED
    BY <2>1, <2>2
<1>5. AccountsKept
  BY <1>3, <1>4 DEF AccountsKept, HasRow
<1> QED
  BY <1>1, <1>2, <1>5, KeptRows, KeptFounded DEF IInv

LEMMA StepIInv == IInv /\ Change => IInv'
<1> SUFFICES ASSUME IInv, Change PROVE IInv'
  OBVIOUS
<1>1. CASE PlainStep
  BY <1>1, PlainStepIInv
<1>2. CASE \E u \in Users : UserStep(u)
  BY <1>2, UserStepKeeps, KeptRows, UserStepFounded DEF IInv
<1>3. ASSUME NEW q \in Requests, NEW t \in Rows, StartStore(q, t) PROVE IInv'
  <2>1. ConsumedKept /\ AccountsKept
    BY <1>3, NoneFacts DEF StartStore, ConsumedKept, AccountsKept, HasRow, IInv, TypeOK
  <2> QED
    BY <1>3, <2>1, StartStoreWrites, StartStoreRows, KeptFounded DEF IInv
<1>4. ASSUME NEW q \in Requests, NEW t \in Rows, Callback(q, t) PROVE IInv'
  <2>1. ConsumedKept /\ AccountsKept
    BY <1>4 DEF Callback, ConsumedKept, AccountsKept, HasRow
  <2> QED
    BY <1>4, <2>1, CallbackRows, KeptFounded DEF IInv
<1>5. ASSUME NEW q \in Requests, NEW t \in Rows, NEW s \in Subjects,
             NEW a \in Addresses \cup {None}, NEW v \in BOOLEAN, Answer(q, t, s, a, v)
      PROVE  IInv'
  <2>1. CASE CallbackLink(q, t, s)
    BY <2>1, CallbackLinkRows, CallbackLinkFounded DEF IInv
  <2>2. CASE \E u \in Users : CallbackSignIn(q, t, u, s, a, v)
    BY <2>2, CallbackSignInRows, CallbackSignInFounded DEF IInv
  <2> QED
    BY <1>5, <2>1, <2>2 DEF Answer
<1>6. ASSUME NEW q \in Requests, NEW t \in Rows, LinkComplete(q, t) PROVE IInv'
  BY <1>6, LinkCompleteRows, LinkCompleteFounded DEF IInv
<1>7. ASSUME NEW p \in Providers, NEW e \in BOOLEAN, NEW c \in BOOLEAN,
             ProviderUpdate(p, e, c)
      PROVE  IInv'
  <2>1. ConsumedKept /\ AccountsKept
    BY <1>7 DEF ProviderUpdate, ConsumedKept, AccountsKept, HasRow
  <2> QED
    BY <1>7, <2>1, ProviderUpdateRows, KeptFounded DEF IInv
<1>8. CASE Tick
  <2>1. ConsumedKept /\ AccountsKept
    BY <1>8 DEF Tick, ConsumedKept, AccountsKept, HasRow
  <2> QED
    BY <1>8, <2>1, TickRows, KeptFounded DEF IInv
<1>9. CASE UNCHANGED vars
  <2>1. TypeOK' /\ RowsKept
    BY <1>9 DEF vars, IInv, TypeOK, RowsKept
  <2>2. ConsumedKept /\ AccountsKept
    BY <1>9 DEF vars, ConsumedKept, AccountsKept, HasRow
  <2> QED
    BY <2>1, <2>2, KeptRows, KeptFounded DEF IInv
<1> QED
  BY <1>1, <1>2, <1>3, <1>4, <1>5, <1>6, <1>7, <1>8, <1>9
     DEF Change, Next, PlainStep, UserStep

THEOREM Invariance == Spec => []IInv
  BY InitIInv, StepIInv, PTL DEF Spec, Change

-----------------------------------------------------------------------------
(* The theorems.                                                            *)

\* The records of rows, requests and accounts keep their form.  A callback
\* reads its row, so the types alone are not inductive: that the row is there
\* is part of the invariant.
THEOREM TypeCorrect == Spec => []TypeOK
<1>1. IInv => TypeOK
  BY DEF IInv
<1> QED
  BY <1>1, Invariance, PTL

\* One OAuth transaction, one sign-in or link.
THEOREM GrantsOnce == Spec => []RowGrantsOnce
<1>1. IInv => RowGrantsOnce
  BY DEF IInv, RowsSound, RowSound, RowGrantsOnce
<1> QED
  BY <1>1, Invariance, PTL

\* Every linked subject goes back to a transaction of its account or to the
\* account's verified address.
THEOREM AllIdentitiesFounded == Spec => []IdentityIsFounded
<1>1. IInv => IdentityIsFounded
  BY DEF IInv, AllFounded, Founded, IdentityIsFounded
<1> QED
  BY <1>1, Invariance, PTL

\* What one step may do to the subject of a row.
LEMMA SubjectStep ==
  ASSUME IInv, Change, NEW t \in Rows, row[t] # None, row[t].subject # None
  PROVE  row'[t].subject = row[t].subject
<1>0. row[t] \in OAuthRow
  BY DEF IInv, TypeOK
<1>1. ASSUME NEW q \in Requests, NEW x \in Rows, StartStore(q, x)
      PROVE  row'[t].subject = row[t].subject
  BY <1>1 DEF StartStore, IInv, TypeOK
<1>2. ASSUME NEW q \in Requests, NEW x \in Rows, NEW s \in Subjects,
             CallbackLink(q, x, s)
      PROVE  row'[t].subject = row[t].subject
  <2>1. row[x].subject = None
    BY <1>2, FoundFacts DEF CallbackLink
  <2> QED
    BY <1>2, <2>1 DEF CallbackLink, IInv, TypeOK
<1>3. ASSUME NEW x \in Rows, NEW version \in Nat, Consume(x, version)
      PROVE  row'[t].subject = row[t].subject
  BY <1>0, <1>3 DEF Consume, IInv, TypeOK, OAuthRow
<1>4. ASSUME NEW q \in Requests, NEW x \in Rows, NEW s \in Subjects, NEW u \in Users,
             NEW a \in Addresses \cup {None}, NEW v \in BOOLEAN,
             CallbackSignIn(q, x, u, s, a, v)
      PROVE  row'[t].subject = row[t].subject
  BY <1>3, <1>4, FoundFacts DEF CallbackSignIn
<1>5. ASSUME NEW q \in Requests, NEW x \in Rows, LinkComplete(q, x)
      PROVE  row'[t].subject = row[t].subject
  <2>1. row[x].version \in Nat
    BY <1>5 DEF LinkComplete, Confirmable, IInv, TypeOK, OAuthRow
  <2> QED
    BY <1>3, <1>5, <2>1 DEF LinkComplete
<1>6. UNCHANGED row => row'[t].subject = row[t].subject
  OBVIOUS
<1> QED
  BY <1>1, <1>2, <1>4, <1>5, <1>6, ZenonT(60)
     DEF Change, Next, vars, Answer, Abandon, Start, Callback, AccountRequestStart,
         PasskeyRegister, PasskeyRevoke, Unlink, PasskeyAdministratorRevoke,
         PasswordCredentialReplace, UserCreate, UserLifecycleSet, UserDelete,
         UserPurge, ProviderUpdate, PolicySet, Tick

\* A stored subject is not replaced: to be let through, a link's callback has
\* read version 1, and the row of a stored subject has a later one.
THEOREM SubjectStands == Spec => StoredSubjectStands
<1>1. IInv /\ Change
        => \A t \in Rows : row[t] # None /\ row[t].subject # None
                                => row'[t].subject = row[t].subject
  BY SubjectStep
<1> QED
  BY <1>1, Invariance, PTL DEF Spec, Change, StoredSubjectStands

\* The steps that grant something, give or take a method, and the rest.
LEMMA MethodCases ==
  ASSUME Change
  PROVE  \/ \E q \in Requests, t \in Rows, u \in Users, s \in Subjects,
               a \in Addresses \cup {None}, v \in BOOLEAN : CallbackSignIn(q, t, u, s, a, v)
         \/ \E q \in Requests, t \in Rows : LinkComplete(q, t)
         \/ \E u \in Users, s \in Subjects : Unlink(u, s)
         \/ \E q \in Requests, k \in Passkeys : PasskeyRegister(q, k)
         \/ \E q \in Requests, k \in Passkeys : PasskeyRevoke(q, k)
         \/ \E k \in Passkeys : PasskeyAdministratorRevoke(k)
         \/ \E u \in Users : PasswordCredentialReplace(u) \/ UserPurge(u)
         \/ UNCHANGED <<identity, password, passkey, granted>>
<1>1. ASSUME NEW q \in Requests,
             \/ Abandon(q)
             \/ \E p \in Providers, u \in Users \cup {None} : Start(q, u, p)
             \/ \E t \in Rows : StartStore(q, t) \/ Callback(q, t)
             \/ \E u \in Users : AccountRequestStart(q, u)
             \/ \E t \in Rows, s \in Subjects : CallbackLink(q, t, s)
      PROVE  UNCHANGED <<identity, password, passkey, granted>>
  BY <1>1 DEF Abandon, Start, StartStore, Callback, AccountRequestStart, CallbackLink
<1>2. ASSUME \/ \E u \in Users, a \in Addresses : UserCreate(u, a)
             \/ \E u \in Users : UserLifecycleSet(u) \/ UserDelete(u)
             \/ \E p \in Providers, e, c \in BOOLEAN : ProviderUpdate(p, e, c)
             \/ PolicySet
             \/ Tick
             \/ UNCHANGED vars
      PROVE  UNCHANGED <<identity, password, passkey, granted>>
  BY <1>2 DEF UserCreate, UserLifecycleSet, UserDelete, ProviderUpdate, PolicySet, Tick, vars
<1> QED
  BY <1>1, <1>2 DEF Change, Next, Answer

\* A subject is never moved from one account to another.
THEOREM SubjectKeeps == Spec => SubjectKeepsItsAccount
<1>1. IInv /\ Change
        => \A s \in Subjects : identity[s] # None => identity'[s] \in {identity[s], None}
  <2> SUFFICES ASSUME IInv, Change, NEW s \in Subjects, identity[s] # None
               PROVE  identity'[s] \in {identity[s], None}
    OBVIOUS
  <2>1. ASSUME NEW q \in Requests, NEW t \in Rows, NEW u \in Users, NEW x \in Subjects,
               NEW a \in Addresses \cup {None}, NEW v \in BOOLEAN,
               CallbackSignIn(q, t, u, x, a, v)
        PROVE  identity'[s] \in {identity[s], None}
    <3>1. SignIn(q, u, x, a, v)
      BY <2>1 DEF CallbackSignIn, SignIn
    <3> QED
      BY <3>1, SignInFacts DEF IInv, TypeOK
  <2>2. ASSUME NEW q \in Requests, NEW t \in Rows, LinkComplete(q, t)
        PROVE  identity'[s] \in {identity[s], None}
    BY <2>2 DEF LinkComplete, Unclaimed, IInv, TypeOK
  <2>3. ASSUME NEW u \in Users, NEW x \in Subjects, Unlink(u, x)
        PROVE  identity'[s] \in {identity[s], None}
    BY <2>3 DEF Unlink, IInv, TypeOK
  <2>4. ASSUME NEW u \in Users, UserPurge(u)
        PROVE  identity'[s] \in {identity[s], None}
    BY <2>4 DEF UserPurge
  <2>5. UNCHANGED identity => identity'[s] \in {identity[s], None}
    OBVIOUS
  <2> QED
    BY <2>1, <2>2, <2>3, <2>4, <2>5, MethodCases
       DEF PasskeyRegister, PasskeyRevoke, PasskeyAdministratorRevoke,
           PasswordCredentialReplace
<1> QED
  BY <1>1, Invariance, PTL DEF Spec, Change, SubjectKeepsItsAccount

\* A set of two has one other than the one that goes.
LEMMA AnotherOne ==
  ASSUME NEW S, IsFiniteSet(S), Cardinality(S) > 1, NEW x \in S
  PROVE  \E y \in S : y # x
<1>1. Cardinality(S \ {x}) = Cardinality(S) - 1 /\ IsFiniteSet(S \ {x})
  BY FS_RemoveElement
<1>2. Cardinality(S) \in Nat /\ Cardinality({}) = 0
  BY FS_CardinalityType, FS_EmptySet
<1>3. S \ {x} # {}
  BY <1>1, <1>2
<1> QED
  BY <1>3

\* A method that stays.
MethodsOnlyGrow ==
    /\ password \subseteq password'
    /\ \A s \in Subjects : identity[s] # None => identity'[s] = identity[s]
    /\ \A k \in Passkeys : passkey[k] # None => passkey'[k] = passkey[k]

LEMMA MethodsGrow ==
  ASSUME MethodsOnlyGrow, NEW u \in Users, HasMethod(u)
  PROVE  HasMethod(u)'
<1>1. CASE u \in password
  BY <1>1 DEF MethodsOnlyGrow, HasMethod
<1>2. CASE UsablePasskeysOf(u) # {}
  BY <1>2 DEF MethodsOnlyGrow, HasMethod, UsablePasskeysOf, PasskeysOf
<1>3. CASE IdentitiesOf(u) # {}
  BY <1>3, NoneFacts DEF MethodsOnlyGrow, HasMethod, IdentitiesOf
<1> QED
  BY <1>1, <1>2, <1>3 DEF HasMethod

LEMMA UnlinkLeaves ==
  ASSUME IInv, NEW u \in Users, NEW s \in Subjects, Unlink(u, s),
         NEW w \in Users, HasMethod(w)
  PROVE  HasMethod(w)'
<1>1. /\ identity' = [identity EXCEPT ![s] = None] /\ identity[s] = u
      /\ UNCHANGED <<password, passkey>>
  BY DEF Unlink
<1>2. CASE w \in password \/ UsablePasskeysOf(w) # {}
  BY <1>1, <1>2 DEF HasMethod, UsablePasskeysOf, PasskeysOf
<1>3. CASE ~(w \in password \/ UsablePasskeysOf(w) # {})
  <2>1. \E x \in IdentitiesOf(w) : x # s
    <3>1. CASE w = u
      <4>1. Cardinality(IdentitiesOf(u)) > 1 /\ s \in IdentitiesOf(u)
        BY <1>1, <1>3, <3>1 DEF Unlink, IdentityMayGo, IdentitiesOf
      <4>2. IsFiniteSet(IdentitiesOf(u))
        BY ExternalIdentitiesAssumption, FS_Subset DEF IdentitiesOf
      <4> QED
        BY <3>1, <4>1, <4>2, AnotherOne
    <3>2. CASE w # u
      BY <1>1, <1>3, <3>2 DEF HasMethod, IdentitiesOf
    <3> QED
      BY <3>1, <3>2
  <2> QED
    BY <1>1, <2>1 DEF HasMethod, IdentitiesOf, IInv, TypeOK
<1> QED
  BY <1>2, <1>3

LEMMA PasskeyRevokeLeaves ==
  ASSUME IInv, NEW q \in Requests, NEW k \in Passkeys, PasskeyRevoke(q, k),
         NEW w \in Users, HasMethod(w)
  PROVE  HasMethod(w)'
<1> DEFINE u == request[q].user
<1>1. /\ passkey' = [passkey EXCEPT ![k].revoked = TRUE]
      /\ k \in UsablePasskeysOf(u)
      /\ PasskeyMayGo(u)
      /\ UNCHANGED <<password, identity>>
  BY DEF PasskeyRevoke
<1>2. CASE w \in password \/ IdentitiesOf(w) # {}
  BY <1>1, <1>2 DEF HasMethod, IdentitiesOf
<1>3. CASE ~(w \in password \/ IdentitiesOf(w) # {})
  <2>1. \E j \in UsablePasskeysOf(w) : j # k
    <3>1. CASE w = u
      <4>1. Cardinality(UsablePasskeysOf(u)) > 1
        BY <1>1, <1>3, <3>1 DEF PasskeyMayGo
      <4>2. IsFiniteSet(UsablePasskeysOf(u))
        BY ExternalIdentitiesAssumption, FS_Subset DEF UsablePasskeysOf, PasskeysOf
      <4> QED
        BY <1>1, <3>1, <4>1, <4>2, AnotherOne
    <3>2. CASE w # u
      BY <1>1, <1>3, <3>2 DEF HasMethod, UsablePasskeysOf, PasskeysOf
    <3> QED
      BY <3>1, <3>2
  <2>2. PICK j \in UsablePasskeysOf(w) : j # k
    BY <2>1
  <2>3. j \in Passkeys /\ passkey'[j] = passkey[j]
    BY <1>1, <2>2 DEF UsablePasskeysOf, PasskeysOf, IInv, TypeOK
  <2>4. j \in UsablePasskeysOf(w)'
    BY <2>2, <2>3 DEF UsablePasskeysOf, PasskeysOf
  <2> QED
    BY <2>4 DEF HasMethod
<1> QED
  BY <1>2, <1>3

\* No request of a user takes the user's last method.
THEOREM MethodStays == Spec => MethodRemains
<1> DEFINE Taken == \/ \E k \in Passkeys : PasskeyAdministratorRevoke(k)
                    \/ \E u \in Users : UserPurge(u)
           Kept == \A u \in Users : HasMethod(u) => HasMethod(u)'
<1>1. IInv /\ Change => Taken \/ Kept
  <2> SUFFICES ASSUME IInv, Change, ~Taken, NEW w \in Users, HasMethod(w)
               PROVE  HasMethod(w)'
    OBVIOUS
  <2>1. CASE \E u \in Users, s \in Subjects : Unlink(u, s)
    BY <2>1, UnlinkLeaves
  <2>2. CASE \E q \in Requests, k \in Passkeys : PasskeyRevoke(q, k)
    BY <2>2, PasskeyRevokeLeaves
  <2>3. ASSUME NEW q \in Requests, NEW t \in Rows, NEW u \in Users, NEW s \in Subjects,
               NEW a \in Addresses \cup {None}, NEW v \in BOOLEAN,
               CallbackSignIn(q, t, u, s, a, v)
        PROVE  MethodsOnlyGrow
    <3>1. SignIn(q, u, s, a, v) /\ UNCHANGED <<password, passkey>>
      BY <2>3 DEF CallbackSignIn, SignIn
    <3> QED
      BY <3>1, SignInFacts DEF IInv, TypeOK, MethodsOnlyGrow
  <2>4. ASSUME NEW q \in Requests, NEW t \in Rows, LinkComplete(q, t)
        PROVE  MethodsOnlyGrow
    BY <2>4 DEF LinkComplete, Unclaimed, IInv, TypeOK, MethodsOnlyGrow
  <2>5. ASSUME NEW q \in Requests, NEW k \in Passkeys, PasskeyRegister(q, k)
        PROVE  MethodsOnlyGrow
    BY <2>5 DEF PasskeyRegister, IInv, TypeOK, MethodsOnlyGrow
  <2>6. ASSUME NEW u \in Users, PasswordCredentialReplace(u)
        PROVE  MethodsOnlyGrow
    BY <2>6 DEF PasswordCredentialReplace, MethodsOnlyGrow
  <2>7. UNCHANGED <<identity, password, passkey>> => MethodsOnlyGrow
    BY DEF MethodsOnlyGrow
  <2>8. \/ \E u \in Users, s \in Subjects : Unlink(u, s)
        \/ \E q \in Requests, k \in Passkeys : PasskeyRevoke(q, k)
        \/ MethodsOnlyGrow
    BY <2>3, <2>4, <2>5, <2>6, <2>7, MethodCases
  <2> QED
    BY <2>1, <2>2, <2>8, MethodsGrow
<1> QED
  BY <1>1, Invariance, PTL DEF Spec, Change, MethodRemains

\* A grant comes late by one exchange at most: what the callback has read of
\* its row and provider held when the exchange began.
THEOREM Late == Spec => LateByOneExchange
<1> DEFINE InTime(t) ==
        /\ now < row[t].expiresAt + ExchangeMax
        /\ \/ provider[row[t].provider].enabled
           \/ now <= provider[row[t].provider].disabledAt + ExchangeMax
<1>1. IInv /\ Change => \A t \in Rows : granted'[t] > granted[t] => InTime(t)
  <2> SUFFICES ASSUME IInv, Change, NEW t \in Rows, granted'[t] > granted[t]
               PROVE  InTime(t)
    OBVIOUS
  <2>0. granted[t] \in Nat /\ ExchangeMax \in Nat /\ now \in Nat
    BY ExternalIdentitiesAssumption DEF IInv, TypeOK
  <2>1. ASSUME NEW q \in Requests, NEW x \in Rows, NEW u \in Users, NEW s \in Subjects,
               NEW a \in Addresses \cup {None}, NEW v \in BOOLEAN,
               CallbackSignIn(q, x, u, s, a, v)
        PROVE  InTime(t)
    <3>1. x = t
      BY <2>0, <2>1 DEF CallbackSignIn, Consume, IInv, TypeOK
    <3>2. Is(q, "callback") /\ request[q].row = t
      BY <2>1, <3>1 DEF CallbackSignIn, Answered
    <3>3. /\ request[q].at < row[t].expiresAt
          /\ now <= request[q].at + ExchangeMax
          /\ \/ provider[row[t].provider].enabled
             \/ provider[row[t].provider].disabledAt >= request[q].at
      BY <3>2 DEF IInv, ReadsSound, ReadInTime
    <3>4. row[t] \in OAuthRow
      BY <2>1, <3>1, FoundFacts DEF CallbackSignIn
    <3>5. /\ row[t].expiresAt \in Nat /\ request[q].at \in Nat
          /\ provider[row[t].provider].disabledAt \in Nat
      BY <3>2, <3>4, CallbackFacts DEF IInv, TypeOK, OAuthRow, ProviderRow
    <3> QED
      BY <2>0, <3>3, <3>5
  <2>2. ASSUME NEW q \in Requests, NEW x \in Rows, LinkComplete(q, x)
        PROVE  InTime(t)
    <3>1. x = t
      BY <2>0, <2>2 DEF LinkComplete, Consume, IInv, TypeOK
    <3>2. /\ row[t] \in OAuthRow /\ row[t].expiresAt > now
          /\ provider[row[t].provider].enabled
      BY <2>2, <3>1 DEF LinkComplete, Confirmable, ProviderServes, IInv, TypeOK
    <3>3. row[t].expiresAt \in Nat
      BY <3>2 DEF OAuthRow
    <3> QED
      BY <2>0, <3>2, <3>3
  <2>3. CASE UNCHANGED granted
    BY <2>0, <2>3
  <2>4. (\E q \in Requests, x \in Rows : LinkComplete(q, x))
        \/ (\E q \in Requests, x \in Rows, u \in Users, s \in Subjects,
               a \in Addresses \cup {None}, v \in BOOLEAN : CallbackSignIn(q, x, u, s, a, v))
        \/ UNCHANGED granted
    BY MethodCases
       DEF Unlink, PasskeyRegister, PasskeyRevoke, PasskeyAdministratorRevoke,
           PasswordCredentialReplace, UserPurge
  <2> HIDE DEF InTime
  <2> QED
    BY <2>1, <2>2, <2>3, <2>4
<1> QED
  BY <1>1, Invariance, PTL DEF Spec, Change, LateByOneExchange
=============================================================================
