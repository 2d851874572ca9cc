------------------------- MODULE ExternalIdentities -------------------------
(***************************************************************************)
(* Accounts of one realm signing in through external identity providers,   *)
(* and the methods they may give up again: linked identities and passkeys. *)
(*                                                                         *)
(* Signing in and linking are round trips.  A start leaves an OAuth        *)
(* transaction in `row`; the browser brings its answer to the callback,    *)
(* which reads the row and the provider, awaits the provider's answer and  *)
(* commits.  A link is then confirmed by its user in a third request.  A   *)
(* handler that awaits is a record in `request` holding what it has read;  *)
(* each of its storage transactions is one step.                           *)
(*                                                                         *)
(* A subject belongs to one provider (ProviderOf) and stands for the pair  *)
(* of provider and external subject.  Realm status, organizations, the     *)
(* login policy's methods and a change of the provider's redirect URI only *)
(* ever refuse a request and are left out, and so is the age of a session: *)
(* a user who is active may have a fresh one.                              *)
(* An answer's signature, nonce and PKCE proof are checked by the port:    *)
(* an answer that fails them abandons the request.                         *)
(***************************************************************************)
EXTENDS Integers, FiniteSets

CONSTANTS
    Users,        \* ids of users
    Addresses,    \* normalized mail addresses
    Providers,
    Subjects,     \* accounts at the providers
    ProviderOf,   \* the provider of each subject
    Passkeys,     \* ids of passkey credentials
    Rows,         \* ids of OAuth transactions
    Requests,     \* bounds the handlers that await something
    Lifetime,     \* externalIdentityStateLifetimeMs, externalIdentityLinkLifetimeMs
    ExchangeMax,  \* the time callbackExchange may take before it fails
    MaxTime,      \* bound of the clock
    None

ASSUME ExternalIdentitiesAssumption ==
    /\ ProviderOf \in [Subjects -> Providers]
    /\ {Lifetime, ExchangeMax, MaxTime} \subseteq Nat
    /\ IsFiniteSet(Subjects) /\ IsFiniteSet(Passkeys)
    /\ None \notin Users \cup Addresses \cup Subjects

VARIABLES
    now,
    user,        \* users: their state and address
    provider,    \* providers' rows
    autoLinking, \* allowExternalIdentityAutoLinking of the login policy
    row,         \* OAuth transactions
    identity,    \* external identities: the user of each linked subject
    password,    \* the users with a password
    passkey,     \* passkey credentials
    request,     \* the handlers under way
    claim,       \* history: what the provider said in each row's callback
    granted      \* history: sign-ins and links each row has led to

vars == <<now, user, provider, autoLinking, row, identity, password, passkey,
          request, claim, granted>>

-----------------------------------------------------------------------------

\* "absent" and "purged" users have no row; "inactive" stands for every
\* state that is neither active nor deleted.
UserRow == [state : {"absent", "inactive", "active", "deleted", "purged"},
            address : Addresses \cup {None}]
\* `disabledAt` is history.
ProviderRow == [enabled : BOOLEAN, creation : BOOLEAN, disabledAt : Nat]
OAuthRow == [intent : {"sign_in", "link"}, user : Users \cup {None},
             provider : Providers, expiresAt : Nat,
             subject : Subjects \cup {None}, consumed : BOOLEAN, version : Nat]
PasskeyRow == [user : Users, revoked : BOOLEAN]

StartRequest == [op : {"start"}, intent : {"sign_in", "link"},
                 user : Users \cup {None}, provider : Providers, at : Nat]
CallbackRequest == [op : {"callback"}, row : Rows, version : Nat,
                    creation : BOOLEAN, at : Nat]
AccountRequest == [op : {"account"}, user : Users]
Request == StartRequest \cup CallbackRequest \cup AccountRequest

\* address: of a sign-in, the one that the provider says is verified.
Claim == [subject : Subjects, address : Addresses \cup {None}]

ASSUME NoneAssumption ==
    None \notin OAuthRow \cup PasskeyRow \cup Request \cup Claim

HasRow(u) == user[u].state \notin {"absent", "purged"}
Active(u) == user[u].state = "active"

IdentitiesOf(u) == {s \in Subjects : identity[s] = u}
PasskeysOf(u) == {k \in Passkeys : passkey[k] # None /\ passkey[k].user = u}
UsablePasskeysOf(u) == {k \in PasskeysOf(u) : ~passkey[k].revoked}

HasMethod(u) ==
    u \in password \/ UsablePasskeysOf(u) # {} \/ IdentitiesOf(u) # {}

-----------------------------------------------------------------------------

Init ==
    /\ now = 0
    /\ user = [u \in Users |-> [state |-> "absent", address |-> None]]
    /\ provider \in [Providers ->
            [enabled : {TRUE}, creation : BOOLEAN, disabledAt : {0}]]
    /\ autoLinking \in BOOLEAN
    /\ row = [t \in Rows |-> None]
    /\ identity = [s \in Subjects |-> None]
    /\ password = {}
    /\ passkey = [k \in Passkeys |-> None]
    /\ request = [q \in Requests |-> None]
    /\ claim = [t \in Rows |-> None]
    /\ granted = [t \in Rows |-> 0]

Open(q, r) == request[q] = None /\ request' = [request EXCEPT ![q] = r]
Close(q) == request' = [request EXCEPT ![q] = None]
Is(q, op) == request[q] # None /\ request[q].op = op

\* A request fails: its body, the provider's answer or a check of the
\* commit is no good.  Storage transactions that fail leave no trace.
Abandon(q) ==
    /\ request[q] # None
    /\ Close(q)
    /\ UNCHANGED <<now, user, provider, autoLinking, row, identity, password,
                   passkey, claim, granted>>

\* The start of a sign-in (by nobody, None) or of a link by a user.
Start(q, u, p) ==
    /\ u = None \/ (u \in Users /\ Active(u))
    /\ provider[p].enabled
    /\ Open(q, [op |-> "start",
                intent |-> IF u = None THEN "sign_in" ELSE "link", user |-> u,
                provider |-> p, at |-> now])
    /\ UNCHANGED <<now, user, provider, autoLinking, row, identity, password,
                   passkey, claim, granted>>

ExpiryOf(at) == at + Lifetime

\* The URL is there and the transaction is stored.
StartStore(q, t) ==
    /\ Is(q, "start")
    /\ row[t] = None
    /\ row' = [row EXCEPT ![t] =
                [intent |-> request[q].intent, user |-> request[q].user,
                 provider |-> request[q].provider,
                 expiresAt |-> ExpiryOf(request[q].at),
                 subject |-> None, consumed |-> FALSE, version |-> 1]]
    /\ Close(q)
    /\ UNCHANGED <<now, user, provider, autoLinking, identity, password,
                   passkey, claim, granted>>

ProviderServes(t) == provider[row[t].provider].enabled

\* The foreign key takes a link's row away with its user's: such a row is in
\* `row` for the record only.
UserStands(t) == row[t].user # None => HasRow(row[t].user)

\* Mutant: the callback does not look at the row's expiry.
CallableExpired(t) ==
    /\ row[t] # None
    /\ UserStands(t)
    /\ ~row[t].consumed
    /\ row[t].intent = "link" => row[t].subject = None
    /\ ProviderServes(t)
\* Whether a callback for row t is let through to the provider.
Callable(t) ==
    /\ row[t] # None
    /\ UserStands(t)
    /\ ~row[t].consumed
    /\ row[t].expiresAt > now
    /\ row[t].intent = "link" => row[t].subject = None
    /\ ProviderServes(t)

Callback(q, t) ==
    /\ Callable(t)
    /\ Open(q, [op |-> "callback", row |-> t, version |-> row[t].version,
                creation |-> provider[row[t].provider].creation, at |-> now])
    /\ UNCHANGED <<now, user, provider, autoLinking, row, identity, password,
                   passkey, claim, granted>>

\* Mutant: the row is written whatever has become of it since it was read.
FoundUnwatched(q) == TRUE
\* The conditional update of the row the handler has read.
Found(q) ==
    LET t == request[q].row
    IN  UserStands(t) /\ row[t].version = request[q].version /\ ~row[t].consumed

\* What a callback's storage transaction has in common: the answer is about
\* a subject of the row's provider.
Answered(q, t, s) ==
    /\ Is(q, "callback")
    /\ request[q].row = t
    /\ ProviderOf[s] = row[t].provider

\* A link is remembered until its user confirms it.
CallbackLink(q, t, s) ==
    /\ Answered(q, t, s)
    /\ row[t].intent = "link"
    /\ Found(q)
    /\ row' = [row EXCEPT ![t].subject = s, ![t].version = request[q].version + 1]
    /\ claim' = [claim EXCEPT ![t] = [subject |-> s, address |-> None]]
    /\ Close(q)
    /\ UNCHANGED <<now, user, provider, autoLinking, identity, password, passkey, granted>>

Consume(t, version) ==
    /\ row' = [row EXCEPT ![t].consumed = TRUE, ![t].version = version + 1]
    /\ granted' = [granted EXCEPT ![t] = @ + 1]

HoldersOf(a) == {u \in Users : HasRow(u) /\ user[u].address = a}

MayAutoLink(u, a) == autoLinking /\ u \in HoldersOf(a) /\ Active(u)

\* The account the subject signs in to: the one it is linked to, ...
SignInLinked(u, s) ==
    /\ identity[s] = u
    /\ Active(u)
    /\ UNCHANGED <<identity, user>>

\* ... the active account with its verified address, ...
SignInAutoLink(u, s, a, verified) ==
    /\ identity[s] = None
    /\ verified
    /\ MayAutoLink(u, a)
    /\ identity' = [identity EXCEPT ![s] = u]
    /\ UNCHANGED user

\* ... or a new one.  The provider's row is the one read before the exchange.
SignInCreate(q, u, s, a, verified) ==
    /\ identity[s] = None
    /\ a # None /\ verified
    /\ HoldersOf(a) = {}
    /\ request[q].creation
    /\ user[u].state = "absent"
    /\ user' = [user EXCEPT ![u] = [state |-> "active", address |-> a]]
    /\ identity' = [identity EXCEPT ![s] = u]

CallbackSignIn(q, t, u, s, a, verified) ==
    /\ Answered(q, t, s)
    /\ row[t].intent = "sign_in"
    /\ \/ SignInLinked(u, s)
       \/ SignInAutoLink(u, s, a, verified)
       \/ SignInCreate(q, u, s, a, verified)
    /\ Found(q)
    /\ Consume(t, request[q].version)
    /\ claim' = [claim EXCEPT ![t] = [subject |-> s, address |-> IF verified THEN a ELSE None]]
    /\ Close(q)
    /\ UNCHANGED <<now, provider, autoLinking, password, passkey>>

-----------------------------------------------------------------------------
(* The account's own requests.  Where the handler awaits the body, the      *)
(* session was looked up before.                                            *)

AccountRequestStart(q, u) ==
    /\ Active(u)
    /\ Open(q, [op |-> "account", user |-> u])
    /\ UNCHANGED <<now, user, provider, autoLinking, row, identity, password,
                   passkey, claim, granted>>

\* Mutant: any user who has the confirmation token may use it.
ConfirmableByAnyone(u, t) ==
    /\ row[t] # None
    /\ UserStands(t)
    /\ row[t].intent = "link"
    /\ row[t].subject # None
    /\ ~row[t].consumed
    /\ row[t].expiresAt > now
    /\ ProviderServes(t)
\* The confirmation token of row t is good in the hands of user u.
Confirmable(u, t) ==
    /\ row[t] # None
    /\ UserStands(t)
    /\ row[t].intent = "link"
    /\ row[t].user = u
    /\ row[t].subject # None
    /\ ~row[t].consumed
    /\ row[t].expiresAt > now
    /\ ProviderServes(t)

\* Mutant: a subject is moved to the account that asks for it.
UnclaimedOrMoved(s) == TRUE
Unclaimed(s) == identity[s] = None

LinkComplete(q, t) ==
    /\ Is(q, "account")
    /\ Confirmable(request[q].user, t)
    /\ Unclaimed(row[t].subject)
    /\ HasRow(request[q].user)
    /\ identity' = [identity EXCEPT ![row[t].subject] = request[q].user]
    /\ Consume(t, row[t].version)
    /\ Close(q)
    /\ UNCHANGED <<now, user, provider, autoLinking, password, passkey, claim>>

\* Mutant: revoked passkeys are counted, too.
IdentityMayGoForAny(u) ==
    Cardinality(IdentitiesOf(u)) > 1 \/ u \in password \/ PasskeysOf(u) # {}
IdentityMayGo(u) ==
    Cardinality(IdentitiesOf(u)) > 1 \/ u \in password \/ UsablePasskeysOf(u) # {}

Unlink(u, s) ==
    /\ Active(u)
    /\ identity[s] = u
    /\ IdentityMayGo(u)
    /\ identity' = [identity EXCEPT ![s] = None]
    /\ UNCHANGED <<now, user, provider, autoLinking, row, password, passkey,
                   request, claim, granted>>

\* passkeyRegistrationComplete, seen from here.
PasskeyRegister(q, k) ==
    /\ Is(q, "account")
    /\ passkey[k] = None
    /\ HasRow(request[q].user)
    /\ passkey' = [passkey EXCEPT ![k] = [user |-> request[q].user, revoked |-> FALSE]]
    /\ Close(q)
    /\ UNCHANGED <<now, user, provider, autoLinking, row, identity, password,
                   claim, granted>>

PasskeyMayGo(u) ==
    Cardinality(UsablePasskeysOf(u)) > 1 \/ u \in password \/ IdentitiesOf(u) # {}

PasskeyRevoke(q, k) ==
    /\ Is(q, "account")
    /\ k \in UsablePasskeysOf(request[q].user)
    /\ PasskeyMayGo(request[q].user)
    /\ passkey' = [passkey EXCEPT ![k].revoked = TRUE]
    /\ Close(q)
    /\ UNCHANGED <<now, user, provider, autoLinking, row, identity, password,
                   claim, granted>>

-----------------------------------------------------------------------------
(* Administration.                                                          *)

\* Administrators own the risk of leaving a user without a method.
PasskeyAdministratorRevoke(k) ==
    /\ passkey[k] # None /\ ~passkey[k].revoked
    /\ passkey' = [passkey EXCEPT ![k].revoked = TRUE]
    /\ UNCHANGED <<now, user, provider, autoLinking, row, identity, password,
                   request, claim, granted>>

PasswordCredentialReplace(u) ==
    /\ HasRow(u) /\ user[u].state # "deleted"
    /\ password' = password \cup {u}
    /\ UNCHANGED <<now, user, provider, autoLinking, row, identity, passkey,
                   request, claim, granted>>

UserCreate(u, a) ==
    /\ user[u].state = "absent"
    /\ HoldersOf(a) = {}
    /\ \E state \in {"inactive", "active"} :
            user' = [user EXCEPT ![u] = [state |-> state, address |-> a]]
    /\ UNCHANGED <<now, provider, autoLinking, row, identity, password, passkey,
                   request, claim, granted>>

UserLifecycleSet(u) ==
    /\ user[u].state \in {"inactive", "active"}
    /\ user' = [user EXCEPT ![u].state =
                    IF @ = "active" THEN "inactive" ELSE "active"]
    /\ UNCHANGED <<now, provider, autoLinking, row, identity, password, passkey,
                   request, claim, granted>>

UserDelete(u) ==
    /\ HasRow(u) /\ user[u].state # "deleted"
    /\ user' = [user EXCEPT ![u].state = "deleted"]
    /\ UNCHANGED <<now, provider, autoLinking, row, identity, password, passkey,
                   request, claim, granted>>

\* The rows that refer to the user go with the user's own (UserStands).
UserPurge(u) ==
    /\ user[u].state = "deleted"
    /\ user' = [user EXCEPT ![u].state = "purged"]
    /\ identity' = [s \in Subjects |-> IF identity[s] = u THEN None ELSE identity[s]]
    /\ password' = password \ {u}
    /\ passkey' = [k \in Passkeys |-> IF k \in PasskeysOf(u) THEN None ELSE passkey[k]]
    /\ UNCHANGED <<now, provider, autoLinking, row, request, claim, granted>>

ProviderUpdate(p, enabled, creation) ==
    /\ provider' = [provider EXCEPT ![p] =
            [enabled |-> enabled, creation |-> creation,
             disabledAt |-> IF @.enabled /\ ~enabled THEN now ELSE @.disabledAt]]
    /\ UNCHANGED <<now, user, autoLinking, row, identity, password, passkey,
                   request, claim, granted>>

PolicySet ==
    /\ autoLinking' = ~autoLinking
    /\ UNCHANGED <<now, user, provider, row, identity, password, passkey,
                   request, claim, granted>>

\* An exchange that takes longer than ExchangeMax is given up.
Tick ==
    /\ now < MaxTime
    /\ \A q \in Requests : Is(q, "callback") => now < request[q].at + ExchangeMax
    /\ now' = now + 1
    /\ UNCHANGED <<user, provider, autoLinking, row, identity, password, passkey,
                   request, claim, granted>>

Answer(q, t, s, a, verified) ==
    \/ CallbackLink(q, t, s)
    \/ \E u \in Users : CallbackSignIn(q, t, u, s, a, verified)

Next ==
    \/ \E q \in Requests :
        \/ Abandon(q)
        \/ \E p \in Providers, u \in Users \cup {None} : Start(q, u, p)
        \/ \E t \in Rows : StartStore(q, t)
        \/ \E t \in Rows : Callback(q, t)
        \/ \E t \in Rows, s \in Subjects, a \in Addresses \cup {None}, v \in BOOLEAN :
                Answer(q, t, s, a, v)
        \/ \E u \in Users : AccountRequestStart(q, u)
        \/ \E t \in Rows : LinkComplete(q, t)
        \/ \E k \in Passkeys : PasskeyRegister(q, k)
        \/ \E k \in Passkeys : PasskeyRevoke(q, k)
    \/ \E u \in Users, s \in Subjects : Unlink(u, s)
    \/ \E k \in Passkeys : PasskeyAdministratorRevoke(k)
    \/ \E u \in Users : PasswordCredentialReplace(u)
    \/ \E u \in Users, a \in Addresses : UserCreate(u, a)
    \/ \E u \in Users : UserLifecycleSet(u) \/ UserDelete(u) \/ UserPurge(u)
    \/ \E p \in Providers, e, c \in BOOLEAN : ProviderUpdate(p, e, c)
    \/ PolicySet
    \/ Tick

Spec == Init /\ [][Next]_vars

-----------------------------------------------------------------------------

TypeOK ==
    /\ now \in Nat
    /\ user \in [Users -> UserRow]
    /\ provider \in [Providers -> ProviderRow]
    /\ autoLinking \in BOOLEAN
    /\ row \in [Rows -> OAuthRow \cup {None}]
    /\ identity \in [Subjects -> Users \cup {None}]
    /\ password \subseteq Users
    /\ passkey \in [Passkeys -> PasskeyRow \cup {None}]
    /\ request \in [Requests -> Request \cup {None}]
    /\ claim \in [Rows -> Claim \cup {None}]
    /\ granted \in [Rows -> Nat]

\* An OAuth transaction leads to one sign-in or one link at most, however
\* many callbacks were let through to the provider with its state and
\* however often its confirmation is sent: all of them write the row under
\* the version they read before the await.
RowGrantsOnce == \A t \in Rows : granted[t] <= 1

\* What a transaction has led to is a link its own user asked for or an
\* account with the address the provider had verified: every linked subject
\* was named by the provider in the callback of a consumed transaction, of
\* the user it is linked to or with that user's address.
Founds(t, s) ==
    /\ row[t] # None
    /\ row[t].consumed
    /\ claim[t] # None
    /\ claim[t].subject = s
    /\ \/ row[t].intent = "link" /\ row[t].user = identity[s]
       \/ /\ row[t].intent = "sign_in"
          /\ claim[t].address = user[identity[s]].address
IdentityIsFounded ==
    \A s \in Subjects : identity[s] # None => \E t \in Rows : Founds(t, s)

\* The subject a callback stored is the one that is confirmed: another
\* callback for the same transaction, under way at the time, does not put
\* its own subject in its place.
StoredSubjectStands ==
    [][\A t \in Rows : row[t] # None /\ row[t].subject # None
                            => row'[t].subject = row[t].subject]_vars

\* A subject stays with the account it is linked to until that account, or
\* the purge of that account, gives it up.
SubjectKeepsItsAccount ==
    [][\A s \in Subjects : identity[s] # None
                            => identity'[s] \in {identity[s], None}]_vars

\* A user who has a method to sign in with keeps one, whichever identities
\* and passkeys the user's requests remove and in whatever order: only an
\* administrator's revocation, or the purge, takes the last one.
MethodRemains ==
    [][\/ \E k \in Passkeys : PasskeyAdministratorRevoke(k)
       \/ \E u \in Users : UserPurge(u)
       \/ \A u \in Users : HasMethod(u) => HasMethod(u)']_vars

\* A callback uses the provider's row and the time it read before the
\* exchange: a sign-in through a provider that has been disabled, or on a
\* transaction that has expired, is late by one exchange at most.
LateByOneExchange ==
    [][\A t \in Rows : granted'[t] > granted[t] =>
            /\ now < row[t].expiresAt + ExchangeMax
            /\ \/ provider[row[t].provider].enabled
               \/ now <= provider[row[t].provider].disabledAt + ExchangeMax]_vars
=============================================================================
