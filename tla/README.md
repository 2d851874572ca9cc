# authworks: specification and verification

authworks is a multi-tenant identity service: users sign in with a password, a
one-time code by e-mail or WhatsApp, a passkey or a social account; applications
get OAuth 2.1 / OpenID Connect tokens; administrators manage realms,
organizations and projects. It is one Bun process over one SQLite file
(`src/src/platform/storage`), with SMTP, WhatsApp gateways (WAHA), identity
providers and an R2 object store behind HTTP.

This directory holds TLA+ models of its core, TLC configurations that check
them on small instances, and TLAPS proofs that hold for every instance.

    tlc -workers 4 -config OidcTokensReplay.cfg MCOidcTokens.tla
    tlapm OidcTokens_proofs.tla

`PROJECT.json` lists the runs, the source lines each definition translates, the
mutants that show each property can fail, the finding, and the hazards.

## What runs concurrently

- **Transactions.** `bun:sqlite` is synchronous and a handler does its reads and
  writes inside `storageTransactionRun` (`storageTransactionRun.ts:16-31`), with
  no `await` in between. So a transaction is one atomic step.
- **Awaits in a handler.** A handler that reads the request's body, hashes a
  password or asks a provider between two reads has let other requests run
  meanwhile. What it read before may be stale after. `Sessions`,
  `Organizations` and `ExternalIdentities` therefore have *requests under way*:
  one action for what the handler reads before the `await`, one for what it does
  after. A handler without a body runs in one turn of the event loop and is one
  action.
- **A transaction that returns an error result is rolled back**, whatever it
  wrote: a refused request is a stuttering step. One that reports failure as
  *data* commits. Both matter: a wrong one-time code must count, and a wrong
  answer to a second-factor challenge does not (see Findings).
- **Time.** Each handler reads the clock once. Time passes between steps.
- **HTTP to the outside** (object store, SMTP, WAHA, providers) is awaited outside
  transactions: answers come late or never, and the process may crash meanwhile.
- **Timers** (`serverApplicationCreate.ts`): picture clean-up, WAHA health,
  geo database refresh.
- The **event log** is appended in the transaction of the change it records.

## Inventory

| component (`src/src/features/...`) | state | operations | what is hard | what makes it correct |
|---|---|---|---|---|
| oidc: tokens | codes, refresh and access token rows | code exchange and redeem, refresh, RFC 7009 revocation, own-family revocation, logout | replay against rotation, four revocations that select rows by different columns, lifetimes under changing policies | one usable refresh token per family; families end whole and for good; scopes and lifetime never grow |
| oidc: authorization, consent | authorization requests, consents, clients | authorize, resume, consent, client administration | a request that outlives its session or client | a code only for a live session and a valid client |
| oidc: signing keys | keys per realm, active or retired | create, activate, retire, delete, publish | retirement against tokens still valid, two first requests creating a key | one active key; every valid token verifiable |
| sessions, impersonation | session rows, credential hashes, browser's recent sessions | issue, authenticate, rotate, resume, revoke, impersonate | rotation by two holders of one token, resume after revocation, an impersonator whose own session ends | who holds a session can be told; assurance was shown; a revoked session is over |
| passwords | credentials, lock rows, recovery tokens, policies | sign-in, registration, recovery, change, replacement | lock counts and `users.state` are separate facts kept in step by hand | a lock holds until it ends, and ends |
| emailOtp, whatsappOtp | challenges, shared lock rows | start, resend, verify | challenges outlive user state and address ownership; two locks, one state | one open code per address, each used once, for its holder |
| mfa | TOTP counters, recovery codes, login and step-up challenges, failures | enrol, challenge, complete, withdraw | counters and codes are used up by overlapping attempts | no code accepted twice; no assurance without a challenge |
| passkeys | credentials, ceremonies, signature counters | register, sign in, remove | a cloned authenticator; removal of the last method | counters rise; a method remains |
| externalIdentities | providers, transactions, links | start, callback, confirm, link, unlink | callback after an exchange of any length, two callbacks of one transaction, links of one subject to two users | one user per subject; a subject linked only on its user's word or address |
| users | user rows, e-mails, phones, change challenges, profile, metadata | lifecycle, deletion, purge, address changes | everyone else reads `users.state` | transition table holds |
| users: profile pictures | clean-up table, object store | upload, import, remove, drain | two stores, no common transaction | shown pictures exist, others go |
| organizations | memberships, invitations, domains, login policies | administration, invitation, acceptance, switch | a role that was read before the body; acceptance against withdrawal; the last owner | an owner only by an owner's decision; an owner remains |
| realms, authorization | realms, administrators; predicates over roles | administration | the last administrator | one remains |
| projects | applications, roles, grants | administration, grants between organizations | grants that outlive what they grant | a role only through a live grant |
| machineUsers | machine users, secrets, personal tokens | issue, rotate, revoke | a token outlives its user | revoked means refused |
| waha | cached health of senders | check, select, deliver, mark | a check that answers after a delivery failed; a row rewritten under a delivery | a failed sender is not chosen until it was found working again; a working one serves again |
| email | SMTP, IMAP | send | fire and forget | - |
| events | append-only log | append, list, purge | versions are not unique | facts are logged once |
| platform: storage, rate limits, lockout | transactions, counters per window | run, consume | windows at their edge | limits hold |
| zitadelMigration | source records, imported rows | import, resume, delete | resumes half-way | idempotent |
| account, admin, login, directory, mcp, demo, configuration, UI | none of the service's own | present and forward | - | - |

They interact through rows, not messages: `users.state`, the session row and the
client row are read by every token and sign-in handler; the lock rows are
written by passwords and by both code channels; deletion of a user is a row
change each other component must notice by itself. Callbacks connect
externalIdentities to picture import and the credential features to delivery.

## Modules

    RefreshFamily        abstract: what rotation promises of a family
    PictureBoard         abstract: what a reader of profiles sees of pictures
    SessionLife          abstract: what others have to know of a session's life
    OidcTokens           the token tables and endpoints; implements RefreshFamily
                         and SessionLife
    SigningKeys          the keys of a realm, its JWKS, and the tokens they sign
    Sessions             sessions, their credentials, impersonation; implements
                         SessionLife
    SignIn               first factor, two locks, recovery, lifecycle
    SecondFactor         authenticators, challenges, recovery codes, lockout
    ExternalIdentities   providers' subjects, their transactions and links
    Organizations        members, invitations and administrators of a realm
    ProfilePictures      clean-up table, uploads, drains, object store, crashes;
                         implements PictureBoard
    WahaHealth           WhatsApp senders: check, choice, delivery
    *_proofs             theorems about the module before the underscore;
                         KeysAndSenders_proofs: SigningKeys and WahaHealth
    MC*                  instances for TLC: owners, policies, symmetry, views

Definitions marked `Mutant` in a module are faulty variants of the definition
that follows; no specification uses them. A property is kept only if replacing a
definition by such a variant makes its run fail.

The modules model one realm (a handler never touches rows of two) and each other
at their edges. `OidcTokens` has a session only as an owner, an expiry and a flag.
That this loses nothing is stated by a contract, `SessionLife` (issued once, to
one person; shortened while it lives; revoked for good), and proved from both
sides: what `Sessions` does is a step of the contract, and so is what happens to
sessions in `OidcTokens`, logout included; and every step the contract allows is
one `OidcTokens` takes, as long as its clock may run. So no way a session can go
is missing under the token endpoint. Two things are fixed for an instance: who
owns which session (`Owner`), and a clock bound. The existence of an active key is
one Boolean there, whose cause is in `SigningKeys`; `SecondFactor` takes the outcome of a first factor
from `SignIn`. Common conventions: a table is a function from row ids to records
or `None`; a secret and the row that stores its hash are one value; a timestamp
that is only compared with null is a Boolean; ids that are never reused are
bounded by the size of their set.

### OidcTokens

State: one function per table; a family is named by its first refresh token.
`familyRevoked`, `replayed`, `loggedOut` are the events in the log.

| action | code |
|---|---|
| `AuthorizationCodeIssue`, `...Redeem`, `...Exchange` | end of authorize/consent; `oidcAuthorizationCodeRedeem`; `oidcTokenIssue` with a code |
| `RefreshRotate`, `RefreshReplay` | the outcomes of `oidcTokenIssue` with a refresh token that are not refusals |
| `AccessTokenRevoke`, `RefreshTokenRevoke`, `FamilyMeRevoke`, `FamiliesMeRevokeAll`, `Logout` | `oidcTokenRevoke`, account page, `oidcLogout` |
| `SessionIssue`, `SessionResume`, `SessionsRevoke`, `UserLifecycleSet`, `UserDelete`, `ClientUpdate`, `ClientLifecycleSet`, `ClientContextChange`, `SigningKeyChange`, `Tick` | what other features change under the token endpoint |

`SessionIssue` does not ask for the user's state, as `sessionIssue.ts` does not: a
session may be issued to a user suspended since the first factor, and the token
endpoint must refuse it by itself. `SessionResume` gives a live session the
lifetime of the policy of now, never a later end.

The data left out: hashes, PKCE, claims, redirect URIs (they only refuse a
request), and states of a user other than active and deleted, which the token
endpoint does not tell apart.

`ImplementsRefreshFamily` states refinement: `holder[f]` is the unrevoked refresh
token of family `f`, `bearer[f]` its unrevoked access tokens, a family has ended
when it was started and has no holder.

### SigningKeys

State: the key rows, the realm's status, per key the latest expiry of the tokens
it signed (history). `SigningKeyCreate` is the rotation route,
`SigningKeyEnsureActive` what the first request of a realm does,
`SigningKeyLifecycleSet` retirement, `Published` the JWKS. The code publishes the
JWKS of an inactive realm too, and the routes for retirement and deletion do not
ask for the realm's status; the model does the same. A retired key may be deleted
at once, also one whose tokens are valid: `PublishedWhileValid` is about keys that
were not. The clock does not run back; `exp` is not rounded.

### Sessions

State: session rows; `bearer[s]`, the holders of the credentials session `s` ever
had, the last of which is valid; `pending`, the impersonation requests that wait
for their body; `ended`, the recorded ends of impersonations.

| action | code |
|---|---|
| `SignIn`, `Issue` | `sessionIssue` after any first factor |
| `Rotate`, `StepUp` | `sessionRotate`; the second factor of a session that exists |
| `RecentResume` | resuming one of the browser's recent sessions |
| `Revoke`, `RevokeAll`, `OidcLogout` | self-service, password change and account page; RP-initiated logout |
| `Admit`, `ImpersonationStart`, `ImpersonationEnd` | middleware and handler of the administrators' routes |
| `UserStateChange`, `PolicySet`, `Tick` | what others change meanwhile |

Left out: the selected organization, `lastUsedAt`, geography, the limit of five
recent sessions and the lifetime of a bootstrap administrator's session; all but
the last only refuse. A resumed session keeps its `createdAt`, and so what a policy says of the age
of a second factor's check.

### SignIn

State: `users.state` with `deletedAt`, who holds each verified address, the two
lock tables, the challenges of both channels, recovery tokens. `stateBy` is a
history variable (an administrator may reactivate a user whose lock is still in
force, and the lock invariant must allow that); `response` is the answer of the
last request, for properties about answers.

`Failed` is the lock arithmetic both channels share; `OtpVerifyRight` keeps the
code's order: it ends a locked state first and asks for eligibility after, and
commits both. Rate limits, organization policies and delivery only refuse and
are left out. Two challenges of one address created at the same moment are both
"latest"; SQLite picks one, the model either.

### SecondFactor

State: challenges, TOTP enrollments, recovery codes, lockout rows and sessions.
A proof is a code of an authenticator in one step of 30 seconds, one mailed
code, or one recovery code; `used`, `reused` and `grants` record over all routes
which were accepted and what for. `withdrawn` are the challenges an
administrator's removal closed, `wrong` the wrong answers to a challenge.

| action | code |
|---|---|
| `PrimaryComplete`, `LoginStart`, `StepUpStart`, `FactorSelect`, `EmailOtpStart` | the first half of a login or step-up |
| `LoginComplete`, `StepUpComplete`, `ChallengeFail` | `mfaChallengeComplete`, right and wrong |
| `TotpEnrollmentStart/Confirm/Remove`, `TotpVerify`, `TotpVerifyFail` | authenticators; `/mfa/totp/verify` |
| `TotpAdministratorRemove`, `RecoveryCodes...`, `RecoveryCodeVerify` | administration, recovery codes |

A wrong answer to a challenge and a wrong confirmation of an enrollment are
rolled back: the one leaves its count in `wrong` only, the other is no step.
Left out: factor policies, the cooldown between mails, the user's state (login
completion does not read it), the credentials of the sessions made. A passkey
can be selected, but no HTTP route completes a login with it.

### ExternalIdentities

State: users with state and address, providers, OAuth transactions (`row`),
links (`identity`), passwords and passkeys as the other methods a user may have,
and `request`, the handlers that await a provider or a body with what they have
read. `claim` and `granted` are history.

| action | code |
|---|---|
| `Start`, `StartStore` | sign-in or link start, before and after discovery |
| `Callback`, `Answer` | the callback before and after the exchange; `Answer` is a stored link, a sign-in of a linked subject, an auto-link or a new account |
| `AccountRequestStart`, `LinkComplete`, `PasskeyRegister`, `PasskeyRevoke` | account pages that wait for a body, and what they then do |
| `Unlink`, `PasskeyAdministratorRevoke`, `PasswordCredentialReplace`, `User...`, `ProviderUpdate`, `PolicySet` | handlers of one step |
| `Abandon` | a provider that fails, an answer that does not check, a request that is refused |

Left out, because they only refuse: realm status, organizations and their
methods, a changed redirect URI, the age of a session. Addresses do not change.
`Tick` assumes that an exchange ends within `ExchangeMax`, the client's
time-out. Links of purged users go with them; their rows stay for the record.

### Organizations

State: users' states, the rows of `realm_administrators`, organizations, roles
of members, invitations, and `awaiting`, the requests whose body has not come.
`Operator` is a bootstrap administrator or the holder of the system secret.
`appointed` (history) are the owners somebody entitled made, `sound` of an
invitation that its author might give its roles.

| action | code |
|---|---|
| `Admit`, `Refuse` | the middleware of a route with a body; a request that comes to nothing |
| `OrganizationCreate/LifecycleSet/Purge` | an organization's life |
| `OrganizationMembershipCreate/Update/Remove` | memberships |
| `OrganizationInvitationCreate/Revoke/Accept/Decline/MeAccept/MeDecline` | invitations; the public and the signed-in way |
| `RealmAdministratorGrant/Revoke`, `UserLifecycleSet`, `UserDelete`, `UserPurge` | administrators and users |

An organization's handlers authorize again after the body; the realm's and the
user's do not, which is why `Admit` checks for them. Left out: the realm's
status, assurance, `invitedBy`, mail, domains, branding, metadata, login policies
and the switch of a session's organization. `Lapse` stands for the passing of
`expiresAt`.

### ProfilePictures

State: per object key the clean-up row, the upload it was made for, its PUT and
whether the object exists; per drain its remaining list, its current key and
whether its DELETE took effect. A drain's list, claim, delete and confirmation
are separate steps, as there is an `await` between them. Leases are clock-free:
`LeaseOver` may happen at any time after a lease is taken, which covers every
relation between the five-minute lease and the duration of requests, also that
the drain computes the lease from the time it started. Keys are random
(`userPictureGenerationCreate`), so each upload has its own. User names, which
keys contain, never change in this code. A crash ends every request and leaves
what was sent on its way; the restart's first drain is `DrainStart(Timer)`.
`stray` and `overtaken` are history variables: keys for which the code
makes no promise, so that what it does promise can be stated exactly. A deletion
is taken to be final; the way back that Findings names (`emailOtpVerify.ts:458`)
would show again a picture that may be gone.

`ImplementsPictureBoard` states refinement: a profile shows its picture while its
user is not deleted, a key is in the store, or gone once its PUT landed and the
object is not there, and is spent when its upload is over and nobody shows it.

### WahaHealth

State: the configured sessions of each gateway, the rows of the table of
candidates, the check under way, the deliveries. A row's `expiresAt` is kept as
the time left, so that the clock needs no bound; its version is kept as
`current`, whether a delivery's row was written since it was chosen.

| action | code |
|---|---|
| `Refresh`, `Answer` | `wahaHealthRegistryCreate`: begin, and one gateway's answer, or its failure, at a time |
| `Send`, `Delivered`, `Fails` | `wahaTextDeliverySend` with its second attempt, and `candidateMarkUnhealthy` |
| `TimePasses`, `Restart` | time; the end of the process and a start with another configuration |

Left out: failures of the storage, a disabled WAHA, the status `unknown`. A
sender without a row is treated like an unhealthy one, as the code does. The
availability that the login page shows may be out of date when the code is sent;
`Send` chooses again.

## Runs

| run | instance | shows |
|---|---|---|
| `replay` | 1 session of two possible lifetimes, 1 client, 1 code, 3+3 tokens, two policies, time 0..2 | families do not fork, die whole, stay dead; lifetime is anchored; logout is complete |
| `families` | 2 codes of 1 session, 3+3 tokens, 1 optional scope, time 0 | refinement of `RefreshFamily`; scopes only shrink; one family per code, one recorded end per family |
| `keys` | 3 keys, lifetimes 1 and 4, a day of 3, time 0..6 | one active key; valid tokens verifiable |
| `sessions` | 2 users and a bootstrap administrator, 3 sessions of 2 credentials, 1 waiting request, time 0..1 | who acts can be told; assurance was shown; revoked is over |
| `locks` | 1 user, e-mail and phone, 2 challenges, limit 2, lock of 2, time 0..3 | lock rows agree with counts, locks hold and are not prolonged; one open code per address; sound acceptance |
| `mfa` | 1 user, 2 challenges, 2 authenticators, 2 sessions, 1 recovery code, time 0..1 | no code twice; a challenge grants once; assurance has its challenge; withdrawn ones grant nothing; lockouts last |
| `mfaAttempts` | the same; violation | the finding |
| `external` | 2 users, addresses, transactions and requests, 1 subject, 1 passkey, time 0..2 | a transaction grants once; links are founded and stay; a method remains; late by one exchange |
| `organizations` | 2 users and the operator, 1 organization, 2 invitations, 1 waiting request | owners are appointed and remain; an invitation is taken once; a suspended organization is frozen |
| `pictures` | 1 user, 2 keys, 1 drain, 1 crash | shown pictures stay, unwanted ones stay listed |
| `drain` | 1 key, 2 drains, 1 crash, fair | listed objects go |
| `waha` | 2 gateways of 1 session, 2 deliveries, time to live 3, 1 restart, fair | a failed sender is out and stays out; a served one was found working; a working one serves again |

Type invariants are proved for all constants and so are in no run.

Why these bounds are enough to meet the interesting cases:

- A replay needs a token that was rotated out, its successor and, to see a fork,
  a third generation: three refresh tokens. Each mint takes an access token.
  Lifetimes of 1 and 2 in two time units let a policy change end a family early,
  and let a token expire while its family lives; sessions of both lifetimes end
  before, with or after their tokens. What several families of one
  user do to each other is met with two codes of one session; scopes and the
  refinement do not look at the clock, which stands still there.
- Three keys let one be retired, one active and one race to be either; with a
  grace of 3 within time 6 a key is watched before, at and after its end, and a
  lifetime of 4 is one the code must shorten.
- An impersonation takes two people and three sessions: the administrator's, the
  one made, and one to resume. Two credentials give an old and a new holder.
- A lock needs `limit` failures, with limit 2 so that a count may survive between
  them; a lock of length 2 within time 3 may be met before, at and after its end.
  The phone may be released and proved again, and two challenges are enough for
  two open codes of one address, or one on each channel.
- In `mfa`, two of the three tables (challenges, authenticators, sessions) start
  with rows of the past, so that any one of them can have two live rows with one
  of each other; a code's step may be this one or a neighbour. The view forgets
  `wrong`, which only `ChallengeFail` reads.
- Two callbacks of one transaction, two transactions for one subject, and a user
  whose two methods are removed at once need two of each. In the run nobody has
  a password, sign-up and auto-linking are allowed and transactions start at
  time 0; the proofs cover the rest.
- Two users are the least for one owner to remove or outlive the other; two
  invitations for one to replace another or be taken beside it; one waiting
  request is where each stale decision comes from. The view forgets how an ended
  invitation ended, which no handler reads.
- Two pictures are the least for one to replace the other. Two drains on one key
  is what it takes to lose a claim to another drain; more keys only add
  independent rows, since no action but publication touches two of them. One
  crash at any point; a second one meets the same rows.
- Two gateways make one wait for the other's answer; two deliveries fail on the
  same row. Three units of life are one more than the two answers of a check.

Symmetry is used where ids are interchangeable and only in runs without
liveness. Runs switch deadlock checking off where the clock bound or the number
of ids, which are not in the code, end behaviours. `WahaHealth` needs no such
bound and is checked for deadlock.

### Fairness

`drain` and `waha` assume some. For the drain, `FairSpec` asks that

- the store answers each PUT (`UploadFail`/`UploadFinish`) and each request of a
  running drain (`DrainNext`); the code has no time-out of its own, so this is
  the store's and the network's duty, see the hazard at `drainStart`;
- the timer starts a drain whenever its last one is over: an interval of 30
  seconds, until shutdown;
- leases end, as time passes;
- a DELETE that is repeated without end takes effect at some point: strong
  fairness, since each attempt may fail (`DrainDeleteFailed`).

Drains after requests, imports, and crashes are never forced to happen. A drain
takes the 25 oldest rows, and a row whose DELETE fails keeps its place; the
model has no such limit, so the run says nothing of more than 25 objects that
cannot be deleted.

For WhatsApp senders: time passes, the timer begins a check when none is under
way, and a gateway's client answers or gives up (it has a time-out). That a
sender serves again is claimed only while checks take less than the time to
live: `checkedAt` is taken once for all gateways, so that a slower check stores
rows that have expired already.

## Findings

One has a run: `mfaAttempts`. A wrong answer to a second-factor challenge is
counted in the transaction that the returned error rolls back
(`mfaChallengeComplete.ts:431`), so that `maxAttempts` never ends a challenge
and the lockout never sees it (`changelogs/2026-08-27_v0.1.1.md:86` says that it
does). The confirmation of an enrollment loses its failures in the same way.

Other places where code and text disagree, met while modelling; the models do
what the code does:

- `oidcTokenIssue.ts:480`: a refresh refused because the family's lifetime ran
  out is meant to kill the family (`oidcClientConfig.test.ts:257,326`); that
  too is rolled back with the error.
- `oidcJwksGet.ts:29`: 24 hours cover the longest token lifetime and no clock
  skew beside it, which the comment above claims.
- `emailOtpVerify.ts:458`: a wrong code for a challenge sent before a deletion
  takes a deleted user to `locked`, a transition `userStateTransitionAllowed.ts:4`
  does not have; a correct code or a recovery then makes it `active`.
- `passwordCredentialReplace.ts:113`: the operator's new password clears the lock
  row and leaves the user locked (`docs/20261023_admin_rework.md:124-125`).
- `whatsappOtpResend.ts:237`: a locked user's resend closes a real challenge and
  sends a decoy, where `whatsappOtpStart.ts:209` says that locked users get real
  ones.
- `userProfilePictureCleanupRepositoryCreate.ts:29`: an upload overtaken by a
  drain cannot queue its object while the drain's row is there; the drain then
  drops the row and the object stays (`usersProfilePicture.test.ts:976` tests
  the case after the row is gone).
- `mcpWriteToolsRegister.ts:390`: the MCP user deletion does not queue the picture.
- An impersonation that `oidcLogout` or the revocation of all sessions ends
  leaves no `impersonation.ended` event, from which
  `docs/20260825_account_security_event_inventory.md:20` derives a notice.
- `externalIdentityUnlink.ts:69-91` takes the identity of a disabled provider
  for a method to sign in with; `MethodRemains` has it the same way.
- `docs/20260827_external_identity_security_tests.md:5` speaks of auto-linking
  for two providers; the code and `externalIdentitiesOidc.test.ts:520` do it for
  all four.
- `wahaTextDeliveryCreate.ts:82`: a failure of a sender that is marked unhealthy
  already is not written again, so it does not outdate a check begun between the two, which
  may bring the sender back; `wahaHealthRefresh.test.ts:594` tests the first
  failure only. `FailureStands` speaks of failures that were written.
- A request that was admitted may appoint a realm administrator after its
  author has lost the role; rows of deleted users count when the last
  administrator is asked for; the public acceptance of an invitation takes the
  user's id from the body and does not look the user up.

## Proofs

All theorems hold for every value of the constants that the named assumptions of
the module allow; TLC evaluates these in each run.

**OidcTokens**. The invariant is `TypeOK /\ Rooted /\ FamilyInv`, where
`FamilyInv` gathers the invariants that speak of families. They are not
inductive by themselves: a replay revokes rows by client *and* family, so to
know that it reaches every row of the family one needs that all rows of a family
agree on client and session with the family's first row, that this row exists,
and that it is the oldest (`FamilyCreatedAt` is a minimum over the family, which
is why the absolute lifetime is anchored). `Rooted` says so. Each family of
actions has its own step lemma; the rotation lemma is the long one.

Three more results rest on that invariant. `TokenSteps` sorts every step into
six kinds by what it does to the token tables: nothing, a code spent, a family
started, a rotation, an access token withdrawn, families revoked. From these
follow `RevocationStands` (a revoked row stays revoked, a spent one keeps its
successor) and `TablesImplementFamilies`, the refinement: the family that a step
touches changes as `RefreshFamily` says and every other keeps its holder and
bearers. It needs `SecretsAssumption`, that a refresh secret is never an access
secret: both are fresh random strings. The log has its own invariant:
`EndsRecorded`, a family with a recorded end is dead, so that `AnyLive` finds
nothing in it to end again; and `LogoutsComplete`, a logged-out session is
revoked and nothing unrevoked is left in it, so that no code of it can be
exchanged. `CodeBegetsOneFamily` compares two cardinalities: each step adds at
most one first token to a session, and then spends a code (`CodesCounted`, with
`FiniteSetTheorems`).

`TokensRespectSessions` is the refinement of `SessionLife`; a step of the token
model touches sessions by issue, resumption, revocation of a set, or logout, and
only the first three and logout's revocation are left when tokens are forgotten.
`SessionsMayLiveAnyLife` is its converse, step by step: a step of `SessionLife`
on the sessions, with the token tables unchanged, is a step of `OidcTokens`.

**SignIn**. `LockIffExhausted` is inductive with `TypeOK` because each handler
writes whole lock rows, with `Failed` or `NoLock`. `LockKeepsUserLocked` needs
nothing else either, which is what makes it worth knowing: it holds although no
handler looks at both lock rows, because the handlers that make a user active
each require or cause the other lock to be over. `OneOpenChallengePerAddress` is
inductive because a start closes what is open for the *address*, whoever holds
it. `LockNeverProlonged` and `AcceptedFactorIsSound` are properties of steps,
proved from these.

**ProfilePictures**. `ShownPictureStays` alone does not exclude a DELETE under
way for a key that is about to be published, nor two users that show one key.
`Separated` does: a key that nobody reserved has left no trace, a published one
has one owner, no row, no DELETE on its way and its object, and no DELETE is out
for a key whose row says `uploading`, so that a PUT which landed is still there
when `Publishable` finds that row. `NothingLeaks` is not inductive because a
drain drops a row in a later step than the store's answer; `Accounted` adds that
a drain at such a row knows the object to be gone, or its upload not to be over,
or one of the recorded exceptions (`stray`, `overtaken`).
`PicturesImplementBoard` needs, beside `Separated`, that a key's PUT is sent once
(`SentOnce`): without it an object that was deleted could come back. A crash is
one step of the board, which gives up all uploads under way.

**Sessions**. Who holds a session and what they have shown is inductive together
with the same facts about the admitted requests: an impersonation is issued from
what the middleware found, possibly long before. `RequestSound` carries them
across the await. `SessionsImplementLife` looks at a session's
subject, expiry and flag only, and rests on three things in the code: a resumption
takes the smaller of two ends and wants a live session, each revocation selects
rows that are not revoked, and rotation leaves these columns alone.

**SecondFactor**. That no code is accepted twice needs what each table remembers
of the codes it gave up: an authenticator's last step bounds all its used ones,
a consumed recovery code is never open again, a mailed code dies with its
challenge's answer or its replacement. Grants tie to challenges in the same
invariant.

**SigningKeys**. `EndsInTime` says that a key's tokens end within a token's
lifetime of the last moment at which the key was active. With the assumption that
the longest lifetime does not exceed the grace, published follows.

**ExternalIdentities**. What a callback has read is tied to the row's version:
a row's first version is the only one a stored link may replace (`ReadSound`),
and a callback's time to the clock (`ReadInTime`). `Founded` follows a link back
to a consumed transaction.

**Organizations**. Owners are appointed because invitations are sound from their
creation; a last owner remains because the count is taken in the transaction
that removes, of a finite set (`FiniteSetTheorems`).

**WahaHealth**. `ServingIsFounded` speaks of rows that can be chosen; a change of
configuration can make any row one. So the invariant is about every healthy row
(`SoundRow`): what is left of its time and the age of the answer it rests on do
not exceed the time to live. A slow check keeps it because it counts both from
the same `checkedAt`. `FailureStands` needs that a taken sender's row still says
that a delivery failed (`TakenFailed`), by which `Answer` passes it over.

### Checked and not proved

- `QueuedPictureGoes` and `WorkingSenderServes` are liveness under fairness, for
  which the proof system has no rules.
- The finding, by its nature.

Every other property of a passing run is stated by a theorem.

### Proved and in no run

The type invariants, whose bounds (numbers of any size) TLC does not need to
explore again, and seven properties that follow in few steps from an invariant
the runs check or that no instance adds to: `RevocationIsFinal`,
`ImpersonationIsShort`, `ImpersonationEndedOnce`, `LifetimeNeverExtended`,
`WithdrawnForGood`, `StoredSubjectStands`, `AdministratorRemains`.

`ImplementsSessionLife`, of `Sessions` and of `OidcTokens`: TLC finds no
counterexample on the instances of `sessions` and `replay`, and finds one in
`Sessions` when a resumption takes the policy's lifetime without the minimum.
On `sessions` the check takes as long as all the run's invariants together, so
it is left to the proof. `ImplementsPictureBoard` is checked the same way, on the
instance of `pictures`, and fails there when a picture is published without its
reservation.

Nothing is assumed but the named assumptions on constants and that the handlers
of one transaction are one step; no recursive operator is used in a module with
proofs.

## Plan

What is left, the most important first.

1. **projects**. Grants between organizations and assignments of roles, with the
   context that tokens carry. The deletion of a role takes it out of every grant
   (`projectRoleDelete.ts:68-108`) and leaves it in the assignments, which are
   filtered by the existing roles when they are read: a role that is created
   again under its old key revives them. A specification *a user acts in a
   project only by a live grant or assignment* and `OidcTokens.ClientContextChange`
   as the composition.
2. **oidc: authorization requests and consent**. A request that is resumed after
   its session, its client or the consent has changed; composes with `Sessions`
   and ends in `AuthorizationCodeIssue`.
3. **passkeys**. Ceremonies and signature counters, and with them the second
   factor that a passkey is.
4. **SignIn**: registration and the challenges that prove a new address;
   rate limits at the edges of their windows.
5. **machineUsers**: secrets, personal tokens and their owners' lifecycle.
6. **organizations**: domains, and the switch of a session's organization.
7. **zitadelMigration**: an import that is resumed half-way.

## Not modelled

- Pages, screens, the command line, configuration files, the demo: no state of
  the service. `account`, `admin`, `login`, `directory` and `mcp` call the other
  features' actions.
- `authorization`: pure predicates over rows. Those for organizations and users
  are guards of `Organizations`; the rest refuses only.
- `email`: sends and forgets. `events`: append-only; the events a property speaks
  of are history variables of the module that writes them.
- `platform`: storage, hashing, signatures and random ids are taken to work.
  Its transactions are why a step of a model is one step. Rate limits only
  refuse requests.
- Projects, machine users, domains, authorization requests, passkey ceremonies,
  the migration: in the plan above.
