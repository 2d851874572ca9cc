------------------------------ MODULE Sessions ------------------------------
(***************************************************************************)
(* The browser sessions of one realm and the operations that hand out or   *)
(* withdraw their credentials: sign-in, rotation, resuming a recent        *)
(* session, step-up, revocation, and administrators acting as a user.      *)
(*                                                                         *)
(* A session has one valid credential at a time.  `bearer[s]` is a history *)
(* variable: the holders of the credentials session s ever had, the last   *)
(* of which is the valid one, each with the assurance its holder had shown *)
(* by authenticating.  A request presents a credential <<s, g>>, the g-th  *)
(* of session s, which may be an old one.                                  *)
(*                                                                         *)
(* A handler is one storage transaction run in the turn of its middleware, *)
(* hence one step, except where it awaits the request's body: then what    *)
(* the middleware found is a record in `pending`, used after other steps.  *)
(*                                                                         *)
(* Organization contexts, permissions and the five-sessions limit of       *)
(* "recent" only ever refuse a request and are left out, and so is         *)
(* lastUsedAt.  minimumStepUpAssurance has its default, "authenticated".   *)
(***************************************************************************)
EXTENDS Integers, Sequences, FiniteSets

CONSTANTS
    Users,
    BootstrapAdmins,   \* administrators that are no users
    Administrators,    \* who may manage and impersonate users
    Sessions,          \* ids of sessions
    Policies,          \* the login policies that are put in force
    Durations,         \* durations an impersonation may be asked for
    ImpersonationMax,  \* impersonationMaxDurationMs
    MaxTime,           \* bound of the clock
    MaxCredentials,    \* bound of the credentials of one session
    MaxPending,        \* bound of the requests that await their body
    None

Persons == Users \cup BootstrapAdmins

\* `check` is the time for which a second factor's check counts, if limited.
PolicyRow == [requiredMfa : BOOLEAN, lifetime : Nat \ {0}, check : Nat \cup {None}]

ASSUME SessionsAssumption ==
    /\ Users \cap BootstrapAdmins = {}
    /\ Administrators \subseteq Persons
    /\ Policies \subseteq PolicyRow
    /\ Durations \subseteq Int
    /\ {ImpersonationMax, MaxTime, MaxCredentials, MaxPending} \subseteq Nat
    /\ None \notin Persons

VARIABLES
    now,
    active,     \* the users whose state is "active"
    policy,     \* the login policy in force
    session,    \* the sessions table
    bearer,     \* history: the holders of each session's credentials
    pending,    \* requests that passed the middleware and await their body
    ended       \* impersonation.ended events of each session

vars == <<now, active, policy, session, bearer, pending, ended>>

-----------------------------------------------------------------------------

Authenticated == 1
MultiFactor == 2
Assurance == {Authenticated, MultiFactor}

SessionRow == [subject : Persons,
               impersonator : Persons \cup {None},
               assurance : Assurance,
               createdAt : Nat, expiresAt : Nat, revoked : BOOLEAN]
ASSUME NoneAssumption == None \notin SessionRow

Holder == [person : Persons, proved : Assurance]
\* The actor the middleware found; `by` is history.
Request == [subject : Persons, impersonator : Persons \cup {None},
            assurance : Assurance, by : Holder]

Exists(s) == session[s] # None
Newest(s) == Len(bearer[s])
HolderOf(s) == bearer[s][Newest(s)]

Unrevoked(s) == Exists(s) /\ ~session[s].revoked
Live(s) == Unrevoked(s) /\ session[s].expiresAt > now

\* A bootstrap administrator has no state that could be other than active.
MayAct(p) == p \in active \cup BootstrapAdmins

OwnersMayAct(s) ==
    /\ MayAct(session[s].subject)
    /\ session[s].impersonator = None \/ MayAct(session[s].impersonator)

\* Mutant: credentials that were replaced are still accepted.
PresentsAny(s, g) == g <= Newest(s)
\* The credential's hash is the one in the row.
Presents(s, g) == g = Newest(s)

\* What sessionAuthenticate asks of a request.
Authenticates(s, g) == Live(s) /\ Presents(s, g) /\ OwnersMayAct(s)

RequiredAssurance(p) ==
    IF policy.requiredMfa /\ p \in Users THEN MultiFactor ELSE Authenticated

MfaCheckExpired(s) ==
    /\ session[s].assurance = MultiFactor
    /\ policy.check # None
    /\ now - session[s].createdAt > policy.check

\* The policy's demands of a session whose credential is to be replaced.
MeetsPolicy(s) ==
    /\ session[s].assurance >= RequiredAssurance(session[s].subject)
    /\ ~MfaCheckExpired(s)

Smaller(a, b) == IF a < b THEN a ELSE b

Credential(s, holder) ==
    /\ Newest(s) < MaxCredentials
    /\ bearer' = [bearer EXCEPT ![s] = Append(@, holder)]

Init ==
    /\ now = 0
    /\ active = Users
    /\ policy \in Policies
    /\ session = [s \in Sessions |-> None]
    /\ bearer = [s \in Sessions |-> <<>>]
    /\ pending = {}
    /\ ended = [s \in Sessions |-> 0]

-----------------------------------------------------------------------------
(* Sign-in and the credentials of a session.                               *)

Issue(s, subject, impersonator, assurance, expiresAt, holder) ==
    /\ ~Exists(s)
    /\ assurance >= RequiredAssurance(subject)
    /\ expiresAt > now
    /\ session' = [session EXCEPT ![s] =
          [subject |-> subject, impersonator |-> impersonator,
           assurance |-> assurance, createdAt |-> now,
           expiresAt |-> expiresAt, revoked |-> FALSE]]
    /\ Credential(s, holder)

\* The user's state is not asked for here: the flows before it have done so.
SignIn(s, p, a) ==
    /\ p \in BootstrapAdmins => a = Authenticated
    /\ Issue(s, p, None, a, now + policy.lifetime, [person |-> p, proved |-> a])
    /\ UNCHANGED <<now, active, policy, pending, ended>>

Rotate(s, g) ==
    /\ Authenticates(s, g)
    /\ MeetsPolicy(s)
    /\ Credential(s, bearer[s][g])
    /\ UNCHANGED <<now, active, policy, session, pending, ended>>

SameSubject(c, s) == session[s].subject = session[c].subject   \* Mutant: whoever acts.
SameOwner(c, s) ==
    /\ session[s].subject = session[c].subject
    /\ session[s].impersonator = session[c].impersonator

ResumableWeaker(c, s) ==   \* Mutant: the assurance is not compared.
    Live(s) /\ SameOwner(c, s) /\ MayAct(session[s].subject) /\ MeetsPolicy(s)
ResumableRevoked(c, s) ==   \* Mutant: a revoked session may be picked.
    /\ Exists(s) /\ session[s].expiresAt > now
    /\ SameOwner(c, s)
    /\ session[s].assurance <= session[c].assurance
    /\ MayAct(session[s].subject)
    /\ MeetsPolicy(s)
\* Whether the holder of session c may go on with session s.
Resumable(c, s) ==
    /\ Live(s)
    /\ SameOwner(c, s)
    /\ session[s].assurance <= session[c].assurance
    /\ MayAct(session[s].subject)
    /\ MeetsPolicy(s)

ResumedExpiry(s) == Smaller(session[s].expiresAt, now + policy.lifetime)

RecentResume(c, g, s) ==
    /\ Authenticates(c, g)
    /\ Exists(s)
    /\ Resumable(c, s)
    /\ session' = [session EXCEPT ![s].expiresAt = ResumedExpiry(s)]
    /\ Credential(s, bearer[c][g])
    /\ UNCHANGED <<now, active, policy, pending, ended>>

\* A step-up starts from the method a user signed in with.
MayStepUp(s) == session[s].impersonator = None /\ session[s].subject \in Users

\* The session's user shows a second factor and the credential at once.
StepUp(s, g) ==
    /\ Live(s)
    /\ Presents(s, g)
    /\ MayStepUp(s)
    /\ session' = [session EXCEPT ![s].assurance = MultiFactor, ![s].createdAt = now]
    /\ Credential(s, [bearer[s][g] EXCEPT !.proved = MultiFactor])
    /\ UNCHANGED <<now, active, policy, pending, ended>>

-----------------------------------------------------------------------------
(* Revocation.                                                             *)

Ended(s) == IF session[s].impersonator = None THEN ended
            ELSE [ended EXCEPT ![s] = @ + 1]

\* logout, and the revocation of a session by its subject or an administrator.
Revoke(c, g, s) ==
    /\ Authenticates(c, g)
    /\ Unrevoked(s)
    /\ session[c].subject \in Administrators \cup {session[s].subject}
    /\ session' = [session EXCEPT ![s].revoked = TRUE]
    /\ ended' = Ended(s)
    /\ UNCHANGED <<now, active, policy, bearer, pending>>

\* RP-initiated logout: an ID token names the session, however old it is.
OidcLogout(s) ==
    /\ Unrevoked(s)
    /\ session[s].subject \in Users
    /\ session' = [session EXCEPT ![s].revoked = TRUE]
    /\ UNCHANGED <<now, active, policy, bearer, pending, ended>>

\* The request names no credential again: it may have been admitted whenever
\* session c was live, and is handled after its body was awaited.
RevokeAll(c, keepCurrent) ==
    /\ Exists(c)
    /\ session' = [s \in Sessions |->
          IF /\ Unrevoked(s) /\ session[s].subject = session[c].subject
             /\ ~(keepCurrent /\ s = c)
          THEN [session[s] EXCEPT !.revoked = TRUE] ELSE session[s]]
    /\ UNCHANGED <<now, active, policy, bearer, pending, ended>>

-----------------------------------------------------------------------------
(* Impersonation.                                                          *)

\* Mutant: an administrator who is impersonated counts as the administrator.
AnyActorMayImpersonate(r) ==
    /\ r.subject \in Administrators
    /\ r.subject \in Users => r.assurance = MultiFactor
MayImpersonate(r) ==
    /\ r.impersonator = None
    /\ r.subject \in Administrators
    /\ r.subject \in Users => r.assurance = MultiFactor

Admitted(c, g) ==
    [subject |-> session[c].subject,
     impersonator |-> session[c].impersonator,
     assurance |-> session[c].assurance, by |-> bearer[c][g]]

\* A request to impersonate passes the middleware and its body is awaited.  One that will be
\* refused for what the middleware found changes nothing and is left out.
Admit(c, g) ==
    /\ Authenticates(c, g)
    /\ MayImpersonate(Admitted(c, g))
    /\ Cardinality(pending) < MaxPending
    /\ pending' = pending \cup {Admitted(c, g)}
    /\ UNCHANGED <<now, active, policy, session, bearer, ended>>

DurationAllowed(d) == d > 0 /\ d <= ImpersonationMax

\* The admitted actor is not authenticated again, only its rights are read.
ImpersonationStart(r, target, d, s) ==
    /\ r \in pending
    /\ target # r.subject /\ target \in active
    /\ DurationAllowed(d)
    /\ pending' = pending \ {r}
    /\ Issue(s, target, r.subject, r.assurance, now + d, r.by)
    /\ UNCHANGED <<now, active, policy, ended>>

MayEnd(c, s) ==
    \/ session[c].subject = session[s].impersonator /\ session[c].impersonator = None
    \/ c = s

\* A session already revoked is answered `ended: false`.
Endable(s) == ~session[s].revoked

ImpersonationEnd(c, g, s) ==
    /\ Authenticates(c, g)
    /\ Exists(s) /\ session[s].impersonator # None
    /\ MayEnd(c, s)
    /\ Endable(s)
    /\ session' = [session EXCEPT ![s].revoked = TRUE]
    /\ ended' = [ended EXCEPT ![s] = @ + 1]
    /\ UNCHANGED <<now, active, policy, bearer, pending>>

-----------------------------------------------------------------------------
(* The rest of the realm, and time.                                        *)

UserStateChange(u) ==
    /\ active' = IF u \in active THEN active \ {u} ELSE active \cup {u}
    /\ UNCHANGED <<now, policy, session, bearer, pending, ended>>

PolicySet(p) ==
    /\ p # policy
    /\ policy' = p
    /\ UNCHANGED <<now, active, session, bearer, pending, ended>>

Tick ==
    /\ now < MaxTime
    /\ now' = now + 1
    /\ UNCHANGED <<active, policy, session, bearer, pending, ended>>

Next ==
    \/ \E s \in Sessions, p \in Persons, a \in Assurance : SignIn(s, p, a)
    \/ \E c \in Sessions : \E g \in 1..Newest(c) :
          \/ Rotate(c, g)
          \/ StepUp(c, g)
          \/ \E s \in Sessions : \/ RecentResume(c, g, s)
                                 \/ Revoke(c, g, s)
                                 \/ ImpersonationEnd(c, g, s)
          \/ Admit(c, g)
    \/ \E s \in Sessions : OidcLogout(s)
    \/ \E c \in Sessions, keepCurrent \in BOOLEAN : RevokeAll(c, keepCurrent)
    \/ \E r \in pending, target \in Users, d \in Durations, s \in Sessions :
          ImpersonationStart(r, target, d, s)
    \/ \E u \in Users : UserStateChange(u)
    \/ \E p \in Policies : PolicySet(p)
    \/ Tick

Spec == Init /\ [][Next]_vars

-----------------------------------------------------------------------------
(* Properties.                                                             *)

\* Types of the state.
TypeOK ==
    /\ now \in 0..MaxTime
    /\ active \subseteq Users
    /\ policy \in Policies
    /\ session \in [Sessions -> SessionRow \cup {None}]
    /\ bearer \in [Sessions -> Seq(Holder)]
    /\ \A s \in Sessions : Exists(s) <=> Newest(s) > 0
    /\ pending \subseteq Request
    /\ ended \in [Sessions -> Nat]

\* Whoever holds a session's credential is the person its row names, so that
\* the audit trail tells who acted: the impersonator of an impersonation, the
\* subject of any other session.  Nobody gets from one kind to the other, by
\* resuming, by impersonating while impersonated, or by stepping up.
EverySessionIsTraceable ==
    \A s \in Sessions : Exists(s) =>
        HolderOf(s).person = IF session[s].impersonator = None
                             THEN session[s].subject ELSE session[s].impersonator

\* The holder of a session's credential has shown all the assurance the session
\* claims: a step-up, a resume or an impersonation gives nobody the strength
\* that another credential's holder has shown.
AssuranceIsProved ==
    \A s \in Sessions : Exists(s) => session[s].assurance <= HolderOf(s).proved

\* An impersonation is over after the longest duration that may be asked for,
\* whatever is done with its session: rotated, resumed, under any policy.
ImpersonationIsShort ==
    \A s \in Sessions : Exists(s) /\ session[s].impersonator # None =>
        session[s].expiresAt - session[s].createdAt <= ImpersonationMax

\* The end of an impersonation is recorded once, and only of one that is over.
ImpersonationEndedOnce ==
    \A s \in Sessions : ended[s] <= 1 /\ (ended[s] = 1 => Exists(s) /\ session[s].revoked)

\* A revoked session stays what it was and gets no credential, even when a
\* request admitted before the revocation is handled after it.
RevokedSessionIsFrozen ==
    [][\A s \in Sessions : Exists(s) /\ session[s].revoked =>
          session'[s] = session[s] /\ bearer'[s] = bearer[s]]_vars

\* No step prolongs a session: it ends no later than it was issued to end.
LifetimeNeverExtended ==
    [][\A s \in Sessions : Exists(s) => session'[s].expiresAt <= session[s].expiresAt]_vars

-----------------------------------------------------------------------------
(* The sessions table is what the rest of the service takes it for.        *)

Existing == {s \in Sessions : Exists(s)}

lifeMap == [s \in Existing |->
              [owner |-> session[s].subject, expiresAt |-> session[s].expiresAt,
               revoked |-> session[s].revoked]]

Lifetimes == {p.lifetime : p \in Policies} \cup {d \in Durations : DurationAllowed(d)}

Life == INSTANCE SessionLife WITH
            Ids <- Sessions, People <- Persons, clock <- now, life <- lifeMap

\* Whatever is done with sessions and their credentials, each is issued once
\* and to one person, is never prolonged, and never comes back.
ImplementsSessionLife == Life!LifeSpec
=============================================================================
