---------------------------- MODULE SecondFactor ----------------------------
(***************************************************************************)
(* The second factor: challenges opened after a primary authentication or  *)
(* to step a session up, the TOTP authenticators, mailed codes and         *)
(* recovery codes that answer them, and the lockout after wrong answers.   *)
(*                                                                         *)
(* An answer is a `proof`: the code an authenticator shows in one step of  *)
(* 30 seconds, one mailed code, or one recovery code.  `used`, `reused`    *)
(* and `grants` are history variables over all the routes that accept      *)
(* proofs; the unit of time is a TOTP step.                                *)
(*                                                                         *)
(* Each handler is one storage transaction, hence one step.  A transaction *)
(* whose function returns an error is rolled back: a refusal is no step,   *)
(* and a wrong answer to a challenge leaves nothing but the history in     *)
(* `wrong`; the row's attempts stay 0 and are left out.                    *)
(*                                                                         *)
(* Organization contexts and policies only refuse a factor or a request    *)
(* and are left out, and so are the credentials of sessions (see Sessions).*)
(* A passkey can be selected but no HTTP route completes a challenge with  *)
(* one: its ceremony needs the session that the login is to create.        *)
(***************************************************************************)
EXTENDS Integers, FiniteSets

CONSTANTS
    Users,
    Methods,          \* primary authentication methods
    Standing,         \* the factors besides TOTP that every user has
    Challenges,       \* ids of challenges
    Enrollments,      \* ids of TOTP enrollments
    RecoveryCodes,
    Sessions,         \* ids of sessions
    ChallengeTtl,     \* 5 minutes
    MailTtl,          \* mfaEmailOtpExpiryMs
    PendingTtl,       \* mfaPendingEnrollmentExpiryMs
    LockoutDuration,  \* lockoutDurationMs of the policy
    MaxAttempts,      \* maxAttempts of the policy
    TotpWindow,       \* totpWindow of the policy
    MaxTime,          \* bound of the clock
    MaxFailed,        \* bound of the count of failed attempts
    MaxWrong,         \* bound of the wrong answers, all to the same challenge
    None

Factors == {"totp", "email_otp", "passkey"}

ASSUME SecondFactorAssumption ==
    /\ Standing \subseteq Factors \ {"totp"}
    /\ {ChallengeTtl, MailTtl, PendingTtl, LockoutDuration,
        MaxAttempts, TotpWindow, MaxTime, MaxFailed, MaxWrong}
          \subseteq Nat
    /\ None \notin Sessions

VARIABLES
    now,
    challenge,   \* the challenge table
    enrollment,  \* the TOTP enrollment table
    recovery,    \* the recovery code table
    lockout,     \* the lockout row of each user
    session,     \* the sessions table
    used,        \* history: the proofs accepted
    reused,      \* history: the proofs accepted again
    grants,      \* history: the sessions made or raised to multi_factor
    withdrawn,   \* history: TOTP challenges an administrator's removal met
    wrong        \* history: wrong answers to each challenge

tables == <<challenge, enrollment, recovery, lockout, session>>
history == <<used, reused, grants, withdrawn, wrong>>
vars == <<now, tables, history>>

-----------------------------------------------------------------------------

Authenticated == 1
MultiFactor == 2

ChallengeRow == [user : Users, purpose : {"login", "step_up"},
                 primary : Methods, offered : SUBSET Factors,
                 factor : Factors, session : Sessions \cup {None},
                 code : BOOLEAN, expiresAt : Nat,
                 consumed : BOOLEAN]
\* lastUsed is -1 as long as the column is null.
EnrollmentRow == [user : Users, status : {"pending", "active", "removed"},
                  createdAt : Nat, lastUsed : Int]
\* A row that is consumed or deleted is spent.
RecoveryRow == [user : Users, status : {"open", "spent"}]
SessionRow == [user : Users, method : Methods, live : BOOLEAN,
               assurance : {Authenticated, MultiFactor}]
ASSUME NoneAssumption ==
    None \notin ChallengeRow \cup EnrollmentRow \cup RecoveryRow \cup SessionRow

Proof == [kind : {"totp", "email_otp", "recovery_code"},
          of : Enrollments \cup Challenges \cup RecoveryCodes, at : Int]
Grant == [challenge : Challenges, session : Sessions, proof : Proof]

Smaller(a, b) == IF a < b THEN a ELSE b

Locked(u) == lockout[u].until > now

Active(u) == {e \in Enrollments :
    enrollment[e] # None /\ enrollment[e].user = u /\ enrollment[e].status = "active"}

\* mfaFactorAvailabilityResolve
Available(u, primary) ==
    (Standing \cup (IF Active(u) = {} THEN {} ELSE {"totp"})) \ {primary}

Open(c) == /\ challenge[c] # None
           /\ ~challenge[c].consumed
           /\ challenge[c].expiresAt > now

Live(s) == session[s] # None /\ session[s].live

\* Mutant: a code is refused only in the very step it was used in last.
TotpMatchesAnotherStep(e, t) ==
    /\ t \in now - TotpWindow .. now + TotpWindow
    /\ t >= 0 /\ t # enrollment[e].lastUsed
\* mfaTotpCodeVerify, for the code that authenticator e shows in step t.
TotpMatches(e, t) ==
    /\ t \in now - TotpWindow .. now + TotpWindow
    /\ t >= 0 /\ t > enrollment[e].lastUsed

TotpProof(e, t) == [kind |-> "totp", of |-> e, at |-> t]
MailProof(c) == [kind |-> "email_otp", of |-> c, at |-> 0]
RecoveryProof(k) == [kind |-> "recovery_code", of |-> k, at |-> 0]

\* The history of accepted proofs.
Accepted(p) ==
    /\ used' = used \cup {p}
    /\ reused' = IF p \in used THEN reused \cup {p} ELSE reused

NoFailures == [failed |-> 0, until |-> 0]
ResetLockout(u) == lockout' = [lockout EXCEPT ![u] = NoFailures]

TotpUsed(e, t) == enrollment' = [enrollment EXCEPT ![e].lastUsed = t]
RecoveryUsed(k) == recovery' = [recovery EXCEPT ![k].status = "spent"]

Init ==
    /\ now = 0
    /\ challenge = [c \in Challenges |-> None]
    /\ enrollment = [e \in Enrollments |-> None]
    /\ recovery = [k \in RecoveryCodes |-> None]
    /\ lockout = [u \in Users |-> NoFailures]
    /\ session = [s \in Sessions |-> None]
    /\ used = {} /\ reused = {} /\ grants = {} /\ withdrawn = {}
    /\ wrong = [c \in Challenges |-> 0]

Tick == /\ now < MaxTime
        /\ now' = now + 1
        /\ UNCHANGED <<tables, history>>

-----------------------------------------------------------------------------
(* Sessions and the challenges they start from.                            *)

\* A primary authentication for which the policy asks no second factor.
PrimaryComplete(s, u, m) ==
    /\ session[s] = None
    /\ session' = [session EXCEPT ![s] =
          [user |-> u, method |-> m, live |-> TRUE, assurance |-> Authenticated]]
    /\ UNCHANGED <<now, challenge, enrollment, recovery, lockout, history>>

\* Revocation, or the end of its lifetime.
EndSession(s) ==
    /\ Live(s)
    /\ session' = [session EXCEPT ![s].live = FALSE]
    /\ UNCHANGED <<now, challenge, enrollment, recovery, lockout, history>>

ChallengeEnd == now + ChallengeTtl

OpenChallenge(c, u, purpose, m, s, f) ==
    /\ challenge[c] = None
    /\ f \in Available(u, m)
    /\ challenge' = [challenge EXCEPT ![c] =
          [user |-> u, purpose |-> purpose, primary |-> m,
           offered |-> Available(u, m), factor |-> f, session |-> s,
           code |-> FALSE, expiresAt |-> ChallengeEnd,
           consumed |-> FALSE]]
    /\ UNCHANGED <<now, enrollment, recovery, lockout, session, history>>

LoginStart(c, u, m, f) == OpenChallenge(c, u, "login", m, None, f)

StepUpStart(c, s, f) ==
    /\ Live(s)
    /\ OpenChallenge(c, session[s].user, "step_up", session[s].method, s, f)

\* mfaLoginChallengeContextGet
ContextHolds(c) ==
    /\ Open(c)
    /\ challenge[c].factor \in challenge[c].offered
    /\ challenge[c].factor # challenge[c].primary

FactorSelect(c, f) ==
    /\ ContextHolds(c)
    /\ f \in challenge[c].offered
    /\ f \in Available(challenge[c].user, challenge[c].primary)
    /\ challenge' = [challenge EXCEPT ![c].factor = f, ![c].code = FALSE]
    /\ UNCHANGED <<now, enrollment, recovery, lockout, session, history>>

\* Each code replaces the one before; the row's `code` says that there is one.
EmailOtpStart(c) ==
    /\ ContextHolds(c)
    /\ challenge[c].factor = "email_otp"
    /\ "email_otp" \in Available(challenge[c].user, challenge[c].primary)
    /\ challenge' = [challenge EXCEPT
          ![c].code = TRUE,
          ![c].expiresAt = Smaller(@, now + MailTtl)]
    /\ UNCHANGED <<now, enrollment, recovery, lockout, session, history>>

-----------------------------------------------------------------------------
(* Answers to a challenge (mfaChallengeComplete).                          *)

\* Mutant: a consumed challenge is answered again.
MayAnswerConsumed(c) ==
    /\ challenge[c] # None /\ challenge[c].expiresAt > now
    /\ challenge[c].factor \in challenge[c].offered
    /\ challenge[c].factor # challenge[c].primary
    /\ ~Locked(challenge[c].user)
    /\ challenge[c].factor = "totp" => Active(challenge[c].user) # {}
\* The lockout, and the authenticator a TOTP challenge needs even where it is
\* answered by a recovery code.
MayAnswer(c) ==
    /\ ContextHolds(c)
    /\ ~Locked(challenge[c].user)
    /\ challenge[c].factor = "totp" => Active(challenge[c].user) # {}

\* An answer other than a recovery code needs the selected factor at hand.
FactorAtHand(c) ==
    challenge[c].factor \in Available(challenge[c].user, challenge[c].primary)

\* Which of several active authenticators is asked, the query leaves open.
AnswerTotp(c, e, t) ==
    /\ MayAnswer(c) /\ FactorAtHand(c)
    /\ challenge[c].factor = "totp"
    /\ e \in Active(challenge[c].user)
    /\ TotpMatches(e, t)
    /\ TotpUsed(e, t)
    /\ UNCHANGED recovery

AnswerMail(c) ==
    /\ MayAnswer(c) /\ FactorAtHand(c)
    /\ challenge[c].factor = "email_otp"
    /\ challenge[c].code
    /\ UNCHANGED <<enrollment, recovery>>

AnswerRecovery(c, k) ==
    /\ MayAnswer(c)
    /\ recovery[k] # None
    /\ recovery[k].user = challenge[c].user
    /\ recovery[k].status = "open"
    /\ RecoveryUsed(k)
    /\ UNCHANGED enrollment

Answer(c, p) ==
    \/ \E e \in Enrollments, t \in now - TotpWindow .. now + TotpWindow :
          p = TotpProof(e, t) /\ AnswerTotp(c, e, t)
    \/ p = MailProof(c) /\ AnswerMail(c)
    \/ \E k \in RecoveryCodes : p = RecoveryProof(k) /\ AnswerRecovery(c, k)

Granted(c, s, p) ==
    /\ ResetLockout(challenge[c].user)
    /\ Accepted(p)
    /\ grants' = grants \cup {[challenge |-> c, session |-> s, proof |-> p]}
    /\ UNCHANGED <<now, withdrawn, wrong>>

\* sessionIssue makes the session, mfaLoginAssuranceClaim writes its id into the
\* challenge.
LoginComplete(c, s, p) ==
    /\ challenge[c] # None /\ challenge[c].purpose = "login"
    /\ challenge[c].session = None /\ session[s] = None
    /\ Answer(c, p)
    /\ session' = [session EXCEPT ![s] =
          [user |-> challenge[c].user, method |-> challenge[c].primary,
           live |-> TRUE, assurance |-> MultiFactor]]
    /\ challenge' = [challenge EXCEPT ![c].consumed = TRUE, ![c].session = s]
    /\ Granted(c, s, p)

\* Mutant: the session of the request is raised, whichever it is.
StepUpCompleteOfRequest(c, s, p) ==
    /\ challenge[c] # None /\ challenge[c].purpose = "step_up"
    /\ Live(s)
    /\ Answer(c, p)
    /\ session' = [session EXCEPT ![s].assurance = MultiFactor]
    /\ challenge' = [challenge EXCEPT ![c].consumed = TRUE]
    /\ Granted(c, s, p)
\* The request presents the credential of the session that asked for the step-up.
StepUpComplete(c, s, p) ==
    /\ challenge[c] # None /\ challenge[c].purpose = "step_up"
    /\ challenge[c].session = s
    /\ Live(s) /\ session[s].user = challenge[c].user
    /\ Answer(c, p)
    /\ session' = [session EXCEPT ![s].assurance = MultiFactor]
    /\ challenge' = [challenge EXCEPT ![c].consumed = TRUE]
    /\ Granted(c, s, p)

\* The failure record (attempts, consumedAt, the lockout row) is written by the
\* transaction that the wrong answer's error then rolls back.
ChallengeFail(c) ==
    /\ MayAnswer(c)
    /\ wrong[c] < MaxWrong /\ \A d \in Challenges \ {c} : wrong[d] = 0
    /\ wrong' = [wrong EXCEPT ![c] = @ + 1]
    /\ UNCHANGED <<now, tables, used, reused, grants, withdrawn>>

-----------------------------------------------------------------------------
(* TOTP authenticators.                                                    *)

\* A pending enrollment is replaced; its row is deleted.
TotpEnrollmentStart(e, u) ==
    /\ enrollment[e] = None
    /\ enrollment' = [d \in Enrollments |->
          IF d = e THEN [user |-> u, status |-> "pending",
                         createdAt |-> now, lastUsed |-> -1]
          ELSE IF enrollment[d] # None /\ enrollment[d].user = u
                  /\ enrollment[d].status = "pending"
               THEN [enrollment[d] EXCEPT !.status = "removed"]
               ELSE enrollment[d]]
    /\ UNCHANGED <<now, challenge, recovery, lockout, session, history>>

Confirmable(e) ==
    /\ enrollment[e] # None /\ enrollment[e].status = "pending"
    /\ enrollment[e].createdAt > now - PendingTtl
    /\ ~Locked(enrollment[e].user)

\* A wrong code is no step: its failure record is rolled back.
TotpEnrollmentConfirm(e, t) ==
    /\ Confirmable(e) /\ TotpMatches(e, t)
    /\ enrollment' = [enrollment EXCEPT ![e].status = "active", ![e].lastUsed = t]
    /\ ResetLockout(enrollment[e].user)
    /\ Accepted(TotpProof(e, t))
    /\ UNCHANGED <<now, challenge, recovery, session, grants, withdrawn, wrong>>

\* Mutant: the lockout is not asked for.
TotpVerifyAnyway(e, t) ==
    /\ enrollment[e] # None /\ enrollment[e].status = "active"
    /\ TotpMatches(e, t)
    /\ TotpUsed(e, t)
    /\ ResetLockout(enrollment[e].user)
    /\ Accepted(TotpProof(e, t))
    /\ UNCHANGED <<now, challenge, recovery, session, grants, withdrawn, wrong>>
TotpVerify(e, t) ==
    /\ enrollment[e] # None /\ enrollment[e].status = "active"
    /\ ~Locked(enrollment[e].user)
    /\ TotpMatches(e, t)
    /\ TotpUsed(e, t)
    /\ ResetLockout(enrollment[e].user)
    /\ Accepted(TotpProof(e, t))
    /\ UNCHANGED <<now, challenge, recovery, session, grants, withdrawn, wrong>>

\* The one wrong answer whose transaction commits: its result is no error.
TotpVerifyFail(u) ==
    LET failed == lockout[u].failed + 1 IN
    /\ Active(u) # {}
    /\ ~Locked(u)
    /\ failed <= MaxFailed
    /\ lockout' = [lockout EXCEPT ![u] =
          [failed |-> failed,
           until |-> IF failed >= MaxAttempts THEN now + LockoutDuration ELSE 0]]
    /\ UNCHANGED <<now, challenge, enrollment, recovery, session, history>>

\* A confirmed authenticator is given up from a stepped-up session only.  The
\* challenges that wait for its code stay open.
TotpEnrollmentRemove(e, s) ==
    /\ Live(s)
    /\ enrollment[e] # None /\ enrollment[e].user = session[s].user
    /\ \/ enrollment[e].status = "pending"
       \/ enrollment[e].status = "active" /\ session[s].assurance = MultiFactor
    /\ enrollment' = [enrollment EXCEPT ![e].status = "removed"]
    /\ UNCHANGED <<now, challenge, recovery, lockout, session, history>>

TotpRows(u) == {e \in Enrollments :
    /\ enrollment[e] # None /\ enrollment[e].user = u
    /\ enrollment[e].status \in {"active", "pending"}}

TotpChallenges(u) == {c \in Challenges :
    /\ challenge[c] # None /\ challenge[c].user = u
    /\ challenge[c].factor = "totp" /\ ~challenge[c].consumed}

\* Mutant: the challenges are not closed.
TotpAdministratorRemoveOnly(u) ==
    /\ TotpRows(u) # {}
    /\ enrollment' = [e \in Enrollments |->
          IF e \in TotpRows(u) THEN [enrollment[e] EXCEPT !.status = "removed"]
          ELSE enrollment[e]]
    /\ withdrawn' = withdrawn \cup TotpChallenges(u)
    /\ UNCHANGED <<now, challenge, recovery, lockout, session, used, reused, grants, wrong>>
TotpAdministratorRemove(u) ==
    /\ TotpRows(u) # {}
    /\ enrollment' = [e \in Enrollments |->
          IF e \in TotpRows(u) THEN [enrollment[e] EXCEPT !.status = "removed"]
          ELSE enrollment[e]]
    /\ challenge' = [c \in Challenges |->
          IF c \in TotpChallenges(u) THEN [challenge[c] EXCEPT !.consumed = TRUE]
          ELSE challenge[c]]
    /\ withdrawn' = withdrawn \cup TotpChallenges(u)
    /\ UNCHANGED <<now, recovery, lockout, session, used, reused, grants, wrong>>

-----------------------------------------------------------------------------
(* Recovery codes.                                                         *)

CodesOf(u) == {k \in RecoveryCodes : recovery[k] # None /\ recovery[k].user = u}
OpenCodes(u) == {k \in CodesOf(u) : recovery[k].status = "open"}

Deleted(u) == [k \in RecoveryCodes |->
    IF k \in CodesOf(u) THEN [recovery[k] EXCEPT !.status = "spent"] ELSE recovery[k]]

\* A new set replaces the one before.
RecoveryCodesGenerate(u, set) ==
    /\ Active(u) # {}
    /\ set # {} /\ \A k \in set : recovery[k] = None
    /\ recovery' = [k \in RecoveryCodes |->
          IF k \in set THEN [user |-> u, status |-> "open"] ELSE Deleted(u)[k]]
    /\ UNCHANGED <<now, challenge, enrollment, lockout, session, history>>

RecoveryCodesAdministratorInvalidate(u) ==
    /\ OpenCodes(u) # {}
    /\ recovery' = Deleted(u)
    /\ UNCHANGED <<now, challenge, enrollment, lockout, session, history>>

\* A lockout is not asked for here, and is not lifted.
RecoveryCodeVerify(k) ==
    /\ recovery[k] # None /\ recovery[k].status = "open"
    /\ RecoveryUsed(k)
    /\ Accepted(RecoveryProof(k))
    /\ UNCHANGED <<now, challenge, enrollment, lockout, session,
                   grants, withdrawn, wrong>>

-----------------------------------------------------------------------------

Steps == now - TotpWindow .. now + TotpWindow
Proofs(c) ==
    {TotpProof(e, t) : e \in Enrollments, t \in Steps}
    \cup {RecoveryProof(k) : k \in RecoveryCodes}
    \cup (IF challenge[c] = None THEN {} ELSE {MailProof(c)})

Next ==
    \/ Tick
    \/ \E s \in Sessions, u \in Users, m \in Methods : PrimaryComplete(s, u, m)
    \/ \E s \in Sessions : EndSession(s)
    \/ \E c \in Challenges, u \in Users, m \in Methods, f \in Factors :
          LoginStart(c, u, m, f)
    \/ \E c \in Challenges, s \in Sessions, f \in Factors : StepUpStart(c, s, f)
    \/ \E c \in Challenges, f \in Factors : FactorSelect(c, f)
    \/ \E c \in Challenges : EmailOtpStart(c)
    \/ \E c \in Challenges, s \in Sessions : \E p \in Proofs(c) : LoginComplete(c, s, p)
    \/ \E c \in Challenges, s \in Sessions : \E p \in Proofs(c) : StepUpComplete(c, s, p)
    \/ \E c \in Challenges : ChallengeFail(c)
    \/ \E e \in Enrollments, u \in Users : TotpEnrollmentStart(e, u)
    \/ \E e \in Enrollments : \E t \in Steps : TotpEnrollmentConfirm(e, t)
    \/ \E e \in Enrollments : \E t \in Steps : TotpVerify(e, t)
    \/ \E u \in Users : TotpVerifyFail(u)
    \/ \E e \in Enrollments, s \in Sessions : TotpEnrollmentRemove(e, s)
    \/ \E u \in Users : TotpAdministratorRemove(u)
    \/ \E u \in Users, set \in SUBSET RecoveryCodes : RecoveryCodesGenerate(u, set)
    \/ \E u \in Users : RecoveryCodesAdministratorInvalidate(u)
    \/ \E k \in RecoveryCodes : RecoveryCodeVerify(k)

Spec == Init /\ [][Next]_vars

-----------------------------------------------------------------------------
(* Properties.                                                             *)

\* Every table holds rows of its schema.
TypeOK ==
    /\ now \in Nat
    /\ challenge \in [Challenges -> ChallengeRow \cup {None}]
    /\ enrollment \in [Enrollments -> EnrollmentRow \cup {None}]
    /\ recovery \in [RecoveryCodes -> RecoveryRow \cup {None}]
    /\ lockout \in [Users -> [failed : Nat, until : Nat]]
    /\ session \in [Sessions -> SessionRow \cup {None}]
    /\ used \subseteq Proof /\ reused \subseteq Proof
    /\ grants \subseteq Grant
    /\ withdrawn \subseteq Challenges
    /\ wrong \in [Challenges -> Nat]

\* No authenticator code, mailed code or recovery code is accepted twice,
\* whichever routes it is presented to: the answers to two challenges, the
\* confirmation of an enrollment, /mfa/totp/verify, /mfa/recovery-codes/verify.
NoProofTwice == reused = {}

\* A challenge makes or raises one session at most, once.
ChallengeGrantsOnce ==
    \A g, h \in grants : g.challenge = h.challenge => g = h

\* A session counts as multi_factor only if a challenge of its own user was
\* answered for it, opened after the same primary authentication; the row of
\* that challenge is consumed and names the session.
MultiFactorIsGranted ==
    \A s \in Sessions : session[s] # None /\ session[s].assurance = MultiFactor =>
        \E g \in grants :
            /\ g.session = s
            /\ challenge[g.challenge].consumed
            /\ challenge[g.challenge].session = s
            /\ challenge[g.challenge].user = session[s].user
            /\ challenge[g.challenge].primary = session[s].method

\* A challenge that waited for a TOTP code when an administrator removed the
\* user's authenticators is never answered, not by a new authenticator either.
WithdrawnChallengeGrantsNothing ==
    \A g \in grants : g.challenge \notin withdrawn

\* A lockout in force is neither lifted nor prolonged, by any route.
LockoutRunsItsTime ==
    [][\A u \in Users : Locked(u) => lockout'[u] = lockout[u]]_vars

\* changelogs/2026-08-27_v0.1.1.md:86, "Commit failed TOTP attempts before
\* returning errors": a challenge takes maxAttempts wrong answers and no more.
AttemptsAreBounded == \A c \in Challenges : wrong[c] <= MaxAttempts

=============================================================================
