------------------------------- MODULE SignIn -------------------------------
(***************************************************************************)
(* The first factor of a sign-in to one realm: password, one-time code by  *)
(* e-mail and one-time code by WhatsApp, with the two locks that failed    *)
(* attempts set on a user, and everything else that sets or clears a lock  *)
(* or the user's state: recovery, password change, the administrator.      *)
(*                                                                         *)
(* Each handler is one storage transaction, hence one step.  A handler     *)
(* that returns an error result rolls back and stutters, but one that      *)
(* reports a failure as data commits what it wrote: a wrong code is a      *)
(* step.  Rate limits, realm status and the organization's login policy    *)
(* only ever refuse a request and are left out.  What follows the first    *)
(* factor (session, second factor, forced password change) is not told     *)
(* apart: each answer carries the same `authentication`.                   *)
(*                                                                         *)
(* Both lock tables are read through `row ?? default`, so a missing row is *)
(* the row of zero failures.  Users have completed their registration.     *)
(***************************************************************************)
EXTENDS Integers, FiniteSets

CONSTANTS
    Users, Addresses,
    Challenges,          \* ids of one-time code challenges
    ChannelOf,           \* "email" or "whatsapp", the kind of each address
    RegisteredBy,        \* the channel that verified each user's registration
    Limits,              \* maximumAttempts of the password policies in use
    LockoutDuration, Cooldown, CodeExpiry, RecoveryExpiry,
    ChallengeAttempts,   \* wrong codes a challenge takes
    MaxTime,             \* bound of the clock
    None

Channels == {"email", "whatsapp"}

ASSUME SignInAssumption ==
    /\ ChannelOf \in [Addresses -> Channels]
    /\ RegisteredBy \in [Users -> Channels]
    /\ Limits # {} /\ Limits \subseteq Nat \ {0}
    /\ {CodeExpiry, RecoveryExpiry, MaxTime} \subseteq Nat
    /\ {LockoutDuration, Cooldown, ChallengeAttempts} \subseteq Nat \ {0}
    /\ None \notin Nat \cup Users \cup Challenges

VARIABLES
    now,
    user,            \* users.state, and whether deletedAt is set
    holder,          \* the user each address is verified for
    passwordLock,    \* password_lockouts rows
    otpLock,         \* otp_lockouts rows, shared by both one-time code channels
    challenge,       \* email_otp_challenges and whatsapp_otp_challenges rows
    recovery,        \* expiry of each user's open recovery token
    stateBy,         \* history: who last changed users.state
    response         \* the answer of the last request

vars == <<now, user, holder, passwordLock, otpLock, challenge, recovery, stateBy, response>>

-----------------------------------------------------------------------------

\* "initial", the state before registration is verified, is never entered again.
UserState == {"active", "inactive", "locked", "suspended", "deleted"}
UserRow == [state : UserState, deleted : BOOLEAN]
LockRow == [failed : Nat, until : Nat \cup {None}]
NoLock == [failed |-> 0, until |-> None]
\* A challenge whose user is None is a decoy: no code matches its hash.
ChallengeRow == [address : Addresses, user : Users \cup {None}, attempts : Nat,
                 createdAt : Nat, consumed : BOOLEAN]
Response == [kind : {"none", "challenged", "authenticated", "replaced"},
             user : Users \cup {None}, challenge : Challenges \cup {None}]

Answer(kind, u, c) == response' = [kind |-> kind, user |-> u, challenge |-> c]
NoAnswer == Answer("none", None, None)

UserStateTransitionAllowed(from, to) ==
    /\ from # to
    /\ from # "deleted"
    /\ \/ to = "deleted"
       \/ from = "active" /\ to \in {"inactive", "locked", "suspended"}
       \/ from \in {"inactive", "locked", "suspended"} /\ to = "active"

InForce(lock) == lock.until # None /\ lock.until > now
Expired(lock) == lock.until # None /\ lock.until <= now

FailedPast(base, limit) ==   \* Mutant: locks one failure too late.
    [failed |-> base + 1,
     until  |-> IF base + 1 > limit THEN now + LockoutDuration ELSE None]
\* One more failure on top of `base` earlier ones, under a policy's limit.
Failed(base, limit) ==
    [failed |-> base + 1,
     until  |-> IF base + 1 >= limit THEN now + LockoutDuration ELSE None]

SetState(u, s, by) ==
    /\ user' = [user EXCEPT ![u].state = s]
    /\ stateBy' = IF user[u].state = s THEN stateBy ELSE [stateBy EXCEPT ![u] = by]

EmailsOf(u) == {a \in Addresses : ChannelOf[a] = "email" /\ holder[a] = u}
PhonesOf(u) == {a \in Addresses : ChannelOf[a] = "whatsapp" /\ holder[a] = u}

Init ==
    /\ now = 0
    /\ user = [u \in Users |-> [state |-> "active", deleted |-> FALSE]]
    /\ holder \in [Addresses -> Users \cup {None}]
    /\ \A u \in Users :
          /\ Cardinality(PhonesOf(u)) <= 1
          /\ \E a \in Addresses : holder[a] = u /\ ChannelOf[a] = RegisteredBy[u]
    /\ passwordLock = [u \in Users |-> NoLock]
    /\ otpLock = [u \in Users |-> NoLock]
    /\ challenge = [c \in Challenges |-> None]
    /\ recovery = [u \in Users |-> None]
    /\ stateBy = [u \in Users |-> "handler"]
    /\ response = [kind |-> "none", user |-> None, challenge |-> None]

-----------------------------------------------------------------------------
(* Password sign-in.                                                       *)

RegistrationVerified(u) == RegisteredBy[u] = "whatsapp" => PhonesOf(u) # {}

\* Mutant: the lock's end is not waited for.
PasswordUnlockableAtOnce(u) == user[u].state \in {"active", "locked"}
\* The state a password may be checked in: active, or locked by a lock that ended.
PasswordUnlockable(u) ==
    \/ user[u].state = "active"
    \/ user[u].state = "locked" /\ Expired(passwordLock[u])

PasswordLogin(u) ==
    /\ PasswordUnlockable(u)
    /\ ~InForce(otpLock[u])
    /\ RegistrationVerified(u)
    /\ SetState(u, "active", "handler")
    /\ passwordLock' = [passwordLock EXCEPT ![u] = NoLock]
    /\ otpLock' = [otpLock EXCEPT ![u] = NoLock]
    /\ Answer("authenticated", u, None)
    /\ UNCHANGED <<now, holder, challenge, recovery>>

PasswordFailureAlwaysCounts(u) == ~InForce(otpLock[u])   \* Mutant: prolongs a lock.
\* No failure counts while a lock holds, so that a lock in force is not prolonged.
PasswordFailureCounts(u) == ~InForce(passwordLock[u]) /\ ~InForce(otpLock[u])

\* The failures of a lock that ended keep counting: the next one locks again.
PasswordLoginFail(u, limit) ==
    LET lock == Failed(passwordLock[u].failed, limit) IN
    /\ PasswordFailureCounts(u)
    /\ PasswordUnlockable(u)
    /\ RegistrationVerified(u)
    /\ passwordLock' = [passwordLock EXCEPT ![u] = lock]
    /\ SetState(u, IF lock.until # None THEN "locked" ELSE "active", "handler")
    /\ NoAnswer
    /\ UNCHANGED <<now, holder, otpLock, challenge, recovery>>

-----------------------------------------------------------------------------
(* One-time codes.                                                         *)

Open(c) == challenge[c] # None /\ ~challenge[c].consumed
SentTo(a) == {c \in Challenges : challenge[c] # None /\ challenge[c].address = a}
IsLatest(c, a) ==
    c \in SentTo(a) /\ \A d \in SentTo(a) : challenge[d].createdAt <= challenge[c].createdAt
CoolingDown(a) == \E c \in Challenges : IsLatest(c, a) /\ challenge[c].createdAt + Cooldown > now

SupersededOfHolder(c, a) ==   \* Mutant: closes only the challenges of the address's holder.
    challenge[c] # None /\ challenge[c].address = a /\ challenge[c].user = holder[a]
Superseded(c, a) == challenge[c] # None /\ challenge[c].address = a

\* Every open challenge of the address closes, and a fresh one is sent for u.
ChallengeCreate(c, a, u) ==
    challenge' = [d \in Challenges |->
        IF d = c THEN [address |-> a, user |-> u, attempts |-> 0,
                       createdAt |-> now, consumed |-> FALSE]
        ELSE IF Superseded(d, a) THEN [challenge[d] EXCEPT !.consumed = TRUE]
        ELSE challenge[d]]

OtpStart(a, c) ==
    LET u == holder[a]
        eligible == u # None /\ user[u].state \in {"active", "locked"} /\ ~user[u].deleted
    IN
    /\ challenge[c] = None
    /\ ~CoolingDown(a)
    /\ ChallengeCreate(c, a, IF eligible THEN u ELSE None)
    /\ Answer("challenged", u, c)
    /\ UNCHANGED <<now, user, holder, passwordLock, otpLock, recovery, stateBy>>

\* The request names any earlier challenge; the address's latest one decides.
WhatsappOtpResend(requested, current, c) ==
    LET a == challenge[requested].address
        u == challenge[current].user
        eligible == u # None /\ user[u].state = "active" /\ ~user[u].deleted /\ PhonesOf(u) # {}
    IN
    /\ challenge[requested] # None /\ challenge[c] = None
    /\ ChannelOf[a] = "whatsapp"
    /\ IsLatest(current, a)
    /\ ~CoolingDown(a)
    /\ ChallengeCreate(c, a, IF eligible THEN u ELSE None)
    /\ Answer("challenged", u, c)
    /\ UNCHANGED <<now, user, holder, passwordLock, otpLock, recovery, stateBy>>

\* What verification checks before it compares the code.
Lapsed(c) == challenge[c].createdAt + CodeExpiry <= now
LockedOut(c) == challenge[c].user # None /\ InForce(otpLock[challenge[c].user])
Verifiable(c) ==
    /\ Open(c) /\ ~LockedOut(c) /\ ~Lapsed(c)
    /\ challenge[c].attempts < ChallengeAttempts

OtpVerifyLate(c) ==
    /\ Open(c) /\ ~LockedOut(c) /\ Lapsed(c)
    /\ challenge' = [challenge EXCEPT ![c].consumed = TRUE]
    /\ NoAnswer
    /\ UNCHANGED <<now, user, holder, passwordLock, otpLock, recovery, stateBy>>

\* The failures of a lock that ended are forgotten.
OtpFailures(lock) == IF Expired(lock) THEN 0 ELSE lock.failed

OtpVerifyWrong(c, limit) ==
    LET u == challenge[c].user
        lock == Failed(OtpFailures(otpLock[u]), limit)
    IN
    /\ Verifiable(c)
    /\ challenge' = [challenge EXCEPT
          ![c].attempts = @ + 1,
          ![c].consumed = challenge[c].attempts + 1 >= ChallengeAttempts]
    /\ IF u = None THEN UNCHANGED <<user, otpLock, stateBy>>
       ELSE /\ otpLock' = [otpLock EXCEPT ![u] = lock]
            /\ SetState(u, IF lock.until # None THEN "locked" ELSE user[u].state, "handler")
    /\ NoAnswer
    /\ UNCHANGED <<now, holder, passwordLock, recovery>>

PasswordLockIgnored(u) == FALSE   \* Mutant: any right code unlocks.
PasswordLockedOut(u) == user[u].state = "locked" /\ InForce(passwordLock[u])

\* A right code first ends a locked state, then asks whether the user is eligible;
\* both outcomes commit the unlock and consume the challenge.
OtpVerifyRight(c) ==
    LET u == challenge[c].user
        state == IF user[u].state = "locked" /\ ~PasswordLockedOut(u)
                 THEN "active" ELSE user[u].state
        eligible == /\ ~PasswordLockedOut(u)
                    /\ state = "active" /\ ~user[u].deleted
                    /\ holder[challenge[c].address] = u
    IN
    /\ Verifiable(c) /\ u # None
    /\ SetState(u, state, "handler")
    /\ challenge' = [challenge EXCEPT ![c].consumed = TRUE]
    /\ otpLock' = IF eligible THEN [otpLock EXCEPT ![u] = NoLock] ELSE otpLock
    /\ IF eligible THEN Answer("authenticated", u, c) ELSE NoAnswer
    /\ UNCHANGED <<now, holder, passwordLock, recovery>>

-----------------------------------------------------------------------------
(* Recovery, and the password set by its owner or by an operator.          *)

\* Asked for by e-mail; the user's earlier recovery token closes.
PasswordRecoveryRequest(a) ==
    LET u == holder[a] IN
    /\ ChannelOf[a] = "email" /\ u # None
    /\ user[u].state # "deleted"
    /\ recovery' = [recovery EXCEPT ![u] = now + RecoveryExpiry]
    /\ NoAnswer
    /\ UNCHANGED <<now, user, holder, passwordLock, otpLock, challenge, stateBy>>

PasswordRecoveryComplete(u) ==
    /\ recovery[u] # None /\ recovery[u] > now
    /\ user[u].state # "deleted"
    /\ EmailsOf(u) # {}
    /\ recovery' = [recovery EXCEPT ![u] = None]
    /\ passwordLock' = [passwordLock EXCEPT ![u] = NoLock]
    /\ otpLock' = [otpLock EXCEPT ![u] = NoLock]
    /\ SetState(u, IF user[u].state = "locked" THEN "active" ELSE user[u].state, "handler")
    /\ NoAnswer
    /\ UNCHANGED <<now, holder, challenge>>

PasswordChange(u) ==
    /\ user[u].state \notin {"deleted", "locked"}
    /\ passwordLock' = [passwordLock EXCEPT ![u] = NoLock]
    /\ NoAnswer
    /\ UNCHANGED <<now, user, holder, otpLock, challenge, recovery, stateBy>>

\* The operator's replacement resets the password lock, and leaves users.state alone.
PasswordCredentialReplace(u) ==
    /\ user[u].state # "deleted"
    /\ passwordLock' = [passwordLock EXCEPT ![u] = NoLock]
    /\ Answer("replaced", u, None)
    /\ UNCHANGED <<now, user, holder, otpLock, challenge, recovery, stateBy>>

-----------------------------------------------------------------------------
(* The administrator, the owner's addresses, and time.                     *)

UserLifecycleSet(u, s) ==
    /\ s # "deleted"
    /\ UserStateTransitionAllowed(user[u].state, s)
    /\ SetState(u, s, "administrator")
    /\ NoAnswer
    /\ UNCHANGED <<now, holder, passwordLock, otpLock, challenge, recovery>>

UserDelete(u) ==
    /\ user[u].state # "deleted"
    /\ user' = [user EXCEPT ![u] = [state |-> "deleted", deleted |-> TRUE]]
    /\ stateBy' = [stateBy EXCEPT ![u] = "administrator"]
    /\ NoAnswer
    /\ UNCHANGED <<now, holder, passwordLock, otpLock, challenge, recovery>>

\* A signed-in, hence active, user proves an address nobody holds.  A user has
\* one phone number, so a new one takes the place of the old.
AddressVerify(u, a) ==
    /\ user[u].state = "active"
    /\ holder[a] = None
    /\ holder' = [b \in Addresses |->
          IF b = a THEN u
          ELSE IF ChannelOf[a] = "whatsapp" /\ b \in PhonesOf(u) THEN None
          ELSE holder[b]]
    /\ NoAnswer
    /\ UNCHANGED <<now, user, passwordLock, otpLock, challenge, recovery, stateBy>>

\* The owner gives an address up: an e-mail address that is not the primary one,
\* or a phone number for one still to be verified.
AddressRelease(u, a) ==
    /\ user[u].state = "active" /\ ~user[u].deleted
    /\ holder[a] = u
    /\ IF ChannelOf[a] = "email" THEN EmailsOf(u) # {a} ELSE RegisteredBy[u] # "whatsapp"
    /\ holder' = [holder EXCEPT ![a] = None]
    /\ NoAnswer
    /\ UNCHANGED <<now, user, passwordLock, otpLock, challenge, recovery, stateBy>>

Tick ==
    /\ now < MaxTime
    /\ now' = now + 1
    /\ NoAnswer
    /\ UNCHANGED <<user, holder, passwordLock, otpLock, challenge, recovery, stateBy>>

-----------------------------------------------------------------------------

Next ==
    \/ Tick
    \/ \E u \in Users :
          \/ PasswordLogin(u)
          \/ \E limit \in Limits : PasswordLoginFail(u, limit)
          \/ PasswordRecoveryComplete(u)
          \/ PasswordChange(u)
          \/ PasswordCredentialReplace(u)
          \/ \E s \in UserState : UserLifecycleSet(u, s)
          \/ UserDelete(u)
          \/ \E a \in Addresses : AddressVerify(u, a) \/ AddressRelease(u, a)
    \/ \E a \in Addresses : PasswordRecoveryRequest(a)
    \/ \E c \in Challenges :
          \/ \E a \in Addresses : OtpStart(a, c)
          \/ \E requested, current \in Challenges : WhatsappOtpResend(requested, current, c)
          \/ OtpVerifyLate(c)
          \/ \E limit \in Limits : OtpVerifyWrong(c, limit)
          \/ OtpVerifyRight(c)

Spec == Init /\ [][Next]_vars

-----------------------------------------------------------------------------

\* Every row keeps its type: a lock ends at a time or does not hold, and a
\* challenge belongs to a user or is a decoy.
TypeOK ==
    /\ now \in Nat
    /\ user \in [Users -> UserRow]
    /\ holder \in [Addresses -> Users \cup {None}]
    /\ passwordLock \in [Users -> LockRow]
    /\ otpLock \in [Users -> LockRow]
    /\ challenge \in [Challenges -> ChallengeRow \cup {None}]
    /\ recovery \in [Users -> Nat \cup {None}]
    /\ stateBy \in [Users -> {"handler", "administrator"}]
    /\ response \in Response

Exhausted(lock) ==
    /\ lock.until # None => \E limit \in Limits : lock.failed >= limit
    /\ (\A limit \in Limits : lock.failed >= limit) => lock.until # None

\* A lock is set exactly when failures exhausted a policy, and every reset of
\* the count also ends the lock: whichever handler last wrote the row.
LockIffExhausted == \A u \in Users : Exhausted(passwordLock[u]) /\ Exhausted(otpLock[u])

\* While either lock is in force its user is not active, whichever channel set
\* it and whichever tries to end it, unless an administrator said otherwise.
LockKeepsUserLocked ==
    \A u \in Users :
        (InForce(passwordLock[u]) \/ InForce(otpLock[u])) /\ stateBy[u] = "handler"
            => user[u].state # "active"

\* Only the last code sent to an address can be entered, even after the
\* address moved to another user or its user changed state in between.
OneOpenChallengePerAddress ==
    \A c, d \in Challenges :
        Open(c) /\ Open(d) /\ challenge[c].address = challenge[d].address => c = d

\* A lock in force may be lifted but is never prolonged by further failures.
LockNeverProlonged ==
    [][\A u \in Users :
        /\ InForce(passwordLock[u]) => passwordLock'[u] \in {passwordLock[u], NoLock}
        /\ InForce(otpLock[u]) => otpLock'[u] \in {otpLock[u], NoLock}]_vars

\* A first factor is accepted only from a user free of one-time code locks (and
\* of a password lock, unless an administrator reactivated the user), and a code
\* only while open, once, and for an address its user still holds.
AcceptedFactorIsSound ==
    [][\A u \in Users :
        response'.kind = "authenticated" /\ response'.user = u =>
            /\ user[u].state \in {"active", "locked"} /\ user'[u].state = "active"
            /\ ~InForce(otpLock[u])
            /\ InForce(passwordLock[u]) => stateBy[u] = "administrator"
            /\ \A c \in Challenges :
                  response'.challenge = c =>
                      /\ Open(c) /\ ~Open(c)'
                      /\ challenge[c].user = u
                      /\ holder[challenge[c].address] = u]_vars

=============================================================================
