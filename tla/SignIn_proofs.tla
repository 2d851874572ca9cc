--------------------------- MODULE SignIn_proofs ---------------------------
(***************************************************************************)
(* Proofs about SignIn for every set of users, addresses and challenges,   *)
(* every password policy and every duration.  LockKeepsUserLocked is       *)
(* inductive once the rows are typed; so is LockIffExhausted, as every     *)
(* handler writes a lock row whole, from Failed or from NoLock, and so is  *)
(* OneOpenChallengePerAddress, because a start closes before it opens.     *)
(* AcceptedFactorIsSound speaks of steps and follows from the locks.       *)
(***************************************************************************)
EXTENDS SignIn, TLAPS

Handlers == {"handler", "administrator"}

\* A row of the failure count is typed and locked exactly when it should be.
LEMMA FailedRow ==
    ASSUME NEW base \in Nat, NEW limit \in Limits, now \in Nat
    PROVE  Failed(base, limit) \in LockRow /\ Exhausted(Failed(base, limit))
<1> DEFINE lock == Failed(base, limit)
<1>1. /\ limit \in Nat /\ base + 1 \in Nat /\ now + LockoutDuration \in Nat
      /\ None \notin Nat
  BY SignInAssumption
<1>2. /\ lock.failed = base + 1
      /\ lock.until = IF base + 1 >= limit THEN now + LockoutDuration ELSE None
      /\ lock \in LockRow
  BY <1>1 DEF Failed, LockRow
<1>3. lock.until # None <=> lock.failed >= limit
  BY <1>1, <1>2
<1> HIDE DEF lock
<1>4. Exhausted(lock)
  BY <1>3 DEF Exhausted
<1>5. QED
  BY <1>2, <1>4 DEF lock

LEMMA NoLockRow == NoLock \in LockRow /\ Exhausted(NoLock)
<1>1. Limits # {} /\ \A limit \in Limits : limit \in Nat /\ ~(0 >= limit)
  BY SignInAssumption
<1>2. NoLock.failed = 0 /\ NoLock.until = None /\ NoLock \in LockRow
  BY DEF NoLock, LockRow
<1>3. QED
  BY <1>1, <1>2 DEF Exhausted

\* Changing a user's state keeps the rows typed and touches no other user.
LEMMA SetStateTyped ==
    ASSUME TypeOK, NEW u \in Users, NEW s \in UserState, NEW by \in Handlers,
           SetState(u, s, by)
    PROVE  /\ user' \in [Users -> UserRow]
           /\ stateBy' \in [Users -> Handlers]
           /\ user'[u].state = s
           /\ user[u].state # s => stateBy'[u] = by
           /\ user[u].state = s => stateBy' = stateBy
           /\ \A v \in Users \ {u} : user'[v] = user[v] /\ stateBy'[v] = stateBy[v]
<1>1. user[u] \in UserRow /\ stateBy[u] \in Handlers
  BY DEF TypeOK, Handlers
<1>2. [user[u] EXCEPT !.state = s] \in UserRow
  BY <1>1 DEF UserRow
<1>3. user' = [user EXCEPT ![u] = [user[u] EXCEPT !.state = s]]
  BY DEF SetState
<1>4. user' \in [Users -> UserRow] /\ user'[u].state = s
      /\ \A v \in Users \ {u} : user'[v] = user[v]
  BY <1>1, <1>2, <1>3 DEF TypeOK, UserRow
<1>5. CASE user[u].state = s
  BY <1>4, <1>5 DEF SetState, TypeOK, Handlers
<1>6. CASE user[u].state # s
  BY <1>4, <1>6 DEF SetState, TypeOK, Handlers
<1>7. QED
  BY <1>5, <1>6

\* A challenge sent is a typed row, and so is every challenge it closes.
LEMMA ChallengeCreateTyped ==
    ASSUME TypeOK, NEW c \in Challenges, NEW a \in Addresses,
           NEW u \in Users \cup {None}, ChallengeCreate(c, a, u)
    PROVE  challenge' \in [Challenges -> ChallengeRow \cup {None}]
<1>1. ASSUME NEW d \in Challenges, Superseded(d, a)
      PROVE  [challenge[d] EXCEPT !.consumed = TRUE] \in ChallengeRow
  <2>1. challenge[d] \in ChallengeRow
    BY <1>1 DEF Superseded, TypeOK
  <2>2. QED
    BY <2>1 DEF ChallengeRow
<1>2. [address |-> a, user |-> u, attempts |-> 0,
       createdAt |-> now, consumed |-> FALSE] \in ChallengeRow
  BY DEF TypeOK, ChallengeRow
<1>3. QED
  BY <1>1, <1>2 DEF ChallengeCreate, TypeOK

-----------------------------------------------------------------------------

\* Every request leaves the rows and its answer typed.
LEMMA TypeOKStep == TypeOK /\ [Next]_vars => TypeOK'
<1> SUFFICES ASSUME TypeOK, [Next]_vars
             PROVE  TypeOK'
  OBVIOUS
<1> USE NoLockRow DEF Handlers
<1>1. now \in Nat /\ MaxTime \in Nat /\ RecoveryExpiry \in Nat /\ None \notin Users
  BY SignInAssumption DEF TypeOK
<1>2. \A k \in {"none", "challenged", "authenticated", "replaced"} :
      \A u \in Users \cup {None}, c \in Challenges \cup {None} :
        Answer(k, u, c) => response' \in Response
  BY DEF Answer, Response
<1>3. NoAnswer => response' \in Response
  BY <1>2 DEF NoAnswer
<1>4. ASSUME NEW u \in Users, PasswordLogin(u)
      PROVE  TypeOK'
  BY <1>2, <1>4, SetStateTyped DEF PasswordLogin, TypeOK, UserState
<1>5. ASSUME NEW u \in Users, NEW limit \in Limits, PasswordLoginFail(u, limit)
      PROVE  TypeOK'
  <2> DEFINE lock == Failed(passwordLock[u].failed, limit)
             s == IF lock.until # None THEN "locked" ELSE "active"
  <2>1. lock \in LockRow
    BY FailedRow DEF TypeOK, LockRow
  <2>2. s \in UserState /\ SetState(u, s, "handler")
    BY <1>5 DEF PasswordLoginFail, UserState
  <2>3. user' \in [Users -> UserRow] /\ stateBy' \in [Users -> Handlers]
    BY <2>2, SetStateTyped
  <2>4. passwordLock' \in [Users -> LockRow]
    BY <1>5, <2>1 DEF PasswordLoginFail, TypeOK
  <2>5. QED
    BY <1>3, <1>5, <2>3, <2>4 DEF PasswordLoginFail, TypeOK
<1>6. ASSUME NEW u \in Users, PasswordRecoveryComplete(u)
      PROVE  TypeOK'
  <2>1. user' \in [Users -> UserRow] /\ stateBy' \in [Users -> Handlers]
    <3>1. user[u].state \in UserState
      BY DEF TypeOK, UserRow
    <3>2. QED
      BY <1>6, <3>1, SetStateTyped DEF PasswordRecoveryComplete, UserState
  <2>2. QED
    BY <1>3, <1>6, <2>1 DEF PasswordRecoveryComplete, TypeOK
<1>7. ASSUME NEW u \in Users, PasswordChange(u)
      PROVE  TypeOK'
  BY <1>3, <1>7 DEF PasswordChange, TypeOK
<1>8. ASSUME NEW u \in Users, PasswordCredentialReplace(u)
      PROVE  TypeOK'
  BY <1>2, <1>8 DEF PasswordCredentialReplace, TypeOK
<1>9. ASSUME NEW u \in Users, NEW s \in UserState, UserLifecycleSet(u, s)
      PROVE  TypeOK'
  BY <1>3, <1>9, SetStateTyped DEF UserLifecycleSet, TypeOK
<1>10. ASSUME NEW u \in Users, UserDelete(u)
       PROVE  TypeOK'
  <2>1. [state |-> "deleted", deleted |-> TRUE] \in UserRow
    BY DEF UserRow, UserState
  <2>2. user' \in [Users -> UserRow] /\ stateBy' \in [Users -> Handlers]
    BY <1>10, <2>1 DEF UserDelete, TypeOK
  <2>3. /\ now' = now /\ holder' = holder /\ challenge' = challenge /\ recovery' = recovery
        /\ passwordLock' = passwordLock /\ otpLock' = otpLock /\ response' \in Response
    BY <1>3, <1>10 DEF UserDelete
  <2>4. QED
    BY <2>2, <2>3 DEF TypeOK
<1>11. ASSUME NEW u \in Users, NEW a \in Addresses, AddressVerify(u, a)
       PROVE  TypeOK'
  BY <1>3, <1>11 DEF AddressVerify, TypeOK
<1>12. ASSUME NEW u \in Users, NEW a \in Addresses, AddressRelease(u, a)
       PROVE  TypeOK'
  BY <1>3, <1>12 DEF AddressRelease, TypeOK
<1>13. ASSUME NEW a \in Addresses, PasswordRecoveryRequest(a)
       PROVE  TypeOK'
  BY <1>1, <1>3, <1>13 DEF PasswordRecoveryRequest, TypeOK
<1>14. ASSUME NEW c \in Challenges, NEW a \in Addresses, OtpStart(a, c)
       PROVE  TypeOK'
  <2>1. PICK u \in Users \cup {None} : ChallengeCreate(c, a, u)
    BY <1>14 DEF OtpStart, TypeOK
  <2>2. holder[a] \in Users \cup {None} /\ response' \in Response
    BY <1>2, <1>14 DEF OtpStart, TypeOK
  <2>3. QED
    BY <1>14, <2>1, <2>2, ChallengeCreateTyped DEF OtpStart, TypeOK
<1>15. ASSUME NEW c \in Challenges, NEW requested \in Challenges, NEW current \in Challenges,
              WhatsappOtpResend(requested, current, c)
       PROVE  TypeOK'
  <2> DEFINE a == challenge[requested].address
  <2>1. challenge[requested] \in ChallengeRow /\ challenge[current] \in ChallengeRow
    BY <1>15 DEF WhatsappOtpResend, IsLatest, SentTo, TypeOK
  <2>2. a \in Addresses /\ challenge[current].user \in Users \cup {None}
    BY <2>1 DEF ChallengeRow
  <2>3. PICK u \in Users \cup {None} : ChallengeCreate(c, a, u)
    BY <1>15, <2>2 DEF WhatsappOtpResend
  <2>4. challenge' \in [Challenges -> ChallengeRow \cup {None}]
    BY <2>2, <2>3, ChallengeCreateTyped
  <2>5. response' \in Response
    BY <1>2, <1>15, <2>2 DEF WhatsappOtpResend
  <2>6. QED
    BY <1>15, <2>4, <2>5 DEF WhatsappOtpResend, TypeOK
<1>16. ASSUME NEW c \in Challenges, OtpVerifyLate(c)
       PROVE  TypeOK'
  <2>1. [challenge[c] EXCEPT !.consumed = TRUE] \in ChallengeRow
    BY <1>16 DEF OtpVerifyLate, Open, TypeOK, ChallengeRow
  <2>2. QED
    BY <1>3, <1>16, <2>1 DEF OtpVerifyLate, TypeOK
<1>17. ASSUME NEW c \in Challenges, NEW limit \in Limits, OtpVerifyWrong(c, limit)
       PROVE  TypeOK'
  <2> DEFINE u == challenge[c].user
             lock == Failed(OtpFailures(otpLock[u]), limit)
             s == IF lock.until # None THEN "locked" ELSE user[u].state
  <2>1. challenge[c] \in ChallengeRow
    BY <1>17 DEF OtpVerifyWrong, Verifiable, Open, TypeOK
  <2>2. [challenge[c] EXCEPT !.attempts = @ + 1,
             !.consumed = challenge[c].attempts + 1 >= ChallengeAttempts] \in ChallengeRow
    <3>1. challenge[c].attempts + 1 \in Nat
      BY <2>1 DEF ChallengeRow
    <3> DEFINE spent == challenge[c].attempts + 1 >= ChallengeAttempts
    <3>2. spent \in BOOLEAN
      OBVIOUS
    <3> HIDE DEF spent
    <3>3. [challenge[c] EXCEPT !.attempts = @ + 1, !.consumed = spent] \in ChallengeRow
      BY <2>1, <3>1, <3>2 DEF ChallengeRow
    <3>4. QED
      BY <3>3 DEF spent
  <2>3. challenge' \in [Challenges -> ChallengeRow \cup {None}]
    BY <1>17, <2>2 DEF OtpVerifyWrong, TypeOK
  <2>4. CASE u = None
    BY <1>3, <1>17, <2>3, <2>4 DEF OtpVerifyWrong, TypeOK
  <2>5. CASE u \in Users
    <3>1. OtpFailures(otpLock[u]) \in Nat
      BY <2>5 DEF OtpFailures, TypeOK, LockRow
    <3>2. otpLock' \in [Users -> LockRow]
      BY <1>1, <1>17, <2>5, <3>1, FailedRow DEF OtpVerifyWrong, TypeOK
    <3>3. s \in UserState /\ SetState(u, s, "handler")
      BY <1>1, <1>17, <2>5 DEF OtpVerifyWrong, TypeOK, UserRow, UserState
    <3>4. user' \in [Users -> UserRow] /\ stateBy' \in [Users -> Handlers]
      BY <2>5, <3>3, SetStateTyped
    <3>5. QED
      BY <1>3, <1>17, <2>3, <3>2, <3>4 DEF OtpVerifyWrong, TypeOK
  <2>6. QED
    BY <2>1, <2>4, <2>5 DEF ChallengeRow
<1>18. ASSUME NEW c \in Challenges, OtpVerifyRight(c)
       PROVE  TypeOK'
  <2> DEFINE u == challenge[c].user
             s == IF user[u].state = "locked" /\ ~PasswordLockedOut(u)
                  THEN "active" ELSE user[u].state
  <2>1. challenge[c] \in ChallengeRow /\ u \in Users
    BY <1>18 DEF OtpVerifyRight, Verifiable, Open, TypeOK, ChallengeRow
  <2>2. s \in UserState /\ SetState(u, s, "handler")
    BY <1>18, <2>1 DEF OtpVerifyRight, TypeOK, UserRow, UserState
  <2>3. user' \in [Users -> UserRow] /\ stateBy' \in [Users -> Handlers]
    BY <2>1, <2>2, SetStateTyped
  <2>4. [challenge[c] EXCEPT !.consumed = TRUE] \in ChallengeRow
    BY <2>1 DEF ChallengeRow
  <2>5. challenge' \in [Challenges -> ChallengeRow \cup {None}]
    BY <1>18, <2>4 DEF OtpVerifyRight, TypeOK
  <2>6. otpLock' \in [Users -> LockRow]
    BY <1>18, <2>1 DEF OtpVerifyRight, TypeOK
  <2>7. response' \in Response
    BY <1>2, <1>3, <1>18, <2>1 DEF OtpVerifyRight
  <2>8. QED
    BY <1>18, <2>3, <2>5, <2>6, <2>7 DEF OtpVerifyRight, TypeOK
<1>19. Tick => TypeOK'
  BY <1>1, <1>3 DEF Tick, TypeOK
<1>20. UNCHANGED vars => TypeOK'
  BY DEF vars, TypeOK
<1>21. QED
  BY <1>4, <1>5, <1>6, <1>7, <1>8, <1>9, <1>10, <1>11, <1>12, <1>13, <1>14, <1>15, <1>16,
     <1>17, <1>18, <1>19, <1>20 DEF Next

LEMMA TypeOKInit == Init => TypeOK
  BY NoLockRow DEF Init, TypeOK, UserRow, UserState, Response

\* Every row of the sign-in tables keeps its type in every reachable state.
THEOREM TypeCorrectness == Spec => []TypeOK
  BY TypeOKInit, TypeOKStep, PTL DEF Spec

-----------------------------------------------------------------------------

\* A request writes a user's lock rows whole: as the row of no failures or, when
\* the lock is not in force, as one more failure.
Rewritten(before, after) ==
    \/ after = before
    \/ after = NoLock
    \/ ~InForce(before) /\ \E base \in Nat, limit \in Limits : after = Failed(base, limit)

LEMMA LocksRewritten ==
    ASSUME TypeOK, [Next]_vars, NEW u \in Users
    PROVE  Rewritten(passwordLock[u], passwordLock'[u]) /\ Rewritten(otpLock[u], otpLock'[u])
<1> USE DEF Rewritten
<1>1. CASE passwordLock' = passwordLock /\ otpLock' = otpLock
  BY <1>1
<1>2. ASSUME NEW v \in Users, PasswordLogin(v) \/ PasswordRecoveryComplete(v)
      PROVE  passwordLock'[u] \in {passwordLock[u], NoLock} /\ otpLock'[u] \in {otpLock[u], NoLock}
  BY <1>2 DEF PasswordLogin, PasswordRecoveryComplete, TypeOK
<1>3. ASSUME NEW v \in Users, PasswordChange(v) \/ PasswordCredentialReplace(v)
      PROVE  passwordLock'[u] \in {passwordLock[u], NoLock} /\ otpLock' = otpLock
  BY <1>3 DEF PasswordChange, PasswordCredentialReplace, TypeOK
<1>4. ASSUME NEW v \in Users, NEW limit \in Limits, PasswordLoginFail(v, limit)
      PROVE  Rewritten(passwordLock[u], passwordLock'[u]) /\ otpLock' = otpLock
  <2>1. passwordLock[v].failed \in Nat
    BY DEF TypeOK, LockRow
  <2>2. ~InForce(passwordLock[v])
    BY <1>4 DEF PasswordLoginFail, PasswordFailureCounts
  <2>3. passwordLock' = [passwordLock EXCEPT ![v] = Failed(passwordLock[v].failed, limit)]
        /\ otpLock' = otpLock
    BY <1>4 DEF PasswordLoginFail
  <2>4. QED
    BY <2>1, <2>2, <2>3 DEF TypeOK
<1>5. ASSUME NEW c \in Challenges, NEW limit \in Limits, OtpVerifyWrong(c, limit)
      PROVE  Rewritten(otpLock[u], otpLock'[u]) /\ passwordLock' = passwordLock
  <2> DEFINE v == challenge[c].user
  <2>1. CASE v = None
    BY <1>5, <2>1 DEF OtpVerifyWrong
  <2>2. CASE v # None
    <3>1. v \in Users
      BY <1>5, <2>2 DEF OtpVerifyWrong, Verifiable, Open, TypeOK, ChallengeRow
    <3>2. OtpFailures(otpLock[v]) \in Nat
      BY <3>1 DEF OtpFailures, TypeOK, LockRow
    <3>3. ~InForce(otpLock[v])
      BY <1>5, <2>2 DEF OtpVerifyWrong, Verifiable, LockedOut
    <3>4. otpLock' = [otpLock EXCEPT ![v] = Failed(OtpFailures(otpLock[v]), limit)]
          /\ passwordLock' = passwordLock
      BY <1>5, <2>2 DEF OtpVerifyWrong
    <3>5. QED
      BY <3>1, <3>2, <3>3, <3>4 DEF TypeOK
  <2>3. QED
    BY <2>1, <2>2
<1>6. ASSUME NEW c \in Challenges, OtpVerifyRight(c)
      PROVE  otpLock'[u] \in {otpLock[u], NoLock} /\ passwordLock' = passwordLock
  BY <1>6 DEF OtpVerifyRight, TypeOK
<1>7. QED
  BY <1>1, <1>2, <1>3, <1>4, <1>5, <1>6
     DEF Next, vars, Tick, UserLifecycleSet, UserDelete, AddressVerify, AddressRelease,
         PasswordRecoveryRequest, OtpStart, WhatsappOtpResend, OtpVerifyLate

\* The lock rows say what the policies say, whichever handler wrote them last.
THEOREM LocksFollowFailures == Spec => []LockIffExhausted
<1>1. Init => LockIffExhausted
  BY NoLockRow DEF Init, LockIffExhausted
<1>2. TypeOK /\ LockIffExhausted /\ [Next]_vars => LockIffExhausted'
  <2> SUFFICES ASSUME TypeOK, LockIffExhausted, [Next]_vars, NEW u \in Users
               PROVE  Exhausted(passwordLock'[u]) /\ Exhausted(otpLock'[u])
    BY DEF LockIffExhausted, Exhausted
  <2>1. Exhausted(passwordLock[u]) /\ Exhausted(otpLock[u]) /\ now \in Nat
    BY DEF LockIffExhausted, TypeOK
  <2>2. \A before, after :
          Exhausted(before) /\ Rewritten(before, after) => Exhausted(after)
    BY <2>1, FailedRow, NoLockRow DEF Rewritten
  <2>3. QED
    BY <2>1, <2>2, LocksRewritten
<1>3. QED
  BY <1>1, <1>2, TypeCorrectness, PTL DEF Spec

\* No failure, on either channel, prolongs a lock that is in force.
THEOREM LocksAreNotProlonged == Spec => LockNeverProlonged
<1>1. TypeOK /\ [Next]_vars =>
        [\A u \in Users :
           /\ InForce(passwordLock[u]) => passwordLock'[u] \in {passwordLock[u], NoLock}
           /\ InForce(otpLock[u]) => otpLock'[u] \in {otpLock[u], NoLock}]_vars
  BY LocksRewritten DEF Rewritten
<1>2. QED
  BY <1>1, TypeCorrectness, PTL DEF Spec, LockNeverProlonged

-----------------------------------------------------------------------------

LocksOut(u) == InForce(passwordLock[u]) \/ InForce(otpLock[u])
Kept(u) == LocksOut(u) /\ stateBy[u] = "handler" => user[u].state # "active"

\* A step that sets no lock of u keeps u locked unless it makes u active.
LEMMA NoNewLock ==
    ASSUME TypeOK, NEW u \in Users, Kept(u), now' \in Nat, now' >= now,
           passwordLock'[u] \in {passwordLock[u], NoLock},
           otpLock'[u] \in {otpLock[u], NoLock},
           \/ user'[u].state = user[u].state /\ stateBy'[u] = stateBy[u]
           \/ user'[u].state # "active"
           \/ stateBy'[u] # "handler"
    PROVE  Kept(u)'
<1>1. LocksOut(u)' => LocksOut(u)
  BY SignInAssumption DEF LocksOut, InForce, NoLock, TypeOK, LockRow
<1>2. QED
  BY <1>1 DEF Kept

\* A step that changes another user's state and none of u's locks.
LEMMA OthersKept ==
    ASSUME TypeOK, NEW u \in Users, Kept(u), NEW v \in Users \ {u},
           NEW s \in UserState, NEW by \in Handlers, SetState(v, s, by), now' = now,
           passwordLock'[u] = passwordLock[u], otpLock'[u] = otpLock[u]
    PROVE  Kept(u)'
<1>1. user'[u] = user[u] /\ stateBy'[u] = stateBy[u]
  BY SetStateTyped
<1>2. QED
  BY <1>1 DEF Kept, LocksOut, InForce

LEMMA KeptStep ==
    ASSUME TypeOK, LockKeepsUserLocked, [Next]_vars, NEW u \in Users
    PROVE  Kept(u)'
<1>1. Kept(u) /\ now \in Nat
  BY DEF LockKeepsUserLocked, Kept, LocksOut, TypeOK
<1>2. None \notin Nat /\ ~InForce(NoLock) /\ (now' = now => ~InForce(NoLock)')
  BY SignInAssumption DEF InForce, NoLock
<1>3. ASSUME user' = user, stateBy' = stateBy, now' \in {now, now + 1},
             passwordLock'[u] \in {passwordLock[u], NoLock},
             otpLock'[u] \in {otpLock[u], NoLock}
      PROVE  Kept(u)'
  BY <1>1, <1>3, NoNewLock
<1>4. ASSUME NEW v \in Users, PasswordLogin(v) \/ PasswordRecoveryComplete(v)
      PROVE  Kept(u)'
  <2>1. /\ now' = now
        /\ passwordLock' = [passwordLock EXCEPT ![v] = NoLock]
        /\ otpLock' = [otpLock EXCEPT ![v] = NoLock]
    BY <1>4 DEF PasswordLogin, PasswordRecoveryComplete
  <2>2. PICK s \in UserState : SetState(v, s, "handler")
    <3>1. user[v].state \in UserState /\ "active" \in UserState
      BY DEF TypeOK, UserRow, UserState
    <3>2. QED
      BY <1>4, <3>1 DEF PasswordLogin, PasswordRecoveryComplete
  <2>3. CASE u = v
    BY <1>2, <2>1, <2>3 DEF Kept, LocksOut, InForce, TypeOK
  <2>4. CASE u # v
    BY <1>1, <2>1, <2>2, <2>4, OthersKept DEF TypeOK, Handlers
  <2>5. QED
    BY <2>3, <2>4
\* A failure that locks makes the user locked; one that does not leaves no lock.
<1>5. ASSUME NEW v \in Users, NEW limit \in Limits, PasswordLoginFail(v, limit)
      PROVE  Kept(u)'
  <2> DEFINE lock == Failed(passwordLock[v].failed, limit)
             s == IF lock.until # None THEN "locked" ELSE "active"
  <2>1. s \in UserState /\ SetState(v, s, "handler") /\ now' = now /\ otpLock' = otpLock
        /\ passwordLock' = [passwordLock EXCEPT ![v] = lock] /\ ~InForce(otpLock[v])
    BY <1>5 DEF PasswordLoginFail, PasswordFailureCounts, UserState
  <2> HIDE DEF lock
  <2>2. CASE u = v
    <3>1. user'[u].state = s /\ passwordLock'[u] = lock /\ ~InForce(otpLock[u])'
      BY <2>1, <2>2, SetStateTyped DEF Handlers, TypeOK, InForce
    <3>2. CASE lock.until = None
      BY <3>1, <3>2 DEF Kept, LocksOut, InForce
    <3>3. CASE lock.until # None
      BY <3>1, <3>3 DEF Kept
    <3>4. QED
      BY <3>2, <3>3
  <2>3. CASE u # v
    <3>1. passwordLock'[u] = passwordLock[u]
      BY <2>1, <2>3 DEF TypeOK
    <3> HIDE DEF s
    <3>2. QED
      BY <1>1, <2>1, <2>3, <3>1, OthersKept DEF Handlers
  <2>4. QED
    BY <2>2, <2>3
<1>6. ASSUME NEW c \in Challenges, NEW limit \in Limits, OtpVerifyWrong(c, limit)
      PROVE  Kept(u)'
  <2> DEFINE v == challenge[c].user
             lock == Failed(OtpFailures(otpLock[v]), limit)
             s == IF lock.until # None THEN "locked" ELSE user[v].state
  <2>1. CASE v = None
    BY <1>1, <1>3, <1>6, <2>1 DEF OtpVerifyWrong
  <2>2. CASE v # None
    <3>1. v \in Users
      BY <1>6, <2>2 DEF OtpVerifyWrong, Verifiable, Open, TypeOK, ChallengeRow
    <3>2. s \in UserState /\ SetState(v, s, "handler") /\ now' = now
          /\ passwordLock' = passwordLock /\ otpLock' = [otpLock EXCEPT ![v] = lock]
      BY <1>6, <2>2, <3>1 DEF OtpVerifyWrong, TypeOK, UserRow, UserState
    <3> HIDE DEF lock
    <3>3. CASE u = v
      <4>1. user'[u].state = s /\ otpLock'[u] = lock
            /\ (user[u].state = s => stateBy'[u] = stateBy[u])
        BY <3>1, <3>2, <3>3, SetStateTyped DEF Handlers, TypeOK
      <4>2. CASE lock.until = None
        BY <1>1, <3>2, <3>3, <4>1, <4>2 DEF Kept, LocksOut, InForce
      <4>3. CASE lock.until # None
        BY <4>1, <4>3 DEF Kept
      <4>4. QED
        BY <4>2, <4>3
    <3>4. CASE u # v
      <4>1. otpLock'[u] = otpLock[u]
        BY <3>1, <3>2, <3>4 DEF TypeOK
      <4> HIDE DEF s, v
      <4>2. QED
        BY <1>1, <3>1, <3>2, <3>4, <4>1, OthersKept DEF Handlers
    <3>5. QED
      BY <3>3, <3>4
  <2>3. QED
    BY <2>1, <2>2
\* A right code makes the user active only where neither lock is in force.
<1>7. ASSUME NEW c \in Challenges, OtpVerifyRight(c)
      PROVE  Kept(u)'
  <2> DEFINE v == challenge[c].user
             s == IF user[v].state = "locked" /\ ~PasswordLockedOut(v)
                  THEN "active" ELSE user[v].state
  <2>1. v \in Users /\ ~InForce(otpLock[v])
    BY <1>7 DEF OtpVerifyRight, Verifiable, LockedOut, Open, TypeOK, ChallengeRow
  <2>2. s \in UserState /\ SetState(v, s, "handler") /\ now' = now
        /\ passwordLock' = passwordLock /\ otpLock' \in {otpLock, [otpLock EXCEPT ![v] = NoLock]}
    BY <1>7, <2>1 DEF OtpVerifyRight, TypeOK, UserRow, UserState
  <2>3. CASE u = v
    <3>1. user'[u].state = s /\ (user[u].state = s => stateBy'[u] = stateBy[u])
      BY <2>1, <2>2, <2>3, SetStateTyped DEF Handlers
    <3>2. ~InForce(otpLock[u])' /\ (InForce(passwordLock[u])' <=> InForce(passwordLock[u]))
      BY <1>2, <2>1, <2>2, <2>3 DEF InForce, TypeOK
    <3>3. CASE InForce(passwordLock[u])
      <4>1. s = user[u].state
        BY <2>3, <3>3 DEF PasswordLockedOut
      <4>2. QED
        BY <1>1, <3>1, <3>3, <4>1 DEF Kept, LocksOut
    <3>4. CASE ~InForce(passwordLock[u])
      BY <3>2, <3>4 DEF Kept, LocksOut
    <3>5. QED
      BY <3>3, <3>4
  <2>4. CASE u # v
    <3>1. otpLock'[u] = otpLock[u] /\ passwordLock'[u] = passwordLock[u]
      BY <2>1, <2>2, <2>4 DEF TypeOK
    <3> HIDE DEF s, v
    <3>2. QED
      BY <1>1, <2>1, <2>2, <2>4, <3>1, OthersKept DEF Handlers
  <2>5. QED
    BY <2>3, <2>4
<1>8. ASSUME NEW v \in Users, NEW s \in UserState, UserLifecycleSet(v, s)
      PROVE  Kept(u)'
  <2>1. user[v].state # s /\ SetState(v, s, "administrator") /\ now' = now
        /\ passwordLock' = passwordLock /\ otpLock' = otpLock
    BY <1>8 DEF UserLifecycleSet, UserStateTransitionAllowed
  <2>2. CASE u = v
    BY <2>1, <2>2, SetStateTyped DEF Kept, Handlers
  <2>3. CASE u # v
    BY <1>1, <2>1, <2>3, OthersKept DEF Handlers
  <2>4. QED
    BY <2>2, <2>3
<1>9. ASSUME NEW v \in Users, UserDelete(v)
      PROVE  Kept(u)'
  <2>1. CASE u = v
    BY <1>9, <2>1 DEF UserDelete, Kept, TypeOK
  <2>2. CASE u # v
    <3>1. user'[u] = user[u] /\ stateBy'[u] = stateBy[u] /\ now' = now
          /\ passwordLock' = passwordLock /\ otpLock' = otpLock
      BY <1>9, <2>2 DEF UserDelete, TypeOK
    <3>2. QED
      BY <1>1, <3>1 DEF Kept, LocksOut, InForce
  <2>3. QED
    BY <2>1, <2>2
<1>10. ASSUME NEW v \in Users, PasswordChange(v) \/ PasswordCredentialReplace(v)
       PROVE  Kept(u)'
  BY <1>3, <1>10 DEF PasswordChange, PasswordCredentialReplace, TypeOK
<1>11. QED
  BY <1>3, <1>4, <1>5, <1>6, <1>7, <1>8, <1>9, <1>10
     DEF Next, vars, Tick, AddressVerify, AddressRelease, PasswordRecoveryRequest,
         OtpStart, WhatsappOtpResend, OtpVerifyLate

\* Nobody is active under a lock in force but by an administrator's word.
THEOREM LockedUsersStayLocked == Spec => []LockKeepsUserLocked
<1>1. Init => LockKeepsUserLocked
  BY DEF Init, LockKeepsUserLocked, InForce, NoLock
<1>2. TypeOK /\ LockKeepsUserLocked /\ [Next]_vars => LockKeepsUserLocked'
  BY KeptStep DEF LockKeepsUserLocked, Kept, LocksOut
<1>3. QED
  BY <1>1, <1>2, TypeCorrectness, PTL DEF Spec

-----------------------------------------------------------------------------

\* Nothing opens a challenge, and none changes its address.
Narrowed(d) == Open(d)' => Open(d) /\ challenge'[d].address = challenge[d].address

\* A code that is sent closes all others of its address.
LEMMA CreateCloses ==
    ASSUME TypeOK, NEW c \in Challenges, NEW a \in Addresses, NEW u,
           ChallengeCreate(c, a, u)
    PROVE  /\ challenge'[c].address = a
           /\ \A d \in Challenges \ {c} : Narrowed(d) /\ (Open(d)' => challenge'[d].address # a)
<1>1. challenge'[c].address = a
  BY DEF ChallengeCreate
<1>2. ASSUME NEW d \in Challenges \ {c}, Superseded(d, a)
      PROVE  ~Open(d)'
  <2>1. challenge[d] \in ChallengeRow
    BY <1>2 DEF Superseded, TypeOK
  <2>2. challenge'[d] = [challenge[d] EXCEPT !.consumed = TRUE]
    BY <1>2 DEF ChallengeCreate
  <2> QED
    BY <2>1, <2>2 DEF Open, ChallengeRow
<1>3. ASSUME NEW d \in Challenges \ {c}, ~Superseded(d, a)
      PROVE  Narrowed(d) /\ (Open(d)' => challenge'[d].address # a)
  <2>1. challenge'[d] = challenge[d]
    BY <1>3 DEF ChallengeCreate
  <2> QED
    BY <1>3, <2>1 DEF Narrowed, Open, Superseded
<1> QED
  BY <1>1, <1>2, <1>3 DEF Narrowed

\* A verification closes one challenge or counts an attempt.
LEMMA VerifyNarrows ==
    ASSUME TypeOK, NEW c \in Challenges, NEW limit \in Limits,
           OtpVerifyLate(c) \/ OtpVerifyWrong(c, limit) \/ OtpVerifyRight(c)
    PROVE  \A d \in Challenges : Narrowed(d)
<1>1. challenge[c] \in ChallengeRow /\ Open(c)
  BY DEF OtpVerifyLate, OtpVerifyWrong, OtpVerifyRight, Verifiable, Open, TypeOK
<1>2. PICK row : challenge' = [challenge EXCEPT ![c] = row] /\ row.address = challenge[c].address
  <2> DEFINE late == [challenge[c] EXCEPT !.consumed = TRUE]
             wrong == [challenge[c] EXCEPT
                         !.attempts = @ + 1,
                         !.consumed = challenge[c].attempts + 1 >= ChallengeAttempts]
  <2>1. late.address = challenge[c].address /\ wrong.address = challenge[c].address
    BY <1>1 DEF ChallengeRow
  <2>2. CASE OtpVerifyLate(c) \/ OtpVerifyRight(c)
    <3>1. challenge' = [challenge EXCEPT ![c] = late]
      BY <2>2 DEF OtpVerifyLate, OtpVerifyRight
    <3> HIDE DEF late
    <3> QED
      BY <2>1, <3>1
  <2>3. CASE OtpVerifyWrong(c, limit)
    <3>1. challenge' = [challenge EXCEPT ![c] = wrong]
      BY <2>3 DEF OtpVerifyWrong
    <3> HIDE DEF wrong
    <3> QED
      BY <2>1, <3>1
  <2> QED
    BY <2>2, <2>3
<1>3. challenge'[c] = row /\ \A d \in Challenges \ {c} : challenge'[d] = challenge[d]
  BY <1>2 DEF TypeOK
<1> QED
  BY <1>1, <1>2, <1>3 DEF Narrowed, Open

LEMMA OneOpenStep ==
    ASSUME TypeOK, OneOpenChallengePerAddress, [Next]_vars
    PROVE  OneOpenChallengePerAddress'
<1>1. ASSUME \A d \in Challenges : Narrowed(d)
      PROVE  OneOpenChallengePerAddress'
  BY <1>1 DEF OneOpenChallengePerAddress, Narrowed
<1>2. ASSUME NEW c \in Challenges, NEW a \in Addresses, NEW u, ChallengeCreate(c, a, u)
      PROVE  OneOpenChallengePerAddress'
  BY <1>2, CreateCloses DEF OneOpenChallengePerAddress, Narrowed
<1>3. CASE UNCHANGED challenge
  BY <1>1, <1>3 DEF Narrowed, Open
<1>4. ASSUME NEW c \in Challenges, NEW a \in Addresses, OtpStart(a, c)
      PROVE  OneOpenChallengePerAddress'
  <2>1. \E u : ChallengeCreate(c, a, u)
    BY <1>4 DEF OtpStart
  <2> QED
    BY <1>2, <2>1
<1>5. ASSUME NEW c \in Challenges, NEW requested \in Challenges, NEW current \in Challenges,
             WhatsappOtpResend(requested, current, c)
      PROVE  OneOpenChallengePerAddress'
  <2>1. PICK a : a = challenge[requested].address
    OBVIOUS
  <2>2. a \in Addresses
    BY <1>5, <2>1 DEF WhatsappOtpResend, TypeOK, ChallengeRow
  <2>3. \E u : ChallengeCreate(c, a, u)
    BY <1>5, <2>1 DEF WhatsappOtpResend
  <2> QED
    BY <1>2, <2>2, <2>3
<1>6. Limits # {}
  BY SignInAssumption
<1>7. ASSUME NEW c \in Challenges, OtpVerifyLate(c) \/ OtpVerifyRight(c)
      PROVE  OneOpenChallengePerAddress'
  BY <1>1, <1>6, <1>7, VerifyNarrows
<1>8. ASSUME NEW c \in Challenges, NEW limit \in Limits, OtpVerifyWrong(c, limit)
      PROVE  OneOpenChallengePerAddress'
  BY <1>1, <1>8, VerifyNarrows
<1> QED
  BY <1>3, <1>4, <1>5, <1>7, <1>8
     DEF Next, vars, Tick, PasswordLogin, PasswordLoginFail, PasswordRecoveryComplete,
         PasswordChange, PasswordCredentialReplace, UserLifecycleSet, UserDelete,
         AddressVerify, AddressRelease, PasswordRecoveryRequest

\* Of all codes sent to an address only the last one can be entered.
THEOREM OneCodeIsOpen == Spec => []OneOpenChallengePerAddress
<1>1. Init => OneOpenChallengePerAddress
  BY DEF Init, OneOpenChallengePerAddress, Open
<1>2. TypeOK /\ OneOpenChallengePerAddress /\ [Next]_vars => OneOpenChallengePerAddress'
  BY OneOpenStep
<1> QED
  BY <1>1, <1>2, TypeCorrectness, PTL DEF Spec

-----------------------------------------------------------------------------

Sound(u) ==
    /\ user[u].state \in {"active", "locked"} /\ user'[u].state = "active"
    /\ ~InForce(otpLock[u])
    /\ InForce(passwordLock[u]) => stateBy[u] = "administrator"
    /\ \A c \in Challenges :
          response'.challenge = c =>
              /\ Open(c) /\ ~Open(c)'
              /\ challenge[c].user = u
              /\ holder[challenge[c].address] = u

Authenticates(u) == response'.kind = "authenticated" /\ response'.user = u

\* An active user under a password lock was made so by an administrator.
LEMMA ActiveUnderLock ==
    ASSUME TypeOK, LockKeepsUserLocked, NEW u \in Users,
           user[u].state = "active", InForce(passwordLock[u])
    PROVE  stateBy[u] = "administrator"
BY DEF TypeOK, LockKeepsUserLocked

LEMMA PasswordIsSound ==
    ASSUME TypeOK, LockKeepsUserLocked, NEW u \in Users, PasswordLogin(u)
    PROVE  Sound(u) /\ \A v \in Users : Authenticates(v) => v = u
<1>1. user'[u].state = "active"
  BY SetStateTyped DEF PasswordLogin, UserState, Handlers
<1>2. user[u].state \in {"active", "locked"} /\ ~InForce(otpLock[u])
  BY DEF PasswordLogin, PasswordUnlockable
<1>3. InForce(passwordLock[u]) => stateBy[u] = "administrator"
  <2>1. CASE user[u].state = "active"
    BY <2>1, ActiveUnderLock
  <2>2. CASE Expired(passwordLock[u])
    BY <2>2, SignInAssumption DEF Expired, InForce, TypeOK, LockRow
  <2> QED
    BY <2>1, <2>2 DEF PasswordLogin, PasswordUnlockable
<1>4. response'.challenge = None /\ response'.user = u
  BY DEF PasswordLogin, Answer
<1>5. None \notin Challenges
  BY SignInAssumption
<1> QED
  BY <1>1, <1>2, <1>3, <1>4, <1>5 DEF Sound, Authenticates

LEMMA CodeIsSound ==
    ASSUME TypeOK, LockKeepsUserLocked, NEW c \in Challenges, OtpVerifyRight(c),
           NEW u \in Users, Authenticates(u)
    PROVE  Sound(u)
<1>1. /\ challenge[c] \in ChallengeRow /\ Open(c)
      /\ challenge[c].user # None /\ ~InForce(otpLock[challenge[c].user])
  BY DEF OtpVerifyRight, Verifiable, LockedOut, Open, TypeOK
<1>2. /\ response' = [kind |-> "authenticated", user |-> challenge[c].user, challenge |-> c]
      /\ holder[challenge[c].address] = challenge[c].user
      /\ ~PasswordLockedOut(challenge[c].user)
      /\ user[challenge[c].user].state \in {"active", "locked"}
      /\ SetState(challenge[c].user, "active", "handler")
  BY DEF OtpVerifyRight, NoAnswer, Answer, Authenticates
<1>3. challenge[c].user = u
  BY <1>2 DEF Authenticates
<1>4. user'[u].state = "active"
  BY <1>2, <1>3, SetStateTyped DEF UserState, Handlers
<1>5. InForce(passwordLock[u]) => stateBy[u] = "administrator"
  BY <1>2, <1>3, ActiveUnderLock DEF PasswordLockedOut
<1>6. ~Open(c)'
  <2> DEFINE row == [challenge[c] EXCEPT !.consumed = TRUE]
  <2>1. row.consumed
    BY <1>1 DEF ChallengeRow
  <2>2. challenge' = [challenge EXCEPT ![c] = row]
    BY DEF OtpVerifyRight
  <2> HIDE DEF row
  <2>3. challenge'[c] = row
    BY <2>2 DEF TypeOK
  <2> QED
    BY <2>1, <2>3 DEF Open
<1> QED
  BY <1>1, <1>2, <1>3, <1>4, <1>5, <1>6 DEF Sound

\* Nothing else authenticates.
LEMMA FirstFactors ==
    ASSUME Next, NEW u \in Users, Authenticates(u)
    PROVE  (\E v \in Users : PasswordLogin(v)) \/ (\E c \in Challenges : OtpVerifyRight(c))
<1>1. ~NoAnswer /\ \A v, c : ~Answer("challenged", v, c) /\ ~Answer("replaced", v, c)
  BY DEF Authenticates, NoAnswer, Answer
<1> HIDE DEF NoAnswer, Answer
<1>2. ~Tick
  BY <1>1 DEF Tick
<1>3. ASSUME NEW v \in Users
      PROVE  /\ ~PasswordRecoveryComplete(v) /\ ~PasswordChange(v)
             /\ ~PasswordCredentialReplace(v) /\ ~UserDelete(v)
             /\ \A limit \in Limits : ~PasswordLoginFail(v, limit)
             /\ \A s \in UserState : ~UserLifecycleSet(v, s)
             /\ \A a \in Addresses : ~AddressVerify(v, a) /\ ~AddressRelease(v, a)
  BY <1>1 DEF PasswordLoginFail, PasswordRecoveryComplete, PasswordChange,
              PasswordCredentialReplace, UserLifecycleSet, UserDelete, AddressVerify,
              AddressRelease
<1>4. \A a \in Addresses : ~PasswordRecoveryRequest(a)
  BY <1>1 DEF PasswordRecoveryRequest
<1>5. ASSUME NEW c \in Challenges
      PROVE  /\ ~OtpVerifyLate(c)
             /\ \A limit \in Limits : ~OtpVerifyWrong(c, limit)
             /\ \A a \in Addresses : ~OtpStart(a, c)
             /\ \A requested, current \in Challenges : ~WhatsappOtpResend(requested, current, c)
  BY <1>1 DEF OtpStart, WhatsappOtpResend, OtpVerifyLate, OtpVerifyWrong
<1> QED
  BY <1>2, <1>3, <1>4, <1>5 DEF Next

\* A first factor is accepted only from a user whose locks allow it, and a
\* code only for the address it was sent to.
THEOREM FirstFactorsAreSound == Spec => AcceptedFactorIsSound
<1>1. TypeOK /\ LockKeepsUserLocked /\ [Next]_vars =>
          [\A u \in Users : Authenticates(u) => Sound(u)]_vars
  BY FirstFactors, PasswordIsSound, CodeIsSound
<1> QED
  BY <1>1, TypeCorrectness, LockedUsersStayLocked, PTL
     DEF Spec, AcceptedFactorIsSound, Authenticates, Sound

=============================================================================
