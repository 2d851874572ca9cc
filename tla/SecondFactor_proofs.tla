------------------------ MODULE SecondFactor_proofs ------------------------
(***************************************************************************)
(* Proofs about SecondFactor for every set of users, challenges,           *)
(* authenticators, recovery codes and sessions, and every bound.           *)
(***************************************************************************)
EXTENDS SecondFactor, TLAPS

LEMMA InitTypeOK == Init => TypeOK
BY SecondFactorAssumption
   DEF Init, TypeOK, NoFailures

\* What the answer to a challenge writes besides the challenge and the session.
LEMMA GrantedTyped ==
    ASSUME TypeOK, NEW c \in Challenges, NEW s \in Sessions, NEW p \in Proofs(c),
           challenge[c] # None, Answer(c, p), Granted(c, s, p),
           challenge' \in [Challenges -> ChallengeRow \cup {None}],
           session' \in [Sessions -> SessionRow \cup {None}]
    PROVE  TypeOK'
<1>1. now \in Nat /\ TotpWindow \in Nat
  BY SecondFactorAssumption DEF TypeOK
<1>2. p \in Proof
  BY <1>1 DEF Proofs, Proof, Steps, TotpProof, MailProof, RecoveryProof
<1>3. enrollment' \in [Enrollments -> EnrollmentRow \cup {None}]
  <2>1. ASSUME NEW e \in Enrollments, NEW t \in now - TotpWindow .. now + TotpWindow,
               AnswerTotp(c, e, t)
        PROVE  enrollment' \in [Enrollments -> EnrollmentRow \cup {None}]
    BY <1>1, <2>1 DEF AnswerTotp, Active, TotpUsed, TypeOK, EnrollmentRow
  <2>2. CASE UNCHANGED enrollment
    BY <2>2 DEF TypeOK
  <2>3. QED
    BY <2>1, <2>2 DEF Answer, AnswerMail, AnswerRecovery
<1>4. recovery' \in [RecoveryCodes -> RecoveryRow \cup {None}]
  <2>1. ASSUME NEW k \in RecoveryCodes, AnswerRecovery(c, k)
        PROVE  recovery' \in [RecoveryCodes -> RecoveryRow \cup {None}]
    BY <2>1 DEF AnswerRecovery, RecoveryUsed, TypeOK, RecoveryRow
  <2>2. CASE UNCHANGED recovery
    BY <2>2 DEF TypeOK
  <2>3. QED
    BY <2>1, <2>2 DEF Answer, AnswerTotp, AnswerMail
<1>5. lockout' \in [Users -> [failed : Nat, until : Nat]]
  BY DEF TypeOK, Granted, ResetLockout, NoFailures
<1>6. used' \subseteq Proof /\ reused' \subseteq Proof
  BY <1>2 DEF TypeOK, Granted, Accepted
<1>7. grants' \subseteq Grant
  BY <1>2 DEF TypeOK, Granted, Grant
<1>8. QED
  BY <1>3, <1>4, <1>5, <1>6, <1>7 DEF TypeOK, Granted

LEMMA TypeOKStep == TypeOK /\ [Next]_vars => TypeOK'
<1> SUFFICES ASSUME TypeOK, [Next]_vars PROVE TypeOK'
  OBVIOUS
<1> USE SecondFactorAssumption
<1>1. CASE Tick
  BY <1>1 DEF TypeOK, Tick, tables, history
<1>2. ASSUME NEW s \in Sessions, NEW u \in Users, NEW m \in Methods,
             PrimaryComplete(s, u, m)
      PROVE  TypeOK'
  BY <1>2 DEF TypeOK, PrimaryComplete, history, SessionRow, Authenticated, MultiFactor
<1>3. ASSUME NEW s \in Sessions, EndSession(s)
      PROVE  TypeOK'
  BY <1>3 DEF TypeOK, EndSession, Live, history, SessionRow
<1>4. ASSUME NEW c \in Challenges, NEW f \in Factors, FactorSelect(c, f)
      PROVE  TypeOK'
  <2> DEFINE row == [challenge[c] EXCEPT !.factor = f, !.code = FALSE]
  <2>1. challenge[c] \in ChallengeRow
    BY <1>4 DEF TypeOK, FactorSelect, ContextHolds, Open
  <2>2. row \in ChallengeRow
    BY <2>1 DEF ChallengeRow
  <2>3. challenge' = [challenge EXCEPT ![c] = row]
    BY <1>4 DEF TypeOK, FactorSelect
  <2> HIDE DEF row
  <2>4. QED
    BY <1>4, <2>2, <2>3, ZenonT(60) DEF TypeOK, FactorSelect, history
<1>5. ASSUME NEW c \in Challenges, EmailOtpStart(c)
      PROVE  TypeOK'
  <2> DEFINE row == [challenge[c] EXCEPT !.code = TRUE,
                       !.expiresAt = Smaller(challenge[c].expiresAt, now + MailTtl)]
  <2>1. challenge[c] \in ChallengeRow
    BY <1>5 DEF TypeOK, EmailOtpStart, ContextHolds, Open
  <2>2. challenge[c].expiresAt \in Nat /\ now \in Nat
    BY <2>1 DEF ChallengeRow, TypeOK
  <2>3. Smaller(challenge[c].expiresAt, now + MailTtl) \in Nat
    BY <2>2 DEF Smaller
  <2>4. row \in ChallengeRow
    BY <2>1, <2>3 DEF ChallengeRow
  <2>5. challenge' = [challenge EXCEPT ![c] = row]
    BY <1>5 DEF TypeOK, EmailOtpStart
  <2> HIDE DEF row
  <2>6. QED
    BY <1>5, <2>4, <2>5, ZenonT(60) DEF TypeOK, EmailOtpStart, history
<1>6. ASSUME NEW c \in Challenges, ChallengeFail(c)
      PROVE  TypeOK'
  BY <1>6 DEF TypeOK, ChallengeFail, tables
<1>7. ASSUME NEW e \in Enrollments, NEW u \in Users, TotpEnrollmentStart(e, u)
      PROVE  TypeOK'
  BY <1>7, SMTT(40) DEF TypeOK, TotpEnrollmentStart, history, EnrollmentRow
<1>8. ASSUME NEW e \in Enrollments, NEW s \in Sessions, TotpEnrollmentRemove(e, s)
      PROVE  TypeOK'
  BY <1>8 DEF TypeOK, TotpEnrollmentRemove, history, EnrollmentRow
<1>9. ASSUME NEW u \in Users, TotpAdministratorRemove(u)
      PROVE  TypeOK'
  <2>1. enrollment' \in [Enrollments -> EnrollmentRow \cup {None}]
    BY <1>9 DEF TypeOK, TotpAdministratorRemove, TotpRows, EnrollmentRow
  <2>2. challenge' \in [Challenges -> ChallengeRow \cup {None}]
    <3>1. ASSUME NEW c \in TotpChallenges(u)
          PROVE  [challenge[c] EXCEPT !.consumed = TRUE] \in ChallengeRow
      <4>1. challenge[c] \in ChallengeRow
        BY DEF TotpChallenges, TypeOK
      <4>2. QED
        BY <4>1 DEF ChallengeRow
    <3>2. \A c \in Challenges : challenge[c] \in ChallengeRow \cup {None}
      BY DEF TypeOK
    <3>3. QED
      BY <1>9, <3>1, <3>2 DEF TotpAdministratorRemove
  <2>3. withdrawn' \subseteq Challenges
    BY <1>9 DEF TypeOK, TotpAdministratorRemove, TotpChallenges
  <2>4. QED
    BY <1>9, <2>1, <2>2, <2>3 DEF TypeOK, TotpAdministratorRemove
<1>10. ASSUME NEW u \in Users, TotpVerifyFail(u)
      PROVE  TypeOK'
  BY <1>10 DEF TypeOK, TotpVerifyFail, history
<1>11. ASSUME NEW u \in Users, NEW set \in SUBSET RecoveryCodes, RecoveryCodesGenerate(u, set)
      PROVE  TypeOK'
  BY <1>11 DEF TypeOK, RecoveryCodesGenerate, Deleted, CodesOf, history, RecoveryRow
<1>12. ASSUME NEW u \in Users, RecoveryCodesAdministratorInvalidate(u)
      PROVE  TypeOK'
  BY <1>12 DEF TypeOK, RecoveryCodesAdministratorInvalidate, Deleted, CodesOf, history, RecoveryRow
<1>13. ASSUME NEW k \in RecoveryCodes, RecoveryCodeVerify(k)
      PROVE  TypeOK'
  BY <1>13 DEF TypeOK, RecoveryCodeVerify, RecoveryUsed, Accepted, RecoveryProof, Proof, RecoveryRow
<1>14. ASSUME NEW e \in Enrollments, NEW t \in Steps, TotpVerify(e, t)
      PROVE  TypeOK'
  BY <1>14 DEF TypeOK, TotpVerify, TotpUsed, ResetLockout, NoFailures, Accepted, TotpProof, Proof, EnrollmentRow, Steps
<1>15. ASSUME NEW e \in Enrollments, NEW t \in Steps, TotpEnrollmentConfirm(e, t)
      PROVE  TypeOK'
  <2> DEFINE row == [enrollment[e] EXCEPT !.status = "active", !.lastUsed = t]
  <2>1. enrollment[e] \in EnrollmentRow /\ t \in Int
    BY <1>15 DEF TypeOK, TotpEnrollmentConfirm, Confirmable, Steps
  <2>2. row \in EnrollmentRow
    BY <2>1 DEF EnrollmentRow
  <2>3. enrollment' = [enrollment EXCEPT ![e] = row]
    BY <1>15 DEF TypeOK, TotpEnrollmentConfirm
  <2> HIDE DEF row
  <2>4. TotpProof(e, t) \in Proof
    BY <2>1 DEF TotpProof, Proof
  <2>5. lockout' \in [Users -> [failed : Nat, until : Nat]]
    BY <1>15 DEF TypeOK, TotpEnrollmentConfirm, ResetLockout, NoFailures
  <2>6. used' \subseteq Proof /\ reused' \subseteq Proof
    BY <1>15, <2>4 DEF TypeOK, TotpEnrollmentConfirm, Accepted
  <2>7. enrollment' \in [Enrollments -> EnrollmentRow \cup {None}]
    BY <2>2, <2>3 DEF TypeOK
  <2>8. QED
    BY <1>15, <2>5, <2>6, <2>7 DEF TypeOK, TotpEnrollmentConfirm
<1>16. ASSUME NEW c \in Challenges, NEW u \in Users, NEW purpose \in {"login", "step_up"},
              NEW m \in Methods, NEW s \in Sessions \cup {None}, NEW f \in Factors,
              OpenChallenge(c, u, purpose, m, s, f)
       PROVE  TypeOK'
  <2> DEFINE row == [user |-> u, purpose |-> purpose, primary |-> m,
                     offered |-> Available(u, m), factor |-> f, session |-> s,
                     code |-> FALSE, expiresAt |-> ChallengeEnd, consumed |-> FALSE]
  <2>1. ChallengeEnd \in Nat
    BY DEF TypeOK, ChallengeEnd
  <2>2. Available(u, m) \subseteq Factors
    BY DEF Available, Factors
  <2>3. row \in ChallengeRow
    BY <2>1, <2>2 DEF ChallengeRow
  <2>4. challenge' = [challenge EXCEPT ![c] = row]
    BY <1>16 DEF OpenChallenge
  <2> HIDE DEF row
  <2>5. challenge' \in [Challenges -> ChallengeRow \cup {None}]
    BY <2>3, <2>4 DEF TypeOK
  <2>6. QED
    BY <1>16, <2>5 DEF TypeOK, OpenChallenge, history
<1>17. ASSUME NEW c \in Challenges, NEW s \in Sessions, NEW f \in Factors, StepUpStart(c, s, f)
       PROVE  TypeOK'
  <2>1. session[s] \in SessionRow
    BY <1>17 DEF TypeOK, StepUpStart, Live
  <2>2. session[s].user \in Users /\ session[s].method \in Methods
    BY <2>1 DEF SessionRow
  <2>3. OpenChallenge(c, session[s].user, "step_up", session[s].method, s, f)
    BY <1>17 DEF StepUpStart
  <2>4. QED
    BY <1>16, <2>2, <2>3
<1>18. ASSUME NEW c \in Challenges, NEW s \in Sessions, NEW p \in Proofs(c), LoginComplete(c, s, p)
       PROVE  TypeOK'
  <2> DEFINE row == [challenge[c] EXCEPT !.consumed = TRUE, !.session = s]
             new == [user |-> challenge[c].user, method |-> challenge[c].primary,
                     live |-> TRUE, assurance |-> MultiFactor]
  <2>1. challenge[c] \in ChallengeRow /\ challenge[c] # None
    BY <1>18 DEF TypeOK, LoginComplete
  <2>2. row \in ChallengeRow /\ challenge' = [challenge EXCEPT ![c] = row]
    BY <1>18, <2>1 DEF ChallengeRow, LoginComplete, TypeOK
  <2>3. new \in SessionRow
    BY <2>1 DEF ChallengeRow, SessionRow
  <2>4. session' = [session EXCEPT ![s] = new]
    BY <1>18 DEF LoginComplete
  <2> HIDE DEF row, new
  <2>5. Answer(c, p) /\ Granted(c, s, p)
    BY <1>18 DEF LoginComplete
  <2>6. challenge' \in [Challenges -> ChallengeRow \cup {None}]
        /\ session' \in [Sessions -> SessionRow \cup {None}]
    BY <2>2, <2>3, <2>4 DEF TypeOK
  <2>7. QED
    BY <2>1, <2>5, <2>6, GrantedTyped
<1>19. ASSUME NEW c \in Challenges, NEW s \in Sessions, NEW p \in Proofs(c), StepUpComplete(c, s, p)
       PROVE  TypeOK'
  <2> DEFINE row == [challenge[c] EXCEPT !.consumed = TRUE]
             raised == [session[s] EXCEPT !.assurance = MultiFactor]
  <2>1. challenge[c] \in ChallengeRow /\ challenge[c] # None /\ session[s] \in SessionRow
    BY <1>19 DEF TypeOK, StepUpComplete, Live
  <2>2. row \in ChallengeRow /\ challenge' = [challenge EXCEPT ![c] = row]
    BY <1>19, <2>1 DEF ChallengeRow, StepUpComplete, TypeOK
  <2>3. raised \in SessionRow /\ session' = [session EXCEPT ![s] = raised]
    BY <1>19, <2>1 DEF SessionRow, StepUpComplete, TypeOK
  <2> HIDE DEF row, raised
  <2>4. Answer(c, p) /\ Granted(c, s, p)
    BY <1>19 DEF StepUpComplete
  <2>5. challenge' \in [Challenges -> ChallengeRow \cup {None}]
        /\ session' \in [Sessions -> SessionRow \cup {None}]
    BY <2>2, <2>3 DEF TypeOK
  <2>6. QED
    BY <2>1, <2>4, <2>5, GrantedTyped
<1>20. CASE UNCHANGED vars
  BY <1>20 DEF TypeOK, vars, tables, history
<1>21. ASSUME NEW c \in Challenges, NEW u \in Users, NEW m \in Methods, NEW f \in Factors,
              LoginStart(c, u, m, f)
       PROVE  TypeOK'
  BY <1>16, <1>21 DEF LoginStart
<1> HIDE DEF TypeOK
<1>22. QED
  BY <1>1, <1>2, <1>3, <1>4, <1>5, <1>6, <1>7, <1>8, <1>9, <1>10, <1>11, <1>12, <1>13,
     <1>14, <1>15, <1>17, <1>18, <1>19, <1>20, <1>21 DEF Next

-----------------------------------------------------------------------------
(* What no step undoes.                                                    *)

EnrollmentKept == \A e \in Enrollments : enrollment[e] # None =>
    enrollment'[e] # None /\ enrollment'[e].lastUsed >= enrollment[e].lastUsed

RecoveryKept == \A k \in RecoveryCodes : recovery[k] # None =>
    /\ recovery'[k] # None
    /\ recovery[k].status = "spent" => recovery'[k].status = "spent"

\* A login challenge gets its session with its answer.
SameChallenge(old, new) ==
    /\ new # None
    /\ new.user = old.user /\ new.primary = old.primary /\ new.purpose = old.purpose
    /\ old.consumed => new.consumed
    /\ old.consumed \/ old.purpose = "step_up" => new.session = old.session
ChallengeKept == \A c \in Challenges : challenge[c] # None =>
    SameChallenge(challenge[c], challenge'[c])

SessionKept == \A s \in Sessions : session[s] # None =>
    /\ session'[s] # None
    /\ session'[s].user = session[s].user /\ session'[s].method = session[s].method

\* A row is a row.
LEMMA RowIsSome ==
    /\ \A r \in ChallengeRow : r # None
    /\ \A r \in EnrollmentRow : r # None
    /\ \A r \in RecoveryRow : r # None
    /\ \A r \in SessionRow : r # None
BY NoneAssumption

LEMMA EnrollmentStep == TypeOK /\ [Next]_vars => EnrollmentKept
<1> SUFFICES ASSUME TypeOK, [Next]_vars PROVE EnrollmentKept
  OBVIOUS
<1>0. \A e \in Enrollments : enrollment[e] # None =>
         enrollment[e] \in EnrollmentRow /\ enrollment[e].lastUsed \in Int
  BY DEF TypeOK, EnrollmentRow
<1>1. CASE UNCHANGED enrollment
  BY <1>0, <1>1 DEF EnrollmentKept
<1>2. ASSUME NEW e \in Enrollments, NEW t \in Steps, TotpMatches(e, t), enrollment[e] # None,
             enrollment' = [enrollment EXCEPT ![e].lastUsed = t]
             \/ enrollment' = [enrollment EXCEPT ![e].status = "active", ![e].lastUsed = t]
      PROVE  EnrollmentKept
  <2>1. enrollment[e] \in EnrollmentRow /\ enrollment[e].lastUsed \in Int
    BY <1>0, <1>2
  <2>2. t > enrollment[e].lastUsed /\ t \in Int
    BY <1>2 DEF TotpMatches
  <2>3. \A d \in Enrollments \ {e} : enrollment'[d] = enrollment[d]
    BY <1>2 DEF TypeOK
  <2>4. enrollment'[e].lastUsed = t
    BY <1>2, <2>1 DEF TypeOK, EnrollmentRow
  <2>5. enrollment'[e] \in EnrollmentRow
    BY <1>2, <2>1, <2>2 DEF TypeOK, EnrollmentRow
  <2>6. QED
    BY <1>0, <2>1, <2>2, <2>3, <2>4, <2>5, RowIsSome DEF EnrollmentKept
<1>3. ASSUME \A e \in Enrollments : enrollment[e] # None =>
                enrollment'[e] \in EnrollmentRow /\ enrollment'[e].lastUsed = enrollment[e].lastUsed
      PROVE  EnrollmentKept
  BY <1>0, <1>3, RowIsSome DEF EnrollmentKept
<1>4. ASSUME NEW e \in Enrollments, NEW u \in Users, TotpEnrollmentStart(e, u)
      PROVE  EnrollmentKept
  BY <1>0, <1>3, <1>4 DEF TotpEnrollmentStart, EnrollmentRow
<1>5. ASSUME NEW e \in Enrollments, NEW s \in Sessions, TotpEnrollmentRemove(e, s)
      PROVE  EnrollmentKept
  BY <1>0, <1>3, <1>5 DEF TotpEnrollmentRemove, EnrollmentRow, TypeOK
<1>6. ASSUME NEW u \in Users, TotpAdministratorRemove(u)
      PROVE  EnrollmentKept
  BY <1>0, <1>3, <1>6 DEF TotpAdministratorRemove, EnrollmentRow
<1>7. ASSUME NEW c \in Challenges, NEW p, Answer(c, p)
      PROVE  EnrollmentKept
  <2>1. ASSUME NEW e \in Enrollments, NEW t \in Steps, AnswerTotp(c, e, t)
        PROVE  EnrollmentKept
    BY <1>2, <2>1 DEF AnswerTotp, Active, TotpUsed
  <2>2. QED
    BY <1>1, <1>7, <2>1 DEF Answer, AnswerMail, AnswerRecovery, Steps
<1>8. ASSUME NEW e \in Enrollments, NEW t \in Steps, TotpVerify(e, t) \/ TotpEnrollmentConfirm(e, t)
      PROVE  EnrollmentKept
  BY <1>2, <1>8 DEF TotpVerify, TotpUsed, TotpEnrollmentConfirm, Confirmable
<1> HIDE DEF EnrollmentKept
<1>9. CASE Next
  BY <1>1, <1>4, <1>5, <1>6, <1>7, <1>8, <1>9
     DEF Next, tables, Tick, PrimaryComplete, EndSession, LoginStart, StepUpStart, OpenChallenge,
         FactorSelect, EmailOtpStart, LoginComplete, StepUpComplete, ChallengeFail, TotpVerifyFail,
         RecoveryCodesGenerate, RecoveryCodesAdministratorInvalidate, RecoveryCodeVerify
<1>10. QED
  BY <1>1, <1>9 DEF vars, tables

LEMMA RecoveryStep == TypeOK /\ [Next]_vars => RecoveryKept
<1> SUFFICES ASSUME TypeOK, [Next]_vars PROVE RecoveryKept
  OBVIOUS
<1>0. \A k \in RecoveryCodes : recovery[k] # None => recovery[k] \in RecoveryRow
  BY DEF TypeOK
<1>1. CASE UNCHANGED recovery
  BY <1>0, <1>1 DEF RecoveryKept
<1>2. ASSUME NEW k \in RecoveryCodes, recovery[k] # None, RecoveryUsed(k)
      PROVE  RecoveryKept
  BY <1>0, <1>2, RowIsSome DEF RecoveryKept, RecoveryUsed, RecoveryRow, TypeOK
<1>3. ASSUME NEW u \in Users, NEW set \in SUBSET RecoveryCodes,
             RecoveryCodesGenerate(u, set) \/ RecoveryCodesAdministratorInvalidate(u)
      PROVE  RecoveryKept
  <2>1. \A k \in RecoveryCodes : recovery[k] # None =>
           \/ recovery'[k] = recovery[k]
           \/ recovery'[k] = [recovery[k] EXCEPT !.status = "spent"]
    BY <1>3 DEF RecoveryCodesGenerate, RecoveryCodesAdministratorInvalidate, Deleted
  <2>2. \A k \in RecoveryCodes : recovery[k] # None =>
           /\ [recovery[k] EXCEPT !.status = "spent"] \in RecoveryRow
           /\ [recovery[k] EXCEPT !.status = "spent"].status = "spent"
    BY <1>0 DEF RecoveryRow
  <2>3. QED
    <3>1. ASSUME NEW k \in RecoveryCodes, recovery[k] # None
          PROVE  /\ recovery'[k] # None
                 /\ recovery[k].status = "spent" => recovery'[k].status = "spent"
      BY <1>0, <2>1, <2>2, <3>1, RowIsSome
    <3>2. QED
      BY <3>1 DEF RecoveryKept
<1>4. ASSUME NEW c \in Challenges, NEW p, Answer(c, p)
      PROVE  RecoveryKept
  BY <1>1, <1>2, <1>4 DEF Answer, AnswerTotp, AnswerMail, AnswerRecovery
<1>5. ASSUME NEW k \in RecoveryCodes, RecoveryCodeVerify(k)
      PROVE  RecoveryKept
  BY <1>2, <1>5 DEF RecoveryCodeVerify
<1> HIDE DEF RecoveryKept
<1>6. CASE Next
  BY <1>1, <1>3, <1>4, <1>5, <1>6
     DEF Next, tables, Tick, PrimaryComplete, EndSession, LoginStart, StepUpStart, OpenChallenge,
         FactorSelect, EmailOtpStart, LoginComplete, StepUpComplete, ChallengeFail, TotpVerifyFail,
         TotpEnrollmentStart, TotpEnrollmentConfirm, TotpVerify, TotpEnrollmentRemove,
         TotpAdministratorRemove
<1>7. QED
  BY <1>1, <1>6 DEF vars, tables

LEMMA SessionStep == TypeOK /\ [Next]_vars => SessionKept
<1> SUFFICES ASSUME TypeOK, [Next]_vars PROVE SessionKept
  OBVIOUS
<1>0. \A s \in Sessions : session[s] # None => session[s] \in SessionRow
  BY DEF TypeOK
<1>1. CASE UNCHANGED session
  BY <1>0, <1>1 DEF SessionKept
<1>2. ASSUME NEW s \in Sessions, session[s] = None,
             \A r \in Sessions \ {s} : session'[r] = session[r]
      PROVE  SessionKept
  BY <1>0, <1>2 DEF SessionKept
<1>3. ASSUME NEW s \in Sessions, session[s] # None,
             session' = [session EXCEPT ![s].live = FALSE]
             \/ session' = [session EXCEPT ![s].assurance = MultiFactor]
      PROVE  SessionKept
  <2>1. session[s] \in SessionRow
    BY <1>0, <1>3
  <2>2. \A r \in Sessions \ {s} : session'[r] = session[r]
    BY <1>3 DEF TypeOK
  <2>3. \/ session'[s] = [session[s] EXCEPT !.live = FALSE]
        \/ session'[s] = [session[s] EXCEPT !.assurance = MultiFactor]
    BY <1>3 DEF TypeOK
  <2>4. session'[s] \in SessionRow /\ session'[s].user = session[s].user
        /\ session'[s].method = session[s].method
    BY <2>1, <2>3 DEF SessionRow
  <2>5. QED
    BY <1>0, <2>2, <2>4, RowIsSome DEF SessionKept
<1>4. ASSUME NEW s \in Sessions, NEW u, NEW m, PrimaryComplete(s, u, m)
      PROVE  SessionKept
  BY <1>2, <1>4 DEF PrimaryComplete, TypeOK
<1>5. ASSUME NEW c \in Challenges, NEW s \in Sessions, NEW p, LoginComplete(c, s, p)
      PROVE  SessionKept
  BY <1>2, <1>5 DEF LoginComplete, TypeOK
<1>6. ASSUME NEW c \in Challenges, NEW s \in Sessions, NEW p, StepUpComplete(c, s, p)
      PROVE  SessionKept
  BY <1>3, <1>6 DEF StepUpComplete, Live
<1>8. ASSUME NEW s \in Sessions, EndSession(s)
      PROVE  SessionKept
  BY <1>3, <1>8 DEF EndSession, Live
<1> HIDE DEF SessionKept
<1>7. CASE Next
  BY <1>1, <1>4, <1>5, <1>6, <1>7, <1>8
     DEF Next, tables, Tick, LoginStart, StepUpStart, OpenChallenge, FactorSelect, EmailOtpStart,
         ChallengeFail, TotpVerifyFail, TotpEnrollmentStart, TotpEnrollmentConfirm, TotpVerify,
         TotpEnrollmentRemove, TotpAdministratorRemove, RecoveryCodesGenerate,
         RecoveryCodesAdministratorInvalidate, RecoveryCodeVerify
<1>9. QED
  BY <1>1, <1>7 DEF vars, tables

LEMMA ChallengeStep == TypeOK /\ [Next]_vars => ChallengeKept
<1> SUFFICES ASSUME TypeOK, [Next]_vars PROVE ChallengeKept
  OBVIOUS
<1>0. \A c \in Challenges : challenge[c] # None => challenge[c] \in ChallengeRow
  BY DEF TypeOK
<1>1. CASE UNCHANGED challenge
  BY <1>0, <1>1 DEF ChallengeKept, SameChallenge
<1>2. ASSUME NEW c \in Challenges,
             challenge[c] = None \/ SameChallenge(challenge[c], challenge'[c]),
             \A d \in Challenges \ {c} : challenge'[d] = challenge[d]
      PROVE  ChallengeKept
  BY <1>0, <1>2 DEF ChallengeKept, SameChallenge
<1>3. ASSUME NEW c, NEW u, NEW o, NEW m, NEW s, NEW f, c \in Challenges, OpenChallenge(c, u, o, m, s, f)
      PROVE  ChallengeKept
  BY <1>2, <1>3 DEF OpenChallenge, TypeOK
<1>4. ASSUME NEW c \in Challenges, NEW f \in Factors, FactorSelect(c, f)
      PROVE  ChallengeKept
  <2>1. challenge[c] \in ChallengeRow
    BY <1>0, <1>4 DEF FactorSelect, ContextHolds, Open
  <2>2. SameChallenge(challenge[c], challenge'[c])
    <3>1. challenge'[c] = [challenge[c] EXCEPT !.factor = f, !.code = FALSE]
      BY <1>4 DEF FactorSelect, TypeOK
    <3>2. challenge'[c] \in ChallengeRow
      BY <2>1, <3>1 DEF ChallengeRow
    <3>3. QED
      BY <2>1, <3>1, <3>2, RowIsSome DEF ChallengeRow, SameChallenge
  <2>3. QED
    BY <1>2, <1>4, <2>2 DEF FactorSelect, TypeOK
<1>5. ASSUME NEW c \in Challenges, EmailOtpStart(c)
      PROVE  ChallengeKept
  <2>1. challenge[c] \in ChallengeRow
    BY <1>0, <1>5 DEF EmailOtpStart, ContextHolds, Open
  <2>2. SameChallenge(challenge[c], challenge'[c])
    <3>1. challenge'[c] = [challenge[c] EXCEPT !.code = TRUE,
                             !.expiresAt = Smaller(challenge[c].expiresAt, now + MailTtl)]
      BY <1>5 DEF EmailOtpStart, TypeOK
    <3>2. challenge[c].expiresAt \in Nat /\ now \in Nat /\ MailTtl \in Nat
      BY <2>1, SecondFactorAssumption DEF ChallengeRow, TypeOK
    <3>3. Smaller(challenge[c].expiresAt, now + MailTtl) \in Nat
      BY <3>2 DEF Smaller
    <3>4. challenge'[c] \in ChallengeRow
      BY <2>1, <3>1, <3>3 DEF ChallengeRow
    <3>5. QED
      BY <2>1, <3>1, <3>4, RowIsSome DEF ChallengeRow, SameChallenge
  <2>3. QED
    BY <1>2, <1>5, <2>2 DEF EmailOtpStart, TypeOK
<1>6. ASSUME NEW c \in Challenges, NEW s \in Sessions, NEW p, LoginComplete(c, s, p)
      PROVE  ChallengeKept
  <2>1. challenge[c] \in ChallengeRow /\ ~challenge[c].consumed /\ challenge[c].purpose = "login"
    BY <1>0, <1>6 DEF LoginComplete, Answer, AnswerTotp, AnswerMail, AnswerRecovery, MayAnswer,
                      ContextHolds, Open
  <2>2. SameChallenge(challenge[c], challenge'[c])
    <3>1. challenge'[c] = [challenge[c] EXCEPT !.consumed = TRUE, !.session = s]
      BY <1>6 DEF LoginComplete, TypeOK
    <3>2. challenge'[c] \in ChallengeRow
      BY <2>1, <3>1 DEF ChallengeRow
    <3>3. QED
      BY <2>1, <3>1, <3>2, RowIsSome DEF ChallengeRow, SameChallenge
  <2>3. QED
    BY <1>2, <1>6, <2>2 DEF LoginComplete, TypeOK
<1>7. ASSUME NEW c \in Challenges, NEW s \in Sessions, NEW p, StepUpComplete(c, s, p)
      PROVE  ChallengeKept
  <2>1. challenge[c] \in ChallengeRow
    BY <1>0, <1>7 DEF StepUpComplete
  <2>2. SameChallenge(challenge[c], challenge'[c])
    BY <1>7, <2>1, RowIsSome DEF StepUpComplete, TypeOK, ChallengeRow, SameChallenge
  <2>3. QED
    BY <1>2, <1>7, <2>2 DEF StepUpComplete, TypeOK
<1>8. ASSUME NEW u \in Users, TotpAdministratorRemove(u)
      PROVE  ChallengeKept
  <2>1. ASSUME NEW c \in Challenges, challenge[c] # None
        PROVE  SameChallenge(challenge[c], challenge'[c])
    <3>1. challenge[c] \in ChallengeRow
      BY <1>0, <2>1
    <3>2. \/ challenge'[c] = challenge[c]
          \/ challenge'[c] = [challenge[c] EXCEPT !.consumed = TRUE]
      BY <1>8 DEF TotpAdministratorRemove
    <3>3. challenge'[c] \in ChallengeRow
      BY <3>1, <3>2 DEF ChallengeRow
    <3>4. QED
      BY <3>1, <3>2, <3>3, RowIsSome DEF ChallengeRow, SameChallenge
  <2>2. QED
    BY <2>1 DEF ChallengeKept
<1> HIDE DEF ChallengeKept
<1>9. CASE Next
  BY <1>1, <1>3, <1>4, <1>5, <1>6, <1>7, <1>8, <1>9
     DEF Next, tables, Tick, PrimaryComplete, EndSession, LoginStart, StepUpStart,
         ChallengeFail, TotpVerifyFail, TotpEnrollmentStart, TotpEnrollmentConfirm, TotpVerify,
         TotpEnrollmentRemove, RecoveryCodesGenerate, RecoveryCodesAdministratorInvalidate,
         RecoveryCodeVerify
<1>10. QED
  BY <1>1, <1>9 DEF vars, tables

-----------------------------------------------------------------------------
(* The invariant.                                                          *)

\* An accepted proof can be accepted nowhere any more.
Spent(p) ==
    \/ /\ p.kind = "totp" /\ p.of \in Enrollments
       /\ enrollment[p.of] # None /\ p.at <= enrollment[p.of].lastUsed
    \/ /\ p.kind = "recovery_code" /\ p.of \in RecoveryCodes
       /\ recovery[p.of] # None /\ recovery[p.of].status = "spent"
    \/ /\ p.kind = "email_otp" /\ p.of \in Challenges
       /\ challenge[p.of] # None /\ challenge[p.of].consumed

GrantSound(g) ==
    /\ challenge[g.challenge] # None
    /\ challenge[g.challenge].consumed
    /\ challenge[g.challenge].session = g.session
    /\ g.challenge \notin withdrawn

\* A step-up challenge belongs to the session that asked for it.
StepUpSound(c) == challenge[c] # None /\ challenge[c].purpose = "step_up" =>
    /\ challenge[c].session \in Sessions
    /\ session[challenge[c].session] # None
    /\ session[challenge[c].session].user = challenge[c].user
    /\ session[challenge[c].session].method = challenge[c].primary

IInv ==
    /\ TypeOK
    /\ NoProofTwice
    /\ \A p \in used : Spent(p)
    /\ \A c \in withdrawn : challenge[c] # None /\ challenge[c].consumed
    /\ \A g \in grants : GrantSound(g)
    /\ ChallengeGrantsOnce
    /\ \A c \in Challenges : StepUpSound(c)
    /\ MultiFactorIsGranted

Kept == EnrollmentKept /\ RecoveryKept /\ ChallengeKept /\ SessionKept

LEMMA KeptStep == TypeOK /\ [Next]_vars => Kept
BY EnrollmentStep, RecoveryStep, ChallengeStep, SessionStep DEF Kept

\* What is spent stays spent.
LEMMA StaysSpent ==
    ASSUME TypeOK, TypeOK', Kept, NEW p \in Proof, Spent(p)
    PROVE  Spent(p)'
<1>1. CASE p.kind = "totp" /\ p.of \in Enrollments
           /\ enrollment[p.of] # None /\ p.at <= enrollment[p.of].lastUsed
  <2>1. enrollment'[p.of] # None /\ enrollment'[p.of].lastUsed >= enrollment[p.of].lastUsed
    BY <1>1 DEF Kept, EnrollmentKept
  <2>2. /\ enrollment[p.of] \in EnrollmentRow /\ enrollment'[p.of] \in EnrollmentRow
        /\ p.at \in Int
    BY <1>1, <2>1 DEF TypeOK, Proof
  <2>3. p.at <= enrollment'[p.of].lastUsed
    BY <1>1, <2>1, <2>2 DEF EnrollmentRow
  <2>4. QED
    BY <1>1, <2>1, <2>3 DEF Spent
<1>2. CASE p.kind = "recovery_code" /\ p.of \in RecoveryCodes
           /\ recovery[p.of] # None /\ recovery[p.of].status = "spent"
  BY <1>2 DEF Kept, RecoveryKept, Spent
<1>3. CASE p.kind = "email_otp" /\ p.of \in Challenges
           /\ challenge[p.of] # None /\ challenge[p.of].consumed
  BY <1>3 DEF Kept, ChallengeKept, SameChallenge, Spent
<1>4. QED
  BY <1>1, <1>2, <1>3 DEF Spent

\* A proof that was not spent and is now has been accepted for the first time.
LEMMA AcceptedOnce ==
    ASSUME IInv, TypeOK', Kept, NEW p \in Proof, Accepted(p), ~Spent(p), Spent(p)'
    PROVE  NoProofTwice' /\ \A q \in used' : Spent(q)'
<1>1. used' = used \cup {p} /\ p \notin used /\ reused' = reused
  BY DEF IInv, Accepted
<1>2. \A q \in used : Spent(q)'
  BY StaysSpent DEF IInv, TypeOK
<1>3. QED
  BY <1>1, <1>2 DEF IInv, NoProofTwice

LEMMA NothingAccepted ==
    ASSUME IInv, TypeOK', Kept, UNCHANGED <<used, reused>>
    PROVE  NoProofTwice' /\ \A q \in used' : Spent(q)'
BY StaysSpent DEF IInv, TypeOK, NoProofTwice

\* Grants and withdrawals survive every step that adds none.
LEMMA HistoryKept ==
    ASSUME IInv, Kept
    PROVE  /\ \A c \in withdrawn : challenge'[c] # None /\ challenge'[c].consumed
           /\ \A g \in grants : /\ challenge'[g.challenge] # None
                                /\ challenge'[g.challenge].consumed
                                /\ challenge'[g.challenge].session = g.session
<1>1. withdrawn \subseteq Challenges /\ \A g \in grants : g.challenge \in Challenges
  BY DEF IInv, TypeOK, Grant
<1>2. QED
  BY <1>1 DEF IInv, GrantSound, Kept, ChallengeKept, SameChallenge

LEMMA NothingGranted ==
    ASSUME IInv, Kept, UNCHANGED <<grants, withdrawn>>
    PROVE  /\ \A c \in withdrawn' : challenge'[c] # None /\ challenge'[c].consumed
           /\ \A g \in grants' : GrantSound(g)'
           /\ ChallengeGrantsOnce'
BY HistoryKept DEF IInv, GrantSound, ChallengeGrantsOnce

\* A step-up challenge that is there already, stays sound.
LEMMA StepUpKept ==
    ASSUME IInv, Kept, NEW c \in Challenges, challenge[c] # None
    PROVE  StepUpSound(c)'
BY DEF IInv, StepUpSound, Kept, ChallengeKept, SameChallenge, SessionKept

\* A session that was granted multi_factor, still is.
LEMMA StillGranted ==
    ASSUME IInv, Kept, grants \subseteq grants', NEW s \in Sessions,
           session[s] # None, session[s].assurance = MultiFactor
    PROVE  \E g \in grants' :
            /\ g.session = s
            /\ challenge'[g.challenge].consumed
            /\ challenge'[g.challenge].session = s
            /\ challenge'[g.challenge].user = session'[s].user
            /\ challenge'[g.challenge].primary = session'[s].method
<1>1. PICK g \in grants :
        /\ g.session = s
        /\ challenge[g.challenge].consumed
        /\ challenge[g.challenge].session = s
        /\ challenge[g.challenge].user = session[s].user
        /\ challenge[g.challenge].primary = session[s].method
  BY DEF IInv, MultiFactorIsGranted
<1>2. g.challenge \in Challenges /\ challenge[g.challenge] # None
  BY DEF IInv, TypeOK, Grant, GrantSound
<1>3. QED
  BY <1>1, <1>2 DEF Kept, ChallengeKept, SameChallenge, SessionKept

\* No session's assurance is raised by the step.
Unraised == \A s \in Sessions : session'[s] # None /\ session'[s].assurance = MultiFactor =>
    session[s] # None /\ session[s].assurance = MultiFactor

LEMMA UnraisedGranted ==
    ASSUME IInv, Kept, Unraised, grants \subseteq grants'
    PROVE  MultiFactorIsGranted'
BY StillGranted DEF Unraised, MultiFactorIsGranted

LEMMA InitIInv == Init => IInv
BY InitTypeOK
   DEF Init, IInv, NoProofTwice, ChallengeGrantsOnce, StepUpSound, MultiFactorIsGranted

\* A step that accepts, grants and withdraws nothing.
LEMMA QuietStep ==
    ASSUME IInv, [Next]_vars, UNCHANGED <<used, reused, grants, withdrawn>>,
           Unraised, \A c \in Challenges : challenge[c] = None => StepUpSound(c)'
    PROVE  IInv'
<1>1. TypeOK' /\ Kept
  BY TypeOKStep, KeptStep DEF IInv
<1>2. NoProofTwice' /\ \A p \in used' : Spent(p)'
  BY <1>1, NothingAccepted
<1>3. /\ \A c \in withdrawn' : challenge'[c] # None /\ challenge'[c].consumed
      /\ \A g \in grants' : GrantSound(g)'
      /\ ChallengeGrantsOnce'
  BY <1>1, NothingGranted
<1>4. \A c \in Challenges : StepUpSound(c)'
  BY <1>1, StepUpKept
<1>5. MultiFactorIsGranted'
  BY <1>1, UnraisedGranted
<1>6. QED
  BY <1>1, <1>2, <1>3, <1>4, <1>5 DEF IInv

LEMMA SameSessions ==
    ASSUME UNCHANGED session
    PROVE  Unraised
BY DEF Unraised

\* A step that leaves the challenges and sessions alone.
LEMMA ElsewhereStep ==
    ASSUME IInv, [Next]_vars, UNCHANGED <<used, reused, grants, withdrawn>>,
           UNCHANGED <<challenge, session>>
    PROVE  IInv'
BY QuietStep, SameSessions DEF StepUpSound

\* A step that accepts a proof and grants nothing.
LEMMA AcceptStep ==
    ASSUME IInv, [Next]_vars, NEW p \in Proof, Accepted(p), ~Spent(p), Spent(p)',
           UNCHANGED <<grants, withdrawn, challenge, session>>
    PROVE  IInv'
<1>1. TypeOK' /\ Kept
  BY TypeOKStep, KeptStep DEF IInv
<1>2. NoProofTwice' /\ \A q \in used' : Spent(q)'
  BY <1>1, AcceptedOnce
<1>3. /\ \A c \in withdrawn' : challenge'[c] # None /\ challenge'[c].consumed
      /\ \A g \in grants' : GrantSound(g)'
      /\ ChallengeGrantsOnce'
  BY <1>1, NothingGranted
<1>4. \A c \in Challenges : StepUpSound(c)'
  BY <1>1, StepUpKept DEF StepUpSound
<1>5. MultiFactorIsGranted'
  BY <1>1, UnraisedGranted, SameSessions
<1>6. QED
  BY <1>1, <1>2, <1>3, <1>4, <1>5 DEF IInv

\* A TOTP code is spent by being recorded as the last one used.
LEMMA TotpIsSpent ==
    ASSUME TypeOK, NEW e \in Enrollments, NEW t \in Steps, enrollment[e] # None,
           TotpMatches(e, t),
           \/ enrollment' = [enrollment EXCEPT ![e].lastUsed = t]
           \/ enrollment' = [enrollment EXCEPT ![e].status = "active", ![e].lastUsed = t]
    PROVE  TotpProof(e, t) \in Proof /\ ~Spent(TotpProof(e, t)) /\ Spent(TotpProof(e, t))'
<1>1. now \in Nat /\ TotpWindow \in Nat
  BY SecondFactorAssumption DEF TypeOK
<1>2. t \in Int
  BY <1>1 DEF Steps
<1>3. enrollment[e] \in EnrollmentRow /\ enrollment[e].lastUsed \in Int
  BY DEF TypeOK, EnrollmentRow
<1>4. t > enrollment[e].lastUsed
  BY DEF TotpMatches
<1>5. enrollment'[e] \in EnrollmentRow /\ enrollment'[e].lastUsed = t
  <2>1. CASE enrollment' = [enrollment EXCEPT ![e].lastUsed = t]
    <3>1. enrollment'[e] = [enrollment[e] EXCEPT !.lastUsed = t]
      BY <2>1 DEF TypeOK
    <3>2. QED
      BY <1>2, <1>3, <3>1 DEF EnrollmentRow
  <2>2. CASE enrollment' = [enrollment EXCEPT ![e].status = "active", ![e].lastUsed = t]
    <3>1. enrollment'[e] = [enrollment[e] EXCEPT !.status = "active", !.lastUsed = t]
      BY <2>2 DEF TypeOK
    <3>2. QED
      BY <1>2, <1>3, <3>1 DEF EnrollmentRow
  <2>3. QED
    BY <2>1, <2>2
<1>6. QED
  BY <1>2, <1>3, <1>4, <1>5, RowIsSome DEF TotpProof, Proof, Spent

LEMMA RecoveryIsSpent ==
    ASSUME TypeOK, NEW k \in RecoveryCodes, recovery[k] # None,
           recovery[k].status = "open", RecoveryUsed(k)
    PROVE  /\ RecoveryProof(k) \in Proof
           /\ ~Spent(RecoveryProof(k)) /\ Spent(RecoveryProof(k))'
<1>1. recovery[k] \in RecoveryRow
  BY DEF TypeOK
<1>2. recovery'[k] = [recovery[k] EXCEPT !.status = "spent"]
  BY DEF RecoveryUsed, TypeOK
<1>3. recovery'[k] \in RecoveryRow /\ recovery'[k].status = "spent"
  BY <1>1, <1>2 DEF RecoveryRow
<1>4. QED
  BY <1>3, RowIsSome DEF RecoveryProof, Proof, Spent

\* The answer to an open challenge is a proof nobody has used, and spends it.
LEMMA AnswerIsSpent ==
    ASSUME TypeOK, NEW c \in Challenges, NEW p, Answer(c, p),
           challenge'[c] # None, challenge'[c].consumed
    PROVE  p \in Proof /\ ~Spent(p) /\ Spent(p)'
<1>1. ASSUME NEW e \in Enrollments, NEW t \in Steps, p = TotpProof(e, t), AnswerTotp(c, e, t)
      PROVE  p \in Proof /\ ~Spent(p) /\ Spent(p)'
  BY <1>1, TotpIsSpent DEF AnswerTotp, Active, TotpUsed
<1>2. ASSUME p = MailProof(c), AnswerMail(c)
      PROVE  p \in Proof /\ ~Spent(p) /\ Spent(p)'
  <2>1. challenge[c] # None /\ ~challenge[c].consumed
    BY <1>2 DEF AnswerMail, MayAnswer, ContextHolds, Open
  <2>2. QED
    BY <1>2, <2>1 DEF MailProof, Proof, Spent
<1>3. ASSUME NEW k \in RecoveryCodes, p = RecoveryProof(k), AnswerRecovery(c, k)
      PROVE  p \in Proof /\ ~Spent(p) /\ Spent(p)'
  BY <1>3, RecoveryIsSpent DEF AnswerRecovery
<1>4. QED
  BY <1>1, <1>2, <1>3 DEF Answer, Steps

LEMMA AnswersOpen ==
    ASSUME NEW c, NEW p, Answer(c, p)
    PROVE  challenge[c] # None /\ ~challenge[c].consumed /\ ~Locked(challenge[c].user)
BY DEF Answer, AnswerTotp, AnswerMail, AnswerRecovery, MayAnswer, ContextHolds, Open

\* A step that answers a challenge for a session.
LEMMA GrantStep ==
    ASSUME IInv, [Next]_vars, NEW c \in Challenges, NEW s \in Sessions, NEW p,
           Answer(c, p), Granted(c, s, p),
           challenge'[c] # None, challenge'[c].consumed, challenge'[c].session = s,
           \A d \in Challenges \ {c} : challenge'[d] = challenge[d],
           \A r \in Sessions \ {s} : session'[r] = session[r],
           session'[s].user = challenge[c].user, session'[s].method = challenge[c].primary
    PROVE  IInv'
<1> DEFINE new == [challenge |-> c, session |-> s, proof |-> p]
<1>1. TypeOK /\ TypeOK' /\ Kept
  BY TypeOKStep, KeptStep DEF IInv
<1>2. challenge[c] # None /\ ~challenge[c].consumed
  BY AnswersOpen
<1>3. NoProofTwice' /\ \A q \in used' : Spent(q)'
  BY <1>1, AnswerIsSpent, AcceptedOnce DEF Granted
<1>4. grants' = grants \cup {new} /\ withdrawn' = withdrawn
  BY DEF Granted
<1>5. c \notin withdrawn /\ \A g \in grants : g.challenge # c
  BY <1>2 DEF IInv, GrantSound
<1>6. \A d \in withdrawn' : challenge'[d] # None /\ challenge'[d].consumed
  BY <1>1, <1>4, HistoryKept
<1>7. \A g \in grants' : GrantSound(g)'
  <2>1. GrantSound(new)'
    BY <1>4, <1>5 DEF GrantSound
  <2>2. \A g \in grants : GrantSound(g)'
    BY <1>1, <1>4, HistoryKept DEF IInv, GrantSound
  <2> HIDE DEF new
  <2>3. QED
    BY <1>4, <2>1, <2>2
<1>8. ChallengeGrantsOnce'
  BY <1>4, <1>5 DEF IInv, ChallengeGrantsOnce
<1>9. \A d \in Challenges : StepUpSound(d)'
  BY <1>1, <1>2, StepUpKept DEF StepUpSound
<1>10. MultiFactorIsGranted'
  <2>1. \A r \in Sessions \ {s} : session'[r] # None /\ session'[r].assurance = MultiFactor =>
            \E g \in grants' :
              /\ g.session = r
              /\ challenge'[g.challenge].consumed
              /\ challenge'[g.challenge].session = r
              /\ challenge'[g.challenge].user = session'[r].user
              /\ challenge'[g.challenge].primary = session'[r].method
    BY <1>1, <1>4, StillGranted
  <2>2. /\ new \in grants' /\ new.session = s /\ new.challenge = c
        /\ challenge'[c].user = challenge[c].user /\ challenge'[c].primary = challenge[c].primary
    BY <1>1, <1>2, <1>4 DEF Kept, ChallengeKept, SameChallenge
  <2> HIDE DEF new
  <2>3. QED
    BY <2>1, <2>2 DEF MultiFactorIsGranted
<1>11. QED
  BY <1>1, <1>3, <1>6, <1>7, <1>8, <1>9, <1>10 DEF IInv

LEMMA IInvStep == IInv /\ [Next]_vars => IInv'
<1> SUFFICES ASSUME IInv, [Next]_vars PROVE IInv'
  OBVIOUS
<1>0. TypeOK /\ TypeOK'
  BY TypeOKStep DEF IInv
<1>1. CASE Tick \/ UNCHANGED vars
  BY <1>1, ElsewhereStep DEF Tick, vars, tables, history
<1>2. ASSUME NEW s \in Sessions, NEW u \in Users, NEW m \in Methods, PrimaryComplete(s, u, m)
      PROVE  IInv'
  <2> DEFINE new == [user |-> u, method |-> m, live |-> TRUE, assurance |-> Authenticated]
  <2>1. session'[s] = new /\ \A r \in Sessions \ {s} : session'[r] = session[r]
    BY <1>2, <1>0 DEF PrimaryComplete, TypeOK
  <2>2. new.assurance # MultiFactor
    BY DEF Authenticated, MultiFactor
  <2>3. Unraised
    BY <2>1, <2>2 DEF Unraised
  <2>4. \A c \in Challenges : challenge[c] = None => StepUpSound(c)'
    BY <1>2 DEF PrimaryComplete, StepUpSound
  <2>5. QED
    BY <1>2, <2>3, <2>4, QuietStep DEF PrimaryComplete, history
<1>3. ASSUME NEW s \in Sessions, EndSession(s)
      PROVE  IInv'
  <2>1. session[s] # None /\ session[s] \in SessionRow
    BY <1>0, <1>3 DEF EndSession, Live, TypeOK
  <2>2. session'[s] = [session[s] EXCEPT !.live = FALSE]
        /\ \A r \in Sessions \ {s} : session'[r] = session[r]
    BY <1>0, <1>3 DEF EndSession, TypeOK
  <2>3. session'[s].assurance = session[s].assurance
    BY <2>1, <2>2 DEF SessionRow
  <2>4. Unraised
    BY <2>1, <2>2, <2>3 DEF Unraised
  <2>5. \A c \in Challenges : challenge[c] = None => StepUpSound(c)'
    BY <1>3 DEF EndSession, StepUpSound
  <2>6. QED
    BY <1>3, <2>4, <2>5, QuietStep DEF EndSession, history
<1>4. ASSUME NEW c \in Challenges, NEW u, NEW o, NEW m, NEW s, NEW f,
             OpenChallenge(c, u, o, m, s, f),
             o = "step_up" => /\ s \in Sessions /\ session[s] # None
                              /\ session[s].user = u /\ session[s].method = m
      PROVE  IInv'
  <2> DEFINE row == [user |-> u, purpose |-> o, primary |-> m,
                     offered |-> Available(u, m), factor |-> f, session |-> s,
                     code |-> FALSE, expiresAt |-> ChallengeEnd, consumed |-> FALSE]
  <2>1. challenge'[c] = row /\ \A d \in Challenges \ {c} : challenge'[d] = challenge[d]
    BY <1>0, <1>4 DEF OpenChallenge, TypeOK
  <2>2. StepUpSound(c)'
    BY <1>4, <2>1 DEF OpenChallenge, StepUpSound
  <2>3. \A d \in Challenges : challenge[d] = None => StepUpSound(d)'
    BY <2>1, <2>2 DEF StepUpSound
  <2>4. QED
    BY <1>4, <2>3, QuietStep, SameSessions DEF OpenChallenge, history
<1>5. ASSUME NEW c \in Challenges, NEW u \in Users, NEW m \in Methods, NEW f \in Factors,
             LoginStart(c, u, m, f)
      PROVE  IInv'
  BY <1>4, <1>5 DEF LoginStart
<1>6. ASSUME NEW c \in Challenges, NEW s \in Sessions, NEW f \in Factors, StepUpStart(c, s, f)
      PROVE  IInv'
  BY <1>4, <1>6 DEF StepUpStart, Live
<1>7. ASSUME NEW c \in Challenges, challenge[c] # None, UNCHANGED <<session, history>>,
             \A d \in Challenges \ {c} : challenge'[d] = challenge[d]
      PROVE  IInv'
  <2>1. \A d \in Challenges : challenge[d] = None => StepUpSound(d)'
    BY <1>7 DEF StepUpSound
  <2>2. QED
    BY <1>7, <2>1, QuietStep, SameSessions DEF history
<1>8. ASSUME NEW c \in Challenges, NEW f \in Factors, FactorSelect(c, f)
      PROVE  IInv'
  BY <1>0, <1>7, <1>8 DEF FactorSelect, ContextHolds, Open, TypeOK
<1>9. ASSUME NEW c \in Challenges, EmailOtpStart(c)
      PROVE  IInv'
  BY <1>0, <1>7, <1>9 DEF EmailOtpStart, ContextHolds, Open, TypeOK
<1>10. ASSUME NEW c \in Challenges, NEW s \in Sessions, NEW p \in Proofs(c), LoginComplete(c, s, p)
       PROVE  IInv'
  <2>1. Answer(c, p) /\ Granted(c, s, p) /\ challenge[c] # None /\ challenge[c] \in ChallengeRow
    BY <1>0, <1>10 DEF LoginComplete, TypeOK
  <2>2. challenge'[c] = [challenge[c] EXCEPT !.consumed = TRUE, !.session = s]
        /\ \A d \in Challenges \ {c} : challenge'[d] = challenge[d]
    BY <1>0, <1>10 DEF LoginComplete, TypeOK
  <2>3. challenge'[c] \in ChallengeRow /\ challenge'[c].consumed /\ challenge'[c].session = s
    BY <2>1, <2>2 DEF ChallengeRow
  <2>4. session'[s].user = challenge[c].user /\ session'[s].method = challenge[c].primary
        /\ \A r \in Sessions \ {s} : session'[r] = session[r]
    BY <1>0, <1>10 DEF LoginComplete, TypeOK
  <2>5. QED
    BY <2>1, <2>2, <2>3, <2>4, GrantStep, RowIsSome
<1>11. ASSUME NEW c \in Challenges, NEW s \in Sessions, NEW p \in Proofs(c), StepUpComplete(c, s, p)
       PROVE  IInv'
  <2>1. /\ Answer(c, p) /\ Granted(c, s, p) /\ challenge[c] # None /\ challenge[c] \in ChallengeRow
        /\ challenge[c].session = s /\ challenge[c].purpose = "step_up"
        /\ session[s] \in SessionRow
    BY <1>0, <1>11 DEF StepUpComplete, TypeOK, Live
  <2>2. challenge'[c] = [challenge[c] EXCEPT !.consumed = TRUE]
        /\ \A d \in Challenges \ {c} : challenge'[d] = challenge[d]
    BY <1>0, <1>11 DEF StepUpComplete, TypeOK
  <2>3. challenge'[c] \in ChallengeRow /\ challenge'[c].consumed /\ challenge'[c].session = s
    BY <2>1, <2>2 DEF ChallengeRow
  <2>4. session'[s] = [session[s] EXCEPT !.assurance = MultiFactor]
        /\ \A r \in Sessions \ {s} : session'[r] = session[r]
    BY <1>0, <1>11 DEF StepUpComplete, TypeOK
  <2>5. session'[s].user = session[s].user /\ session'[s].method = session[s].method
    BY <2>1, <2>4 DEF SessionRow
  <2>6. session[s].user = challenge[c].user /\ session[s].method = challenge[c].primary
    BY <2>1 DEF IInv, StepUpSound
  <2>7. QED
    BY <2>1, <2>2, <2>3, <2>4, <2>5, <2>6, GrantStep, RowIsSome, ZenonT(60)
<1>12. ASSUME NEW e \in Enrollments, NEW t \in Steps, TotpVerify(e, t) \/ TotpEnrollmentConfirm(e, t)
       PROVE  IInv'
  <2>1. Accepted(TotpProof(e, t)) /\ UNCHANGED <<grants, withdrawn, challenge, session>>
    BY <1>12 DEF TotpVerify, TotpEnrollmentConfirm
  <2>2. enrollment[e] # None /\ TotpMatches(e, t)
        /\ \/ enrollment' = [enrollment EXCEPT ![e].lastUsed = t]
           \/ enrollment' = [enrollment EXCEPT ![e].status = "active", ![e].lastUsed = t]
    BY <1>12 DEF TotpVerify, TotpUsed, TotpEnrollmentConfirm, Confirmable
  <2>3. QED
    BY <1>0, <2>1, <2>2, TotpIsSpent, AcceptStep
<1>13. ASSUME NEW k \in RecoveryCodes, RecoveryCodeVerify(k)
       PROVE  IInv'
  BY <1>0, <1>13, RecoveryIsSpent, AcceptStep DEF RecoveryCodeVerify
<1>14. ASSUME NEW u \in Users, TotpAdministratorRemove(u)
       PROVE  IInv'
  <2>1. Kept
    BY <1>0, KeptStep
  <2>2. /\ withdrawn' = withdrawn \cup TotpChallenges(u)
        /\ UNCHANGED <<used, reused, grants, session>>
    BY <1>14 DEF TotpAdministratorRemove
  <2>3. ASSUME NEW c \in TotpChallenges(u)
        PROVE  challenge[c] # None /\ ~challenge[c].consumed
               /\ challenge'[c] # None /\ challenge'[c].consumed
    <3>1. c \in Challenges /\ challenge[c] # None /\ ~challenge[c].consumed
          /\ challenge[c] \in ChallengeRow
      BY <1>0 DEF TotpChallenges, TypeOK
    <3>2. challenge'[c] = [challenge[c] EXCEPT !.consumed = TRUE]
      BY <1>14, <3>1 DEF TotpAdministratorRemove
    <3>3. challenge'[c] \in ChallengeRow /\ challenge'[c].consumed
      BY <3>1, <3>2 DEF ChallengeRow
    <3>4. QED
      BY <3>1, <3>3, RowIsSome
  <2>4. NoProofTwice' /\ \A p \in used' : Spent(p)'
    BY <1>0, <2>1, <2>2, NothingAccepted
  <2>5. \A c \in withdrawn' : challenge'[c] # None /\ challenge'[c].consumed
    BY <2>1, <2>2, <2>3, HistoryKept
  <2>6. \A g \in grants' : GrantSound(g)'
    BY <2>1, <2>2, <2>3, HistoryKept DEF IInv, GrantSound
  <2>7. ChallengeGrantsOnce'
    BY <2>2 DEF IInv, ChallengeGrantsOnce
  <2>8. \A c \in Challenges : StepUpSound(c)'
    <3>1. \A c \in Challenges : challenge[c] = None => challenge'[c] = None
      BY <1>14 DEF TotpAdministratorRemove, TotpChallenges
    <3>2. QED
      BY <2>1, <3>1, StepUpKept DEF StepUpSound
  <2>9. MultiFactorIsGranted'
    BY <2>1, <2>2, UnraisedGranted, SameSessions
  <2>10. QED
    BY <1>0, <2>4, <2>5, <2>6, <2>7, <2>8, <2>9 DEF IInv
<1>15. CASE UNCHANGED <<used, reused, grants, withdrawn, challenge, session>>
  BY <1>15, ElsewhereStep
<1> HIDE DEF IInv
<1>16. CASE Next
  BY <1>1, <1>2, <1>3, <1>5, <1>6, <1>8, <1>9, <1>10, <1>11, <1>12, <1>13, <1>14, <1>15, <1>16
     DEF Next, tables, history, ChallengeFail, TotpVerifyFail, TotpEnrollmentStart,
         TotpEnrollmentRemove, RecoveryCodesGenerate, RecoveryCodesAdministratorInvalidate
<1>17. QED
  BY <1>1, <1>16

LEMMA IInvInductive == Spec => []IInv
BY InitIInv, IInvStep, PTL DEF Spec

-----------------------------------------------------------------------------

\* The rows of every table stay within its schema.
THEOREM TypeCorrect == Spec => []TypeOK
<1>1. IInv => TypeOK
  BY DEF IInv
<1>2. QED
  BY <1>1, IInvInductive, PTL

\* No second factor is accepted twice on any route (mfaTotpCodeVerify and
\* lastUsedStep, consumedAt of recovery codes and challenges).
THEOREM OncePerProof == Spec => []NoProofTwice
<1>1. IInv => NoProofTwice
  BY DEF IInv
<1>2. QED
  BY <1>1, IInvInductive, PTL

\* A challenge makes or raises one session, once (mfaChallengeComplete).
THEOREM OneGrant == Spec => []ChallengeGrantsOnce
<1>1. IInv => ChallengeGrantsOnce
  BY DEF IInv
<1>2. QED
  BY <1>1, IInvInductive, PTL

\* Behind every multi_factor session stands a consumed challenge of its own user
\* (mfaLoginAssuranceClaim, mfaStepUpSessionRotate).
THEOREM AssuranceIsGranted == Spec => []MultiFactorIsGranted
<1>1. IInv => MultiFactorIsGranted
  BY DEF IInv
<1>2. QED
  BY <1>1, IInvInductive, PTL

\* An administrator's removal of a user's authenticators closes the challenges
\* that wait for their codes for good (mfaTotpAdministratorRemove).
THEOREM Withdrawn == Spec => []WithdrawnChallengeGrantsNothing
<1>1. IInv => WithdrawnChallengeGrantsNothing
  BY DEF IInv, GrantSound, WithdrawnChallengeGrantsNothing
<1>2. QED
  BY <1>1, IInvInductive, PTL

LEMMA LockoutStep ==
    ASSUME TypeOK, [Next]_vars, NEW u \in Users, Locked(u)
    PROVE  lockout'[u] = lockout[u]
<1>1. CASE UNCHANGED lockout
  BY <1>1
<1>2. ASSUME NEW v \in Users, ~Locked(v), \A w \in Users \ {v} : lockout'[w] = lockout[w]
      PROVE  lockout'[u] = lockout[u]
  BY <1>2
<1>3. ASSUME NEW c \in Challenges, NEW s, NEW p, Answer(c, p), Granted(c, s, p)
      PROVE  lockout'[u] = lockout[u]
  <2>1. challenge[c] # None /\ challenge[c] \in ChallengeRow /\ ~Locked(challenge[c].user)
    BY <1>3, AnswersOpen DEF TypeOK
  <2>2. challenge[c].user \in Users
    BY <2>1 DEF ChallengeRow
  <2>3. QED
    BY <1>2, <1>3, <2>1, <2>2 DEF Granted, ResetLockout, TypeOK
<1>4. ASSUME NEW e \in Enrollments, NEW t, TotpVerify(e, t) \/ TotpEnrollmentConfirm(e, t)
      PROVE  lockout'[u] = lockout[u]
  <2>1. /\ enrollment[e] \in EnrollmentRow /\ ~Locked(enrollment[e].user)
        /\ ResetLockout(enrollment[e].user)
    BY <1>4 DEF TotpVerify, TotpEnrollmentConfirm, Confirmable, TypeOK
  <2>2. enrollment[e].user \in Users
    BY <2>1 DEF EnrollmentRow
  <2>3. QED
    BY <1>2, <2>1, <2>2 DEF ResetLockout, TypeOK
<1>5. ASSUME NEW v \in Users, TotpVerifyFail(v)
      PROVE  lockout'[u] = lockout[u]
  BY <1>2, <1>5 DEF TotpVerifyFail, TypeOK
<1>6. CASE Next
  BY <1>1, <1>3, <1>4, <1>5, <1>6
     DEF Next, tables, Tick, PrimaryComplete, EndSession, LoginStart, StepUpStart, OpenChallenge,
         FactorSelect, EmailOtpStart, LoginComplete, StepUpComplete, ChallengeFail,
         TotpEnrollmentStart, TotpEnrollmentRemove, TotpAdministratorRemove,
         RecoveryCodesGenerate, RecoveryCodesAdministratorInvalidate, RecoveryCodeVerify
<1>7. QED
  BY <1>1, <1>6 DEF vars, tables

\* A lockout in force is neither lifted nor prolonged: every route that writes
\* the row asks for it first.
THEOREM LockoutLasts == Spec => LockoutRunsItsTime
<1>1. IInv /\ [Next]_vars =>
        [\A u \in Users : Locked(u) => lockout'[u] = lockout[u]]_vars
  BY LockoutStep DEF IInv
<1>2. QED
  BY <1>1, IInvInductive, PTL DEF Spec, LockoutRunsItsTime
=============================================================================
