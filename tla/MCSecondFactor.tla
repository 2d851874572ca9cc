--------------------------- MODULE MCSecondFactor ---------------------------
(***************************************************************************)
(* The instances of SecondFactor that TLC checks.                          *)
(*                                                                         *)
(* Two challenges, two authenticators and two sessions at once are too     *)
(* many: in each initial state two of these three tables hold old rows of  *)
(* the user's (an expired challenge, removed authenticators, a session     *)
(* that has ended), so that fewer of their ids are left.                   *)
(***************************************************************************)
EXTENDS SecondFactor, TLC

ExpiredChallenge(u) ==
    [user |-> u, purpose |-> "login", primary |-> "password",
     offered |-> {"email_otp"}, factor |-> "email_otp", session |-> None,
     code |-> FALSE, expiresAt |-> 0, consumed |-> FALSE]
RemovedEnrollment(u) ==
    [user |-> u, status |-> "removed", createdAt |-> 0, lastUsed |-> -1]
EndedSession(u) ==
    [user |-> u, method |-> "password", live |-> FALSE, assurance |-> Authenticated]

\* The tables in which one id is taken.
One(ids, row) == {[i \in ids |-> IF i = j THEN row ELSE None] : j \in ids}
All(ids, row) == {[i \in ids |-> row]}
Empty(ids) == {[i \in ids |-> None]}

MCInit ==
    /\ now = 0
    /\ \E u \in Users :
        LET oldChallenge == One(Challenges, ExpiredChallenge(u))
            oldEnrollment == One(Enrollments, RemovedEnrollment(u))
            oldSession == One(Sessions, EndedSession(u))
        IN \/ /\ challenge \in Empty(Challenges)
              /\ enrollment \in oldEnrollment /\ session \in oldSession
           \/ /\ enrollment \in Empty(Enrollments)
              /\ challenge \in oldChallenge /\ session \in oldSession
           \/ /\ session \in Empty(Sessions)
              /\ challenge \in oldChallenge
              /\ enrollment \in All(Enrollments, RemovedEnrollment(u))
    /\ recovery = [k \in RecoveryCodes |-> None]
    /\ lockout = [u \in Users |-> NoFailures]
    /\ used = {} /\ reused = {} /\ grants = {} /\ withdrawn = {}
    /\ wrong = [c \in Challenges |-> 0]

MCSpec == MCInit /\ [][Next]_vars

\* Only ChallengeFail reads or writes `wrong`.
AllButWrong == <<now, tables, used, reused, grants, withdrawn>>

Symmetry ==
    Permutations(Challenges) \cup Permutations(Enrollments)
    \cup Permutations(RecoveryCodes) \cup Permutations(Sessions)
=============================================================================
