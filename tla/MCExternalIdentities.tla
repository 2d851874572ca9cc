------------------------ MODULE MCExternalIdentities ------------------------
(* An instance of ExternalIdentities for TLC.                              *)
EXTENDS ExternalIdentities, TLC

CONSTANTS u1, u2, a1, a2, p1, s1, k1, t1, t2, q1, q2

OneProvider == [s \in Subjects |-> p1]

\* Bounds of the run that looks at transactions: its properties are not about
\* passwords, and a policy that allows less removes steps only.
NoPasswords == password = {}
SignUpAllowed == autoLinking /\ \A p \in Providers : provider[p].creation

\* Transactions are started at time 0 only.
StartedAtOnce ==
    /\ \A t \in Rows : row[t] # None => row[t].expiresAt = Lifetime
    /\ \A q \in Requests : Is(q, "start") => request[q].at = 0

\* Users, rows, addresses and the like are told apart by their contents only.
Symmetry == Permutations(Users) \cup Permutations(Rows) \cup Permutations(Requests)
                \cup Permutations(Passkeys) \cup Permutations(Subjects) \cup Permutations(Addresses)
=============================================================================
