----------------------------- MODULE MCSessions -----------------------------
(* Instances of Sessions.                                                   *)
EXTENDS Sessions, TLC

CONSTANTS u1, u2, admin, s1, s2, s3

PolicyOf(requiredMfa, lifetime, check) ==
    [requiredMfa |-> requiredMfa, lifetime |-> lifetime, check |-> check]
TwoPolicies == {PolicyOf(FALSE, 2, None), PolicyOf(TRUE, 2, 0)}

\* Sessions are told apart by their rows only, users by nothing that is constant.
Symmetry == Permutations(Sessions) \cup Permutations(Users)
=============================================================================
