---------------------------- MODULE MCOidcTokens ----------------------------
(* Small instances of OidcTokens for TLC.                                  *)
EXTENDS OidcTokens, TLC

CONSTANTS u1, s1, c1, k1, k2, r1, r2, r3, a1, a2, a3, x1

OneOwner == s1 :> u1

Long == [access |-> 1, id |-> 1, absolute |-> 2, idle |-> None, grants |-> Grants]
Short == [access |-> 1, id |-> 1, absolute |-> 1, idle |-> 1, grants |-> Grants]

LongOnly == {Long}
LongAndShort == {Long, Short}

TokenSymmetry ==
    Permutations(RefreshTokens) \cup Permutations(AccessTokens)

TokenAndCodeSymmetry == TokenSymmetry \cup Permutations(Codes)

=============================================================================
