------------------------------ MODULE MCSignIn ------------------------------
(* Instances of SignIn: users, their addresses and the password policies.   *)
EXTENDS SignIn, TLC

CONSTANTS u1, u2, e1, e2, p1, p2, c1, c2, c3

ChannelsHere == [a \in Addresses |-> IF a \in {e1, e2} THEN "email" ELSE "whatsapp"]
ByEmail == [u \in Users |-> "email"]
ByWhatsapp == [u \in Users |-> "whatsapp"]

\* Challenge ids are only compared for equality, as createdAt tells them apart.
ChallengeSymmetry == Permutations(Challenges)
=============================================================================
