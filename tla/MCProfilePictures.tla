-------------------------- MODULE MCProfilePictures --------------------------
(* Instances of ProfilePictures for TLC.                                    *)
EXTENDS ProfilePictures, TLC

CONSTANTS u1, u2, k1, k2, k3, timer, request

KeySymmetry == Permutations(Keys)
=============================================================================
