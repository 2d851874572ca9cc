---------------------------- MODULE MCSigningKeys ----------------------------
(* A day is three units of time and the clock skew one. *)
EXTENDS SigningKeys, TLC

MCLifetimes == {1, 4}
Symmetry == Permutations(Keys)

=============================================================================
