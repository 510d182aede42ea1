---------------------------- MODULE MCDiscovery ----------------------------
(* Model-checking instances of Discovery. *)
EXTENDS Discovery, TLC

UserAndSaltSymmetry == Permutations(Users) \cup Permutations(Salts)
=============================================================================
