------------------------------ MODULE MCScreens ------------------------------
(* The instances of Screens for TLC. *)
EXTENDS Screens, TLC

CONSTANTS a, b, p, q, g, d, e, k1, k2

Symm == Permutations(Accounts) \union Permutations(Peers) \union Permutations(Devices)
            \union Permutations(Slots)
=============================================================================
