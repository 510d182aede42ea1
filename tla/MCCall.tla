------------------------------- MODULE MCCall -------------------------------
(* The instances of Call for TLC. *)
EXTENDS Call, TLC

CONSTANTS a, b, c1, c2

Symm == Permutations(Users) \union Permutations(CallIds)

\* Nothing reads the call log: states that differ in it alone are explored once.
WithoutLog == <<[u \in Users |-> [m[u] EXCEPT !.log = <<>>]], net, fresh>>

\* bound: signals under way
FewSignals == Cardinality(net) <= 2
=============================================================================
