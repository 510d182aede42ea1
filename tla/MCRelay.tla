------------------------------ MODULE MCRelay ------------------------------
(* Relay on small instances, with the symmetry of the connection objects.  *)
EXTENDS Relay, TLC

CONSTANTS a, b

OneWay == {<<a, b>>}

ConnSymmetry == Permutations(Conns)
=============================================================================
