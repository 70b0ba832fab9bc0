-------------------------- MODULE MCTransportPool --------------------------
(* TLC instances of TransportPool.                                         *)
EXTENDS TransportPool

CONSTANTS w1, w2, w3, k1, k2

OneHost == [w \in Wants |-> k1]
TwoHosts == [w \in Wants |-> IF w = w3 THEN k2 ELSE k1]

HostSymmetry == Permutations({w1, w2})
=============================================================================
