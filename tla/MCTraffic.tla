------------------------------ MODULE MCTraffic ------------------------------
(* An instance of Traffic for TLC: a mapping, TCP or UDP, with two         *)
(* connections.                                                            *)
EXTENDS Traffic, TLC
CONSTANTS c1, c2

TrafficSymmetry == Permutations({c1, c2})
=============================================================================
