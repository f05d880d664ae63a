---------------------------- MODULE MCTcpConnect ----------------------------
(* Instances of TcpConnect for TLC: one mapping, the connections it gets,  *)
(* and the addresses they come from.                                       *)
EXTENDS TcpConnect, TLC
CONSTANTS m1, p1, c1, c2, k1, k2

OneMapping  == m1 :> p1
TcpSymmetry == Permutations(Conns)
=============================================================================
