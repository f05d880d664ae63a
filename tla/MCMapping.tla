------------------------------ MODULE MCMapping ------------------------------
(* Instances of Mapping for TLC: one mapping; the same port added again    *)
(* after a removal.                                                        *)
EXTENDS Mapping, TLC
CONSTANTS m1, m2, p1, p2, c1

OnePort  == m1 :> p1
SamePort == m1 :> p1 @@ m2 :> p1
=============================================================================
