------------------------------ MODULE MCWindow ------------------------------
(* An instance of Window for TLC: two mappings, the connections of both in *)
(* the order of their keys, and the items they may get.                    *)
EXTENDS Window, TLC
CONSTANTS c1, c2

InOrder == c1 :> 1 @@ c2 :> 2
WindowSymmetry == Permutations(Items) \cup Permutations(Mappings)
=============================================================================
