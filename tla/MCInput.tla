------------------------------ MODULE MCInput -------------------------------
(* Instance of Input for TLC: two ports, two addresses of this machine.    *)
EXTENDS Input

CONSTANTS p1, p2, a1, a2
=============================================================================
