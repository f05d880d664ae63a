---------------------------- MODULE MCUdpConnect ----------------------------
(* Instances of UdpConnect for TLC.                                        *)
EXTENDS UdpConnect, TLC

CONSTANTS m1, m2, p1, c1, c2, k1, k2

(* Two mappings, one after the other on the same port.                     *)
OnePort  == m1 :> p1
SamePort == m1 :> p1 @@ m2 :> p1
=============================================================================
