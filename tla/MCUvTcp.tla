------------------------------ MODULE MCUvTcp -------------------------------
(* An instance of UvTcp for TLC: the client may fill a buffer, the server  *)
(* sends less.                                                             *)
EXTENDS UvTcp
CONSTANTS FromClient, FromServer

Bytes == [h \in Handles |-> IF h = "client" THEN FromClient ELSE FromServer]
=============================================================================
