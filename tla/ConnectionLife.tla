--------------------------- MODULE ConnectionLife ---------------------------
(***************************************************************************)
(* The life of one forwarded TCP connection, a ConnectInfo with its two    *)
(* sockets: what the program may rely on, whatever happens to the mapping, *)
(* the records and the window above it, and to libuv's requests and flags  *)
(* below it.                                                               *)
(*                                                                         *)
(* UvTcp shows that libuv and the callbacks of the adapter keep to it,     *)
(* TcpConnect that nothing else happens to a connection there.             *)
(***************************************************************************)
VARIABLES
    life,        \* the ConnectInfo: "unused", "live", "freed"
    client,      \* the sockets: "none", "open", "closing", "closed"
    server,
    cdata,       \* whether their data pointers are set
    sdata,
    connecting,  \* uv_tcp_connect has not called back
    reading      \* both sockets may call tcp_read_cb

lifeVars == <<life, client, server, cdata, sdata, connecting, reading>>

LifeInit ==
    /\ life = "unused" /\ client = "none" /\ server = "none"
    /\ ~cdata /\ ~sdata /\ ~connecting /\ ~reading

Accepted ==
    /\ life = "unused" /\ life' = "live"
    /\ client' = "open" /\ server' = "open" /\ connecting'
    /\ UNCHANGED <<cdata, sdata, reading>>

ClosedOnce(socket) == IF socket = "open" THEN "closing" ELSE socket

BothClosed ==
    /\ client' = ClosedOnce(client) /\ server' = ClosedOnce(server)
    /\ cdata' /\ sdata' /\ ~reading'
    /\ UNCHANGED <<life, connecting>>

ConnectFailed == connecting /\ BothClosed
ReadEnded == reading /\ BothClosed
Removed == life = "live" /\ BothClosed

StartedReading ==
    /\ connecting /\ ~connecting'
    /\ cdata' /\ sdata'
    /\ reading' <=> client = "open" /\ server = "open"
    /\ UNCHANGED <<life, client, server>>

ClientClosed ==
    /\ client = "closing" /\ client' = "closed" /\ ~cdata'
    /\ UNCHANGED <<life, server, sdata, connecting, reading>>

ServerClosed ==
    /\ server = "closing" /\ ~connecting
    /\ server' = "closed" /\ ~sdata'
    /\ UNCHANGED <<life, client, cdata, connecting, reading>>

Emptied ==
    /\ life' = "freed" /\ client' = "none" /\ server' = "none"
    /\ ~cdata' /\ ~sdata' /\ ~connecting' /\ ~reading'

(* The ConnectInfo is deleted by the second close callback, or some time   *)
(* after it.                                                               *)
Deleted ==
    /\ life = "live" /\ ~connecting
    /\ {client, server} \subseteq {"closing", "closed"} /\ "closed" \in {client, server}
    /\ client = "closing" => ~sdata
    /\ server = "closing" => ~cdata
    /\ client = "closed" /\ server = "closed" => ~cdata /\ ~sdata
    /\ Emptied

LifeNext ==
    \/ Accepted \/ ConnectFailed \/ StartedReading \/ ReadEnded \/ Removed
    \/ ClientClosed \/ ServerClosed \/ Deleted

LifeSpec == LifeInit /\ [][LifeNext]_lifeVars
=============================================================================
