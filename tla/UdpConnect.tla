----------------------------- MODULE UdpConnect -----------------------------
(***************************************************************************)
(* The life of a forwarded UDP "connection" (ConnectInfo), on top of the   *)
(* life of its mapping (Mapping).                                          *)
(*                                                                         *)
(* A datagram from a client that has no record makes one (GetUDPConnect):  *)
(* a ConnectInfo with a socket of its own to talk to the server.  What     *)
(* that socket receives is to be passed to the client.  The socket is      *)
(* closed when it breaks or when the mapping stops, and its close callback *)
(* deletes the ConnectInfo.                                                *)
(*                                                                         *)
(* Only connections with IN_MAP_SUCC are shown in the window, and a UDP    *)
(* connection has bInMap = true, which is IN_MAP_WAIT: the user never sees *)
(* one, and cannot ask for its removal.  A datagram from a client that has *)
(* a record changes counters only, so it is not an action.                 *)
(***************************************************************************)
EXTENDS Mapping, Integers, FiniteSets

CONSTANTS Clients   \* addresses of clients, the Connectkeys of m_mapConnect

ASSUME UdpAssumption ==
    /\ None \notin Conns /\ None \notin Clients
    /\ IsFiniteSet(Conns)

VARIABLES
    conn,      \* the ConnectInfo blocks
    entries,   \* ports that have an entry in m_mapConnect
    records,   \* m_mapConnect: the connection recorded for a port and a client
    nConnect,  \* the field of each MappingInfo
    reply,     \* what became of the last datagram of a server
    cat,       \* where the loop thread is in a callback of a connection
    ccur,      \* the connection that callback works on
    cfault     \* how the program left defined behaviour in a connection

connVars == <<conn, entries, records, nConnect, reply, cat, ccur, cfault>>
udpVars == <<mappingVars, connVars>>

NOT_IN_MAP  == 0
IN_MAP_WAIT == 1

(* family is the sin_family of Addr_Client; receiving tells whether        *)
(* uv_udp_recv_start succeeded and has not been stopped.                   *)
Infos == [life : {"unused", "live", "freed"}, pMapping : Mappings \cup {None},
          key : Clients \cup {None}, bInMap : {NOT_IN_MAP, IN_MAP_WAIT},
          family : {"AF_UNSPEC", "AF_INET"}, server : {"none", "open", "closing"},
          receiving : BOOLEAN]

Unused == [life |-> "unused", pMapping |-> None, key |-> None, bInMap |-> NOT_IN_MAP,
           family |-> "AF_UNSPEC", server |-> "none", receiving |-> FALSE]

Freed == [Unused EXCEPT !.life = "freed"]

UdpInit ==
    /\ Init
    /\ conn = [c \in Conns |-> Unused]
    /\ entries = {}
    /\ records = [p \in Ports |-> [k \in Clients |-> None]]
    /\ nConnect = [m \in Mappings |-> 0]
    /\ reply = "none"
    /\ cat = "idle" /\ ccur = None
    /\ cfault = "none"

-----------------------------------------------------------------------------
PortOfConn(c) == PortOf[conn[c].pMapping]
Recorded(p) == {records[p][k] : k \in Clients} \ {None}
MappingLive(c) == /\ conn[c].pMapping # None
                  /\ alloc[conn[c].pMapping] = "live"

ConnIdle == cat = "idle"
LoopIdle == Idle /\ ConnIdle

ConnGoto(label, c) == cat' = label /\ ccur' = c

(* uv_udp_recv_stop and uv_close.  Without asserts a second uv_close       *)
(* returns.                                                                *)
SocketClosed(info) == [info EXCEPT !.server = "closing", !.receiving = FALSE]

(* uv_udp_send refuses a destination whose family is not set.              *)
UdpSend(info) == IF info.family = "AF_INET" THEN "sent" ELSE "refused"

-----------------------------------------------------------------------------
(* udp_listen_recv_cb, nread = 0 without an address: nothing was there to  *)
(* read.  GetUDPConnect dereferences the address.                          *)
NothingReceived(m) ==
    /\ LoopIdle
    /\ listen[m] = "listening" /\ m \notin TcpMappings
    /\ cfault' = "null address"
    /\ UNCHANGED <<mappingVars, conn, entries, records, nConnect, reply, cat, ccur>>

(* udp_listen_recv_cb with a datagram of a new client, up to the message   *)
(* of GetUDPConnect.  uv_udp_recv_start may fail; that is not looked at.   *)
NewClient(m, c, k) ==
    /\ LoopIdle
    /\ listen[m] = "listening" /\ m \notin TcpMappings
    /\ conn[c].life = "unused"
    /\ records[PortOf[m]][k] = None

Created(m, k, receiving) ==
    [Unused EXCEPT !.life = "live", !.pMapping = m, !.key = k, !.bInMap = IN_MAP_WAIT,
                   !.server = "open", !.receiving = receiving]

GetUDPConnect(m, c, k) ==
    /\ NewClient(m, c, k)
    /\ \E receiving \in BOOLEAN :
           conn' = [conn EXCEPT ![c] = Created(m, k, receiving)]
    /\ entries' = entries \cup {PortOf[m]}
    /\ records' = [records EXCEPT ![PortOf[m]][k] = c]
    /\ ConnGoto("ADD", c)
    /\ UNCHANGED <<mappingVars, nConnect, reply, cfault>>

(* udp_server_recv_cb: a datagram of the server, which is counted in the   *)
(* MappingInfo; or an error.                                               *)
ServerReceives(c) == LoopIdle /\ conn[c].receiving

ServerAnswers(c) ==
    /\ ServerReceives(c)
    /\ reply' = UdpSend(conn[c])
    /\ cfault' = IF MappingLive(c) THEN cfault ELSE "freed mapping"
    /\ UNCHANGED <<mappingVars, conn, entries, records, nConnect, cat, ccur>>

ServerBreaks(c) ==
    /\ ServerReceives(c)
    /\ conn' = [conn EXCEPT ![c] = SocketClosed(conn[c])]
    /\ UNCHANGED <<mappingVars, entries, records, nConnect, reply, cat, ccur, cfault>>

-----------------------------------------------------------------------------
(* udp_connect_close_cb: a connection that is in the records is taken out  *)
(* of them first, by RemoveConnect, which looks it up by port and client.  *)
CloseCb(c) == LoopIdle /\ conn[c].server = "closing"

FoundRecord(c) ==
    IF conn[c].bInMap = NOT_IN_MAP \/ ~MappingLive(c) THEN None
    ELSE records[PortOfConn(c)][conn[c].key]

(* Mutant: a connection taken out of the records before is not deleted.    *)
CloseUnrecordedKept(c) ==
    /\ CloseCb(c) /\ FoundRecord(c) = None
    /\ conn[c].bInMap # NOT_IN_MAP
    /\ conn' = [conn EXCEPT ![c] = Freed]
    /\ cfault' = IF MappingLive(c) THEN cfault ELSE "freed mapping"
    /\ UNCHANGED <<mappingVars, entries, records, nConnect, reply, cat, ccur>>

CloseUnrecorded(c) ==
    /\ CloseCb(c) /\ FoundRecord(c) = None
    /\ conn' = [conn EXCEPT ![c] = Freed]
    /\ cfault' = IF conn[c].bInMap = NOT_IN_MAP \/ MappingLive(c)
                 THEN cfault ELSE "freed mapping"
    /\ UNCHANGED <<mappingVars, entries, records, nConnect, reply, cat, ccur>>

CloseRecorded(c) ==
    /\ CloseCb(c) /\ FoundRecord(c) # None
    /\ ConnGoto("DELETE", c)
    /\ UNCHANGED <<mappingVars, conn, entries, records, nConnect, reply, cfault>>

(* Mutant: only the ConnectInfo is deleted.                                *)
EraseRecordKept ==
    /\ cat = "erase"
    /\ conn' = [conn EXCEPT ![ccur] = Freed]
    /\ ConnGoto("idle", None)
    /\ UNCHANGED <<mappingVars, entries, records, nConnect, reply, cfault>>

EraseRecord ==
    /\ cat = "erase"
    /\ LET p == PortOfConn(ccur)
           k == conn[ccur].key IN
       /\ nConnect' = [nConnect EXCEPT ![conn[records[p][k]].pMapping] = @ - 1]
       /\ records' = [records EXCEPT ![p][k] = None]
    /\ conn' = [conn EXCEPT ![ccur] = Freed]
    /\ ConnGoto("idle", None)
    /\ UNCHANGED <<mappingVars, entries, reply, cfault>>

(* The window handles a message about a connection; the loop thread goes   *)
(* on, after MSG_ADD_CONNECT with the sending of the datagram.             *)
(* Mutant: the loop thread is set free without its callback ending.        *)
HandleConnectMsgStay ==
    /\ UIIdle
    /\ \/ cat = "ADD" /\ ConnGoto("idle", ccur)
       \/ cat = "DELETE" /\ ConnGoto("erase", ccur)
    /\ UNCHANGED <<mappingVars, conn, entries, records, nConnect, reply, cfault>>

HandleConnectMsg ==
    /\ UIIdle
    /\ \/ cat = "ADD" /\ ConnGoto("idle", None)
       \/ cat = "DELETE" /\ ConnGoto("erase", ccur)
    /\ UNCHANGED <<mappingVars, conn, entries, records, nConnect, reply, cfault>>

-----------------------------------------------------------------------------
(* What the stopping of a mapping does to its connections.                 *)

RemoveAllOfPort ==
    /\ RemoveAllConnect
    /\ at' = "CLEAR" <=> PortOf[cur] \in entries
    /\ UNCHANGED connVars

(* Mutants: the sockets stay open; the records are kept.                   *)
CloseAllOfPortNot ==
    /\ ClearRecords
    /\ records' = [records EXCEPT ![PortOf[cur]] = [k \in Clients |-> None]]
    /\ nConnect' = [nConnect EXCEPT ![cur] = 0]
    /\ UNCHANGED <<conn, entries, reply, cat, ccur, cfault>>

CloseAllOfPortKept ==
    /\ ClearRecords
    /\ conn' = [c \in Conns |-> IF c \in Recorded(PortOf[cur])
                                THEN SocketClosed(conn[c]) ELSE conn[c]]
    /\ nConnect' = [nConnect EXCEPT ![cur] = 0]
    /\ UNCHANGED <<entries, records, reply, cat, ccur, cfault>>

CloseAllOfPort ==
    /\ ClearRecords
    /\ LET all == Recorded(PortOf[cur]) IN
       /\ conn' = [c \in Conns |->
                     IF c \in all THEN [SocketClosed(conn[c]) EXCEPT !.bInMap = NOT_IN_MAP]
                                  ELSE conn[c]]
       /\ cfault' = IF Debug /\ \E c \in all : conn[c].server = "closing"
                    THEN "closed twice" ELSE cfault
    /\ records' = [records EXCEPT ![PortOf[cur]] = [k \in Clients |-> None]]
    /\ nConnect' = [nConnect EXCEPT ![cur] = 0]
    /\ UNCHANGED <<entries, reply, cat, ccur>>

(* _GetAllConnect sends nothing when the port has no records.              *)
SendAllConnect(m) ==
    /\ AnsycGetAllConnect(m) /\ ConnIdle
    /\ at' = "ALL" <=> Recorded(PortOf[m]) # {}
    /\ UNCHANGED connVars

(* The rest of the mapping's life leaves the connections alone.  While the *)
(* loop thread is in a callback of a connection it does nothing else.      *)
MappingWork(m) ==
    \/ \E operation \in WorkOps : RunFreed(operation, m)
    \/ StartIgnored(m) \/ StartOnOpenHandle(m) \/ AnsycStartMapping(m)
    \/ StopStopped(m) \/ StopHandle(m)
    \/ listen_close_cb(m)

MappingProgress ==
    /\ \/ ConnIdle /\ TakeBatch
       \/ ConnIdle /\ \E m \in Mappings : MappingWork(m)
       \/ TestDeleting \/ LoadState \/ StoreOr \/ StoreAnd \/ Erase
       \/ HandleMappingMsg
    /\ UNCHANGED connVars

MappingRequests ==
    /\ \/ \E m \in Mappings :
              \/ AddMapping(m) \/ StartMapping(m) \/ StopMapping(m)
              \/ GetAllConnect(m) \/ RemoveMapping(m)
              \/ ConnIdle /\ ListenFails(m)
       \/ RemoveStore
    /\ UNCHANGED connVars

UdpProgress ==
    \/ MappingProgress
    \/ \E m \in Mappings : SendAllConnect(m)
    \/ RemoveAllOfPort \/ CloseAllOfPort
    \/ \E c \in Conns : CloseUnrecorded(c) \/ CloseRecorded(c)
    \/ EraseRecord \/ HandleConnectMsg

UdpEnvironment ==
    \/ MappingRequests
    \/ \E m \in Mappings :
           \/ NothingReceived(m)
           \/ \E c \in Conns, k \in Clients : GetUDPConnect(m, c, k)
    \/ \E c \in Conns : ServerAnswers(c) \/ ServerBreaks(c)

UdpNext ==
    /\ fault = "none" /\ cfault = "none"
    /\ UdpProgress \/ UdpEnvironment

UdpSpec == UdpInit /\ [][UdpNext]_udpVars

(* As FairSpec of Mapping; and uv_run gets to the close callback of every  *)
(* socket.                                                                 *)
UdpFairSpec ==
    /\ UdpSpec
    /\ WF_udpVars(UdpNext /\ UdpProgress)
    /\ WF_udpVars(UdpNext /\ RemoveStore /\ UNCHANGED connVars)
    /\ \A c \in Conns :
           SF_udpVars(UdpNext /\ (CloseUnrecorded(c) \/ CloseRecorded(c)))

-----------------------------------------------------------------------------
(* Properties                                                              *)

(* Types of the variables; the loop thread is idle exactly when it works   *)
(* on no connection.                                                       *)
ConnTypeOK ==
    /\ conn \in [Conns -> Infos]
    /\ entries \in SUBSET Ports
    /\ records \in [Ports -> [Clients -> Conns \cup {None}]]
    /\ nConnect \in [Mappings -> Int]
    /\ reply \in {"none", "sent", "refused"}
    /\ cat \in {"idle", "ADD", "DELETE", "erase"}
    /\ ccur \in Conns \cup {None}
    /\ cfault \in {"none", "null address", "freed mapping", "closed twice"}
    /\ cat = "idle" <=> ccur = None

UdpTypeOK == TypeOK /\ ConnTypeOK

(* The records never point to a deleted ConnectInfo, nor to one of another *)
(* port or client: GetUDPConnect returns the client's own socket.          *)
UdpRecordsSound ==
    \A p \in Ports, k \in Clients :
        LET c == records[p][k] IN
        c # None => /\ conn[c].life = "live"
                    /\ conn[c].key = k /\ PortOfConn(c) = p
                    /\ conn[c].bInMap = IN_MAP_WAIT

(* No ConnectInfo is lost: one that is not in the records has had its      *)
(* socket closed, so that its close callback will delete it.               *)
UnrecordedIsClosing ==
    \A c \in Conns : conn[c].life = "live" =>
        \/ c \in Recorded(PortOfConn(c))
        \/ conn[c].server = "closing" /\ conn[c].bInMap = NOT_IN_MAP

(* A connection that may still touch its MappingInfo, because its socket   *)
(* receives or it is in the records, belongs to a mapping that listens or  *)
(* is closing down: a stopped or erased mapping is never touched.          *)
TouchesListener ==
    fault = "none" =>
        \A c \in Conns :
            conn[c].receiving \/ conn[c].bInMap # NOT_IN_MAP =>
                /\ MappingLive(c)
                /\ \/ listen[conn[c].pMapping] = "listening"
                   \/ ClosingDown(conn[c].pMapping)

(* A socket that is being closed ends with its ConnectInfo deleted,        *)
(* whether the records are cleared meanwhile or not.                       *)
UdpClosingEnds ==
    \A c \in Conns :
        conn[c].server = "closing" ~>
            conn[c].life = "freed" \/ fault # "none" \/ cfault # "none"

-----------------------------------------------------------------------------
(* What the repository says of the program                                 *)

(* LibuvAdapter.h: what server_udp receives is sent to the client.         *)
RepliesArePassed == reply # "refused"
=============================================================================
