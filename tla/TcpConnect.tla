----------------------------- MODULE TcpConnect -----------------------------
(***************************************************************************)
(* The life of a forwarded TCP connection (ConnectInfo), on top of the     *)
(* life of its mapping (Mapping).                                          *)
(*                                                                         *)
(* The loop thread accepts a client, connects to the server, keeps the     *)
(* connection in m_mapConnect under the agent port and the address of the  *)
(* client, reads from both sockets, and closes both when one of them       *)
(* breaks, when the user asks for it, or when the mapping stops.  Each     *)
(* socket has a close callback of its own; the second one deletes the      *)
(* ConnectInfo.  The window is told of each step with SendMessage.         *)
(*                                                                         *)
(* Every step is a step of Mapping or leaves the mappings alone.  cat says *)
(* where the loop thread is in a callback of a connection, as at does for  *)
(* those of a mapping.                                                     *)
(***************************************************************************)
EXTENDS Mapping, Integers, FiniteSets

CONSTANTS Clients   \* addresses of clients, the Connectkeys of m_mapConnect

ASSUME TcpAssumption ==
    /\ None \notin Conns /\ None \notin Clients
    /\ IsFiniteSet(Conns)

VARIABLES
    conn,      \* the ConnectInfo blocks
    entries,   \* ports that have an entry in m_mapConnect
    records,   \* m_mapConnect: the connection recorded for a port and a client
    nConnect,  \* the field of each MappingInfo
    told,      \* what the window was last told of each connection
    cat,       \* where the loop thread is
    ccur,      \* the connection its callback works on
    cfault     \* how the program left defined behaviour in a connection

recordVars == <<entries, records, nConnect>>
placeVars == <<cat, ccur>>
connVars == <<conn, entries, records, nConnect, told, cat, ccur, cfault>>
tcpVars == <<mappingVars, connVars>>

NOT_IN_MAP  == 0
IN_MAP_WAIT == 1
IN_MAP_SUCC == 2

Sockets == {"none", "open", "closing", "closed"}
Tellings == {"nothing", "added", "connected", "gone"}
ConnSends == {"ADD", "CHANGE", "DELETE"}
ConnSteps == {"read", "erase"}
ConnFaults == {"none", "closed twice", "duplicate key", "freed connection",
               "freed mapping", "open handle freed"}

(* A ConnectInfo: client and server are its sockets, cdata and sdata tell  *)
(* whether their data pointers are set, connecting whether uv_tcp_connect  *)
(* has not called back, reading whether uv_read_start succeeded; up tells  *)
(* whether the client still holds its end of the connection.               *)
Infos == [life : {"unused", "live", "freed"}, pMapping : Mappings \cup {None},
          key : Clients \cup {None}, bInMap : {NOT_IN_MAP, IN_MAP_WAIT, IN_MAP_SUCC},
          client : Sockets, server : Sockets, cdata : BOOLEAN, sdata : BOOLEAN,
          connecting : BOOLEAN, reading : BOOLEAN, up : BOOLEAN]

Unused ==
    [life |-> "unused", pMapping |-> None, key |-> None, bInMap |-> NOT_IN_MAP,
     client |-> "none", server |-> "none", cdata |-> FALSE, sdata |-> FALSE,
     connecting |-> FALSE, reading |-> FALSE, up |-> FALSE]

Freed == [Unused EXCEPT !.life = "freed"]

TcpInit ==
    /\ Init
    /\ conn = [c \in Conns |-> Unused]
    /\ entries = {}
    /\ records = [p \in Ports |-> [k \in Clients |-> None]]
    /\ nConnect = [m \in Mappings |-> 0]
    /\ told = [c \in Conns |-> "nothing"]
    /\ cat = "idle" /\ ccur = None
    /\ cfault = "none"

-----------------------------------------------------------------------------
PortOfConn(c) == PortOf[conn[c].pMapping]
Recorded(p) == {records[p][k] : k \in Clients} \ {None}
MappingLive(c) == /\ conn[c].pMapping # None
                  /\ alloc[conn[c].pMapping] = "live"

ConnIdle == cat = "idle"
LoopIdle == Idle /\ ConnIdle

ConnGoto(label, c) == cat' = label /\ ccur' = c

BothOpen(info) == info.client = "open" /\ info.server = "open"

(* Both sockets handed to uv_close, their data pointing to the ConnectInfo *)
(* for tcp_connect_close_cb.  Without asserts a socket that was already    *)
(* closed stays as it is, but gets its data pointer again.                 *)
Closing(socket) == IF socket = "open" THEN "closing" ELSE socket

(* Mutant: only the client is closed.                                      *)
ClientClosed(info) ==
    [info EXCEPT !.client = Closing(info.client), !.cdata = TRUE, !.sdata = TRUE,
                 !.reading = FALSE]

BothClosed(info) ==
    [info EXCEPT !.client = Closing(info.client), !.server = Closing(info.server),
                 !.cdata = TRUE, !.sdata = TRUE, !.reading = FALSE]

-----------------------------------------------------------------------------
(* TCP: a client may connect from the address of an earlier connection as  *)
(* soon as either end has given that connection up, and the server or the  *)
(* network may break one at any time.                                      *)
AddressFree(m, k) ==
    \A c \in Conns :
        ~ /\ conn[c].life = "live" /\ conn[c].key = k
          /\ PortOfConn(c) = PortOf[m]
          /\ conn[c].up /\ conn[c].client = "open"

ClientGivesUp(c) ==
    /\ conn[c].up
    /\ conn' = [conn EXCEPT ![c].up = FALSE]
    /\ UNCHANGED <<mappingVars, recordVars, told, placeVars, cfault>>

(* tcp_listen_connection_cb up to the first message of AddConnect.  Only a *)
(* listening socket accepts: closing it fails its pending accepts.         *)
Accepts(m, c) ==
    /\ LoopIdle
    /\ listen[m] = "listening" /\ m \in TcpMappings
    /\ conn[c].life = "unused"

(* uv_accept or uv_tcp_connect fails: delete, without uv_close.            *)
AcceptFails(m, c) ==
    /\ Accepts(m, c)
    /\ cfault' = "open handle freed"
    /\ UNCHANGED <<mappingVars, conn, recordVars, told, placeVars>>

(* Mutant: AddConnect does not tell the window.                            *)
AcceptUntold(m, c, k) ==
    /\ Accepts(m, c) /\ AddressFree(m, k)
    /\ records[PortOf[m]][k] = None
    /\ conn' = [conn EXCEPT ![c] =
           [Unused EXCEPT !.life = "live", !.pMapping = m, !.key = k,
                          !.bInMap = IN_MAP_WAIT, !.client = "open",
                          !.server = "open", !.connecting = TRUE, !.up = TRUE]]
    /\ entries' = entries \cup {PortOf[m]}
    /\ records' = [records EXCEPT ![PortOf[m]][k] = c]
    /\ UNCHANGED <<mappingVars, nConnect, told, placeVars, cfault>>

Accept(m, c, k) ==
    /\ Accepts(m, c) /\ AddressFree(m, k)
    /\ conn' = [conn EXCEPT ![c] =
           [Unused EXCEPT !.life = "live", !.pMapping = m, !.key = k,
                          !.bInMap = IN_MAP_WAIT, !.client = "open",
                          !.server = "open", !.connecting = TRUE, !.up = TRUE]]
    /\ entries' = entries \cup {PortOf[m]}
    /\ LET found == records[PortOf[m]][k] IN
       /\ records' = IF found = None
                     THEN [records EXCEPT ![PortOf[m]][k] = c] ELSE records
       /\ cfault' = IF found # None /\ Debug THEN "duplicate key" ELSE cfault
    /\ ConnGoto("ADD", c)
    /\ UNCHANGED <<mappingVars, nConnect, told>>

(* tcp_connect_cb up to the message of ChangeConnect.  A request whose     *)
(* socket was closed meanwhile fails.  After a failure the callback goes   *)
(* on as after a success.                                                  *)
ConnectAnswered(c) == LoopIdle /\ conn[c].connecting

Connected(c) ==
    /\ ConnectAnswered(c)
    /\ conn[c].server = "open"
    /\ conn' = [conn EXCEPT ![c].bInMap = IN_MAP_SUCC]
    /\ cfault' = IF MappingLive(c) THEN cfault ELSE "freed mapping"
    /\ ConnGoto("CHANGE", c)
    /\ UNCHANGED <<mappingVars, recordVars, told>>

ConnectFails(c) ==
    /\ ConnectAnswered(c)
    /\ conn' = [conn EXCEPT ![c] =
                  [BothClosed(conn[c]) EXCEPT !.bInMap = IN_MAP_SUCC]]
    /\ cfault' = IF Debug /\ ~BothOpen(conn[c]) THEN "closed twice"
                 ELSE IF MappingLive(c) THEN cfault ELSE "freed mapping"
    /\ ConnGoto("CHANGE", c)
    /\ UNCHANGED <<mappingVars, recordVars, told>>

(* Mutant: ++nConnect is forgotten.                                        *)
StartReadingUncounted ==
    /\ cat = "read"
    /\ conn' = [conn EXCEPT ![ccur] = [@ EXCEPT !.cdata = TRUE, !.sdata = TRUE,
                    !.connecting = FALSE, !.reading = BothOpen(conn[ccur])]]
    /\ ConnGoto("idle", None)
    /\ UNCHANGED <<mappingVars, recordVars, told, cfault>>

(* tcp_connect_cb after the message.                                       *)
StartReading ==
    /\ cat = "read"
    /\ conn' = [conn EXCEPT ![ccur] = [@ EXCEPT !.cdata = TRUE, !.sdata = TRUE,
                    !.connecting = FALSE, !.reading = BothOpen(conn[ccur])]]
    /\ nConnect' = [nConnect EXCEPT ![conn[ccur].pMapping] = @ + 1]
    /\ ConnGoto("idle", None)
    /\ UNCHANGED <<mappingVars, entries, records, told, cfault>>

(* tcp_read_cb with data: the traffic is counted in the MappingInfo.       *)
ReadOfFreedMapping(c) ==
    /\ LoopIdle /\ conn[c].reading
    /\ ~MappingLive(c)
    /\ cfault' = "freed mapping"
    /\ UNCHANGED <<mappingVars, conn, recordVars, told, placeVars>>

(* tcp_read_cb with nread < 1, from either socket.                         *)
ReadFails(c) ==
    /\ LoopIdle /\ conn[c].reading
    /\ conn' = [conn EXCEPT ![c] = BothClosed(conn[c])]
    /\ UNCHANGED <<mappingVars, recordVars, told, placeVars, cfault>>

-----------------------------------------------------------------------------
(* tcp_connect_close_cb.  libuv calls it once no request is pending on the *)
(* socket.  The first of the two callbacks only clears its data pointer.   *)
SocketClosed(c, h) ==
    /\ LoopIdle
    /\ conn[c][h] = "closing"
    /\ h = "server" => ~conn[c].connecting

(* Mutant: the first callback clears both pointers.                        *)
DataClearedBoth(info, h) ==
    IF h = "client" THEN [info EXCEPT !.client = "closed", !.cdata = FALSE, !.sdata = FALSE]
                    ELSE [info EXCEPT !.server = "closed", !.cdata = FALSE, !.sdata = FALSE]

DataCleared(info, h) ==
    IF h = "client" THEN [info EXCEPT !.client = "closed", !.cdata = FALSE]
                    ELSE [info EXCEPT !.server = "closed", !.sdata = FALSE]

OneCloseCb(c, h) ==
    /\ SocketClosed(c, h)
    /\ LET info == DataCleared(conn[c], h) IN
       /\ info.cdata \/ info.sdata
       /\ conn' = [conn EXCEPT ![c] = info]
    /\ UNCHANGED <<mappingVars, recordVars, told, placeVars, cfault>>

(* The second callback: a connection that is in the records is taken out   *)
(* of them first, by RemoveConnect, which looks it up by port and client.  *)
LastCloseCb(c, h) ==
    /\ SocketClosed(c, h)
    /\ LET info == DataCleared(conn[c], h) IN ~info.cdata /\ ~info.sdata

FoundRecord(c) ==
    IF conn[c].bInMap = NOT_IN_MAP \/ ~MappingLive(c) THEN None
    ELSE records[PortOfConn(c)][conn[c].key]

CloseUnrecorded(c, h) ==
    /\ LastCloseCb(c, h) /\ FoundRecord(c) = None
    /\ cfault' = IF conn[c].bInMap = NOT_IN_MAP \/ MappingLive(c)
                 THEN cfault ELSE "freed mapping"
    /\ conn' = [conn EXCEPT ![c] = Freed]
    /\ UNCHANGED <<mappingVars, recordVars, told, placeVars>>

CloseRecorded(c, h) ==
    /\ LastCloseCb(c, h) /\ FoundRecord(c) # None
    /\ conn' = [conn EXCEPT ![c] = DataCleared(conn[c], h)]
    /\ ConnGoto("DELETE", c)
    /\ UNCHANGED <<mappingVars, recordVars, told, cfault>>

(* Mutant: only the ConnectInfo is deleted.                                *)
EraseRecordKept ==
    /\ cat = "erase"
    /\ conn' = [conn EXCEPT ![ccur] = Freed]
    /\ ConnGoto("idle", None)
    /\ UNCHANGED <<mappingVars, recordVars, told, cfault>>

EraseRecord ==
    /\ cat = "erase"
    /\ LET p == PortOfConn(ccur)
           k == conn[ccur].key IN
       /\ nConnect' = [nConnect EXCEPT ![conn[records[p][k]].pMapping] = @ - 1]
       /\ records' = [records EXCEPT ![p][k] = None]
    /\ conn' = [conn EXCEPT ![ccur] = Freed]
    /\ ConnGoto("idle", None)
    /\ UNCHANGED <<mappingVars, entries, told, cfault>>

-----------------------------------------------------------------------------
(* The user removes a connection that the window shows.                    *)
UserRemovesConnect(c) ==
    /\ told[c] = "connected"
    /\ MappingLive(c) /\ "DELETING" \notin nState[conn[c].pMapping]
    /\ RemoveConnect(c)
    /\ UNCHANGED connVars

RunRemoveConnect(c) ==
    /\ AnsycRemoveConnect(c) /\ ConnIdle
    /\ conn' = [conn EXCEPT ![c] = IF @.life = "live" THEN BothClosed(@) ELSE @]
    /\ cfault' = IF conn[c].life # "live" THEN "freed connection"
                 ELSE IF ~MappingLive(c) THEN "freed mapping"
                 ELSE IF Debug /\ ~BothOpen(conn[c]) THEN "closed twice"
                 ELSE cfault
    /\ UNCHANGED <<recordVars, told, placeVars>>

(* The window handles a message about a connection; the loop thread goes   *)
(* on.                                                                     *)
Telling == [s \in ConnSends |-> CASE s = "ADD"    -> "added"
                                  [] s = "CHANGE" -> "connected"
                                  [] s = "DELETE" -> "gone"]

(* Mutant: the connection of the callback is not forgotten.                *)
HandleConnectMsgStay ==
    /\ UIIdle /\ cat \in ConnSends
    /\ told' = [told EXCEPT ![ccur] = Telling[cat]]
    /\ ConnGoto(IF cat = "ADD" THEN "idle" ELSE "read", ccur)
    /\ UNCHANGED <<mappingVars, conn, recordVars, cfault>>

HandleConnectMsg ==
    /\ UIIdle /\ cat \in ConnSends
    /\ told' = [told EXCEPT ![ccur] = Telling[cat]]
    /\ CASE cat = "ADD"    -> ConnGoto("idle", None)
         [] cat = "CHANGE" -> ConnGoto("read", ccur)
         [] cat = "DELETE" -> ConnGoto("erase", ccur)
    /\ UNCHANGED <<mappingVars, conn, recordVars, cfault>>

-----------------------------------------------------------------------------
(* What the stopping of a mapping does to its connections.                 *)

RemoveAllOfPort ==
    /\ RemoveAllConnect
    /\ at' = "CLEAR" <=> PortOf[cur] \in entries
    /\ UNCHANGED connVars

(* MSG_CLEAR_CONNECT: the window forgets the connections of the mapping.   *)
HandleClear ==
    /\ at = "CLEAR" /\ HandleMappingMsg
    /\ told' = [c \in Conns |->
                  IF conn[c].pMapping = cur /\ told[c] \in {"added", "connected"}
                  THEN "gone" ELSE told[c]]
    /\ UNCHANGED <<conn, recordVars, placeVars, cfault>>

(* Mutants: the records are kept; the connections go on.                   *)
CloseAllOfPortKept ==
    /\ ClearRecords
    /\ LET all == Recorded(PortOf[cur]) IN
       /\ conn' = [c \in Conns |-> IF c \in all THEN BothClosed(conn[c]) ELSE conn[c]]
       /\ cfault' = IF Debug /\ \E c \in all : ~BothOpen(conn[c])
                    THEN "closed twice" ELSE cfault
    /\ UNCHANGED <<recordVars, told, placeVars>>

CloseAllOfPortNot ==
    /\ ClearRecords
    /\ records' = [records EXCEPT ![PortOf[cur]] = [k \in Clients |-> None]]
    /\ nConnect' = [nConnect EXCEPT ![cur] = 0]
    /\ UNCHANGED <<conn, entries, told, placeVars, cfault>>

CloseAllOfPort ==
    /\ ClearRecords
    /\ LET all == Recorded(PortOf[cur]) IN
       /\ conn' = [c \in Conns |->
                     IF c \in all THEN [BothClosed(conn[c]) EXCEPT !.bInMap = NOT_IN_MAP]
                                  ELSE conn[c]]
       /\ cfault' = IF Debug /\ \E c \in all : ~BothOpen(conn[c])
                    THEN "closed twice" ELSE cfault
    /\ records' = [records EXCEPT ![PortOf[cur]] = [k \in Clients |-> None]]
    /\ nConnect' = [nConnect EXCEPT ![cur] = 0]
    /\ UNCHANGED <<entries, told, placeVars>>

(* _GetAllConnect sends nothing when the port has no records.              *)
SendAllConnect(m) ==
    /\ AnsycGetAllConnect(m) /\ ConnIdle
    /\ at' = "ALL" <=> Recorded(PortOf[m]) # {}
    /\ UNCHANGED connVars

(* The rest of the mapping's life leaves the connections alone.  While the *)
(* loop thread is in a callback of a connection it does nothing else.      *)
MappingWork(m) ==
    \/ \E operation \in WorkOps : RunFreed(operation, m)
    \/ StartIgnored(m) \/ StartOnOpenHandle(m) \/ AnsycStartMapping(m)
    \/ StopStopped(m) \/ StopHandle(m)
    \/ listen_close_cb(m)

MappingProgress ==
    /\ \/ ConnIdle /\ TakeBatch
       \/ ConnIdle /\ \E m \in Mappings : MappingWork(m)
       \/ TestDeleting \/ LoadState \/ StoreOr \/ StoreAnd \/ Erase
       \/ at # "CLEAR" /\ HandleMappingMsg
    /\ UNCHANGED connVars

MappingRequests ==
    /\ \/ \E m \in Mappings :
              \/ AddMapping(m) \/ StartMapping(m) \/ StopMapping(m)
              \/ GetAllConnect(m) \/ RemoveMapping(m)
              \/ ConnIdle /\ ListenFails(m)
       \/ RemoveStore
    /\ UNCHANGED connVars

TcpProgress ==
    \/ MappingProgress
    \/ \E m \in Mappings : SendAllConnect(m)
    \/ RemoveAllOfPort \/ HandleClear \/ CloseAllOfPort
    \/ \E c \in Conns :
           \/ RunRemoveConnect(c)
           \/ Connected(c) \/ ConnectFails(c)
           \/ \E h \in {"client", "server"} :
                  OneCloseCb(c, h) \/ CloseUnrecorded(c, h) \/ CloseRecorded(c, h)
    \/ StartReading \/ EraseRecord \/ HandleConnectMsg

TcpEnvironment ==
    \/ MappingRequests
    \/ \E c \in Conns :
           \/ UserRemovesConnect(c)
           \/ ClientGivesUp(c) \/ ReadFails(c) \/ ReadOfFreedMapping(c)
           \/ \E m \in Mappings :
                  \/ AcceptFails(m, c)
                  \/ \E k \in Clients : Accept(m, c, k)

TcpNext ==
    /\ fault = "none" /\ cfault = "none"
    /\ TcpProgress \/ TcpEnvironment

TcpSpec == TcpInit /\ [][TcpNext]_tcpVars

(* As FairSpec; and uv_run gets to the answer of every connect request and *)
(* to the close callback of every socket.                                  *)
TcpFairSpec ==
    /\ TcpSpec
    /\ WF_tcpVars(TcpNext /\ TcpProgress)
    /\ WF_tcpVars(TcpNext /\ RemoveStore /\ UNCHANGED connVars)
    /\ \A c \in Conns :
           /\ SF_tcpVars(TcpNext /\ (Connected(c) \/ ConnectFails(c)))
           /\ \A h \in {"client", "server"} :
                  SF_tcpVars(TcpNext /\ (\/ OneCloseCb(c, h)
                                         \/ CloseUnrecorded(c, h)
                                         \/ CloseRecorded(c, h)))

-----------------------------------------------------------------------------
(* Properties                                                              *)

(* Types of the variables; the loop thread is idle exactly when it works   *)
(* on no connection.                                                       *)
ConnTypeOK ==
    /\ conn \in [Conns -> Infos]
    /\ entries \in SUBSET Ports
    /\ records \in [Ports -> [Clients -> Conns \cup {None}]]
    /\ nConnect \in [Mappings -> Int]
    /\ told \in [Conns -> Tellings]
    /\ cat \in {"idle"} \cup ConnSends \cup ConnSteps
    /\ ccur \in Conns \cup {None}
    /\ cfault \in ConnFaults
    /\ cat = "idle" <=> ccur = None

TcpTypeOK == TypeOK /\ ConnTypeOK

(* The records never point to a deleted ConnectInfo, nor to one of another *)
(* port or client, in either build.                                        *)
RecordsSound ==
    \A p \in Ports, k \in Clients :
        LET c == records[p][k] IN
        c # None => /\ conn[c].life = "live"
                    /\ conn[c].key = k /\ PortOfConn(c) = p
                    /\ conn[c].bInMap # NOT_IN_MAP
                    /\ p \in entries

(* A port has recorded connections only while its mapping listens or is    *)
(* closing down: a stopped or removed mapping has none.                    *)
RecordsNeedListener ==
    fault = "none" =>
        \A p \in Ports : \A c \in Recorded(p) :
            /\ MappingLive(c)
            /\ listen[conn[c].pMapping] = "listening" \/ ClosingDown(conn[c].pMapping)

NoFault == fault = "none" /\ cfault = "none"

(* Where asserts are compiled in, a connection that carries traffic is in  *)
(* the records of its port, so that the stopping of the mapping reaches it *)
(* before the mapping is erased.                                           *)
ForwardingIsRecorded ==
    Debug /\ NoFault =>
        \A c \in Conns : conn[c].reading =>
            MappingLive(c) /\ c \in Recorded(PortOfConn(c))

(* Where asserts are compiled in, the number of connections shown for a    *)
(* mapping is the number of its connected records; the callback that       *)
(* changes the two changes the records first.                              *)
CountMatches ==
    Debug /\ NoFault =>
        \A m \in Mappings :
            LET counted == {c \in Recorded(PortOf[m]) :
                              /\ conn[c].pMapping = m /\ conn[c].bInMap = IN_MAP_SUCC
                              /\ ~(cat \in {"CHANGE", "read"} /\ ccur = c)} IN
            nConnect[m] = Cardinality(counted)

(* Where asserts are compiled in, the window is told what ConnectFeed      *)
(* promises it: of each connection in order, while it exists and its       *)
(* mapping does, and of its end before either is deleted.                  *)
Feed == INSTANCE ConnectFeed WITH
            life  <- [c \in Conns |-> conn[c].life],
            owner <- [c \in Conns |-> conn[c].pMapping]

ImplementsFeed ==
    /\ Feed!FeedInit
    /\ [][Debug /\ NoFault' => Feed!FeedNext]_(Feed!feedVars)

(* Where asserts are compiled in, the answer to AnsycGetAllConnect, made   *)
(* from the records, is what the window was told one by one.               *)
AnswerIsTold ==
    Debug /\ NoFault /\ at = "ALL" => Recorded(PortOf[cur]) = Feed!Known(cur)

(* In either build each connection keeps to ConnectionLife, as libuv does. *)
Life(c) == INSTANCE ConnectionLife WITH
               life <- conn[c].life,
               client <- conn[c].client, server <- conn[c].server,
               cdata <- conn[c].cdata, sdata <- conn[c].sdata,
               connecting <- conn[c].connecting, reading <- conn[c].reading

ImplementsLife ==
    /\ \A c \in Conns : Life(c)!LifeInit
    /\ [][\A c \in Conns : [Life(c)!LifeNext]_(Life(c)!lifeVars)]_tcpVars

(* A ConnectInfo is deleted only by the second close callback, and never   *)
(* while a connect request points to it.                                   *)
FreedWhenClosed ==
    [][\A c \in Conns :
          conn[c].life = "live" /\ conn'[c].life = "freed" =>
              /\ conn[c].client \in {"closing", "closed"}
              /\ conn[c].server \in {"closing", "closed"}
              /\ "closed" \in {conn[c].client, conn[c].server}
              /\ ~conn[c].connecting]_conn

(* Where asserts are compiled in, closing a connection ends with the       *)
(* ConnectInfo deleted and the window told.                                *)
ClosingEnds ==
    \A c \in Conns :
        Debug /\ conn[c].client = "closing"
            ~> (conn[c].life = "freed" /\ told[c] = "gone") \/ ~NoFault

-----------------------------------------------------------------------------
(* What the repository says of the program                                 *)

(* ASSERT(ret.second) in AddConnect: no duplicate key.                     *)
NoDuplicateKey == cfault # "duplicate key"

(* LibuvAdapter.h: MSG_CONNECT_STATE_CHANGE tells that the server has been *)
(* reached.                                                                *)
ChangeMeansConnected == cat = "CHANGE" => conn[ccur].server = "open"

(* LibuvAdapter.h: MSG_DELETE_CONNECT tells that a connection was broken   *)
(* off (or MSG_CLEAR_CONNECT that all are); so each break is told.         *)
BreakIsTold ==
    \A c \in Conns :
        conn[c].client = "closing" /\ told[c] = "connected"
            ~> told[c] = "gone" \/ ~NoFault
=============================================================================
