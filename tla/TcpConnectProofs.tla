-------------------------- MODULE TcpConnectProofs --------------------------
(***************************************************************************)
(* Proofs about TcpConnect, for any mappings, ports, clients, connections  *)
(* and bound of the queue.  In either build: it implements Mapping, so     *)
(* that what is proved of Mapping holds of it; the types; the records      *)
(* point to live connections of listening or closing mappings only; a      *)
(* connection is deleted only when its sockets are closed; and nothing     *)
(* happens to a ConnectInfo that ConnectionLife does not allow.  Where     *)
(* asserts are compiled in, and until one fails: a connection that carries *)
(* traffic is in the records, the number of connections shown is that of   *)
(* the records, the window is told what ConnectFeed says, and an answer to *)
(* AnsycGetAllConnect repeats what was told.                               *)
(***************************************************************************)
EXTENDS TcpConnect, MappingProofs, FiniteSetTheorems

-----------------------------------------------------------------------------
(* The connections change nothing in the life of a mapping.                *)
LEMMA TcpStepIsMappingStep == [TcpNext]_tcpVars => [Next]_mappingVars
<1> SUFFICES ASSUME [TcpNext]_tcpVars PROVE [Next]_mappingVars
  OBVIOUS
<1>1. CASE UNCHANGED tcpVars
  BY <1>1 DEF tcpVars
<1>2. CASE TcpNext
  <2> USE <1>2
  <2>1. fault = "none"
    BY DEF TcpNext
  <2>2. CASE MappingProgress
    BY <2>1, <2>2 DEF MappingProgress, MappingWork, Next, Progress, RunWork
  <2>3. CASE MappingRequests
    BY <2>1, <2>3 DEF MappingRequests, Next, Requests
  <2>4. ASSUME NEW m \in Mappings, SendAllConnect(m) PROVE Next
    BY <2>1, <2>4 DEF SendAllConnect, Next, Progress, RunWork
  <2>5. CASE RemoveAllOfPort \/ HandleClear \/ CloseAllOfPort
    BY <2>1, <2>5 DEF RemoveAllOfPort, HandleClear, CloseAllOfPort, Next, Progress
  <2>6. ASSUME NEW c \in Conns, RunRemoveConnect(c) PROVE Next
    BY <2>1, <2>6 DEF RunRemoveConnect, Next, Progress
  <2>7. ASSUME NEW c \in Conns, UserRemovesConnect(c) PROVE Next
    BY <2>1, <2>7 DEF UserRemovesConnect, Next, Requests
  <2>8. ASSUME NEW c \in Conns,
               \/ Connected(c) \/ ConnectFails(c)
               \/ ClientGivesUp(c) \/ ReadFails(c) \/ ReadOfFreedMapping(c)
        PROVE  UNCHANGED mappingVars
    BY <2>8 DEF Connected, ConnectFails, ClientGivesUp, ReadFails, ReadOfFreedMapping
  <2>9. ASSUME NEW c \in Conns, NEW h \in {"client", "server"},
               OneCloseCb(c, h) \/ CloseUnrecorded(c, h) \/ CloseRecorded(c, h)
        PROVE  UNCHANGED mappingVars
    BY <2>9 DEF OneCloseCb, CloseUnrecorded, CloseRecorded
  <2>10. CASE StartReading \/ EraseRecord \/ HandleConnectMsg
    BY <2>10 DEF StartReading, EraseRecord, HandleConnectMsg
  <2>11. ASSUME NEW c \in Conns, NEW m \in Mappings,
                AcceptFails(m, c) \/ \E k \in Clients : Accept(m, c, k)
         PROVE  UNCHANGED mappingVars
    BY <2>11 DEF AcceptFails, Accept
  <2>12. QED BY <2>2, <2>3, <2>4, <2>5, <2>6, <2>7, <2>8, <2>9, <2>10, <2>11
             DEF TcpNext, TcpProgress, TcpEnvironment
<1>3. QED BY <1>1, <1>2

(* Every behaviour of the connections is a behaviour of the mappings.      *)
THEOREM TcpImplementsMapping == TcpSpec => Spec
<1>1. TcpInit => Init
  BY DEF TcpInit
<1>2. QED BY <1>1, TcpStepIsMappingStep, PTL DEF TcpSpec, Spec

(* So the invariants of Mapping hold with the connections.                 *)
LEMMA MappingInvariants ==
    TcpSpec => [](TypeOK /\ LiveInv /\ ItemMatchesMapping)
BY TcpImplementsMapping, TypeCorrect, Live, WindowPointersValid, PTL

-----------------------------------------------------------------------------
(* What the helpers do to a ConnectInfo.                                   *)
Accepted(m, k) ==
    [Unused EXCEPT !.life = "live", !.pMapping = m, !.key = k, !.bInMap = IN_MAP_WAIT,
                   !.client = "open", !.server = "open", !.connecting = TRUE, !.up = TRUE]

Reading(info, b) ==
    [info EXCEPT !.cdata = TRUE, !.sdata = TRUE, !.connecting = FALSE, !.reading = b]

LEMMA InfoTypes ==
    /\ Unused \in Infos /\ Freed \in Infos
    /\ \A m \in Mappings, k \in Clients : Accepted(m, k) \in Infos
    /\ \A info \in Infos :
          /\ BothClosed(info) \in Infos
          /\ [info EXCEPT !.up = FALSE] \in Infos
          /\ [info EXCEPT !.bInMap = IN_MAP_SUCC] \in Infos
          /\ [info EXCEPT !.bInMap = NOT_IN_MAP] \in Infos
          /\ \A h \in {"client", "server"} : DataCleared(info, h) \in Infos
          /\ \A b \in BOOLEAN : Reading(info, b) \in Infos
<1> USE DEF Infos, Sockets, NOT_IN_MAP, IN_MAP_WAIT, IN_MAP_SUCC
<1>1. Unused \in Infos
  BY DEF Unused
<1>2. Freed \in Infos
  BY <1>1 DEF Freed
<1>3. ASSUME NEW m \in Mappings, NEW k \in Clients PROVE Accepted(m, k) \in Infos
  BY <1>1, <1>3 DEF Accepted, Unused
<1>4. ASSUME NEW info \in Infos
      PROVE  /\ BothClosed(info) \in Infos
             /\ [info EXCEPT !.up = FALSE] \in Infos
             /\ [info EXCEPT !.bInMap = IN_MAP_SUCC] \in Infos
             /\ [info EXCEPT !.bInMap = NOT_IN_MAP] \in Infos
  <2>1. Closing(info.client) \in Sockets /\ Closing(info.server) \in Sockets
    BY <1>4 DEF Closing
  <2>2. BothClosed(info) \in Infos
    BY <1>4, <2>1 DEF BothClosed
  <2>3. [info EXCEPT !.up = FALSE] \in Infos
    BY <1>4
  <2>4. [info EXCEPT !.bInMap = IN_MAP_SUCC] \in Infos
    BY <1>4
  <2>5. [info EXCEPT !.bInMap = NOT_IN_MAP] \in Infos
    BY <1>4
  <2>6. QED BY <2>2, <2>3, <2>4, <2>5
<1>5. ASSUME NEW info \in Infos, NEW h \in {"client", "server"}
      PROVE  DataCleared(info, h) \in Infos
  BY <1>5 DEF DataCleared
<1>6. ASSUME NEW info \in Infos, NEW b \in BOOLEAN PROVE Reading(info, b) \in Infos
  BY <1>6 DEF Reading
<1>7. QED BY <1>1, <1>2, <1>3, <1>4, <1>5, <1>6

(* One ConnectInfo is replaced by another.                                 *)
LEMMA ConnUpdate ==
    ASSUME ConnTypeOK, NEW c, NEW info \in Infos, conn' = [conn EXCEPT ![c] = info]
    PROVE  conn' \in [Conns -> Infos]
BY DEF ConnTypeOK

LEMMA CountUpdate ==
    ASSUME ConnTypeOK, NEW m,
           \/ nConnect' = [nConnect EXCEPT ![m] = nConnect[m] + 1]
           \/ nConnect' = [nConnect EXCEPT ![m] = nConnect[m] - 1]
           \/ nConnect' = [nConnect EXCEPT ![m] = 0]
    PROVE  nConnect' \in [Mappings -> Int]
<1>1. CASE m \in Mappings
  <2>1. nConnect[m] + 1 \in Int /\ nConnect[m] - 1 \in Int
    BY <1>1 DEF ConnTypeOK
  <2>2. QED BY <2>1 DEF ConnTypeOK
<1>2. CASE m \notin Mappings
  BY <1>2 DEF ConnTypeOK
<1>3. QED BY <1>1, <1>2

LEMMA ConnTypeStep ==
    TypeOK /\ ConnTypeOK /\ [TcpNext]_tcpVars => ConnTypeOK'
<1> SUFFICES ASSUME TypeOK, ConnTypeOK, [TcpNext]_tcpVars PROVE ConnTypeOK'
  OBVIOUS
<1> USE TcpAssumption, MappingAssumption DEF recordVars, placeVars, ConnGoto,
        ConnSends, ConnSteps, ConnFaults, Tellings
<1>1. CASE UNCHANGED tcpVars \/ MappingProgress \/ MappingRequests
  BY <1>1 DEF tcpVars, MappingProgress, MappingRequests, connVars, ConnTypeOK
<1>2. ASSUME NEW m \in Mappings, SendAllConnect(m) PROVE ConnTypeOK'
  BY <1>2 DEF SendAllConnect, connVars, ConnTypeOK
<1>3. CASE RemoveAllOfPort
  BY <1>3 DEF RemoveAllOfPort, connVars, ConnTypeOK
<1>4. CASE HandleClear
  <2>1. told' \in [Conns -> Tellings]
    BY <1>4 DEF HandleClear, ConnTypeOK
  <2>2. QED BY <1>4, <2>1 DEF HandleClear, ConnTypeOK
<1>5. CASE CloseAllOfPort
  <2>1. \A info \in Infos : [BothClosed(info) EXCEPT !.bInMap = NOT_IN_MAP] \in Infos
    BY InfoTypes
  <2>2. conn' \in [Conns -> Infos]
    BY <1>5, <2>1 DEF CloseAllOfPort, ConnTypeOK
  <2>3. /\ records' \in [Ports -> [Clients -> Conns \cup {None}]]
        /\ nConnect' \in [Mappings -> Int]
    <3>1. PICK p : records' = [records EXCEPT ![p] = [k \in Clients |-> None]]
      BY <1>5 DEF CloseAllOfPort
    <3>2. records' \in [Ports -> [Clients -> Conns \cup {None}]]
      BY <3>1 DEF ConnTypeOK
    <3>3. PICK m : nConnect' = [nConnect EXCEPT ![m] = 0]
      BY <1>5 DEF CloseAllOfPort
    <3>4. nConnect' \in [Mappings -> Int]
      BY <3>3, CountUpdate
    <3>5. QED BY <3>2, <3>4
  <2>4. cfault' \in {"closed twice", cfault}
    BY <1>5, Zenon DEF CloseAllOfPort
  <2>5. QED BY <1>5, <2>2, <2>3, <2>4 DEF CloseAllOfPort, ConnTypeOK
<1>6. ASSUME NEW c \in Conns, UserRemovesConnect(c) PROVE ConnTypeOK'
  BY <1>6 DEF UserRemovesConnect, connVars, ConnTypeOK
<1>7. ASSUME NEW c \in Conns, RunRemoveConnect(c) PROVE ConnTypeOK'
  BY <1>7, InfoTypes DEF RunRemoveConnect, ConnTypeOK
<1>8. ASSUME NEW c \in Conns, Connected(c) PROVE ConnTypeOK'
  <2>1. [conn[c] EXCEPT !.bInMap = IN_MAP_SUCC] \in Infos
    BY InfoTypes DEF ConnTypeOK
  <2>2. conn' = [conn EXCEPT ![c] = [conn[c] EXCEPT !.bInMap = IN_MAP_SUCC]]
    BY <1>8 DEF Connected, ConnTypeOK
  <2>3. QED BY <1>8, <2>1, <2>2 DEF Connected, ConnTypeOK
<1>9. ASSUME NEW c \in Conns, ConnectFails(c) PROVE ConnTypeOK'
  <2>1. [BothClosed(conn[c]) EXCEPT !.bInMap = IN_MAP_SUCC] \in Infos
    <3>1. BothClosed(conn[c]) \in Infos
      BY InfoTypes DEF ConnTypeOK
    <3>2. QED BY <3>1, InfoTypes
  <2>2. QED BY <1>9, <2>1 DEF ConnectFails, ConnTypeOK
<1>10. ASSUME NEW c \in Conns, ClientGivesUp(c) PROVE ConnTypeOK'
  <2>1. [conn[c] EXCEPT !.up = FALSE] \in Infos
    BY InfoTypes DEF ConnTypeOK
  <2>2. conn' = [conn EXCEPT ![c] = [conn[c] EXCEPT !.up = FALSE]]
    BY <1>10 DEF ClientGivesUp, ConnTypeOK
  <2>3. QED BY <1>10, <2>1, <2>2 DEF ClientGivesUp, ConnTypeOK
<1>11. ASSUME NEW c \in Conns, ReadFails(c) \/ ReadOfFreedMapping(c) PROVE ConnTypeOK'
  <2>1. CASE ReadFails(c)
    <3>1. BothClosed(conn[c]) \in Infos
      BY InfoTypes DEF ConnTypeOK
    <3>2. conn' \in [Conns -> Infos]
      BY <2>1, <3>1, ConnUpdate DEF ReadFails
    <3>3. QED BY <2>1, <3>2 DEF ReadFails, ConnTypeOK
  <2>2. CASE ReadOfFreedMapping(c)
    BY <2>2 DEF ReadOfFreedMapping, ConnTypeOK
  <2>3. QED BY <1>11, <2>1, <2>2
<1>12. ASSUME NEW c \in Conns, NEW h \in {"client", "server"},
              OneCloseCb(c, h) \/ CloseUnrecorded(c, h) \/ CloseRecorded(c, h)
       PROVE  ConnTypeOK'
  <2>1. DataCleared(conn[c], h) \in Infos
    BY InfoTypes DEF ConnTypeOK
  <2>2. PICK info \in Infos : conn' = [conn EXCEPT ![c] = info]
    BY <1>12, <2>1, InfoTypes DEF OneCloseCb, CloseUnrecorded, CloseRecorded
  <2>3. conn' \in [Conns -> Infos]
    BY <2>2, ConnUpdate
  <2>4. UNCHANGED <<entries, records, nConnect, told>> /\ cfault' \in ConnFaults
    BY <1>12 DEF OneCloseCb, CloseUnrecorded, CloseRecorded, ConnTypeOK
  <2>5. (cat' = cat /\ ccur' = ccur) \/ (cat' = "DELETE" /\ ccur' = c)
    BY <1>12 DEF OneCloseCb, CloseUnrecorded, CloseRecorded
  <2>6. QED BY <2>3, <2>4, <2>5 DEF ConnTypeOK
<1>13. CASE StartReading
  <2>1. ccur \in Conns
    BY <1>13 DEF StartReading, ConnTypeOK
  <2>2. BothOpen(conn[ccur]) \in BOOLEAN
    BY DEF BothOpen
  <2>3. conn' = [conn EXCEPT ![ccur] = Reading(conn[ccur], BothOpen(conn[ccur]))]
    BY <1>13, <2>1 DEF StartReading, ConnTypeOK, Reading
  <2>4. conn' \in [Conns -> Infos]
    <3>1. Reading(conn[ccur], BothOpen(conn[ccur])) \in Infos
      BY <2>1, <2>2, InfoTypes DEF ConnTypeOK
    <3>2. QED BY <2>3, <3>1, ConnUpdate
  <2>5. nConnect' \in [Mappings -> Int]
    <3>1. PICK m : nConnect' = [nConnect EXCEPT ![m] = nConnect[m] + 1]
      BY <1>13 DEF StartReading
    <3>2. QED BY <3>1, CountUpdate
  <2>6. QED BY <1>13, <2>4, <2>5 DEF StartReading, ConnTypeOK
<1>14. CASE EraseRecord
  <2>1. PICK m : nConnect' = [nConnect EXCEPT ![m] = nConnect[m] - 1]
    BY <1>14 DEF EraseRecord
  <2>2. nConnect' \in [Mappings -> Int]
    BY <2>1, CountUpdate
  <2>3. PICK p, k : records' = [records EXCEPT ![p][k] = None]
    BY <1>14 DEF EraseRecord
  <2>4. records' \in [Ports -> [Clients -> Conns \cup {None}]]
    BY <2>3 DEF ConnTypeOK
  <2>5. conn' \in [Conns -> Infos]
    BY <1>14, ConnUpdate, InfoTypes DEF EraseRecord
  <2>6. QED BY <1>14, <2>2, <2>4, <2>5 DEF EraseRecord, ConnTypeOK
<1>15. CASE HandleConnectMsg
  BY <1>15 DEF HandleConnectMsg, ConnTypeOK, Telling
<1>16. ASSUME NEW m \in Mappings, NEW c \in Conns, AcceptFails(m, c) PROVE ConnTypeOK'
  BY <1>16 DEF AcceptFails, ConnTypeOK
<1>17. ASSUME NEW m \in Mappings, NEW c \in Conns, NEW k \in Clients, Accept(m, c, k)
       PROVE  ConnTypeOK'
  <2>1. conn' \in [Conns -> Infos]
    <3>1. conn' = [conn EXCEPT ![c] = Accepted(m, k)]
      BY <1>17 DEF Accept, Accepted
    <3>2. QED BY <3>1, ConnUpdate, InfoTypes
  <2>2. PortOf[m] \in Ports
    OBVIOUS
  <2>3. records' \in [Ports -> [Clients -> Conns \cup {None}]]
    BY <1>17, <2>2 DEF Accept, ConnTypeOK
  <2>4. entries' \in SUBSET Ports /\ cfault' \in ConnFaults
    BY <1>17, <2>2 DEF Accept, ConnTypeOK
  <2>5. QED BY <1>17, <2>1, <2>3, <2>4 DEF Accept, ConnTypeOK
<1>18. QED BY <1>1, <1>2, <1>3, <1>4, <1>5, <1>6, <1>7, <1>8, <1>9, <1>10, <1>11,
              <1>12, <1>13, <1>14, <1>15, <1>16, <1>17
           DEF TcpNext, TcpProgress, TcpEnvironment

(* Every variable keeps its type.                                          *)
THEOREM TcpTypeCorrect == TcpSpec => []TcpTypeOK
<1>1. TcpInit => ConnTypeOK
  BY InfoTypes, TcpAssumption
     DEF TcpInit, ConnTypeOK, Tellings, ConnSends, ConnSteps, ConnFaults
<1>2. QED BY <1>1, ConnTypeStep, MappingInvariants, PTL DEF TcpSpec, TcpTypeOK

-----------------------------------------------------------------------------
(* A ConnectInfo against its sockets and the loop thread: both sockets are *)
(* open or none is, a closing one points to the ConnectInfo, and a connect *)
(* request keeps the socket to the server from being closed.               *)
InfoInv(info) ==
    IF info.life = "live"
    THEN /\ info.pMapping \in Mappings /\ info.key \in Clients
         /\ info.client # "none" /\ info.server # "none"
         /\ info.client = "open" <=> info.server = "open"
         /\ info.client = "closing" => info.cdata
         /\ info.server = "closing" => info.sdata
         /\ info.server = "closed" => ~info.connecting
    ELSE /\ info.client = "none" /\ info.server = "none"
         /\ ~info.connecting /\ ~info.reading

ConnInv == \A c \in Conns : InfoInv(conn[c])

PlaceInv ==
    /\ cat = "idle" \/ at = "idle"
    /\ cat # "idle" => conn[ccur].life = "live"
    /\ cat \in {"DELETE", "erase"} =>
           conn[ccur].client = "closed" /\ conn[ccur].server = "closed"

LEMMA InfoSteps ==
    /\ InfoInv(Unused) /\ InfoInv(Freed)
    /\ \A m \in Mappings, k \in Clients : InfoInv(Accepted(m, k))
    /\ \A info \in Infos : InfoInv(info) =>
          /\ InfoInv([info EXCEPT !.up = FALSE])
          /\ \A b \in {NOT_IN_MAP, IN_MAP_SUCC} :
                 InfoInv([info EXCEPT !.bInMap = b])
          /\ InfoInv(BothClosed(info))
          /\ info.life = "live" => \A b \in BOOLEAN : InfoInv(Reading(info, b))
          /\ \A h \in {"client", "server"} :
                 /\ info[h] = "closing"
                 /\ h = "server" => ~info.connecting
                 => InfoInv(DataCleared(info, h))
<1> USE DEF InfoInv, Infos, Sockets
<1>1. InfoInv(Unused)
  BY DEF Unused
<1>2. InfoInv(Freed)
  BY DEF Unused, Freed
<1>3. ASSUME NEW m \in Mappings, NEW k \in Clients PROVE InfoInv(Accepted(m, k))
  BY <1>3 DEF Accepted, Unused
<1>4. ASSUME NEW info \in Infos, InfoInv(info)
      PROVE  /\ InfoInv([info EXCEPT !.up = FALSE])
             /\ \A b \in {NOT_IN_MAP, IN_MAP_SUCC} :
                    InfoInv([info EXCEPT !.bInMap = b])
  BY <1>4
<1>5. ASSUME NEW info \in Infos, InfoInv(info) PROVE InfoInv(BothClosed(info))
  BY <1>5 DEF BothClosed, Closing
<1>6. ASSUME NEW info \in Infos, InfoInv(info), info.life = "live", NEW b \in BOOLEAN
      PROVE  InfoInv(Reading(info, b))
  BY <1>6 DEF Reading
<1>7. ASSUME NEW info \in Infos, InfoInv(info), NEW h \in {"client", "server"},
             info[h] = "closing", h = "server" => ~info.connecting
      PROVE  InfoInv(DataCleared(info, h))
  <2>1. CASE h = "client"
    BY <1>7, <2>1 DEF DataCleared
  <2>2. CASE h = "server"
    BY <1>7, <2>2 DEF DataCleared
  <2>3. QED BY <2>1, <2>2
<1>8. QED BY <1>1, <1>2, <1>3, <1>4, <1>5, <1>6, <1>7

LEMMA ConnInvUpdate ==
    ASSUME ConnTypeOK, ConnInv, NEW c \in Conns, NEW info, InfoInv(info),
           conn' = [conn EXCEPT ![c] = info]
    PROVE  ConnInv'
<1>1. ASSUME NEW d \in Conns PROVE InfoInv(conn'[d])
  <2>1. conn'[d] = IF d = c THEN info ELSE conn[d]
    BY DEF ConnTypeOK
  <2>2. QED BY <2>1 DEF ConnInv
<1>2. QED BY <1>1 DEF ConnInv

LEMMA ConnStep ==
    ConnTypeOK /\ ConnInv /\ PlaceInv /\ [TcpNext]_tcpVars => ConnInv' /\ PlaceInv'
<1> SUFFICES ASSUME ConnTypeOK, ConnInv, PlaceInv, [TcpNext]_tcpVars
             PROVE  ConnInv' /\ PlaceInv'
  OBVIOUS
<1> USE DEF placeVars, ConnGoto, LoopIdle, Idle, ConnIdle
<1>0. /\ \A c \in Conns : conn[c] \in Infos /\ InfoInv(conn[c])
      /\ cat # "idle" => ccur \in Conns
  BY DEF ConnTypeOK, ConnInv
<1>1. CASE UNCHANGED connVars /\ (cat # "idle" => UNCHANGED at)
  BY <1>1 DEF connVars, ConnInv, PlaceInv
<1>2. CASE UNCHANGED tcpVars
  BY <1>1, <1>2 DEF tcpVars, mappingVars
<1>3. CASE MappingProgress
  <2>1. cat # "idle" => UNCHANGED at
    BY <1>3 DEF MappingProgress, PlaceInv, TestDeleting, LoadState, StoreOr, StoreAnd,
                Erase, HandleMappingMsg, Sends
  <2>2. QED BY <1>1, <1>3, <2>1 DEF MappingProgress
<1>4. CASE MappingRequests
  <2>1. cat # "idle" => UNCHANGED at
    BY <1>4 DEF MappingRequests, AddMapping, StartMapping, StopMapping, GetAllConnect,
                RemoveMapping, RemoveStore, loopVars
  <2>2. QED BY <1>1, <1>4, <2>1 DEF MappingRequests
<1>5. ASSUME NEW m \in Mappings, SendAllConnect(m) PROVE ConnInv' /\ PlaceInv'
  BY <1>1, <1>5 DEF SendAllConnect
<1>6. CASE RemoveAllOfPort
  BY <1>1, <1>6 DEF RemoveAllOfPort, RemoveAllConnect, PlaceInv
<1>7. CASE HandleClear
  BY <1>7 DEF HandleClear, PlaceInv, ConnInv
<1>8. CASE CloseAllOfPort
  <2>1. cat = "idle" /\ cat' = "idle"
    BY <1>8 DEF CloseAllOfPort, ClearRecords, PlaceInv
  <2>2. ASSUME NEW c \in Conns PROVE InfoInv(conn'[c])
    <3>1. \/ conn'[c] = conn[c]
          \/ conn'[c] = [BothClosed(conn[c]) EXCEPT !.bInMap = NOT_IN_MAP]
      BY <1>8 DEF CloseAllOfPort
    <3>2. BothClosed(conn[c]) \in Infos /\ InfoInv(BothClosed(conn[c]))
      BY <1>0, InfoTypes, InfoSteps
    <3>3. InfoInv([BothClosed(conn[c]) EXCEPT !.bInMap = NOT_IN_MAP])
      BY <3>2, InfoSteps
    <3>4. QED BY <1>0, <3>1, <3>3
  <2>3. QED BY <2>1, <2>2 DEF ConnInv, PlaceInv
<1>9. ASSUME NEW c \in Conns, UserRemovesConnect(c) PROVE ConnInv' /\ PlaceInv'
  BY <1>1, <1>9 DEF UserRemovesConnect, RemoveConnect, loopVars
<1>10. ASSUME NEW c \in Conns, RunRemoveConnect(c) PROVE ConnInv' /\ PlaceInv'
  <2>1. InfoInv(BothClosed(conn[c]))
    BY <1>0, InfoSteps
  <2>2. PICK info : conn' = [conn EXCEPT ![c] = info] /\ InfoInv(info)
    BY <1>0, <1>10, <2>1 DEF RunRemoveConnect
  <2>3. ConnInv'
    BY <2>2, ConnInvUpdate
  <2>4. cat = "idle" /\ cat' = "idle"
    BY <1>10 DEF RunRemoveConnect
  <2>5. QED BY <2>3, <2>4 DEF PlaceInv
<1>11. ASSUME NEW c \in Conns, Connected(c) \/ ConnectFails(c)
       PROVE  ConnInv' /\ PlaceInv'
  <2>1. conn[c].life = "live" /\ at = "idle"
    BY <1>0, <1>11 DEF Connected, ConnectFails, ConnectAnswered, InfoInv
  <2>2. /\ BothClosed(conn[c]) \in Infos /\ InfoInv(BothClosed(conn[c]))
        /\ BothClosed(conn[c]).life = "live"
    <3>1. BothClosed(conn[c]) \in Infos /\ InfoInv(BothClosed(conn[c]))
      BY <1>0, InfoTypes, InfoSteps
    <3>2. BothClosed(conn[c]).life = "live"
      BY <1>0, <2>1 DEF BothClosed, Infos
    <3>3. QED BY <3>1, <3>2
  <2>3. PICK info : /\ conn' = [conn EXCEPT ![c] = info]
                    /\ InfoInv(info) /\ info.life = "live"
    <3>1. CASE Connected(c)
      <4>1. conn' = [conn EXCEPT ![c] = [conn[c] EXCEPT !.bInMap = IN_MAP_SUCC]]
        BY <3>1 DEF Connected
      <4>2. InfoInv([conn[c] EXCEPT !.bInMap = IN_MAP_SUCC])
        BY <1>0, InfoSteps
      <4>3. [conn[c] EXCEPT !.bInMap = IN_MAP_SUCC].life = "live"
        BY <1>0, <2>1 DEF Infos
      <4>4. QED BY <4>1, <4>2, <4>3
    <3>2. CASE ConnectFails(c)
      <4>1. conn' = [conn EXCEPT ![c] = [BothClosed(conn[c]) EXCEPT !.bInMap = IN_MAP_SUCC]]
        BY <3>2 DEF ConnectFails
      <4>2. InfoInv([BothClosed(conn[c]) EXCEPT !.bInMap = IN_MAP_SUCC])
        BY <2>2, InfoSteps
      <4>3. [BothClosed(conn[c]) EXCEPT !.bInMap = IN_MAP_SUCC].life = "live"
        BY <2>2 DEF Infos
      <4>4. QED BY <4>1, <4>2, <4>3
    <3>3. QED BY <1>11, <3>1, <3>2
  <2>4. ConnInv'
    BY <2>3, ConnInvUpdate
  <2>5. conn'[c].life = "live"
    BY <2>3 DEF ConnTypeOK
  <2>6. cat' = "CHANGE" /\ ccur' = c /\ at' = at
    BY <1>11 DEF Connected, ConnectFails, mappingVars
  <2>7. QED BY <2>1, <2>4, <2>5, <2>6 DEF PlaceInv
<1>12. ASSUME NEW c \in Conns, ClientGivesUp(c) PROVE ConnInv' /\ PlaceInv'
  <2>1. conn' = [conn EXCEPT ![c] = [conn[c] EXCEPT !.up = FALSE]]
    BY <1>12 DEF ClientGivesUp
  <2>2. InfoInv([conn[c] EXCEPT !.up = FALSE])
    BY <1>0, InfoSteps
  <2>3. ConnInv'
    BY <2>1, <2>2, ConnInvUpdate
  <2>4. \A d \in Conns : /\ conn'[d].life = conn[d].life
                           /\ conn'[d].client = conn[d].client
                           /\ conn'[d].server = conn[d].server
    BY <2>1, <1>0 DEF ConnTypeOK, Infos
  <2>5. UNCHANGED <<cat, ccur, at>>
    BY <1>12 DEF ClientGivesUp, mappingVars
  <2>6. QED BY <1>0, <2>3, <2>4, <2>5 DEF PlaceInv
<1>13. ASSUME NEW c \in Conns, ReadFails(c) PROVE ConnInv' /\ PlaceInv'
  <2>1. InfoInv(BothClosed(conn[c]))
    BY <1>0, InfoSteps
  <2>2. ConnInv'
    BY <1>13, <2>1, ConnInvUpdate DEF ReadFails
  <2>3. QED BY <1>13, <2>2 DEF ReadFails, PlaceInv
<1>14. ASSUME NEW c \in Conns, ReadOfFreedMapping(c) PROVE ConnInv' /\ PlaceInv'
  BY <1>14 DEF ReadOfFreedMapping, PlaceInv, ConnInv
<1>15. ASSUME NEW c \in Conns, NEW h \in {"client", "server"},
              OneCloseCb(c, h) \/ CloseUnrecorded(c, h)
       PROVE  ConnInv' /\ PlaceInv'
  <2>1. cat = "idle" /\ cat' = "idle"
    BY <1>15 DEF OneCloseCb, CloseUnrecorded, LastCloseCb, SocketClosed
  <2>2. InfoInv(DataCleared(conn[c], h))
    BY <1>0, <1>15, InfoSteps DEF OneCloseCb, CloseUnrecorded, LastCloseCb, SocketClosed
  <2>3. PICK info : conn' = [conn EXCEPT ![c] = info] /\ InfoInv(info)
    BY <1>15, <2>2, InfoSteps DEF OneCloseCb, CloseUnrecorded
  <2>4. ConnInv'
    BY <2>3, ConnInvUpdate
  <2>5. QED BY <2>1, <2>4 DEF PlaceInv
<1>16. ASSUME NEW c \in Conns, NEW h \in {"client", "server"}, CloseRecorded(c, h)
       PROVE  ConnInv' /\ PlaceInv'
  <2>1. /\ cat = "idle" /\ cat' = "DELETE" /\ ccur' = c /\ at = "idle" /\ at' = "idle"
        /\ conn' = [conn EXCEPT ![c] = DataCleared(conn[c], h)]
        /\ ~DataCleared(conn[c], h).cdata /\ ~DataCleared(conn[c], h).sdata
    BY <1>16 DEF CloseRecorded, LastCloseCb, SocketClosed, mappingVars
  <2>2. /\ DataCleared(conn[c], h) \in Infos
        /\ InfoInv(DataCleared(conn[c], h))
    BY <1>0, <1>16, InfoTypes, InfoSteps DEF CloseRecorded, LastCloseCb, SocketClosed
  <2>3. ConnInv'
    BY <2>1, <2>2, ConnInvUpdate
  <2>4. conn[c][h] = "closing"
    BY <1>16 DEF CloseRecorded, LastCloseCb, SocketClosed
  <2>5. conn[c].life = "live"
    BY <1>0, <2>4 DEF InfoInv
  <2>6. /\ DataCleared(conn[c], h).life = "live"
        /\ DataCleared(conn[c], h).client = "closed"
        /\ DataCleared(conn[c], h).server = "closed"
    BY <1>0, <2>1, <2>2, <2>4, <2>5 DEF InfoInv, DataCleared, Infos, Sockets
  <2>7. conn'[c] = DataCleared(conn[c], h)
    BY <2>1 DEF ConnTypeOK
  <2>8. QED BY <2>1, <2>3, <2>6, <2>7 DEF PlaceInv
<1>17. CASE StartReading
  <2>1. ccur \in Conns /\ conn[ccur].life = "live"
    BY <1>0, <1>17 DEF StartReading, PlaceInv
  <2>2. BothOpen(conn[ccur]) \in BOOLEAN
    BY DEF BothOpen
  <2>3. conn' = [conn EXCEPT ![ccur] = Reading(conn[ccur], BothOpen(conn[ccur]))]
    BY <1>17, <2>1 DEF StartReading, ConnTypeOK, Reading
  <2>4. InfoInv(Reading(conn[ccur], BothOpen(conn[ccur])))
    BY <1>0, <2>1, <2>2, InfoSteps
  <2>5. PICK c \in Conns : c = ccur
    BY <2>1
  <2>6. ConnInv'
    BY <2>3, <2>4, <2>5, ConnInvUpdate
  <2>7. QED BY <1>17, <2>6 DEF StartReading, PlaceInv
<1>18. CASE EraseRecord
  <2>1. PICK c \in Conns : c = ccur
    BY <1>0, <1>18 DEF EraseRecord
  <2>2. ConnInv'
    BY <1>18, <2>1, InfoSteps, ConnInvUpdate DEF EraseRecord
  <2>3. QED BY <1>18, <2>2 DEF EraseRecord, PlaceInv
<1>19. CASE HandleConnectMsg
  <2>1. UNCHANGED <<conn, at>> /\ ccur \in Conns /\ cat # "idle"
    BY <1>0, <1>19 DEF HandleConnectMsg, mappingVars, ConnSends
  <2>2. \/ cat' = "idle"
        \/ cat' = "read" /\ ccur' = ccur
        \/ cat = "DELETE" /\ cat' = "erase" /\ ccur' = ccur
    BY <1>19 DEF HandleConnectMsg, ConnSends
  <2>3. QED BY <2>1, <2>2 DEF PlaceInv, ConnInv
<1>20. ASSUME NEW m \in Mappings, NEW c \in Conns, AcceptFails(m, c)
       PROVE  ConnInv' /\ PlaceInv'
  BY <1>20 DEF AcceptFails, PlaceInv, ConnInv, mappingVars
<1>21. ASSUME NEW m \in Mappings, NEW c \in Conns, NEW k \in Clients, Accept(m, c, k)
       PROVE  ConnInv' /\ PlaceInv'
  <2>1. /\ conn' = [conn EXCEPT ![c] = Accepted(m, k)]
        /\ cat' = "ADD" /\ ccur' = c /\ at' = "idle"
    BY <1>21 DEF Accept, Accepted, Accepts, mappingVars
  <2>2. ConnInv'
    BY <2>1, InfoSteps, ConnInvUpdate
  <2>3. conn'[c].life = "live"
    BY <2>1 DEF ConnTypeOK, Accepted, Unused
  <2>4. QED BY <2>1, <2>2, <2>3 DEF PlaceInv
<1>22. QED BY <1>2, <1>3, <1>4, <1>5, <1>6, <1>7, <1>8, <1>9, <1>10, <1>11, <1>12,
              <1>13, <1>14, <1>15, <1>16, <1>17, <1>18, <1>19, <1>20, <1>21
           DEF TcpNext, TcpProgress, TcpEnvironment

LEMMA ConnInvariants == TcpSpec => [](ConnTypeOK /\ ConnInv /\ PlaceInv)
<1>1. TcpInit => ConnInv /\ PlaceInv
  BY InfoSteps DEF TcpInit, ConnInv, PlaceInv
<1>2. TcpTypeOK => ConnTypeOK
  BY DEF TcpTypeOK
<1>3. QED BY <1>1, <1>2, ConnStep, TcpTypeCorrect, PTL DEF TcpSpec

-----------------------------------------------------------------------------
(* Most steps leave the mapping, the address and the life of every         *)
(* ConnectInfo as they are, and take none out of the records.              *)
SameOwner(info, next) ==
    /\ next.life = info.life /\ next.pMapping = info.pMapping /\ next.key = info.key
    /\ info.bInMap # NOT_IN_MAP => next.bInMap # NOT_IN_MAP

Kept(c) == SameOwner(conn[c], conn'[c])

LEMMA OwnerSteps ==
    \A info \in Infos :
        /\ SameOwner(info, info)
        /\ SameOwner(info, [info EXCEPT !.up = FALSE])
        /\ SameOwner(info, [info EXCEPT !.bInMap = IN_MAP_SUCC])
        /\ SameOwner(info, BothClosed(info))
        /\ SameOwner(info, [BothClosed(info) EXCEPT !.bInMap = IN_MAP_SUCC])
        /\ \A h \in {"client", "server"} : SameOwner(info, DataCleared(info, h))
        /\ \A b \in BOOLEAN : SameOwner(info, Reading(info, b))
<1> SUFFICES ASSUME NEW info \in Infos
             PROVE  /\ SameOwner(info, info)
                    /\ SameOwner(info, [info EXCEPT !.up = FALSE])
                    /\ SameOwner(info, [info EXCEPT !.bInMap = IN_MAP_SUCC])
                    /\ SameOwner(info, BothClosed(info))
                    /\ SameOwner(info, [BothClosed(info) EXCEPT !.bInMap = IN_MAP_SUCC])
                    /\ \A h \in {"client", "server"} : SameOwner(info, DataCleared(info, h))
                    /\ \A b \in BOOLEAN : SameOwner(info, Reading(info, b))
  OBVIOUS
<1> USE DEF SameOwner, Infos, NOT_IN_MAP, IN_MAP_SUCC
<1>1. /\ SameOwner(info, info)
      /\ SameOwner(info, [info EXCEPT !.up = FALSE])
      /\ SameOwner(info, [info EXCEPT !.bInMap = IN_MAP_SUCC])
  OBVIOUS
<1>2. /\ SameOwner(info, BothClosed(info))
      /\ SameOwner(info, [BothClosed(info) EXCEPT !.bInMap = IN_MAP_SUCC])
  BY DEF BothClosed
<1>3. \A h \in {"client", "server"} : SameOwner(info, DataCleared(info, h))
  BY DEF DataCleared
<1>4. \A b \in BOOLEAN : SameOwner(info, Reading(info, b))
  BY DEF Reading
<1>5. QED BY <1>1, <1>2, <1>3, <1>4

LEMMA KeptUpdate ==
    ASSUME ConnTypeOK, NEW c, NEW info, c \in Conns => SameOwner(conn[c], info),
           conn' = [conn EXCEPT ![c] = info]
    PROVE  \A d \in Conns : Kept(d)
<1>1. ASSUME NEW d \in Conns PROVE SameOwner(conn[d], conn'[d])
  <2>1. conn'[d] = IF d = c THEN info ELSE conn[d]
    BY DEF ConnTypeOK
  <2>2. QED BY <2>1 DEF SameOwner
<1>2. QED BY <1>1 DEF Kept

(* The other steps are these.                                              *)
RecordStep ==
    \/ RemoveAllOfPort \/ CloseAllOfPort \/ EraseRecord
    \/ \E c \in Conns, h \in {"client", "server"} : CloseUnrecorded(c, h)
    \/ \E m \in Mappings, c \in Conns, k \in Clients : Accept(m, c, k)

LEMMA StepShapes ==
    ASSUME TypeOK, ConnTypeOK, ConnInv, PlaceInv, [TcpNext]_tcpVars, ~RecordStep
    PROVE  /\ \A c \in Conns : Kept(c)
           /\ UNCHANGED <<records, entries>>
           /\ at \in {"removeAll", "clear"} => at' = at
<1> USE DEF recordVars, placeVars, ConnGoto, LoopIdle, Idle, ConnIdle
<1>0. \A c \in Conns : conn[c] \in Infos
  BY DEF ConnTypeOK
<1>1. ASSUME conn' = conn PROVE \A c \in Conns : Kept(c)
  BY <1>0, <1>1, OwnerSteps DEF Kept
<1>2. CASE UNCHANGED tcpVars
  BY <1>1, <1>2 DEF tcpVars, connVars, mappingVars
<1>3. CASE MappingProgress
  <2>1. at \in {"removeAll", "clear"} => at' = at
    BY <1>3 DEF MappingProgress, MappingWork, TakeBatch, Running, RunFreed,
                StartIgnored, StartOnOpenHandle, AnsycStartMapping, StopStopped,
                StopHandle, listen_close_cb, TestDeleting, LoadState, StoreOr,
                StoreAnd, Erase, HandleMappingMsg, Sends
  <2>2. QED BY <1>1, <1>3, <2>1 DEF MappingProgress, connVars
<1>4. CASE MappingRequests
  BY <1>1, <1>4 DEF MappingRequests, connVars, AddMapping, StartMapping, StopMapping,
                    GetAllConnect, RemoveMapping, RemoveStore, ListenFails, loopVars
<1>5. ASSUME NEW m \in Mappings, SendAllConnect(m)
      PROVE  /\ \A c \in Conns : Kept(c)
             /\ UNCHANGED <<records, entries>>
             /\ at \in {"removeAll", "clear"} => at' = at
  BY <1>1, <1>5 DEF SendAllConnect, AnsycGetAllConnect, Running, connVars
<1>6. CASE HandleClear
  BY <1>1, <1>6 DEF HandleClear
<1>7. ASSUME NEW c \in Conns, UserRemovesConnect(c)
      PROVE  /\ \A d \in Conns : Kept(d)
             /\ UNCHANGED <<records, entries>>
             /\ at \in {"removeAll", "clear"} => at' = at
  BY <1>1, <1>7 DEF UserRemovesConnect, RemoveConnect, connVars, loopVars
<1>8. ASSUME NEW c \in Conns, RunRemoveConnect(c)
      PROVE  /\ \A d \in Conns : Kept(d)
             /\ UNCHANGED <<records, entries>>
             /\ at \in {"removeAll", "clear"} => at' = at
  <2>1. PICK info : /\ conn' = [conn EXCEPT ![c] = info]
                    /\ SameOwner(conn[c], info)
    BY <1>0, <1>8, OwnerSteps DEF RunRemoveConnect
  <2>2. \A d \in Conns : Kept(d)
    BY <2>1, KeptUpdate
  <2>3. QED BY <1>8, <2>2 DEF RunRemoveConnect, AnsycRemoveConnect, Running
<1>9. ASSUME NEW c \in Conns,
             \/ Connected(c) \/ ConnectFails(c)
             \/ ClientGivesUp(c) \/ ReadFails(c) \/ ReadOfFreedMapping(c)
      PROVE  /\ \A d \in Conns : Kept(d)
             /\ UNCHANGED <<records, entries>>
             /\ at \in {"removeAll", "clear"} => at' = at
  <2>1. CASE ReadOfFreedMapping(c)
    BY <1>1, <2>1 DEF ReadOfFreedMapping
  <2>2. CASE ~ReadOfFreedMapping(c)
    <3>1. \/ conn' = [conn EXCEPT ![c] = [conn[c] EXCEPT !.bInMap = IN_MAP_SUCC]]
          \/ conn' = [conn EXCEPT ![c] = [BothClosed(conn[c]) EXCEPT !.bInMap = IN_MAP_SUCC]]
          \/ conn' = [conn EXCEPT ![c] = [conn[c] EXCEPT !.up = FALSE]]
          \/ conn' = [conn EXCEPT ![c] = BothClosed(conn[c])]
      BY <1>9, <2>2 DEF Connected, ConnectFails, ClientGivesUp, ReadFails
    <3>2. PICK info : /\ conn' = [conn EXCEPT ![c] = info]
                      /\ SameOwner(conn[c], info)
      BY <1>0, <3>1, OwnerSteps
    <3>3. \A d \in Conns : Kept(d)
      BY <3>2, KeptUpdate
    <3>4. UNCHANGED <<records, entries, at>>
      BY <1>9 DEF Connected, ConnectFails, ClientGivesUp, ReadFails,
                  ReadOfFreedMapping, mappingVars
    <3>5. QED BY <3>3, <3>4
  <2>3. QED BY <2>1, <2>2, <1>9 DEF ReadOfFreedMapping, mappingVars
<1>10. ASSUME NEW c \in Conns, NEW h \in {"client", "server"},
              OneCloseCb(c, h) \/ CloseRecorded(c, h)
       PROVE  /\ \A d \in Conns : Kept(d)
              /\ UNCHANGED <<records, entries>>
              /\ at \in {"removeAll", "clear"} => at' = at
  <2>1. conn' = [conn EXCEPT ![c] = DataCleared(conn[c], h)]
    BY <1>10 DEF OneCloseCb, CloseRecorded
  <2>2. SameOwner(conn[c], DataCleared(conn[c], h))
    BY <1>0, OwnerSteps
  <2>3. \A d \in Conns : Kept(d)
    BY <2>1, <2>2, KeptUpdate
  <2>4. QED BY <1>10, <2>3 DEF OneCloseCb, CloseRecorded, mappingVars
<1>11. CASE StartReading
  <2>1. ccur \in Conns
    BY <1>11 DEF StartReading, ConnTypeOK
  <2>2. BothOpen(conn[ccur]) \in BOOLEAN
    BY DEF BothOpen
  <2>3. conn' = [conn EXCEPT ![ccur] = Reading(conn[ccur], BothOpen(conn[ccur]))]
    BY <1>11, <2>1 DEF StartReading, ConnTypeOK, Reading
  <2>4. SameOwner(conn[ccur], Reading(conn[ccur], BothOpen(conn[ccur])))
    BY <1>0, <2>1, <2>2, OwnerSteps
  <2>5. PICK c \in Conns : c = ccur
    BY <2>1
  <2>6. \A d \in Conns : Kept(d)
    BY <2>3, <2>4, <2>5, KeptUpdate
  <2>7. QED BY <1>11, <2>6 DEF StartReading, mappingVars
<1>12. CASE HandleConnectMsg
  BY <1>1, <1>12 DEF HandleConnectMsg, mappingVars
<1>13. ASSUME NEW m \in Mappings, NEW c \in Conns, AcceptFails(m, c)
       PROVE  /\ \A d \in Conns : Kept(d)
              /\ UNCHANGED <<records, entries>>
              /\ at \in {"removeAll", "clear"} => at' = at
  BY <1>1, <1>13 DEF AcceptFails, mappingVars
<1>14. QED BY <1>2, <1>3, <1>4, <1>5, <1>6, <1>7, <1>8, <1>9, <1>10, <1>11, <1>12,
              <1>13
           DEF RecordStep, TcpNext, TcpProgress, TcpEnvironment

-----------------------------------------------------------------------------
(* Only CloseUnrecorded and EraseRecord free a ConnectInfo.                *)
ReadyToFree(info) ==
    /\ info.client \in {"closing", "closed"} /\ info.server \in {"closing", "closed"}
    /\ "closed" \in {info.client, info.server}
    /\ ~info.connecting

LEMMA FreeStep ==
    ASSUME TypeOK, ConnTypeOK, ConnInv, PlaceInv, [TcpNext]_tcpVars,
           NEW d \in Conns, conn[d].life = "live", conn'[d].life = "freed"
    PROVE  ReadyToFree(conn[d])
<1>0. /\ \A c \in Conns : conn[c] \in Infos /\ InfoInv(conn[c])
      /\ conn \in [Conns -> Infos]
  BY DEF ConnTypeOK, ConnInv
<1>1. CASE ~RecordStep
  BY <1>1, StepShapes DEF Kept, SameOwner
<1>2. CASE RemoveAllOfPort
  BY <1>2 DEF RemoveAllOfPort, connVars
<1>3. CASE CloseAllOfPort
  <2>1. \/ conn'[d] = conn[d]
        \/ conn'[d] = [BothClosed(conn[d]) EXCEPT !.bInMap = NOT_IN_MAP]
    BY <1>3 DEF CloseAllOfPort
  <2>2. conn'[d].life = conn[d].life
    BY <1>0, <2>1 DEF BothClosed, Infos
  <2>3. QED BY <2>2
<1>4. CASE EraseRecord
  <2>1. d = ccur
    BY <1>0, <1>4 DEF EraseRecord
  <2>2. QED BY <1>0, <1>4, <2>1 DEF EraseRecord, PlaceInv, InfoInv, ReadyToFree
<1>5. ASSUME NEW c \in Conns, NEW h \in {"client", "server"}, CloseUnrecorded(c, h)
      PROVE  ReadyToFree(conn[d])
  <2>1. d = c
    BY <1>0, <1>5 DEF CloseUnrecorded
  <2>2. /\ conn[d][h] = "closing" /\ (h = "server" => ~conn[d].connecting)
        /\ ~DataCleared(conn[d], h).cdata /\ ~DataCleared(conn[d], h).sdata
    BY <1>5, <2>1 DEF CloseUnrecorded, LastCloseCb, SocketClosed
  <2>3. CASE h = "client"
    BY <1>0, <2>2, <2>3 DEF InfoInv, Infos, Sockets, DataCleared, ReadyToFree
  <2>4. CASE h = "server"
    BY <1>0, <2>2, <2>4 DEF InfoInv, Infos, Sockets, DataCleared, ReadyToFree
  <2>5. QED BY <2>3, <2>4
<1>6. ASSUME NEW m \in Mappings, NEW c \in Conns, NEW k \in Clients, Accept(m, c, k)
      PROVE  FALSE
  <2>1. conn' = [conn EXCEPT ![c] = Accepted(m, k)]
    BY <1>6 DEF Accept, Accepted
  <2>2. QED BY <1>0, <2>1 DEF Accepted, Unused
<1>7. QED BY <1>1, <1>2, <1>3, <1>4, <1>5, <1>6 DEF RecordStep

(* A ConnectInfo is deleted only when both its sockets are closed and its  *)
(* connect request is answered.                                            *)
THEOREM FreedAfterClose == TcpSpec => FreedWhenClosed
<1>1. TypeOK /\ ConnTypeOK /\ ConnInv /\ PlaceInv /\ [TcpNext]_tcpVars
      => [\A c \in Conns :
             conn[c].life = "live" /\ conn'[c].life = "freed" =>
                 /\ conn[c].client \in {"closing", "closed"}
                 /\ conn[c].server \in {"closing", "closed"}
                 /\ "closed" \in {conn[c].client, conn[c].server}
                 /\ ~conn[c].connecting]_conn
  BY FreeStep DEF ReadyToFree
<1>2. QED BY <1>1, MappingInvariants, ConnInvariants, PTL DEF TcpSpec, FreedWhenClosed

-----------------------------------------------------------------------------
(* The records.  Both properties are needed to keep either: the connection *)
(* that a callback deletes is found in the records because its mapping is  *)
(* live, and a stopped port is cleared because its entry is there.         *)
RecordsInv == RecordsSound /\ RecordsNeedListener

(* What the two say of one record: c is recorded at port p for client k.   *)
RecordOK(c, p, k) ==
    /\ conn[c].life = "live" /\ conn[c].key = k /\ conn[c].bInMap # NOT_IN_MAP
    /\ conn[c].pMapping \in Mappings /\ PortOf[conn[c].pMapping] = p
    /\ p \in entries
    /\ fault = "none" => Held(conn[c].pMapping)

RecordsOK ==
    \A p \in Ports, k \in Clients, c \in Conns :
        records[p][k] = c => RecordOK(c, p, k)

LEMMA RecordByRecord ==
    ConnTypeOK /\ ConnInv => (RecordsInv <=> RecordsOK)
<1> SUFFICES ASSUME ConnTypeOK, ConnInv PROVE RecordsInv <=> RecordsOK
  OBVIOUS
<1> USE TcpAssumption, MappingAssumption
<1>1. ASSUME RecordsInv, NEW p \in Ports, NEW k \in Clients, NEW c \in Conns,
             records[p][k] = c
      PROVE  RecordOK(c, p, k)
  <2>1. c # None /\ c \in Recorded(p)
    BY <1>1 DEF Recorded
  <2>2. /\ conn[c].life = "live" /\ conn[c].key = k /\ conn[c].bInMap # NOT_IN_MAP
        /\ PortOf[conn[c].pMapping] = p /\ p \in entries
    BY <1>1, <2>1 DEF RecordsInv, RecordsSound, PortOfConn
  <2>3. conn[c].pMapping \in Mappings
    BY <2>2 DEF ConnInv, InfoInv
  <2>4. fault = "none" => Held(conn[c].pMapping)
    BY <1>1, <2>1 DEF RecordsInv, RecordsNeedListener, MappingLive, Held
  <2>5. QED BY <2>2, <2>3, <2>4 DEF RecordOK
<1>2. ASSUME RecordsOK PROVE RecordsInv
  <2>1. ASSUME NEW p \in Ports, NEW k \in Clients, records[p][k] # None
        PROVE  records[p][k] \in Conns /\ RecordOK(records[p][k], p, k)
    BY <1>2, <2>1 DEF RecordsOK, ConnTypeOK
  <2>2. RecordsSound
    BY <2>1 DEF RecordsSound, RecordOK, PortOfConn
  <2>3. ASSUME fault = "none", NEW p \in Ports, NEW c \in Recorded(p)
        PROVE  /\ MappingLive(c)
               /\ listen[conn[c].pMapping] = "listening" \/ ClosingDown(conn[c].pMapping)
    <3>1. PICK k \in Clients : records[p][k] = c /\ c # None
      BY <2>3 DEF Recorded
    <3>2. conn[c].pMapping \in Mappings /\ Held(conn[c].pMapping)
      BY <2>1, <2>3, <3>1 DEF RecordOK
    <3>3. QED BY <3>2 DEF Held, MappingLive
  <2>4. RecordsNeedListener
    BY <2>3 DEF RecordsNeedListener
  <2>5. QED BY <2>2, <2>4 DEF RecordsInv
<1>3. QED BY <1>1, <1>2 DEF RecordsOK

LEMMA RecordKept ==
    ASSUME NEW c, NEW p, NEW k, RecordOK(c, p, k), SameOwner(conn[c], conn'[c]),
           entries \subseteq entries', fault' = "none" => fault = "none",
           \A m \in Mappings :
               fault' = "none" /\ m = conn[c].pMapping /\ Held(m) => Held(m)'
    PROVE  RecordOK(c, p, k)'
<1>1. PICK m \in Mappings : m = conn[c].pMapping
  BY DEF RecordOK
<1>2. conn'[c].pMapping = m
  BY <1>1 DEF SameOwner
<1>3. fault' = "none" => Held(m)'
  BY <1>1 DEF RecordOK
<1>4. /\ (conn[c].life = "live" /\ conn[c].key = k /\ conn[c].bInMap # NOT_IN_MAP)'
      /\ PortOf[m] = p /\ p \in entries'
  BY <1>1 DEF RecordOK, SameOwner
<1>5. (fault = "none" => Held(conn[c].pMapping))'
  BY <1>2, <1>3 DEF Held, ClosingDown
<1>6. QED BY <1>1, <1>2, <1>4, <1>5 DEF RecordOK

LEMMA RecordsStep ==
    TypeOK /\ LiveInv /\ ConnTypeOK /\ ConnInv /\ PlaceInv /\ RecordsOK
        /\ [TcpNext]_tcpVars => RecordsOK'
<1> SUFFICES ASSUME TypeOK, LiveInv, ConnTypeOK, ConnInv, PlaceInv, RecordsOK,
                    [TcpNext]_tcpVars,
                    NEW p \in Ports, NEW k \in Clients, NEW c \in Conns,
                    records'[p][k] = c
             PROVE  RecordOK(c, p, k)'
  BY DEF RecordsOK
<1> USE TcpAssumption, MappingAssumption DEF recordVars, placeVars, ConnGoto
<1>1. /\ conn \in [Conns -> Infos] /\ \A d \in Conns : SameOwner(conn[d], conn[d])
      /\ records \in [Ports -> [Clients -> Conns \cup {None}]]
  BY OwnerSteps DEF ConnTypeOK
<1>2. records[p][k] = c => RecordOK(c, p, k)
  BY DEF RecordsOK
<1>3. [Next]_mappingVars
  BY TcpStepIsMappingStep
<1>4. fault' = "none" => fault = "none"
  BY DEF TcpNext, tcpVars, mappingVars
<1>5. CASE ~RecordStep
  <2>1. /\ SameOwner(conn[c], conn'[c])
        /\ UNCHANGED <<records, entries>>
        /\ at \in {"removeAll", "clear"} => at' = at
    BY <1>5, StepShapes DEF Kept
  <2>2. \A m \in Mappings : fault' = "none" /\ Held(m) => Held(m)'
    BY <1>3, <2>1, HeldStep
  <2>3. QED BY <1>2, <1>4, <2>1, <2>2, RecordKept
<1>6. CASE RemoveAllOfPort
  <2>1. /\ UNCHANGED <<conn, records, entries>>
        /\ at = "removeAll" /\ at' \in {"CLEAR", "testDeleting"}
        /\ PortOf[cur] \in entries => at' = "CLEAR"
    BY <1>6 DEF RemoveAllOfPort, RemoveAllConnect, Goto, connVars
  <2>2. \A m \in Mappings :
            fault' = "none" /\ Held(m) /\ PortOf[m] \in entries => Held(m)'
    BY <1>3, <2>1, HeldStep
  <2>3. PortOf[conn[c].pMapping] \in entries
    BY <1>2, <2>1 DEF RecordOK
  <2>4. QED BY <1>1, <1>2, <1>4, <2>1, <2>2, <2>3, RecordKept
<1>7. CASE CloseAllOfPort
  <2>1. /\ at = "clear" /\ entries' = entries
        /\ records' = [records EXCEPT ![PortOf[cur]] = [q \in Clients |-> None]]
        /\ c \notin Recorded(PortOf[cur]) => conn'[c] = conn[c]
    BY <1>1, <1>7 DEF CloseAllOfPort, ClearRecords
  <2>2. p # PortOf[cur] /\ records[p][k] = c
    BY <1>1, <2>1
  <2>3. PortOf[conn[c].pMapping] = p
    BY <1>2, <2>2 DEF RecordOK
  <2>4. \A m \in Mappings : fault' = "none" /\ Held(m) /\ m # cur => Held(m)'
    BY <1>3, <2>1, HeldStep
  <2>5. c \notin Recorded(PortOf[cur])
    <3>1. PortOf[cur] \in Ports
      BY <2>1 DEF TypeOK
    <3>2. QED BY <2>2, <2>3, <3>1 DEF Recorded, RecordsOK, RecordOK
  <2>6. QED BY <1>1, <1>2, <1>4, <2>1, <2>2, <2>3, <2>4, <2>5, RecordKept
<1>8. CASE EraseRecord
  <2>1. /\ UNCHANGED <<mappingVars, entries>>
        /\ records' = [records EXCEPT ![PortOfConn(ccur)][conn[ccur].key] = None]
        /\ c # ccur => conn'[c] = conn[c]
    BY <1>1, <1>8 DEF EraseRecord
  <2>2. records[p][k] = c /\ ~(p = PortOfConn(ccur) /\ k = conn[ccur].key)
    BY <1>1, <2>1
  <2>3. c # ccur
    BY <1>2, <2>2 DEF RecordOK, PortOfConn
  <2>4. \A m : Held(m)' <=> Held(m)
    BY <2>1 DEF Held, ClosingDown, mappingVars
  <2>5. QED BY <1>1, <1>2, <1>4, <2>1, <2>2, <2>3, <2>4, RecordKept
<1>9. ASSUME NEW d \in Conns, NEW h \in {"client", "server"}, CloseUnrecorded(d, h)
      PROVE  RecordOK(c, p, k)'
  <2>1. /\ FoundRecord(d) = None /\ UNCHANGED <<mappingVars, records, entries>>
        /\ c # d => conn'[c] = conn[c]
    BY <1>1, <1>9 DEF CloseUnrecorded
  <2>2. fault = "none"
    <3>1. conn[d][h] = "closing" /\ conn'[d] = Freed
      BY <1>1, <1>9 DEF CloseUnrecorded, LastCloseCb, SocketClosed
    <3>2. conn[d] # Freed
      BY <1>1, <3>1 DEF Freed, Unused
    <3>3. QED BY <3>1, <3>2 DEF TcpNext, tcpVars, connVars
  <2>3. c # d
    BY <1>2, <2>1, <2>2 DEF FoundRecord, MappingLive, Held, PortOfConn, RecordOK
  <2>4. \A m : Held(m)' <=> Held(m)
    BY <2>1 DEF Held, ClosingDown, mappingVars
  <2>5. QED BY <1>1, <1>2, <1>4, <2>1, <2>3, <2>4, RecordKept
<1>10. ASSUME NEW m \in Mappings, NEW d \in Conns, NEW q \in Clients, Accept(m, d, q)
       PROVE  RecordOK(c, p, k)'
  <2>1. /\ conn[d].life = "unused" /\ listen[m] = "listening"
        /\ UNCHANGED mappingVars /\ entries' = entries \cup {PortOf[m]}
        /\ \/ records' = records
           \/ records' = [records EXCEPT ![PortOf[m]][q] = d]
    BY <1>10 DEF Accept, Accepts
  <2>2. \A n : Held(n)' <=> Held(n)
    BY <2>1 DEF Held, ClosingDown, mappingVars
  <2>3. conn' = [conn EXCEPT ![d] = Accepted(m, q)]
    BY <1>10 DEF Accept, Accepted
  <2>4. CASE records[p][k] = c
    <3>1. c # d
      BY <1>2, <2>1, <2>4 DEF RecordOK
    <3>2. conn'[c] = conn[c]
      BY <1>1, <2>3, <3>1
    <3>3. QED BY <1>1, <1>2, <1>4, <2>1, <2>2, <2>4, <3>2, RecordKept
  <2>5. CASE records[p][k] # c
    <3>1. c = d /\ p = PortOf[m] /\ k = q
      BY <1>1, <2>1, <2>5
    <3>2. conn'[c] = Accepted(m, k)
      BY <1>1, <2>3, <3>1
    <3>3. /\ Accepted(m, k).life = "live" /\ Accepted(m, k).key = k
          /\ Accepted(m, k).pMapping = m /\ Accepted(m, k).bInMap # NOT_IN_MAP
      BY DEF Accepted, Unused, NOT_IN_MAP, IN_MAP_WAIT
    <3>4. fault' = "none" => Held(m)'
      BY <1>4, <2>1, <2>2 DEF Held, LiveInv, OpenIsLive, Open
    <3>5. (fault = "none" => Held(conn[c].pMapping))'
      BY <3>2, <3>3, <3>4 DEF Held, ClosingDown
    <3>6. QED BY <2>1, <3>1, <3>2, <3>3, <3>5 DEF RecordOK
  <2>6. QED BY <2>4, <2>5
<1>11. QED BY <1>5, <1>6, <1>7, <1>8, <1>9, <1>10 DEF RecordStep

LEMMA Records == TcpSpec => []RecordsInv
<1>1. TcpInit => RecordsOK
  BY TcpAssumption DEF TcpInit, RecordsOK
<1>2. QED BY <1>1, RecordsStep, RecordByRecord, MappingInvariants, ConnInvariants, PTL
          DEF TcpSpec

(* The records point only to live connections of their port and client.    *)
THEOREM RecordsAreSound == TcpSpec => []RecordsSound
<1>1. RecordsInv => RecordsSound
  BY DEF RecordsInv
<1>2. QED BY <1>1, Records, PTL

(* A stopped or removed mapping has no connection in the records.          *)
THEOREM StoppedHasNoRecords == TcpSpec => []RecordsNeedListener
<1>1. RecordsInv => RecordsNeedListener
  BY DEF RecordsInv
<1>2. QED BY <1>1, Records, PTL

-----------------------------------------------------------------------------
(* The refinement of ConnectionLife and ConnectFeed.                       *)

(* The step of the model is allowed for, or leaves alone, connection d.    *)
LifeKept(d) == [Life(d)!LifeNext]_(Life(d)!lifeVars)

(* The data pointers are set only in a live ConnectInfo; the callback that *)
(* goes on after a message to the window still has the connection as it    *)
(* left it: a connect request being answered, or two sockets that point to *)
(* the ConnectInfo no more.                                                *)
DataOfLive == \A c \in Conns :
    conn[c].life # "live" => ~conn[c].cdata /\ ~conn[c].sdata

PlaceData ==
    /\ cat \in {"CHANGE", "read"} => conn[ccur].connecting
    /\ cat \in {"DELETE", "erase"} => ~conn[ccur].cdata /\ ~conn[ccur].sdata

LEMMA SameInfo ==
    ASSUME NEW d, conn'[d] = conn[d]
    PROVE  LifeKept(d)
BY DEF LifeKept, Life!lifeVars

(* Most callbacks change one ConnectInfo.                                  *)
LEMMA OneInfo ==
    ASSUME ConnTypeOK, NEW c \in Conns, NEW info, conn' = [conn EXCEPT ![c] = info],
           LifeKept(c)
    PROVE  \A d \in Conns : LifeKept(d)
<1>1. ASSUME NEW d \in Conns, d # c PROVE conn'[d] = conn[d]
  BY <1>1 DEF ConnTypeOK
<1>2. QED BY <1>1, SameInfo

(* uv_close on both sockets, from any of the places that call it.          *)
LEMMA ClosingKeepsLife ==
    ASSUME ConnTypeOK, ConnInv, NEW c \in Conns,
           \/ conn'[c] = BothClosed(conn[c])
           \/ \E b : conn'[c] = [BothClosed(conn[c]) EXCEPT !.bInMap = b],
           conn[c].life = "live"
    PROVE  LifeKept(c)
<1>1. conn[c] \in Infos
  BY DEF ConnTypeOK
<1>2. /\ conn'[c].client = Closing(conn[c].client)
      /\ conn'[c].server = Closing(conn[c].server)
      /\ conn'[c].cdata /\ conn'[c].sdata /\ ~conn'[c].reading
      /\ conn'[c].life = conn[c].life /\ conn'[c].connecting = conn[c].connecting
  BY <1>1 DEF BothClosed, Infos
<1>3. Life(c)!Removed
  BY <1>2 DEF Life!Removed, Life!BothClosed, Life!ClosedOnce, Closing
<1>4. QED BY <1>3 DEF LifeKept, Life!LifeNext

-----------------------------------------------------------------------------
(* Every step keeps to the life of every connection.                       *)
LEMMA LifeStep ==
    TypeOK /\ ConnTypeOK /\ ConnInv /\ PlaceInv /\ RecordsSound /\ DataOfLive
        /\ PlaceData /\ [TcpNext]_tcpVars => \A d \in Conns : LifeKept(d)
<1> SUFFICES ASSUME TypeOK, ConnTypeOK, ConnInv, PlaceInv, RecordsSound, DataOfLive,
                    PlaceData, [TcpNext]_tcpVars
             PROVE  \A d \in Conns : LifeKept(d)
  OBVIOUS
<1>0. /\ \A c \in Conns : conn[c] \in Infos /\ InfoInv(conn[c])
      /\ conn \in [Conns -> Infos]
      /\ cat # "idle" => ccur \in Conns
  BY DEF ConnTypeOK, ConnInv
<1>1. CASE UNCHANGED conn
  BY <1>1, SameInfo
<1>2. CASE \/ UNCHANGED tcpVars \/ MappingProgress \/ MappingRequests
           \/ (\E m \in Mappings : SendAllConnect(m))
           \/ RemoveAllOfPort \/ HandleClear \/ HandleConnectMsg
           \/ (\E c \in Conns : UserRemovesConnect(c) \/ ReadOfFreedMapping(c))
           \/ (\E m \in Mappings, c \in Conns : AcceptFails(m, c))
  BY <1>1, <1>2 DEF tcpVars, connVars, MappingProgress, MappingRequests, SendAllConnect,
        RemoveAllOfPort, HandleClear, HandleConnectMsg, UserRemovesConnect,
        ReadOfFreedMapping, AcceptFails
<1>3. CASE CloseAllOfPort
  <2> SUFFICES ASSUME NEW d \in Conns PROVE LifeKept(d)
    OBVIOUS
  <2>1. CASE d \in Recorded(PortOf[cur])
    <3>1. conn[d].life = "live"
      <4>1. PortOf[cur] \in Ports
        BY <1>3, MappingAssumption DEF CloseAllOfPort, ClearRecords, TypeOK
      <4>2. QED BY <2>1, <4>1 DEF Recorded, RecordsSound
    <3>2. conn'[d] = [BothClosed(conn[d]) EXCEPT !.bInMap = NOT_IN_MAP]
      BY <1>3, <2>1 DEF CloseAllOfPort
    <3>3. QED BY <3>1, <3>2, ClosingKeepsLife
  <2>2. CASE d \notin Recorded(PortOf[cur])
    BY <1>3, <2>2, SameInfo DEF CloseAllOfPort
  <2>3. QED BY <2>1, <2>2
<1>4. ASSUME NEW c \in Conns, RunRemoveConnect(c) PROVE \A d \in Conns : LifeKept(d)
  <2>1. CASE conn[c].life = "live"
    <3>1. conn' = [conn EXCEPT ![c] = BothClosed(conn[c])]
      BY <1>4, <2>1 DEF RunRemoveConnect
    <3>2. LifeKept(c)
      BY <1>0, <2>1, <3>1, ClosingKeepsLife
    <3>3. QED BY <3>1, <3>2, OneInfo
  <2>2. CASE conn[c].life # "live"
    BY <1>0, <1>1, <1>4, <2>2 DEF RunRemoveConnect
  <2>3. QED BY <2>1, <2>2
<1>5. ASSUME NEW c \in Conns, Connected(c) \/ ClientGivesUp(c)
      PROVE  \A d \in Conns : LifeKept(d)
  <2>1. PICK info : /\ conn' = [conn EXCEPT ![c] = info]
                    /\ info \in {[conn[c] EXCEPT !.bInMap = IN_MAP_SUCC],
                                 [conn[c] EXCEPT !.up = FALSE]}
    BY <1>5 DEF Connected, ClientGivesUp
  <2>2. /\ info.life = conn[c].life /\ info.connecting = conn[c].connecting
        /\ info.client = conn[c].client /\ info.server = conn[c].server
        /\ info.cdata = conn[c].cdata /\ info.sdata = conn[c].sdata
        /\ info.reading = conn[c].reading
    BY <1>0, <2>1 DEF Infos
  <2>3. LifeKept(c)
    BY <1>0, <2>1, <2>2 DEF LifeKept, Life!lifeVars
  <2>4. QED BY <2>1, <2>3, OneInfo
<1>6. ASSUME NEW c \in Conns, ConnectFails(c) \/ ReadFails(c)
      PROVE  \A d \in Conns : LifeKept(d)
  <2>1. conn[c].life = "live"
    BY <1>0, <1>6 DEF ConnectFails, ConnectAnswered, ReadFails, InfoInv
  <2>2. CASE ConnectFails(c)
    <3>1. conn' = [conn EXCEPT ![c] = [BothClosed(conn[c]) EXCEPT !.bInMap = IN_MAP_SUCC]]
      BY <2>2 DEF ConnectFails
    <3>2. conn'[c] = [BothClosed(conn[c]) EXCEPT !.bInMap = IN_MAP_SUCC]
      BY <1>0, <3>1
    <3>3. QED BY <2>1, <3>1, <3>2, ClosingKeepsLife, OneInfo
  <2>3. CASE ReadFails(c)
    <3>1. conn' = [conn EXCEPT ![c] = BothClosed(conn[c])]
      BY <2>3 DEF ReadFails
    <3>2. conn'[c] = BothClosed(conn[c])
      BY <1>0, <3>1
    <3>3. QED BY <2>1, <3>1, <3>2, ClosingKeepsLife, OneInfo
  <2>4. QED BY <1>6, <2>2, <2>3
<1>7. ASSUME NEW c \in Conns, NEW h \in {"client", "server"},
             OneCloseCb(c, h) \/ CloseRecorded(c, h)
      PROVE  \A d \in Conns : LifeKept(d)
  <2>1. /\ conn' = [conn EXCEPT ![c] = DataCleared(conn[c], h)]
        /\ conn[c][h] = "closing" /\ (h = "server" => ~conn[c].connecting)
    BY <1>7 DEF OneCloseCb, CloseRecorded, LastCloseCb, SocketClosed
  <2>2. conn'[c] = DataCleared(conn[c], h)
    BY <1>0, <2>1
  <2>3. CASE h = "client"
    <3>1. Life(c)!ClientClosed
      BY <1>0, <2>1, <2>2, <2>3 DEF DataCleared, Infos, Life!ClientClosed
    <3>2. QED BY <2>1, <3>1, OneInfo DEF LifeKept, Life!LifeNext
  <2>4. CASE h = "server"
    <3>1. Life(c)!ServerClosed
      BY <1>0, <2>1, <2>2, <2>4 DEF DataCleared, Infos, Life!ServerClosed
    <3>2. QED BY <2>1, <3>1, OneInfo DEF LifeKept, Life!LifeNext
  <2>5. QED BY <2>3, <2>4
<1>8. ASSUME NEW c \in Conns, NEW h \in {"client", "server"}, CloseUnrecorded(c, h)
      PROVE  \A d \in Conns : LifeKept(d)
  <2>1. /\ conn' = [conn EXCEPT ![c] = Freed]
        /\ conn[c][h] = "closing" /\ (h = "server" => ~conn[c].connecting)
        /\ ~DataCleared(conn[c], h).cdata /\ ~DataCleared(conn[c], h).sdata
    BY <1>8 DEF CloseUnrecorded, LastCloseCb, SocketClosed
  <2>2. conn'[c] = Freed
    BY <1>0, <2>1
  <2>3. Life(c)!Emptied
    BY <2>2 DEF Life!Emptied, Freed, Unused
  <2>4. CASE h = "client"
    <3>1. ~conn[c].sdata /\ conn[c].server = "closed" /\ conn[c].client = "closing"
      BY <1>0, <2>1, <2>4 DEF DataCleared, Infos, Sockets, InfoInv
    <3>2. conn[c].life = "live" /\ ~conn[c].connecting
      BY <1>0, <3>1 DEF InfoInv
    <3>3. QED BY <2>1, <2>3, <3>1, <3>2, OneInfo DEF LifeKept, Life!LifeNext, Life!Deleted
  <2>5. CASE h = "server"
    <3>1. ~conn[c].cdata /\ conn[c].client = "closed" /\ conn[c].server = "closing"
      BY <1>0, <2>1, <2>5 DEF DataCleared, Infos, Sockets, InfoInv
    <3>2. conn[c].life = "live" /\ ~conn[c].connecting
      BY <1>0, <2>1, <2>5, <3>1 DEF InfoInv
    <3>3. QED BY <2>1, <2>3, <3>1, <3>2, OneInfo DEF LifeKept, Life!LifeNext, Life!Deleted
  <2>6. QED BY <2>4, <2>5
<1>9. CASE StartReading
  <2>1. PICK c \in Conns : c = ccur
    BY <1>0, <1>9 DEF StartReading
  <2>2. conn' = [conn EXCEPT ![c] = Reading(conn[c], BothOpen(conn[c]))]
    BY <1>9, <2>1 DEF StartReading, ConnTypeOK, Reading
  <2>3. conn'[c] = Reading(conn[c], BothOpen(conn[c]))
    BY <1>0, <2>2
  <2>4. conn[c].connecting
    BY <1>9, <2>1 DEF StartReading, PlaceData
  <2>5. Life(c)!StartedReading
    BY <1>0, <2>3, <2>4 DEF Reading, BothOpen, Infos, Life!StartedReading
  <2>6. QED BY <2>2, <2>5, OneInfo DEF LifeKept, Life!LifeNext
<1>10. CASE EraseRecord
  <2>1. PICK c \in Conns : c = ccur
    BY <1>0, <1>10 DEF EraseRecord
  <2>2. conn' = [conn EXCEPT ![c] = Freed] /\ conn'[c] = Freed
    BY <1>0, <1>10, <2>1 DEF EraseRecord
  <2>3. /\ conn[c].life = "live" /\ ~conn[c].connecting
        /\ conn[c].client = "closed" /\ conn[c].server = "closed"
        /\ ~conn[c].cdata /\ ~conn[c].sdata
    BY <1>0, <1>10, <2>1 DEF EraseRecord, PlaceInv, PlaceData, InfoInv
  <2>4. Life(c)!Emptied
    BY <2>2 DEF Life!Emptied, Freed, Unused
  <2>5. QED BY <2>2, <2>3, <2>4, OneInfo DEF LifeKept, Life!LifeNext, Life!Deleted
<1>11. ASSUME NEW m \in Mappings, NEW c \in Conns, NEW k \in Clients, Accept(m, c, k)
       PROVE  \A d \in Conns : LifeKept(d)
  <2>1. conn' = [conn EXCEPT ![c] = Accepted(m, k)] /\ conn[c].life = "unused"
    BY <1>11 DEF Accept, Accepted, Accepts
  <2>2. conn'[c] = Accepted(m, k)
    BY <1>0, <2>1
  <2>3. ~conn[c].cdata /\ ~conn[c].sdata /\ ~conn[c].reading
    BY <1>0, <2>1 DEF DataOfLive, InfoInv
  <2>4. Life(c)!Accepted
    BY <1>0, <2>1, <2>2, <2>3 DEF Accepted, Unused, Infos, Life!Accepted
  <2>5. QED BY <2>1, <2>4, OneInfo DEF LifeKept, Life!LifeNext
<1>12. QED BY <1>2, <1>3, <1>4, <1>5, <1>6, <1>7, <1>8, <1>9, <1>10, <1>11
           DEF TcpNext, TcpProgress, TcpEnvironment

(* What the life allows leaves the data pointers of the others unset.      *)
LEMMA DataStep ==
    ConnInv /\ DataOfLive /\ (\A d \in Conns : LifeKept(d)) => DataOfLive'
<1> SUFFICES ASSUME ConnInv, DataOfLive, \A d \in Conns : LifeKept(d),
                    NEW c \in Conns, conn'[c].life # "live"
             PROVE  ~conn'[c].cdata /\ ~conn'[c].sdata
  BY DEF DataOfLive
<1>1. LifeKept(c) /\ InfoInv(conn[c])
      /\ (conn[c].life # "live" => ~conn[c].cdata /\ ~conn[c].sdata)
  BY DEF ConnInv, DataOfLive
<1>2. QED BY <1>1 DEF LifeKept, InfoInv, Life!LifeNext, Life!lifeVars, Life!Accepted,
        Life!ConnectFailed, Life!StartedReading, Life!ReadEnded, Life!Removed,
        Life!BothClosed, Life!ClientClosed, Life!ServerClosed, Life!Deleted, Life!Emptied

(* The callbacks that tell the window start from such a connection, and    *)
(* until they go on it is touched only by its client giving up.            *)
LEMMA PlaceDataStep ==
    ConnTypeOK /\ ConnInv /\ PlaceInv /\ PlaceData /\ [TcpNext]_tcpVars => PlaceData'
<1> SUFFICES ASSUME ConnTypeOK, ConnInv, PlaceInv, PlaceData, [TcpNext]_tcpVars
             PROVE  PlaceData'
  OBVIOUS
<1> USE DEF placeVars, ConnGoto, LoopIdle, ConnIdle, PlaceData
<1>0. /\ \A c \in Conns : conn[c] \in Infos
      /\ conn \in [Conns -> Infos]
      /\ cat # "idle" => ccur \in Conns
  BY DEF ConnTypeOK
<1>1. CASE UNCHANGED <<conn, cat, ccur>>
  BY <1>1
<1>2. CASE cat' \in {"idle", "ADD"}
  BY <1>2
<1>3. CASE \/ UNCHANGED tcpVars \/ MappingProgress \/ MappingRequests
           \/ (\E m \in Mappings : SendAllConnect(m))
           \/ RemoveAllOfPort \/ HandleClear
           \/ (\E c \in Conns : UserRemovesConnect(c) \/ ReadOfFreedMapping(c))
           \/ (\E m \in Mappings, c \in Conns : AcceptFails(m, c))
  BY <1>1, <1>3 DEF tcpVars, connVars, MappingProgress, MappingRequests, SendAllConnect,
        RemoveAllOfPort, HandleClear, UserRemovesConnect, ReadOfFreedMapping, AcceptFails
<1>4. CASE \/ StartReading \/ EraseRecord
           \/ \E m \in Mappings, c \in Conns, k \in Clients : Accept(m, c, k)
  BY <1>2, <1>4 DEF StartReading, EraseRecord, Accept
<1>5. ASSUME NEW c \in Conns, NEW h \in {"client", "server"},
             \/ RunRemoveConnect(c) \/ ReadFails(c)
             \/ OneCloseCb(c, h) \/ CloseUnrecorded(c, h)
      PROVE  PlaceData'
  BY <1>2, <1>5 DEF RunRemoveConnect, ReadFails, OneCloseCb, CloseUnrecorded,
        LastCloseCb, SocketClosed
<1>6. CASE CloseAllOfPort
  <2>1. cat' = "idle"
    BY <1>6 DEF CloseAllOfPort, ClearRecords, PlaceInv
  <2>2. QED BY <1>2, <2>1
<1>7. ASSUME NEW c \in Conns, Connected(c) \/ ConnectFails(c) PROVE PlaceData'
  <2>1. cat' = "CHANGE" /\ ccur' = c /\ conn[c].connecting
    BY <1>7 DEF Connected, ConnectFails, ConnectAnswered
  <2>2. \/ conn'[c] = [conn[c] EXCEPT !.bInMap = IN_MAP_SUCC]
        \/ conn'[c] = [BothClosed(conn[c]) EXCEPT !.bInMap = IN_MAP_SUCC]
    BY <1>0, <1>7 DEF Connected, ConnectFails
  <2>3. conn'[c].connecting
    BY <1>0, <2>1, <2>2 DEF BothClosed, Infos
  <2>4. QED BY <2>1, <2>3
<1>8. ASSUME NEW c \in Conns, ClientGivesUp(c) PROVE PlaceData'
  <2>1. \A d \in Conns : /\ conn'[d].connecting = conn[d].connecting
                         /\ conn'[d].cdata = conn[d].cdata
                         /\ conn'[d].sdata = conn[d].sdata
    BY <1>0, <1>8 DEF ClientGivesUp, Infos
  <2>2. QED BY <1>0, <1>8, <2>1 DEF ClientGivesUp
<1>9. ASSUME NEW c \in Conns, NEW h \in {"client", "server"}, CloseRecorded(c, h)
      PROVE  PlaceData'
  <2>1. /\ cat' = "DELETE" /\ ccur' = c
        /\ conn' = [conn EXCEPT ![c] = DataCleared(conn[c], h)]
        /\ ~DataCleared(conn[c], h).cdata /\ ~DataCleared(conn[c], h).sdata
    BY <1>9 DEF CloseRecorded, LastCloseCb
  <2>2. QED BY <1>0, <2>1
<1>10. CASE HandleConnectMsg
  <2>1. /\ conn' = conn
        /\ \/ cat' = "idle"
           \/ cat = "CHANGE" /\ cat' = "read" /\ ccur' = ccur
           \/ cat = "DELETE" /\ cat' = "erase" /\ ccur' = ccur
    BY <1>10 DEF HandleConnectMsg, ConnSends
  <2>2. QED BY <2>1
<1>11. QED BY <1>3, <1>4, <1>5, <1>6, <1>7, <1>8, <1>9, <1>10
           DEF TcpNext, TcpProgress, TcpEnvironment

(* Nothing happens to a connection that ConnectionLife does not allow, so  *)
(* whatever holds of every such life holds of every connection.            *)
THEOREM TcpImplementsLife == TcpSpec => ImplementsLife
<1>1. TcpInit => DataOfLive /\ PlaceData /\ \A c \in Conns : Life(c)!LifeInit
  BY DEF TcpInit, Unused, DataOfLive, PlaceData, Life!LifeInit
<1>2. TypeOK /\ ConnTypeOK /\ ConnInv /\ PlaceInv /\ RecordsSound /\ DataOfLive
          /\ PlaceData /\ [TcpNext]_tcpVars => DataOfLive' /\ PlaceData'
  BY LifeStep, DataStep, PlaceDataStep
<1>3. TypeOK /\ ConnTypeOK /\ ConnInv /\ PlaceInv /\ RecordsSound /\ DataOfLive
          /\ PlaceData /\ [TcpNext]_tcpVars
          => [\A c \in Conns : [Life(c)!LifeNext]_(Life(c)!lifeVars)]_tcpVars
  BY LifeStep DEF LifeKept
<1>4. QED BY <1>1, <1>2, <1>3, MappingInvariants, ConnInvariants, RecordsAreSound, PTL
          DEF TcpSpec, ImplementsLife

-----------------------------------------------------------------------------
(* Where asserts are compiled in, and until one fails.  The callback that  *)
(* works on connection c is at Here(c).                                    *)
Good == Debug /\ NoFault

Here(c) == IF ccur = c THEN cat ELSE "idle"

(* A port belongs to one mapping at a time.                                *)
OnePort == \A m, n \in Mappings :
    alloc[m] = "live" /\ alloc[n] = "live" /\ PortOf[m] = PortOf[n] => m = n

(* bInMap tells the truth about the records, an open connection is         *)
(* recorded, and one whose connect request is answered is marked so.       *)
Settled(c) ==
    /\ conn[c].life # "live" => conn[c].pMapping = None
    /\ conn[c].reading => conn[c].server = "open"
    /\ conn[c].life = "live" =>
          /\ conn[c].bInMap # NOT_IN_MAP => records[PortOfConn(c)][conn[c].key] = c
          /\ conn[c].server = "open" => conn[c].bInMap # NOT_IN_MAP
          /\ ~conn[c].connecting => conn[c].bInMap # IN_MAP_WAIT
          /\ conn[c].connecting /\ conn[c].bInMap = IN_MAP_SUCC
                => Here(c) \in {"CHANGE", "read"}
    /\ Here(c) \in {"CHANGE", "read", "DELETE", "erase"} => conn[c].bInMap = IN_MAP_SUCC

AllSettled == Good => \A c \in Conns : Settled(c)

LEMMA OnePortStep == TypeOK /\ OnePort /\ [Next]_mappingVars => OnePort'
<1> SUFFICES ASSUME TypeOK, OnePort, [Next]_mappingVars PROVE OnePort'
  OBVIOUS
<1>1. ASSUME NEW m \in Mappings, AddMapping(m) PROVE OnePort'
  BY <1>1 DEF AddMapping, OnePort, TypeOK
<1>2. CASE Erase
  BY <1>2 DEF Erase, OnePort, TypeOK
<1>3. CASE UNCHANGED alloc
  BY <1>3 DEF OnePort
<1>4. CASE UNCHANGED mappingVars \/ Requests \/ Progress \/ RemoveStore
           \/ \E m \in Mappings : ListenFails(m)
  BY <1>1, <1>2, <1>3, <1>4 DEF mappingVars, Requests, StartMapping, StopMapping,
     GetAllConnect, RemoveMapping, RemoveConnect, RemoveStore, ListenFails, Progress,
     TakeBatch, RunWork, RunFreed, StartIgnored, StartOnOpenHandle, AnsycStartMapping,
     StopStopped, StopHandle, AnsycGetAllConnect, listen_close_cb, AnsycRemoveConnect,
     RemoveAllConnect, ClearRecords, TestDeleting, LoadState, StoreOr, StoreAnd,
     HandleMappingMsg
<1>5. QED BY <1>4 DEF Next

LEMMA PortsDistinct == TcpSpec => []OnePort
<1>1. Init => OnePort
  BY DEF Init, OnePort
<1>2. Spec => []OnePort
  BY <1>1, OnePortStep, TypeCorrect, PTL DEF Spec
<1>3. QED BY <1>2, TcpImplementsMapping, PTL

(* What keeps one connection settled.                                      *)
LEMMA SettledFrame ==
    ASSUME NEW d, Settled(d), conn'[d] = conn[d], Here(d)' = Here(d),
           conn[d].life = "live" /\ conn[d].bInMap # NOT_IN_MAP
               => records'[PortOfConn(d)][conn[d].key] = records[PortOfConn(d)][conn[d].key]
    PROVE  Settled(d)'
BY DEF Settled, PortOfConn, Here

LEMMA SettledStep ==
    TypeOK /\ ConnTypeOK /\ ConnInv /\ PlaceInv /\ PlaceData /\ AllSettled
        /\ [TcpNext]_tcpVars => AllSettled'
<1> SUFFICES ASSUME TypeOK, ConnTypeOK, ConnInv, PlaceInv, PlaceData, AllSettled,
                    [TcpNext]_tcpVars, Good', NEW d \in Conns
             PROVE  Settled(d)'
  BY DEF AllSettled
<1> USE TcpAssumption, MappingAssumption
    DEF recordVars, placeVars, ConnGoto, LoopIdle, Idle, ConnIdle
<1>0. /\ \A c \in Conns : conn[c] \in Infos /\ InfoInv(conn[c])
      /\ conn \in [Conns -> Infos]
      /\ records \in [Ports -> [Clients -> Conns \cup {None}]]
      /\ cat # "idle" <=> ccur \in Conns
  BY DEF ConnTypeOK, ConnInv
<1>1. Good /\ Settled(d) /\ \A c \in Conns : Settled(c)
  BY DEF AllSettled, Good, NoFault, TcpNext, tcpVars, mappingVars, connVars
<1>2. CASE UNCHANGED <<conn, records, cat, ccur>>
  BY <1>1, <1>2, SettledFrame DEF Here
<1>3. CASE \/ UNCHANGED tcpVars \/ MappingProgress \/ MappingRequests
           \/ (\E m \in Mappings : SendAllConnect(m))
           \/ RemoveAllOfPort \/ HandleClear
           \/ (\E c \in Conns : UserRemovesConnect(c) \/ ReadOfFreedMapping(c))
           \/ (\E m \in Mappings, c \in Conns : AcceptFails(m, c))
  BY <1>2, <1>3 DEF tcpVars, connVars, MappingProgress, MappingRequests, SendAllConnect,
        RemoveAllOfPort, HandleClear, UserRemovesConnect, ReadOfFreedMapping, AcceptFails
<1>4. ASSUME NEW c \in Conns, NEW info,
             conn' = [conn EXCEPT ![c] = info], d # c, records' = records,
             cat = "idle" \/ ccur = c, cat' = "idle" \/ ccur' = c
      PROVE  Settled(d)'
  <2>1. conn'[d] = conn[d] /\ Here(d) = "idle" /\ Here(d)' = "idle"
    BY <1>0, <1>4 DEF Here
  <2>2. QED BY <1>1, <1>4, <2>1, SettledFrame
<1>5. ASSUME NEW c \in Conns, NEW info, info \in {BothClosed(conn[c]), conn[c]},
             conn' = [conn EXCEPT ![c] = info], UNCHANGED <<records, cat, ccur>>
      PROVE  Settled(d)'
  <2>1. CASE d = c
    <3>1. conn'[d] = info /\ Here(d)' = Here(d)
      BY <1>0, <1>5, <2>1 DEF Here
    <3>2. /\ info.life = conn[d].life /\ info.pMapping = conn[d].pMapping
          /\ info.key = conn[d].key /\ info.bInMap = conn[d].bInMap
          /\ info.connecting = conn[d].connecting
          /\ info.server = "open" => conn[d].server = "open"
          /\ info.reading => info.server = "open"
      BY ZenonT(40), <1>0, <1>1, <1>5, <2>1 DEF BothClosed, Closing, Infos, Settled
    <3>3. QED BY <1>1, <1>5, <3>1, <3>2 DEF Settled, PortOfConn
  <2>2. CASE d # c
    <3>1. conn'[d] = conn[d] /\ Here(d)' = Here(d)
      BY <1>0, <1>5, <2>2 DEF Here
    <3>2. QED BY <1>1, <1>5, <3>1, SettledFrame
  <2>3. QED BY <2>1, <2>2
<1>6. ASSUME NEW c \in Conns, RunRemoveConnect(c) \/ ReadFails(c) PROVE Settled(d)'
  <2>1. PICK info : /\ info \in {BothClosed(conn[c]), conn[c]}
                    /\ conn' = [conn EXCEPT ![c] = info]
    BY <1>0, <1>6 DEF RunRemoveConnect, ReadFails
  <2>2. QED BY <1>5, <1>6, <2>1 DEF RunRemoveConnect, ReadFails
<1>7. ASSUME NEW c \in Conns, ClientGivesUp(c) PROVE Settled(d)'
  <2>1. conn'[d] = conn[d] \/ conn'[d] = [conn[d] EXCEPT !.up = FALSE]
    BY <1>0, <1>7 DEF ClientGivesUp
  <2>2. /\ conn'[d].life = conn[d].life /\ conn'[d].pMapping = conn[d].pMapping
        /\ conn'[d].key = conn[d].key /\ conn'[d].bInMap = conn[d].bInMap
        /\ conn'[d].connecting = conn[d].connecting
        /\ conn'[d].server = conn[d].server /\ conn'[d].reading = conn[d].reading
    BY <1>0, <2>1 DEF Infos
  <2>3. records' = records /\ Here(d)' = Here(d)
    BY <1>7 DEF ClientGivesUp, Here
  <2>4. QED BY <1>1, <2>2, <2>3 DEF Settled, PortOfConn
<1>8. ASSUME NEW c \in Conns, Connected(c) \/ ConnectFails(c) PROVE Settled(d)'
  <2>1. /\ cat = "idle" /\ cat' = "CHANGE" /\ ccur' = c /\ records' = records
        /\ conn[c].connecting
    BY <1>8 DEF Connected, ConnectFails, ConnectAnswered
  <2>2. PICK info : /\ info \in {conn[c], BothClosed(conn[c])}
                    /\ conn' = [conn EXCEPT ![c] = [info EXCEPT !.bInMap = IN_MAP_SUCC]]
    BY <1>0, <1>8 DEF Connected, ConnectFails
  <2>3. CASE d = c
    <3>1. conn[c].life = "live" /\ conn[c].server = "open"
      BY <1>0, <1>1, <1>8, <2>1
         DEF Connected, ConnectFails, Good, NoFault, BothOpen, InfoInv
    <3>2. conn[c].bInMap # NOT_IN_MAP /\ records[PortOfConn(c)][conn[c].key] = c
      BY <1>1, <3>1 DEF Settled
    <3>3. /\ info \in Infos /\ info.life = "live" /\ info.pMapping = conn[c].pMapping
          /\ info.key = conn[c].key /\ info.connecting
          /\ info.reading => info.server = "open"
      <4>1. conn[c].reading => conn[c].server = "open"
        BY <1>1 DEF Settled
      <4>2. CASE info = conn[c]
        BY <1>0, <2>1, <3>1, <4>1, <4>2
      <4>3. CASE info = BothClosed(conn[c])
        <5>1. info \in Infos
          BY <1>0, <4>3, InfoTypes
        <5>2. QED BY <1>0, <2>1, <3>1, <4>3, <5>1 DEF BothClosed, Infos
      <4>4. QED BY <2>2, <4>2, <4>3
    <3>4. /\ conn'[c].life = "live" /\ conn'[c].pMapping = conn[c].pMapping
          /\ conn'[c].key = conn[c].key /\ conn'[c].connecting
          /\ conn'[c].reading => conn'[c].server = "open"
          /\ conn'[c].bInMap = IN_MAP_SUCC
      BY <1>0, <2>2, <3>3 DEF Infos
    <3>5. QED BY <2>1, <2>3, <3>2, <3>4
              DEF Settled, PortOfConn, Here, NOT_IN_MAP, IN_MAP_WAIT, IN_MAP_SUCC
  <2>4. CASE d # c
    BY <1>4, <2>1, <2>2, <2>4
  <2>5. QED BY <2>3, <2>4
<1>9. ASSUME NEW c \in Conns, NEW h \in {"client", "server"},
             OneCloseCb(c, h) \/ CloseRecorded(c, h)
      PROVE  Settled(d)'
  <2>1. /\ cat = "idle" /\ records' = records
        /\ cat' = "idle" \/ (cat' = "DELETE" /\ ccur' = c)
        /\ conn' = [conn EXCEPT ![c] = DataCleared(conn[c], h)]
        /\ conn[c][h] = "closing" /\ (h = "server" => ~conn[c].connecting)
    <3>1. CASE OneCloseCb(c, h)
      BY <3>1 DEF OneCloseCb, SocketClosed
    <3>2. CASE CloseRecorded(c, h)
      BY <3>2 DEF CloseRecorded, LastCloseCb, SocketClosed
    <3>3. QED BY <1>9, <3>1, <3>2
  <2>2. CASE d = c
    <3>1. conn'[d] = DataCleared(conn[c], h)
      BY <1>0, <2>1, <2>2
    <3>2. /\ conn'[d].life = conn[d].life /\ conn'[d].pMapping = conn[d].pMapping
          /\ conn'[d].key = conn[d].key /\ conn'[d].bInMap = conn[d].bInMap
          /\ conn'[d].connecting = conn[d].connecting
          /\ conn'[d].reading = conn[d].reading
          /\ conn'[d].server = "open" <=> conn[d].server = "open"
      BY <1>0, <2>1, <2>2, <3>1 DEF DataCleared, Infos, Sockets
    <3>3. cat' = "DELETE" => conn[c].bInMap = IN_MAP_SUCC
      <4>1. SUFFICES ASSUME cat' = "DELETE" PROVE conn[c].bInMap = IN_MAP_SUCC
        OBVIOUS
      <4>2. conn[c].bInMap # NOT_IN_MAP
        BY <1>9, <2>1, <4>1 DEF OneCloseCb, CloseRecorded, FoundRecord
      <4>3. ~DataCleared(conn[c], h).cdata /\ ~DataCleared(conn[c], h).sdata
        BY <1>9, <2>1, <4>1 DEF OneCloseCb, CloseRecorded, LastCloseCb
      <4>4. conn[c].life = "live" /\ ~conn[c].connecting
        BY <1>0, <2>1, <4>3 DEF InfoInv, DataCleared, Infos, Sockets
      <4>5. QED BY <1>0, <1>1, <4>2, <4>4
                DEF Settled, Infos, NOT_IN_MAP, IN_MAP_WAIT, IN_MAP_SUCC
    <3>4. Here(d) = "idle" /\ (Here(d)' = "idle" \/ (Here(d)' = "DELETE" /\ cat' = "DELETE"))
      BY <1>0, <2>1, <2>2 DEF Here
    <3>5. /\ Here(d)' \in {"idle", "DELETE"}
          /\ Here(d)' = "DELETE" => conn[d].bInMap = IN_MAP_SUCC
          /\ ~(conn[d].life = "live" /\ conn[d].connecting /\ conn[d].bInMap = IN_MAP_SUCC)
      BY <1>1, <2>2, <3>3, <3>4 DEF Settled
    <3>6. /\ conn[d].life # "live" => conn[d].pMapping = None
          /\ conn[d].reading => conn[d].server = "open"
          /\ conn[d].life = "live" =>
               /\ conn[d].bInMap # NOT_IN_MAP => records[PortOfConn(d)][conn[d].key] = d
               /\ conn[d].server = "open" => conn[d].bInMap # NOT_IN_MAP
               /\ ~conn[d].connecting => conn[d].bInMap # IN_MAP_WAIT
      BY <1>1 DEF Settled
    <3>7. QED BY <2>1, <3>2, <3>5, <3>6 DEF Settled, PortOfConn
  <2>3. CASE d # c
    BY <1>4, <2>1, <2>3
  <2>4. QED BY <2>2, <2>3
<1>10. ASSUME NEW c \in Conns, conn' = [conn EXCEPT ![c] = Freed], d = c, cat' = "idle"
       PROVE  Settled(d)'
  <2>1. conn'[d] = Freed /\ Here(d)' = "idle"
    BY <1>0, <1>10 DEF Here
  <2>2. QED BY <2>1 DEF Settled, Freed, Unused
<1>11. ASSUME NEW c \in Conns, NEW h \in {"client", "server"}, CloseUnrecorded(c, h)
       PROVE  Settled(d)'
  <2>1. /\ conn' = [conn EXCEPT ![c] = Freed] /\ records' = records
        /\ cat = "idle" /\ cat' = "idle"
    BY <1>11 DEF CloseUnrecorded, LastCloseCb, SocketClosed
  <2>2. QED BY <1>4, <1>10, <2>1
<1>12. CASE StartReading
  <2>1. PICK c \in Conns : c = ccur
    BY <1>0, <1>12 DEF StartReading
  <2>2. /\ conn' = [conn EXCEPT ![c] = Reading(conn[c], BothOpen(conn[c]))]
        /\ cat = "read" /\ cat' = "idle" /\ records' = records
    BY <1>12, <2>1 DEF StartReading, ConnTypeOK, Reading
  <2>3. CASE d = c
    <3>1. conn'[d] = Reading(conn[d], BothOpen(conn[d])) /\ Here(d)' = "idle"
      BY <1>0, <2>2, <2>3 DEF Here
    <3>2. /\ conn'[d].life = conn[d].life /\ conn'[d].pMapping = conn[d].pMapping
          /\ conn'[d].key = conn[d].key /\ conn'[d].bInMap = conn[d].bInMap
          /\ ~conn'[d].connecting /\ conn'[d].server = conn[d].server
          /\ conn'[d].reading => conn'[d].server = "open"
      BY <1>0, <3>1 DEF Reading, BothOpen, Infos
    <3>3. conn[d].bInMap = IN_MAP_SUCC
      BY <1>1, <2>1, <2>2, <2>3 DEF Settled, Here
    <3>4. QED BY <1>1, <2>2, <3>1, <3>2, <3>3
              DEF Settled, PortOfConn, NOT_IN_MAP, IN_MAP_WAIT, IN_MAP_SUCC
  <2>4. CASE d # c
    BY <1>4, <2>1, <2>2, <2>4
  <2>5. QED BY <2>3, <2>4
<1>13. CASE EraseRecord
  <2>1. PICK c \in Conns : c = ccur
    BY <1>0, <1>13 DEF EraseRecord
  <2>2. /\ conn' = [conn EXCEPT ![c] = Freed] /\ cat = "erase" /\ cat' = "idle"
        /\ records' = [records EXCEPT ![PortOfConn(c)][conn[c].key] = None]
    BY <1>13, <2>1 DEF EraseRecord
  <2>3. CASE d # c
    <3>1. conn'[d] = conn[d] /\ Here(d) = "idle" /\ Here(d)' = "idle"
      BY <1>0, <2>1, <2>2, <2>3 DEF Here
    <3>2. records[PortOfConn(c)][conn[c].key] = c
      <4>1. conn[c].life = "live" /\ conn[c].bInMap = IN_MAP_SUCC
        BY <1>1, <2>1, <2>2 DEF Settled, Here, PlaceInv
      <4>2. QED BY <1>1, <4>1 DEF Settled, NOT_IN_MAP, IN_MAP_SUCC
    <3>3. ASSUME conn[d].life = "live", conn[d].bInMap # NOT_IN_MAP
          PROVE  records'[PortOfConn(d)][conn[d].key] = records[PortOfConn(d)][conn[d].key]
      <4>1. records[PortOfConn(d)][conn[d].key] = d
        BY <1>1, <3>3 DEF Settled
      <4>2. PortOfConn(d) \in Ports /\ conn[d].key \in Clients
        BY <1>0, <3>3 DEF InfoInv, PortOfConn
      <4>3. ~(PortOfConn(d) = PortOfConn(c) /\ conn[d].key = conn[c].key)
        BY <2>3, <3>2, <4>1
      <4>4. QED BY <1>0, <2>2, <4>2, <4>3
    <3>4. QED BY <1>1, <3>1, <3>3, SettledFrame
  <2>4. QED BY <1>10, <2>2, <2>3
<1>14. CASE HandleConnectMsg
  <2>1. /\ UNCHANGED <<conn, records>>
        /\ \/ cat = "ADD" /\ cat' = "idle" /\ ccur' = None
           \/ cat = "CHANGE" /\ cat' = "read" /\ ccur' = ccur
           \/ cat = "DELETE" /\ cat' = "erase" /\ ccur' = ccur
    BY <1>14 DEF HandleConnectMsg, ConnSends
  <2>2. CASE cat = "ADD" \/ ccur # d
    <3>1. \/ Here(d) = "idle" /\ Here(d)' = "idle"
          \/ Here(d) = "ADD" /\ Here(d)' = "idle"
      BY <1>0, <2>1, <2>2 DEF Here
    <3>2. QED BY <1>1, <2>1, <3>1 DEF Settled, PortOfConn
  <2>3. CASE cat = "CHANGE" /\ ccur = d
    <3>1. Here(d) = "CHANGE" /\ Here(d)' = "read"
      BY <2>1, <2>3 DEF Here
    <3>2. QED BY <1>1, <2>1, <3>1 DEF Settled, PortOfConn
  <2>4. CASE cat = "DELETE" /\ ccur = d
    <3>1. Here(d) = "DELETE" /\ Here(d)' = "erase"
      BY <2>1, <2>4 DEF Here
    <3>2. QED BY <1>1, <2>1, <3>1 DEF Settled, PortOfConn
  <2>5. QED BY <2>1, <2>2, <2>3, <2>4
<1>15. ASSUME NEW m \in Mappings, NEW c \in Conns, NEW k \in Clients, Accept(m, c, k)
       PROVE  Settled(d)'
  <2>1. /\ conn' = [conn EXCEPT ![c] = Accepted(m, k)]
        /\ cat = "idle" /\ cat' = "ADD" /\ ccur' = c
    BY <1>15 DEF Accept, Accepted, Accepts
  <2>2. records[PortOf[m]][k] = None
    BY <1>1, <1>15 DEF Accept, Good, NoFault
  <2>3. records' = [records EXCEPT ![PortOf[m]][k] = c]
    BY <1>15, <2>2 DEF Accept
  <2>4. CASE d = c
    <3>1. conn'[d] = Accepted(m, k) /\ Here(d)' = "ADD"
      BY <1>0, <2>1, <2>4 DEF Here
    <3>2. records'[PortOf[m]][k] = c
      BY <1>0, <2>3
    <3>3. QED BY <2>4, <3>1, <3>2 DEF Settled, PortOfConn, Accepted, Unused,
                 NOT_IN_MAP, IN_MAP_WAIT, IN_MAP_SUCC
  <2>5. CASE d # c
    <3>1. conn'[d] = conn[d] /\ Here(d) = "idle" /\ Here(d)' = "idle"
      BY <1>0, <2>1, <2>5 DEF Here
    <3>2. ASSUME conn[d].life = "live", conn[d].bInMap # NOT_IN_MAP
          PROVE  records'[PortOfConn(d)][conn[d].key] = records[PortOfConn(d)][conn[d].key]
      <4>1. records[PortOfConn(d)][conn[d].key] = d
        BY <1>1, <3>2 DEF Settled
      <4>2. PortOfConn(d) \in Ports /\ conn[d].key \in Clients
        BY <1>0, <3>2 DEF InfoInv, PortOfConn
      <4>3. ~(PortOfConn(d) = PortOf[m] /\ conn[d].key = k)
        BY <2>2, <4>1
      <4>4. QED BY <1>0, <2>3, <4>2, <4>3
    <3>3. QED BY <1>1, <3>1, <3>2, SettledFrame
  <2>6. QED BY <2>4, <2>5
<1>16. CASE CloseAllOfPort
  <2>1. /\ cat = "idle" /\ UNCHANGED <<cat, ccur>>
        /\ records' = [records EXCEPT ![PortOf[cur]] = [k \in Clients |-> None]]
        /\ d \in Recorded(PortOf[cur]) =>
               conn'[d] = [BothClosed(conn[d]) EXCEPT !.bInMap = NOT_IN_MAP]
        /\ d \notin Recorded(PortOf[cur]) => conn'[d] = conn[d]
    BY <1>16 DEF CloseAllOfPort, ClearRecords, PlaceInv
  <2>2. Here(d) = "idle" /\ Here(d)' = "idle"
    BY <1>0, <2>1 DEF Here
  <2>3. CASE d \in Recorded(PortOf[cur])
    <3>1. /\ conn'[d].life = conn[d].life /\ conn'[d].pMapping = conn[d].pMapping
          /\ conn'[d].bInMap = NOT_IN_MAP /\ conn'[d].server # "open"
          /\ ~conn'[d].reading
      BY <1>0, <2>1, <2>3 DEF BothClosed, Closing, Infos, NOT_IN_MAP
    <3>2. QED BY <1>1, <2>2, <3>1 DEF Settled, NOT_IN_MAP, IN_MAP_WAIT, IN_MAP_SUCC
  <2>4. CASE d \notin Recorded(PortOf[cur])
    <3>1. ASSUME conn[d].life = "live", conn[d].bInMap # NOT_IN_MAP
          PROVE  records'[PortOfConn(d)][conn[d].key] = records[PortOfConn(d)][conn[d].key]
      <4>1. records[PortOfConn(d)][conn[d].key] = d
        BY <1>1, <3>1 DEF Settled
      <4>2. PortOfConn(d) \in Ports /\ conn[d].key \in Clients
        BY <1>0, <3>1 DEF InfoInv, PortOfConn
      <4>3. PortOfConn(d) # PortOf[cur]
        BY <2>4, <4>1, <4>2 DEF Recorded
      <4>4. QED BY <1>0, <2>1, <4>2, <4>3
    <3>2. QED BY <1>1, <2>1, <2>2, <2>4, <3>1, SettledFrame
  <2>5. QED BY <2>3, <2>4
<1>17. QED BY <1>3, <1>6, <1>7, <1>8, <1>9, <1>11, <1>12, <1>13, <1>14, <1>15, <1>16
           DEF TcpNext, TcpProgress, TcpEnvironment

(* The same, with what it rests on.                                        *)
ConnFacts ==
    /\ TypeOK /\ LiveInv /\ ConnTypeOK /\ ConnInv /\ PlaceInv /\ RecordsInv
    /\ DataOfLive /\ PlaceData /\ OnePort /\ AllSettled

LEMMA Facts == TcpSpec => []ConnFacts
<1>1. TcpInit => DataOfLive /\ PlaceData /\ AllSettled
  BY DEF TcpInit, Unused, DataOfLive, PlaceData, AllSettled, Settled, Here
<1>2. TypeOK /\ ConnTypeOK /\ ConnInv /\ PlaceInv /\ RecordsSound /\ DataOfLive
          /\ PlaceData /\ AllSettled /\ [TcpNext]_tcpVars
          => DataOfLive' /\ PlaceData' /\ AllSettled'
  BY LifeStep, DataStep, PlaceDataStep, SettledStep
<1>3. TcpSpec => [](DataOfLive /\ PlaceData /\ AllSettled)
  BY <1>1, <1>2, MappingInvariants, ConnInvariants, RecordsAreSound, PTL DEF TcpSpec
<1>4. QED BY <1>3, MappingInvariants, ConnInvariants, Records, PortsDistinct, PTL
          DEF ConnFacts

(* A connection marked as recorded is found in the records of its mapping, *)
(* which is still there; a recorded one belongs to the mapping that has    *)
(* its port.                                                               *)
LEMMA RecordedMeans ==
    ASSUME ConnFacts, Good, NEW c \in Conns
    PROVE  /\ conn[c].life = "live" /\ conn[c].bInMap # NOT_IN_MAP
                  => c \in Recorded(PortOfConn(c)) /\ MappingLive(c)
           /\ \A m \in Mappings :
                 alloc[m] = "live" /\ c \in Recorded(PortOf[m]) =>
                     /\ conn[c].life = "live" /\ conn[c].pMapping = m
                     /\ conn[c].bInMap # NOT_IN_MAP
<1> USE TcpAssumption, MappingAssumption DEF ConnFacts
<1>1. InfoInv(conn[c]) /\ Settled(c) /\ fault = "none"
  BY DEF ConnInv, AllSettled, Good, NoFault
<1>2. ASSUME conn[c].life = "live", conn[c].bInMap # NOT_IN_MAP
      PROVE  c \in Recorded(PortOfConn(c)) /\ MappingLive(c)
  <2>1. conn[c].pMapping \in Mappings /\ conn[c].key \in Clients
    BY <1>1, <1>2 DEF InfoInv
  <2>2. PortOfConn(c) \in Ports
    BY <2>1 DEF PortOfConn
  <2>3. c \in Recorded(PortOfConn(c))
    BY <1>1, <1>2, <2>1 DEF Settled, Recorded
  <2>4. MappingLive(c)
    BY <1>1, <2>2, <2>3 DEF RecordsInv, RecordsNeedListener
  <2>5. QED BY <2>3, <2>4
<1>3. ASSUME NEW m \in Mappings, alloc[m] = "live", c \in Recorded(PortOf[m])
      PROVE  /\ conn[c].life = "live" /\ conn[c].pMapping = m
             /\ conn[c].bInMap # NOT_IN_MAP
  <2>1. PortOf[m] \in Ports
    OBVIOUS
  <2>2. /\ conn[c].life = "live" /\ PortOfConn(c) = PortOf[m]
        /\ conn[c].bInMap # NOT_IN_MAP
    BY <1>3, <2>1 DEF Recorded, RecordsInv, RecordsSound
  <2>3. MappingLive(c) /\ conn[c].pMapping \in Mappings
    BY <1>1, <1>3, <2>1, <2>2 DEF RecordsInv, RecordsNeedListener, InfoInv
  <2>4. conn[c].pMapping = m
    BY <1>3, <2>2, <2>3 DEF OnePort, MappingLive, PortOfConn
  <2>5. QED BY <2>2, <2>4
<1>4. QED BY <1>2, <1>3

(* A connection that carries traffic is in the records of its port, where  *)
(* the stopping of its mapping finds it.                                   *)
THEOREM ForwardingRecorded == TcpSpec => []ForwardingIsRecorded
<1>1. ConnFacts => ForwardingIsRecorded
  <2>1. SUFFICES ASSUME ConnFacts, Good, NEW c \in Conns, conn[c].reading
                 PROVE  MappingLive(c) /\ c \in Recorded(PortOfConn(c))
    BY DEF ForwardingIsRecorded, Good
  <2>2. Settled(c) /\ InfoInv(conn[c])
    BY <2>1 DEF ConnFacts, AllSettled, ConnInv
  <2>3. conn[c].life = "live" /\ conn[c].bInMap # NOT_IN_MAP
    BY <2>1, <2>2 DEF Settled, InfoInv
  <2>4. QED BY <2>1, <2>3, RecordedMeans
<1>2. QED BY <1>1, Facts, PTL

-----------------------------------------------------------------------------
(* The number of connections shown.                                        *)
Counts(c, m) ==
    /\ conn[c].life = "live" /\ conn[c].pMapping = m /\ conn[c].bInMap = IN_MAP_SUCC
    /\ Here(c) \notin {"CHANGE", "read"}

Counted(m) == {c \in Conns : Counts(c, m)}

CountInv == Good => \A m \in Mappings : nConnect[m] = Cardinality(Counted(m))

LEMMA CountedFinite ==
    \A m : IsFiniteSet(Counted(m)) /\ Cardinality(Counted(m)) \in Nat
BY TcpAssumption, FS_Subset, FS_CardinalityType DEF Counted

LEMMA CountStep == ConnFacts /\ CountInv /\ [TcpNext]_tcpVars => CountInv'
<1> SUFFICES ASSUME ConnFacts, CountInv, [TcpNext]_tcpVars, Good', NEW m \in Mappings
             PROVE  nConnect'[m] = Cardinality(Counted(m)')
  BY DEF CountInv
<1> USE TcpAssumption, MappingAssumption
    DEF recordVars, placeVars, ConnGoto, LoopIdle, Idle, ConnIdle
<1>0. /\ \A c \in Conns : conn[c] \in Infos /\ InfoInv(conn[c]) /\ Settled(c)
      /\ conn \in [Conns -> Infos] /\ nConnect \in [Mappings -> Int]
      /\ cat # "idle" <=> ccur \in Conns
      /\ Good /\ nConnect[m] = Cardinality(Counted(m))
  <2>1. Good
    BY DEF Good, NoFault, TcpNext, tcpVars, mappingVars, connVars
  <2>2. QED BY <2>1 DEF ConnFacts, ConnTypeOK, ConnInv, AllSettled, CountInv
<1>1. ASSUME nConnect' = nConnect, \A c \in Conns : Counts(c, m)' <=> Counts(c, m)
      PROVE  nConnect'[m] = Cardinality(Counted(m)')
  <2>1. Counted(m)' = Counted(m)
    BY <1>1 DEF Counted
  <2>2. QED BY <1>0, <1>1, <2>1
<1>2. CASE UNCHANGED <<conn, nConnect, cat, ccur>>
  <2>1. \A c \in Conns : Counts(c, m)' <=> Counts(c, m)
    BY <1>2 DEF Counts, Here
  <2>2. QED BY <1>1, <1>2, <2>1
<1>3. CASE \/ UNCHANGED tcpVars \/ MappingProgress \/ MappingRequests
           \/ (\E n \in Mappings : SendAllConnect(n))
           \/ RemoveAllOfPort \/ HandleClear
           \/ (\E c \in Conns : UserRemovesConnect(c) \/ ReadOfFreedMapping(c))
           \/ (\E n \in Mappings, c \in Conns : AcceptFails(n, c))
  BY <1>2, <1>3 DEF tcpVars, connVars, MappingProgress, MappingRequests, SendAllConnect,
        RemoveAllOfPort, HandleClear, UserRemovesConnect, ReadOfFreedMapping, AcceptFails
<1>4. ASSUME NEW c \in Conns, NEW info, conn' = [conn EXCEPT ![c] = info],
             cat = "idle" \/ ccur = c, cat' = "idle" \/ ccur' = c
      PROVE  \A d \in Conns : d # c => (Counts(d, m)' <=> Counts(d, m))
  <2>1. SUFFICES ASSUME NEW d \in Conns, d # c PROVE Counts(d, m)' <=> Counts(d, m)
    OBVIOUS
  <2>2. conn'[d] = conn[d] /\ Here(d) = "idle" /\ Here(d)' = "idle"
    BY <1>0, <1>4, <2>1 DEF Here
  <2>3. QED BY <2>2 DEF Counts
<1>5. ASSUME NEW c \in Conns, NEW info, conn' = [conn EXCEPT ![c] = info],
             info.life = conn[c].life, info.pMapping = conn[c].pMapping,
             info.bInMap = conn[c].bInMap,
             cat = "idle", cat' = "idle" \/ (cat' = "DELETE" /\ ccur' = c),
             nConnect' = nConnect
      PROVE  nConnect'[m] = Cardinality(Counted(m)')
  <2>1. conn'[c] = info /\ Here(c) = "idle" /\ Here(c)' \in {"idle", "DELETE"}
    BY <1>0, <1>5 DEF Here
  <2>2. Counts(c, m)' <=> Counts(c, m)
    BY <1>5, <2>1 DEF Counts
  <2>3. QED BY <1>1, <1>4, <1>5, <2>2
<1>6. ASSUME NEW c \in Conns, RunRemoveConnect(c) \/ ReadFails(c)
      PROVE  nConnect'[m] = Cardinality(Counted(m)')
  <2>1. PICK info : /\ info \in {BothClosed(conn[c]), conn[c]}
                    /\ conn' = [conn EXCEPT ![c] = info]
    BY <1>0, <1>6 DEF RunRemoveConnect, ReadFails
  <2>2. /\ info.life = conn[c].life /\ info.pMapping = conn[c].pMapping
        /\ info.bInMap = conn[c].bInMap
    BY <1>0, <2>1 DEF BothClosed, Infos
  <2>3. cat = "idle" /\ cat' = "idle" /\ nConnect' = nConnect
    BY <1>6 DEF RunRemoveConnect, ReadFails
  <2>4. QED BY <1>5, <2>1, <2>2, <2>3
<1>7. ASSUME NEW c \in Conns, ClientGivesUp(c)
      PROVE  nConnect'[m] = Cardinality(Counted(m)')
  <2>1. ASSUME NEW d \in Conns PROVE Counts(d, m)' <=> Counts(d, m)
    <3>1. conn'[d] = conn[d] \/ conn'[d] = [conn[d] EXCEPT !.up = FALSE]
      BY <1>0, <1>7 DEF ClientGivesUp
    <3>2. /\ conn'[d].life = conn[d].life /\ conn'[d].pMapping = conn[d].pMapping
          /\ conn'[d].bInMap = conn[d].bInMap
      BY <1>0, <3>1 DEF Infos
    <3>3. QED BY <1>7, <3>2 DEF ClientGivesUp, Counts, Here
  <2>2. QED BY <1>1, <1>7, <2>1 DEF ClientGivesUp
<1>8. ASSUME NEW c \in Conns, Connected(c) \/ ConnectFails(c)
      PROVE  nConnect'[m] = Cardinality(Counted(m)')
  <2>1. /\ cat = "idle" /\ cat' = "CHANGE" /\ ccur' = c /\ nConnect' = nConnect
        /\ conn[c].connecting
    BY <1>8 DEF Connected, ConnectFails, ConnectAnswered
  <2>2. PICK info : conn' = [conn EXCEPT ![c] = info]
    BY <1>8 DEF Connected, ConnectFails
  <2>3. Here(c) = "idle" /\ Here(c)' = "CHANGE"
    BY <1>0, <2>1 DEF Here
  <2>4. ~Counts(c, m) /\ ~Counts(c, m)'
    BY <1>0, <2>1, <2>3 DEF Counts, Settled
  <2>5. QED BY <1>1, <1>4, <2>1, <2>2, <2>4
<1>9. ASSUME NEW c \in Conns, NEW h \in {"client", "server"},
             OneCloseCb(c, h) \/ CloseRecorded(c, h)
      PROVE  nConnect'[m] = Cardinality(Counted(m)')
  <2>1. conn' = [conn EXCEPT ![c] = DataCleared(conn[c], h)] /\ nConnect' = nConnect
    BY <1>9 DEF OneCloseCb, CloseRecorded
  <2>2. cat = "idle" /\ (cat' = "idle" \/ (cat' = "DELETE" /\ ccur' = c))
    BY <1>9 DEF OneCloseCb, CloseRecorded, LastCloseCb, SocketClosed
  <2>3. /\ DataCleared(conn[c], h).life = conn[c].life
        /\ DataCleared(conn[c], h).pMapping = conn[c].pMapping
        /\ DataCleared(conn[c], h).bInMap = conn[c].bInMap
    BY <1>0 DEF DataCleared, Infos
  <2>4. QED BY <1>5, <2>1, <2>2, <2>3
<1>10. ASSUME NEW c \in Conns, NEW h \in {"client", "server"}, CloseUnrecorded(c, h)
       PROVE  nConnect'[m] = Cardinality(Counted(m)')
  <2>1. /\ conn' = [conn EXCEPT ![c] = Freed] /\ nConnect' = nConnect
        /\ cat = "idle" /\ cat' = "idle" /\ FoundRecord(c) = None
    BY <1>10 DEF CloseUnrecorded, LastCloseCb, SocketClosed
  <2>2. conn[c].life = "live" => conn[c].bInMap = NOT_IN_MAP
    BY <1>0, <2>1, RecordedMeans DEF FoundRecord, Settled
  <2>3. ~Counts(c, m)
    BY <2>2 DEF Counts, NOT_IN_MAP, IN_MAP_SUCC
  <2>4. ~Counts(c, m)'
    BY <1>0, <2>1 DEF Counts, Freed, Unused
  <2>5. QED BY <1>1, <1>4, <2>1, <2>3, <2>4
<1>11. CASE StartReading
  <2>1. PICK c \in Conns : c = ccur
    BY <1>0, <1>11 DEF StartReading
  <2>2. /\ conn' = [conn EXCEPT ![c] = Reading(conn[c], BothOpen(conn[c]))]
        /\ cat = "read" /\ cat' = "idle" /\ ccur' = None
        /\ nConnect' = [nConnect EXCEPT ![conn[c].pMapping] = @ + 1]
    BY <1>11, <2>1 DEF StartReading, ConnTypeOK, Reading, ConnFacts
  <2>3. Here(c) = "read" /\ Here(c)' = "idle"
    BY <1>0, <2>1, <2>2 DEF Here
  <2>4. conn[c].life = "live" /\ conn[c].bInMap = IN_MAP_SUCC
    BY <1>0, <2>1, <2>2, <2>3 DEF Settled, ConnFacts, PlaceInv
  <2>5. conn'[c] = Reading(conn[c], BothOpen(conn[c]))
    BY <1>0, <2>2
  <2>6. ~Counts(c, m) /\ (Counts(c, m)' <=> conn[c].pMapping = m)
    BY <1>0, <2>3, <2>4, <2>5 DEF Counts, Reading, Infos
  <2>7. \A d \in Conns : d # c => (Counts(d, m)' <=> Counts(d, m))
    BY <1>4, <2>1, <2>2
  <2>8. CASE conn[c].pMapping = m
    <3>1. Counted(m)' = Counted(m) \cup {c} /\ c \notin Counted(m)
      BY <2>6, <2>7, <2>8 DEF Counted
    <3>2. Cardinality(Counted(m)') = Cardinality(Counted(m)) + 1
      BY <3>1, CountedFinite, FS_AddElement
    <3>3. QED BY <1>0, <2>2, <2>8, <3>2
  <2>9. CASE conn[c].pMapping # m
    <3>1. Counted(m)' = Counted(m)
      BY <2>6, <2>7, <2>9 DEF Counted
    <3>2. QED BY <1>0, <2>2, <2>9, <3>1
  <2>10. QED BY <2>8, <2>9
<1>12. CASE EraseRecord
  <2>1. PICK c \in Conns : c = ccur
    BY <1>0, <1>12 DEF EraseRecord
  <2>2. conn[c].life = "live" /\ conn[c].bInMap = IN_MAP_SUCC /\ Here(c) = "erase"
    BY <1>0, <1>12, <2>1 DEF Settled, ConnFacts, PlaceInv, EraseRecord, Here
  <2>3. records[PortOfConn(c)][conn[c].key] = c
    BY <1>0, <2>2 DEF Settled, NOT_IN_MAP, IN_MAP_SUCC
  <2>4. /\ conn' = [conn EXCEPT ![c] = Freed]
        /\ cat = "erase" /\ cat' = "idle"
        /\ nConnect' = [nConnect EXCEPT ![conn[c].pMapping] = @ - 1]
    BY <1>12, <2>1, <2>3 DEF EraseRecord
  <2>5. ~Counts(c, m)' /\ (Counts(c, m) <=> conn[c].pMapping = m)
    BY <1>0, <2>2, <2>4 DEF Counts, Freed, Unused
  <2>6. \A d \in Conns : d # c => (Counts(d, m)' <=> Counts(d, m))
    BY <1>4, <2>1, <2>4
  <2>7. CASE conn[c].pMapping = m
    <3>1. Counted(m)' = Counted(m) \ {c} /\ c \in Counted(m)
      BY <2>5, <2>6, <2>7 DEF Counted
    <3>2. Cardinality(Counted(m)') = Cardinality(Counted(m)) - 1
      BY <3>1, CountedFinite, FS_RemoveElement
    <3>3. QED BY <1>0, <2>4, <2>7, <3>2
  <2>8. CASE conn[c].pMapping # m
    <3>1. Counted(m)' = Counted(m)
      BY <2>5, <2>6, <2>8 DEF Counted
    <3>2. QED BY <1>0, <2>4, <2>8, <3>1
  <2>9. QED BY <2>7, <2>8
<1>13. CASE HandleConnectMsg
  <2>1. /\ UNCHANGED <<conn, nConnect>>
        /\ \/ cat = "ADD" /\ cat' = "idle" /\ ccur' = None
           \/ cat = "CHANGE" /\ cat' = "read" /\ ccur' = ccur
           \/ cat = "DELETE" /\ cat' = "erase" /\ ccur' = ccur
    BY <1>13 DEF HandleConnectMsg, ConnSends
  <2>2. \A c \in Conns : Here(c)' \in {"CHANGE", "read"} <=> Here(c) \in {"CHANGE", "read"}
    BY <1>0, <2>1 DEF Here
  <2>3. \A c \in Conns : Counts(c, m)' <=> Counts(c, m)
    BY <2>1, <2>2 DEF Counts
  <2>4. QED BY <1>1, <2>1, <2>3
<1>14. ASSUME NEW n \in Mappings, NEW c \in Conns, NEW k \in Clients, Accept(n, c, k)
       PROVE  nConnect'[m] = Cardinality(Counted(m)')
  <2>1. /\ conn' = [conn EXCEPT ![c] = Accepted(n, k)] /\ conn[c].life = "unused"
        /\ cat = "idle" /\ cat' = "ADD" /\ ccur' = c /\ nConnect' = nConnect
    BY <1>14 DEF Accept, Accepted, Accepts
  <2>2. ~Counts(c, m) /\ ~Counts(c, m)'
    BY <1>0, <2>1 DEF Counts, Accepted, Unused, IN_MAP_WAIT, IN_MAP_SUCC
  <2>3. QED BY <1>1, <1>4, <2>1, <2>2
<1>15. CASE CloseAllOfPort
  <2>1. /\ cat = "idle" /\ UNCHANGED <<cat, ccur>>
        /\ nConnect' = [nConnect EXCEPT ![cur] = 0]
        /\ \A c \in Conns :
              /\ c \in Recorded(PortOf[cur]) =>
                     conn'[c] = [BothClosed(conn[c]) EXCEPT !.bInMap = NOT_IN_MAP]
              /\ c \notin Recorded(PortOf[cur]) => conn'[c] = conn[c]
        /\ cur \in Mappings /\ alloc[cur] = "live"
    BY <1>15 DEF CloseAllOfPort, ClearRecords, ConnFacts, PlaceInv, TypeOK, LiveInv, CurIsLive
  <2>2. \A c \in Conns : Here(c) = "idle" /\ Here(c)' = "idle"
    BY <1>0, <2>1 DEF Here
  <2>3. ASSUME NEW c \in Conns
        PROVE  /\ Counts(c, cur) => c \in Recorded(PortOf[cur])
               /\ c \in Recorded(PortOf[cur]) =>
                      conn[c].pMapping = cur /\ ~Counts(c, m)'
               /\ c \notin Recorded(PortOf[cur]) => (Counts(c, m)' <=> Counts(c, m))
    <3>1. Counts(c, cur) => c \in Recorded(PortOf[cur])
      BY <1>0, RecordedMeans DEF Counts, PortOfConn, NOT_IN_MAP, IN_MAP_SUCC
    <3>2. ASSUME c \in Recorded(PortOf[cur])
          PROVE  conn[c].pMapping = cur /\ ~Counts(c, m)'
      <4>1. conn[c].pMapping = cur
        BY <1>0, <2>1, <3>2, RecordedMeans
      <4>2. BothClosed(conn[c]) \in Infos
        BY <1>0, InfoTypes
      <4>3. conn'[c].bInMap = NOT_IN_MAP
        BY <2>1, <3>2, <4>2 DEF Infos
      <4>4. QED BY <4>1, <4>3 DEF Counts, NOT_IN_MAP, IN_MAP_SUCC
    <3>3. c \notin Recorded(PortOf[cur]) => (Counts(c, m)' <=> Counts(c, m))
      BY <2>1, <2>2 DEF Counts
    <3>4. QED BY <3>1, <3>2, <3>3
  <2>4. CASE m = cur
    <3>1. Counted(m)' = {}
      BY <2>3, <2>4 DEF Counted
    <3>2. QED BY <1>0, <2>1, <2>4, <3>1, FS_EmptySet
  <2>5. CASE m # cur
    <3>1. \A c \in Conns : Counts(c, m)' <=> Counts(c, m)
      BY <2>3, <2>5 DEF Counts
    <3>2. Counted(m)' = Counted(m)
      BY <3>1 DEF Counted
    <3>3. QED BY <1>0, <2>1, <2>5, <3>2
  <2>6. QED BY <2>4, <2>5
<1>16. QED BY <1>3, <1>6, <1>7, <1>8, <1>9, <1>10, <1>11, <1>12, <1>13, <1>14, <1>15
           DEF TcpNext, TcpProgress, TcpEnvironment

(* The number shown for a mapping is that of its connected records.        *)
THEOREM CountIsTrue == TcpSpec => []CountMatches
<1>1. TcpInit => CountInv
  <2>1. SUFFICES ASSUME TcpInit, NEW m \in Mappings
                 PROVE  nConnect[m] = Cardinality(Counted(m))
    BY DEF CountInv
  <2>2. Counted(m) = {}
    BY <2>1 DEF TcpInit, Unused, Counted, Counts
  <2>3. QED BY <2>1, <2>2, FS_EmptySet DEF TcpInit
<1>2. ConnFacts /\ CountInv => CountMatches
  <2>1. SUFFICES ASSUME ConnFacts, CountInv, Good, NEW m \in Mappings
                 PROVE  nConnect[m] = Cardinality({c \in Recorded(PortOf[m]) :
                              /\ conn[c].pMapping = m /\ conn[c].bInMap = IN_MAP_SUCC
                              /\ ~(cat \in {"CHANGE", "read"} /\ ccur = c)})
    BY DEF CountMatches, Good
  <2>2. PortOf[m] \in Ports /\ Recorded(PortOf[m]) \subseteq Conns
    BY <2>1, MappingAssumption DEF Recorded, ConnFacts, ConnTypeOK
  <2>3. ASSUME NEW c \in Recorded(PortOf[m])
        PROVE  /\ conn[c].life = "live"
               /\ Here(c) \in {"CHANGE", "read"} <=> cat \in {"CHANGE", "read"} /\ ccur = c
    BY <2>1, <2>2, <2>3 DEF Recorded, ConnFacts, RecordsInv, RecordsSound, Here
  <2>4. ASSUME NEW c \in Conns, Counts(c, m) PROVE c \in Recorded(PortOf[m])
    BY <2>1, <2>4, RecordedMeans DEF Counts, PortOfConn, NOT_IN_MAP, IN_MAP_SUCC
  <2>5. Counted(m) = {c \in Recorded(PortOf[m]) :
                              /\ conn[c].pMapping = m /\ conn[c].bInMap = IN_MAP_SUCC
                              /\ ~(cat \in {"CHANGE", "read"} /\ ccur = c)}
    BY <2>2, <2>3, <2>4 DEF Counted, Counts
  <2>6. QED BY <2>1, <2>5 DEF CountInv
<1>3. QED BY <1>1, <1>2, CountStep, Facts, PTL DEF TcpSpec

-----------------------------------------------------------------------------
(* What the window was told.  Between MSG_CLEAR_CONNECT and the clearing   *)
(* of the records, the connections of the mapping are recorded although    *)
(* the window has forgotten them.                                          *)
Clearing(c) == at = "clear" /\ conn[c].pMapping = cur

ToldOK(c) ==
    /\ conn[c].life = "unused" => told[c] = "nothing"
    /\ conn[c].life = "freed" => told[c] = "gone"
    /\ conn[c].life = "live" /\ told[c] = "nothing" => Here(c) = "ADD"
    /\ told[c] \in {"added", "connected"} =>
           conn[c].life = "live" /\ conn[c].bInMap # NOT_IN_MAP
    /\ told[c] = "added" => conn[c].connecting
    /\ conn[c].life = "live" /\ told[c] = "gone" =>
           conn[c].bInMap = NOT_IN_MAP \/ Clearing(c) \/ Here(c) = "erase"
    /\ conn[c].life = "live" /\ conn[c].bInMap = NOT_IN_MAP => told[c] = "gone"
    /\ conn[c].connecting /\ conn[c].server = "open" =>
           told[c] = "added" \/ Here(c) \in {"ADD", "read"} \/ Clearing(c)
    /\ Here(c) = "ADD" => told[c] = "nothing" /\ conn[c].connecting
    /\ Here(c) = "CHANGE" => told[c] = "added"
    /\ Here(c) \in {"read", "DELETE"} => told[c] = "connected"
    /\ Here(c) = "erase" => told[c] = "gone"
    /\ Clearing(c) => told[c] = "gone"

AllTold == Good => \A c \in Conns : ToldOK(c)

LEMMA ToldFrame ==
    ASSUME NEW d, ToldOK(d), told'[d] = told[d], Here(d)' = Here(d),
           Clearing(d)' <=> Clearing(d),
           conn'[d].life = conn[d].life, conn'[d].bInMap = conn[d].bInMap,
           conn'[d].connecting = conn[d].connecting,
           conn'[d].server = "open" => conn[d].server = "open"
    PROVE  ToldOK(d)'
<1> DEFINE Before == Clearing(d)
           After  == Clearing(d)'
<1>1. (After <=> Before) /\ (told[d] = "gone" \/ ~Before)
  BY DEF ToldOK
<1> HIDE DEF Before, After
<1>2. QED BY <1>1 DEF ToldOK, Before, After

ClearingSame ==
    /\ at' = "clear" <=> at = "clear"
    /\ at = "clear" => cur' = cur

(* at is "clear" only from MSG_CLEAR_CONNECT to the clearing.              *)
LEMMA ClearingKept ==
    ASSUME ConnFacts, [TcpNext]_tcpVars, ~HandleClear, ~CloseAllOfPort
    PROVE  ClearingSame
<1> USE DEF ClearingSame, ConnGoto, LoopIdle, Idle, ConnIdle, Goto
<1>1. CASE UNCHANGED tcpVars
  BY <1>1 DEF tcpVars, mappingVars
<1>2. CASE MappingProgress
  BY <1>2 DEF MappingProgress, MappingWork, TakeBatch, Running, RunFreed,
              StartIgnored, StartOnOpenHandle, AnsycStartMapping, StopStopped,
              StopHandle, listen_close_cb, TestDeleting, LoadState, StoreOr,
              StoreAnd, Erase, HandleMappingMsg, Sends, AfterSend, loopVars
<1>3. CASE MappingRequests
  BY <1>3 DEF MappingRequests, AddMapping, StartMapping, StopMapping,
              GetAllConnect, RemoveMapping, RemoveStore, ListenFails, loopVars
<1>4. ASSUME NEW m \in Mappings, SendAllConnect(m) PROVE ClearingSame
  BY <1>4 DEF SendAllConnect, AnsycGetAllConnect, Running
<1>5. CASE RemoveAllOfPort
  BY <1>5 DEF RemoveAllOfPort, RemoveAllConnect
<1>6. ASSUME NEW c \in Conns, RunRemoveConnect(c) \/ UserRemovesConnect(c)
      PROVE  ClearingSame
  BY <1>6 DEF RunRemoveConnect, AnsycRemoveConnect, UserRemovesConnect, RemoveConnect,
              loopVars
<1>7. ASSUME NEW c \in Conns, NEW h \in {"client", "server"},
             \/ Connected(c) \/ ConnectFails(c) \/ ClientGivesUp(c) \/ ReadFails(c)
             \/ ReadOfFreedMapping(c) \/ OneCloseCb(c, h) \/ CloseUnrecorded(c, h)
             \/ CloseRecorded(c, h)
      PROVE  ClearingSame
  BY <1>7 DEF Connected, ConnectFails, ClientGivesUp, ReadFails, ReadOfFreedMapping,
              OneCloseCb, CloseUnrecorded, CloseRecorded, mappingVars
<1>8. CASE StartReading \/ EraseRecord \/ HandleConnectMsg
  BY <1>8 DEF StartReading, EraseRecord, HandleConnectMsg, mappingVars
<1>9. ASSUME NEW c \in Conns, NEW m \in Mappings,
             AcceptFails(m, c) \/ \E k \in Clients : Accept(m, c, k)
      PROVE  ClearingSame
  BY <1>9 DEF AcceptFails, Accept, mappingVars
<1>10. QED BY <1>1, <1>2, <1>3, <1>4, <1>5, <1>6, <1>7, <1>8, <1>9
           DEF TcpNext, TcpProgress, TcpEnvironment

LEMMA ToldStep ==
    ConnFacts /\ ConnFacts' /\ AllTold /\ [TcpNext]_tcpVars => AllTold'
<1> SUFFICES ASSUME ConnFacts, ConnFacts', AllTold, [TcpNext]_tcpVars, Good',
                    NEW d \in Conns
             PROVE  ToldOK(d)'
  BY DEF AllTold
<1> USE TcpAssumption, MappingAssumption
    DEF recordVars, placeVars, ConnGoto, LoopIdle, Idle, ConnIdle
<1>0. /\ \A c \in Conns : conn[c] \in Infos /\ InfoInv(conn[c]) /\ Settled(c) /\ ToldOK(c)
      /\ conn \in [Conns -> Infos] /\ told \in [Conns -> Tellings]
      /\ cat # "idle" <=> ccur \in Conns
      /\ Good /\ Settled(d)'
      /\ cat # "idle" => at = "idle" /\ conn[ccur].life = "live"
      /\ at = "clear" => cur \in Mappings
  <2>1. Good
    BY DEF Good, NoFault, TcpNext, tcpVars, mappingVars, connVars
  <2>2. Settled(d)'
    BY DEF ConnFacts, AllSettled
  <2>3. at = "clear" => cur \in Mappings
    BY DEF ConnFacts, TypeOK
  <2>4. QED BY <2>1, <2>2, <2>3
            DEF ConnFacts, ConnTypeOK, ConnInv, AllSettled, AllTold, PlaceInv
<1>1. ASSUME ~HandleClear, ~CloseAllOfPort, conn'[d].pMapping = conn[d].pMapping
      PROVE  Clearing(d)' <=> Clearing(d)
  BY <1>1, ClearingKept DEF ClearingSame, Clearing
<1>2. CASE HandleClear
  <2>1. /\ UNCHANGED <<conn, cat, ccur>> /\ at = "CLEAR" /\ at' = "clear" /\ cur' = cur
        /\ told'[d] = IF conn[d].pMapping = cur /\ told[d] \in {"added", "connected"}
                      THEN "gone" ELSE told[d]
    BY <1>2 DEF HandleClear, HandleMappingMsg, AfterSend, Goto, Sends
  <2>2. Here(d) = "idle" /\ Here(d)' = "idle" /\ ~Clearing(d)
    BY <1>0, <2>1 DEF Here, Clearing
  <2>3. CASE conn[d].pMapping = cur
    <3>1. Clearing(d)'
      BY <2>1, <2>3 DEF Clearing
    <3>2. conn[d].life = "live"
      <4>1. cur \in Mappings
        BY <2>1 DEF ConnFacts, TypeOK
      <4>2. QED BY <1>0, <2>3, <4>1 DEF Settled
    <3>3. told'[d] = "gone"
      BY <1>0, <2>1, <2>2, <2>3, <3>2 DEF ToldOK, Tellings
    <3>4. QED BY <2>1, <2>2, <3>1, <3>2, <3>3 DEF ToldOK
  <2>4. CASE conn[d].pMapping # cur
    <3>1. ~Clearing(d)' /\ told'[d] = told[d]
      BY <2>1, <2>4 DEF Clearing
    <3>2. QED BY <1>0, <2>1, <2>2, <3>1, ToldFrame
  <2>5. QED BY <2>3, <2>4
<1>3. CASE CloseAllOfPort
  <2>1. /\ cat = "idle" /\ UNCHANGED <<cat, ccur, told>> /\ at = "clear" /\ at' # "clear"
        /\ d \in Recorded(PortOf[cur]) =>
               conn'[d] = [BothClosed(conn[d]) EXCEPT !.bInMap = NOT_IN_MAP]
        /\ d \notin Recorded(PortOf[cur]) => conn'[d] = conn[d]
        /\ cur \in Mappings /\ alloc[cur] = "live"
    BY <1>3 DEF CloseAllOfPort, ClearRecords, Goto, ConnFacts, PlaceInv, TypeOK, LiveInv,
                CurIsLive
  <2>2. Here(d) = "idle" /\ Here(d)' = "idle" /\ ~Clearing(d)'
    BY <1>0, <2>1 DEF Here, Clearing
  <2>3. CASE d \in Recorded(PortOf[cur])
    <3>1. conn[d].life = "live" /\ conn[d].pMapping = cur
      BY <1>0, <2>1, <2>3, RecordedMeans
    <3>2. told[d] = "gone"
      BY <1>0, <2>1, <3>1 DEF ToldOK, Clearing
    <3>3. /\ conn'[d].life = "live" /\ conn'[d].server # "open"
          /\ conn'[d].bInMap = NOT_IN_MAP
      BY <1>0, <2>1, <2>3, <3>1 DEF BothClosed, Closing, Infos, NOT_IN_MAP
    <3>4. QED BY <2>1, <2>2, <3>2, <3>3 DEF ToldOK
  <2>4. CASE d \notin Recorded(PortOf[cur])
    <3>1. CASE Clearing(d)
      <4>1. conn[d].pMapping = cur /\ told[d] = "gone"
        BY <1>0, <3>1 DEF ToldOK, Clearing
      <4>2. conn[d].life = "live" /\ conn[d].bInMap = NOT_IN_MAP
        BY <1>0, <2>1, <2>4, <4>1, RecordedMeans DEF Settled, PortOfConn
      <4>3. conn[d].server # "open"
        BY <1>0, <4>2 DEF Settled
      <4>4. QED BY <2>1, <2>2, <2>4, <4>1, <4>2, <4>3 DEF ToldOK
    <3>2. CASE ~Clearing(d)
      BY <1>0, <2>1, <2>2, <2>4, <3>2, ToldFrame
    <3>3. QED BY <3>1, <3>2
  <2>5. QED BY <2>3, <2>4
<1>4. ASSUME ~HandleClear, ~CloseAllOfPort, told'[d] = told[d], Here(d)' = Here(d),
             conn'[d].pMapping = conn[d].pMapping,
             conn'[d].life = conn[d].life, conn'[d].bInMap = conn[d].bInMap,
             conn'[d].connecting = conn[d].connecting,
             conn'[d].server = "open" => conn[d].server = "open"
      PROVE  ToldOK(d)'
  BY <1>0, <1>1, <1>4, ToldFrame
<1>5. ASSUME UNCHANGED <<conn, told, cat, ccur>>, ~HandleClear, ~CloseAllOfPort
      PROVE  ToldOK(d)'
  BY <1>4, <1>5 DEF Here
<1> SUFFICES ASSUME ~HandleClear, ~CloseAllOfPort PROVE ToldOK(d)'
  BY <1>2, <1>3
<1>6. CASE \/ UNCHANGED tcpVars \/ MappingProgress \/ MappingRequests
           \/ (\E m \in Mappings : SendAllConnect(m))
           \/ RemoveAllOfPort
           \/ (\E c \in Conns : UserRemovesConnect(c) \/ ReadOfFreedMapping(c))
           \/ (\E m \in Mappings, c \in Conns : AcceptFails(m, c))
  BY <1>5, <1>6 DEF tcpVars, connVars, MappingProgress, MappingRequests, SendAllConnect,
        RemoveAllOfPort, UserRemovesConnect, ReadOfFreedMapping, AcceptFails
<1>7. ASSUME NEW c \in Conns, NEW info, conn' = [conn EXCEPT ![c] = info], d # c,
             told' = told, cat = "idle" \/ ccur = c, cat' = "idle" \/ ccur' = c
      PROVE  ToldOK(d)'
  <2>1. conn'[d] = conn[d] /\ Here(d) = "idle" /\ Here(d)' = "idle"
    BY <1>0, <1>7 DEF Here
  <2>2. QED BY <1>4, <1>7, <2>1
<1>8. ASSUME NEW c \in Conns, RunRemoveConnect(c) \/ ReadFails(c) PROVE ToldOK(d)'
  <2>1. /\ conn'[d] \in {conn[d], BothClosed(conn[d])}
        /\ UNCHANGED <<told, cat, ccur>>
    BY <1>0, <1>8 DEF RunRemoveConnect, ReadFails
  <2>2. /\ conn'[d].pMapping = conn[d].pMapping /\ conn'[d].life = conn[d].life
        /\ conn'[d].bInMap = conn[d].bInMap /\ conn'[d].connecting = conn[d].connecting
        /\ conn'[d].server = "open" => conn[d].server = "open"
    BY <1>0, <2>1 DEF BothClosed, Closing, Infos
  <2>3. QED BY <1>4, <2>1, <2>2 DEF Here
<1>9. ASSUME NEW c \in Conns, ClientGivesUp(c) PROVE ToldOK(d)'
  <2>1. /\ conn'[d] = conn[d] \/ conn'[d] = [conn[d] EXCEPT !.up = FALSE]
        /\ UNCHANGED <<told, cat, ccur>>
    BY <1>0, <1>9 DEF ClientGivesUp
  <2>2. /\ conn'[d].pMapping = conn[d].pMapping /\ conn'[d].life = conn[d].life
        /\ conn'[d].bInMap = conn[d].bInMap /\ conn'[d].connecting = conn[d].connecting
        /\ conn'[d].server = conn[d].server
    BY <1>0, <2>1 DEF Infos
  <2>3. QED BY <1>4, <2>1, <2>2 DEF Here
<1>10. ASSUME NEW c \in Conns, Connected(c) \/ ConnectFails(c) PROVE ToldOK(d)'
  <2>1. /\ cat = "idle" /\ cat' = "CHANGE" /\ ccur' = c /\ told' = told
        /\ at = "idle" /\ at' = "idle" /\ conn[c].connecting
    BY <1>10 DEF Connected, ConnectFails, ConnectAnswered, mappingVars
  <2>2. PICK info : conn' = [conn EXCEPT ![c] = info]
    BY <1>10 DEF Connected, ConnectFails
  <2>3. CASE d = c
    <3>1. conn[c].server = "open"
      BY <1>0, <1>10 DEF Connected, ConnectFails, Good, NoFault, BothOpen
    <3>2. Here(c) = "idle" /\ Here(c)' = "CHANGE" /\ ~Clearing(c) /\ ~Clearing(c)'
      BY <1>0, <2>1 DEF Here, Clearing
    <3>3. told[c] = "added"
      BY <1>0, <2>1, <3>1, <3>2 DEF ToldOK
    <3>4. conn'[c].bInMap = IN_MAP_SUCC /\ conn'[c].life = "live" /\ conn'[c].connecting
      BY <2>1, <2>3, <3>2 DEF ConnFacts, AllSettled, Settled, PlaceInv, PlaceData
    <3>5. QED BY <2>1, <2>3, <3>2, <3>3, <3>4 DEF ToldOK, NOT_IN_MAP, IN_MAP_SUCC
  <2>4. CASE d # c
    BY <1>7, <2>1, <2>2, <2>4
  <2>5. QED BY <2>3, <2>4
<1>11. ASSUME NEW c \in Conns, NEW h \in {"client", "server"}, OneCloseCb(c, h)
       PROVE  ToldOK(d)'
  <2>1. /\ UNCHANGED <<told, cat, ccur>>
        /\ conn'[d] = conn[d] \/ conn'[d] = DataCleared(conn[d], h)
    BY <1>0, <1>11 DEF OneCloseCb
  <2>2. /\ conn'[d].pMapping = conn[d].pMapping /\ conn'[d].life = conn[d].life
        /\ conn'[d].bInMap = conn[d].bInMap /\ conn'[d].connecting = conn[d].connecting
        /\ conn'[d].server = "open" => conn[d].server = "open"
    BY ZenonT(40), <1>0, <2>1 DEF DataCleared, Infos
  <2>3. QED BY <1>4, <2>1, <2>2 DEF Here
<1>12. ASSUME NEW c \in Conns, NEW h \in {"client", "server"}, CloseRecorded(c, h)
       PROVE  ToldOK(d)'
  <2>1. /\ cat = "idle" /\ cat' = "DELETE" /\ ccur' = c /\ told' = told
        /\ at = "idle" /\ at' = "idle"
        /\ conn' = [conn EXCEPT ![c] = DataCleared(conn[c], h)]
    BY <1>12 DEF CloseRecorded, LastCloseCb, SocketClosed, mappingVars
  <2>2. CASE d = c
    <3>1. Here(c) = "idle" /\ Here(c)' = "DELETE" /\ ~Clearing(c) /\ ~Clearing(c)'
      BY <1>0, <2>1 DEF Here, Clearing
    <3>2. /\ conn'[c].life = "live" /\ ~conn'[c].connecting
          /\ conn'[c].server = "closed" /\ conn'[c].bInMap = IN_MAP_SUCC
      <4>1. InfoInv(conn'[c])
        BY DEF ConnFacts, ConnInv
      <4>2. conn'[c].life = "live" /\ conn'[c].server = "closed"
        BY <2>1 DEF ConnFacts, PlaceInv
      <4>3. conn'[c].bInMap = IN_MAP_SUCC
        BY <1>0, <2>2, <3>1 DEF Settled
      <4>4. QED BY <4>1, <4>2, <4>3 DEF InfoInv
    <3>3. /\ conn'[c].life = conn[c].life /\ conn'[c].bInMap = conn[c].bInMap
          /\ conn'[c].connecting = conn[c].connecting
      <4>1. conn'[c] = DataCleared(conn[c], h)
        BY <1>0, <2>1
      <4>2. QED BY <1>0, <4>1 DEF DataCleared, Infos
    <3>4. told[c] = "connected"
      <4>1. told[c] \notin {"nothing", "added", "gone"}
        BY <1>0, <3>1, <3>2, <3>3 DEF ToldOK, NOT_IN_MAP, IN_MAP_SUCC
      <4>2. QED BY <1>0, <4>1 DEF Tellings
    <3>5. QED BY <2>1, <2>2, <3>1, <3>2, <3>4 DEF ToldOK, NOT_IN_MAP, IN_MAP_SUCC
  <2>3. CASE d # c
    BY <1>7, <2>1, <2>3
  <2>4. QED BY <2>2, <2>3
<1>13. ASSUME NEW c \in Conns, conn' = [conn EXCEPT ![c] = Freed], d = c, cat' = "idle",
              told' = told, told[c] = "gone"
       PROVE  ToldOK(d)'
  <2>1. conn'[d] = Freed /\ Here(d)' = "idle"
    BY <1>0, <1>13 DEF Here, ConnFacts, ConnTypeOK
  <2>2. QED BY <1>13, <2>1 DEF ToldOK, Freed, Unused
<1>14. ASSUME NEW c \in Conns, NEW h \in {"client", "server"}, CloseUnrecorded(c, h)
       PROVE  ToldOK(d)'
  <2>1. /\ conn' = [conn EXCEPT ![c] = Freed] /\ told' = told
        /\ cat = "idle" /\ cat' = "idle" /\ FoundRecord(c) = None
        /\ conn[c][h] = "closing"
    BY <1>14 DEF CloseUnrecorded, LastCloseCb, SocketClosed
  <2>2. conn[c].life = "live"
    BY <1>0, <2>1 DEF InfoInv
  <2>3. conn[c].bInMap = NOT_IN_MAP
    BY <1>0, <2>1, <2>2, RecordedMeans DEF FoundRecord, Settled
  <2>4. told[c] = "gone"
    BY <1>0, <2>2, <2>3 DEF ToldOK
  <2>5. QED BY <1>7, <1>13, <2>1, <2>4
<1>15. CASE StartReading
  <2>1. PICK c \in Conns : c = ccur
    BY <1>0, <1>15 DEF StartReading
  <2>2. /\ conn' = [conn EXCEPT ![c] = Reading(conn[c], BothOpen(conn[c]))]
        /\ cat = "read" /\ cat' = "idle" /\ told' = told /\ at = "idle" /\ at' = "idle"
    BY <1>0, <1>15, <2>1 DEF StartReading, ConnTypeOK, Reading, ConnFacts, mappingVars
  <2>3. CASE d = c
    <3>1. /\ Here(c) = "read" /\ Here(c)' = "idle" /\ ~Clearing(c)'
          /\ conn'[c] = Reading(conn[c], BothOpen(conn[c]))
      BY <1>0, <2>1, <2>2 DEF Here, Clearing
    <3>2. /\ conn'[c].life = conn[c].life /\ conn'[c].bInMap = conn[c].bInMap
          /\ ~conn'[c].connecting
      BY <1>0, <3>1 DEF Reading, Infos
    <3>3. told[c] = "connected"
      BY <1>0, <3>1 DEF ToldOK
    <3>4. QED BY <1>0, <2>2, <2>3, <3>1, <3>2, <3>3 DEF ToldOK
  <2>4. CASE d # c
    BY <1>7, <2>1, <2>2, <2>4
  <2>5. QED BY <2>3, <2>4
<1>16. CASE EraseRecord
  <2>1. PICK c \in Conns : c = ccur
    BY <1>0, <1>16 DEF EraseRecord
  <2>2. /\ conn' = [conn EXCEPT ![c] = Freed] /\ cat = "erase" /\ cat' = "idle"
        /\ told' = told
    BY <1>16, <2>1 DEF EraseRecord
  <2>3. told[c] = "gone"
    BY <1>0, <2>1, <2>2 DEF ToldOK, Here
  <2>4. QED BY <1>7, <1>13, <2>1, <2>2, <2>3
<1>17. CASE HandleConnectMsg
  <2>1. /\ conn' = conn /\ told' = [told EXCEPT ![ccur] = Telling[cat]]
        /\ at = "idle" /\ at' = "idle"
        /\ \/ cat = "ADD" /\ cat' = "idle" /\ ccur' = None
           \/ cat = "CHANGE" /\ cat' = "read" /\ ccur' = ccur
           \/ cat = "DELETE" /\ cat' = "erase" /\ ccur' = ccur
    BY <1>0, <1>17 DEF HandleConnectMsg, ConnSends, mappingVars
  <2>2. CASE ccur # d
    <3>1. told'[d] = told[d] /\ Here(d) = "idle" /\ Here(d)' = "idle"
      BY <1>0, <2>1, <2>2 DEF Here
    <3>2. QED BY <1>4, <2>1, <3>1
  <2>3. CASE ccur = d
    <3>1. /\ Here(d) = cat /\ ~Clearing(d) /\ ~Clearing(d)' /\ conn[d].life = "live"
          /\ told'[d] = Telling[cat]
      BY <1>0, <2>1, <2>3 DEF Here, Clearing
    <3>2. CASE cat = "ADD"
      <4>1. Here(d)' = "idle" /\ told'[d] = "added" /\ told[d] = "nothing"
        BY <1>0, <2>1, <3>1, <3>2 DEF Here, Telling, ConnSends, ToldOK
      <4>2. conn[d].connecting /\ conn[d].bInMap # NOT_IN_MAP
        BY <1>0, <3>1, <3>2, <4>1 DEF ToldOK
      <4>3. QED BY <2>1, <3>1, <4>1, <4>2 DEF ToldOK
    <3>3. CASE cat = "CHANGE"
      <4>1. Here(d)' = "read" /\ told'[d] = "connected" /\ told[d] = "added"
        BY <1>0, <2>1, <2>3, <3>1, <3>3 DEF Here, Telling, ConnSends, ToldOK
      <4>2. conn[d].bInMap # NOT_IN_MAP
        BY <1>0, <4>1 DEF ToldOK
      <4>3. QED BY <2>1, <3>1, <4>1, <4>2 DEF ToldOK
    <3>4. CASE cat = "DELETE"
      <4>1. Here(d)' = "erase" /\ told'[d] = "gone"
        BY <1>0, <2>1, <2>3, <3>1, <3>4 DEF Here, Telling, ConnSends
      <4>2. conn[d].server = "closed"
        BY <2>3, <3>4 DEF ConnFacts, PlaceInv
      <4>3. QED BY <2>1, <3>1, <4>1, <4>2 DEF ToldOK
    <3>5. QED BY <2>1, <3>2, <3>3, <3>4
  <2>4. QED BY <2>2, <2>3
<1>18. ASSUME NEW m \in Mappings, NEW c \in Conns, NEW k \in Clients, Accept(m, c, k)
       PROVE  ToldOK(d)'
  <2>1. /\ conn' = [conn EXCEPT ![c] = Accepted(m, k)] /\ conn[c].life = "unused"
        /\ cat = "idle" /\ cat' = "ADD" /\ ccur' = c /\ told' = told
        /\ at = "idle" /\ at' = "idle"
    BY <1>18 DEF Accept, Accepted, Accepts, mappingVars
  <2>2. CASE d = c
    <3>1. Here(d)' = "ADD" /\ ~Clearing(d)' /\ conn'[d] = Accepted(m, k)
      BY <1>0, <2>1, <2>2 DEF Here, Clearing
    <3>2. told[d] = "nothing"
      BY <1>0, <2>1, <2>2 DEF ToldOK
    <3>3. /\ conn'[d].life = "live" /\ conn'[d].connecting
          /\ conn'[d].bInMap # NOT_IN_MAP /\ told'[d] = "nothing"
      <4>1. /\ Accepted(m, k).life = "live" /\ Accepted(m, k).connecting
            /\ Accepted(m, k).bInMap # NOT_IN_MAP
        BY DEF Accepted, Unused, NOT_IN_MAP, IN_MAP_WAIT
      <4>2. QED BY <2>1, <3>1, <3>2, <4>1
    <3>4. QED BY <3>1, <3>3 DEF ToldOK
  <2>3. CASE d # c
    BY <1>7, <2>1, <2>3
  <2>4. QED BY <2>2, <2>3
<1>19. QED BY <1>6, <1>8, <1>9, <1>10, <1>11, <1>12, <1>14, <1>15, <1>16, <1>17, <1>18
           DEF TcpNext, TcpProgress, TcpEnvironment

LEMMA Told == TcpSpec => [](ConnFacts /\ AllTold)
<1>1. TcpInit => AllTold
  BY TcpAssumption DEF TcpInit, Unused, AllTold, ToldOK, Here, Clearing, Init
<1>2. QED BY <1>1, ToldStep, Facts, PTL DEF TcpSpec

(* The answer to AnsycGetAllConnect is what the window was told one by     *)
(* one.                                                                    *)
THEOREM AnswerIsWhatWasTold == TcpSpec => []AnswerIsTold
<1>1. ConnFacts /\ AllTold => AnswerIsTold
  <2>1. SUFFICES ASSUME ConnFacts, AllTold, Good, at = "ALL"
                 PROVE  Recorded(PortOf[cur]) = Feed!Known(cur)
    BY DEF AnswerIsTold, Good
  <2>2. /\ cur \in Mappings /\ alloc[cur] = "live" /\ cat = "idle"
        /\ cur # None /\ Recorded(PortOf[cur]) \subseteq Conns
    BY <2>1, MappingAssumption DEF ConnFacts, TypeOK, LiveInv, CurIsLive, PlaceInv,
                                   ConnTypeOK, Recorded
  <2>3. ASSUME NEW c \in Conns
        PROVE  c \in Recorded(PortOf[cur])
               <=> conn[c].pMapping = cur /\ told[c] \in {"added", "connected"}
    <3>1. ToldOK(c) /\ told[c] \in Tellings /\ Here(c) = "idle" /\ ~Clearing(c)
      BY <2>1, <2>2, TcpAssumption
         DEF AllTold, ConnFacts, ConnTypeOK, Here, Clearing
    <3>2. ASSUME c \in Recorded(PortOf[cur])
          PROVE  conn[c].pMapping = cur /\ told[c] \in {"added", "connected"}
      <4>1. /\ conn[c].life = "live" /\ conn[c].pMapping = cur
            /\ conn[c].bInMap # NOT_IN_MAP
        BY <2>1, <2>2, <3>2, RecordedMeans
      <4>2. told[c] \notin {"nothing", "gone"}
        BY <3>1, <4>1 DEF ToldOK
      <4>3. QED BY <3>1, <4>1, <4>2 DEF Tellings
    <3>3. ASSUME conn[c].pMapping = cur, told[c] \in {"added", "connected"}
          PROVE  c \in Recorded(PortOf[cur])
      <4>1. conn[c].life = "live" /\ conn[c].bInMap # NOT_IN_MAP
        BY <3>1, <3>3 DEF ToldOK
      <4>2. QED BY <2>1, <3>3, <4>1, RecordedMeans DEF PortOfConn
    <3>4. QED BY <3>2, <3>3
  <2>4. Feed!Known(cur) = {c \in Conns : conn[c].pMapping = cur
                                         /\ told[c] \in {"added", "connected"}}
    BY DEF Feed!Known
  <2>5. QED BY <2>2, <2>3, <2>4
<1>2. QED BY <1>1, Told, PTL

-----------------------------------------------------------------------------
(* The feed.                                                               *)
FeedKept == [Feed!FeedNext]_(Feed!feedVars)

(* One ConnectInfo changes, but neither its life nor its mapping, and      *)
(* nothing is told: the feed stutters.                                     *)
LEMMA FeedStutter ==
    ASSUME UNCHANGED <<alloc, told>>,
           \A c \in Conns : /\ conn'[c].life = conn[c].life
                            /\ conn'[c].pMapping = conn[c].pMapping
    PROVE  FeedKept
<1>1. /\ [c \in Conns |-> conn[c].life]' = [c \in Conns |-> conn[c].life]
      /\ [c \in Conns |-> conn[c].pMapping]' = [c \in Conns |-> conn[c].pMapping]
  OBVIOUS
<1>2. QED BY <1>1 DEF FeedKept, Feed!feedVars

LEMMA FeedDeletes ==
    ASSUME ConnFacts, NEW c \in Conns, conn' = [conn EXCEPT ![c] = Freed],
           conn[c].life = "live", told[c] = "gone", UNCHANGED <<alloc, told>>
    PROVE  FeedKept
<1>1. conn \in [Conns -> Infos]
  BY DEF ConnFacts, ConnTypeOK
<1>2. [d \in Conns |-> conn[d].life]' = [[d \in Conns |-> conn[d].life] EXCEPT ![c] = "freed"]
  BY <1>1 DEF Freed, Unused
<1>3. [d \in Conns |-> conn[d].pMapping]'
          = [[d \in Conns |-> conn[d].pMapping] EXCEPT ![c] = None]
  BY <1>1 DEF Freed, Unused
<1>4. Feed!Deleted(c)
  BY <1>2, <1>3 DEF Feed!Deleted
<1>5. QED BY <1>4 DEF FeedKept, Feed!FeedNext

LEMMA FeedStep ==
    ConnFacts /\ AllTold /\ [TcpNext]_tcpVars => (Good' => FeedKept)
<1> SUFFICES ASSUME ConnFacts, AllTold, [TcpNext]_tcpVars, Good' PROVE FeedKept
  OBVIOUS
<1> USE TcpAssumption, MappingAssumption
    DEF recordVars, placeVars, ConnGoto, LoopIdle, Idle, ConnIdle
<1>0. /\ \A c \in Conns : conn[c] \in Infos /\ InfoInv(conn[c]) /\ Settled(c) /\ ToldOK(c)
      /\ conn \in [Conns -> Infos] /\ told \in [Conns -> Tellings]
      /\ cat # "idle" <=> ccur \in Conns
      /\ Good /\ fault' = "none"
      /\ cat # "idle" => at = "idle" /\ conn[ccur].life = "live"
  <2>1. Good /\ fault' = "none"
    BY DEF Good, NoFault, TcpNext, tcpVars, mappingVars, connVars
  <2>2. QED BY <2>1 DEF ConnFacts, ConnTypeOK, ConnInv, AllSettled, AllTold, PlaceInv
<1>1. CASE UNCHANGED <<alloc, conn, told>>
  BY <1>1, FeedStutter
<1>2. CASE UNCHANGED tcpVars \/ RemoveAllOfPort
           \/ (\E m \in Mappings : SendAllConnect(m))
           \/ (\E c \in Conns : UserRemovesConnect(c) \/ ReadOfFreedMapping(c))
           \/ (\E m \in Mappings, c \in Conns : AcceptFails(m, c))
  BY <1>1, <1>2 DEF tcpVars, mappingVars, connVars, RemoveAllOfPort, RemoveAllConnect,
     SendAllConnect, AnsycGetAllConnect, UserRemovesConnect, RemoveConnect,
     ReadOfFreedMapping, AcceptFails
<1>3. CASE MappingProgress
  <2>1. CASE Erase
    <3>1. /\ cur \in Mappings /\ alloc[cur] = "live" /\ cat = "idle" /\ at = "erase"
          /\ alloc' = [alloc EXCEPT ![cur] = "erased"]
          /\ listen[cur] \in {"none", "closed"}
      BY <1>0, <2>1 DEF Erase, ConnFacts, TypeOK, LiveInv, CurIsLive
    <3>2. ASSUME NEW c \in Conns, conn[c].pMapping = cur PROVE told[c] = "gone"
      <4>1. conn[c].life = "live"
        BY <1>0, <3>1, <3>2 DEF Settled
      <4>2. told[c] # "nothing"
        BY <1>0, <3>1, <4>1 DEF ToldOK, Here
      <4>3. told[c] \notin {"added", "connected"}
        <5>1. SUFFICES ASSUME told[c] \in {"added", "connected"} PROVE FALSE
          OBVIOUS
        <5>2. c \in Recorded(PortOfConn(c)) /\ PortOfConn(c) \in Ports
          BY <1>0, <3>1, <3>2, <5>1, RecordedMeans DEF ToldOK, PortOfConn
        <5>3. listen[cur] = "listening" \/ ClosingDown(cur)
          BY <1>0, <3>2, <5>2
             DEF ConnFacts, RecordsInv, RecordsNeedListener, Good, NoFault
        <5>4. QED BY <3>1, <5>3 DEF ClosingDown
      <4>4. QED BY <1>0, <4>2, <4>3 DEF Tellings
    <3>3. Feed!MappingErased(cur)
      BY <1>3, <3>1, <3>2 DEF MappingProgress, connVars, Feed!MappingErased
    <3>4. QED BY <3>1, <3>3 DEF FeedKept, Feed!FeedNext
  <2>2. CASE ~Erase
    <3>1. UNCHANGED <<alloc, conn, told>>
      BY <1>3, <2>2 DEF MappingProgress, connVars, TakeBatch, MappingWork, RunFreed,
         StartIgnored, StartOnOpenHandle, AnsycStartMapping, StopStopped, StopHandle,
         listen_close_cb, TestDeleting, LoadState, StoreOr, StoreAnd, HandleMappingMsg
    <3>2. QED BY <1>1, <3>1
  <2>3. QED BY <2>1, <2>2
<1>4. CASE MappingRequests
  <2>1. ASSUME NEW m \in Mappings, AddMapping(m) PROVE FeedKept
    <3>1. Feed!MappingAdded(m)
      BY <1>4, <2>1 DEF MappingRequests, connVars, AddMapping, Feed!MappingAdded
    <3>2. QED BY <3>1 DEF FeedKept, Feed!FeedNext
  <2>2. CASE ~\E m \in Mappings : AddMapping(m)
    <3>1. UNCHANGED <<alloc, conn, told>>
      BY <1>4, <2>2 DEF MappingRequests, connVars, StartMapping, StopMapping,
         GetAllConnect, RemoveMapping, ListenFails, RemoveStore
    <3>2. QED BY <1>1, <3>1
  <2>3. QED BY <2>1, <2>2
<1>5. CASE HandleClear
  <2>1. /\ cur \in Mappings /\ alloc[cur] = "live" /\ UNCHANGED <<alloc, conn>>
        /\ told' = [c \in Conns |->
                      IF conn[c].pMapping = cur /\ told[c] \in {"added", "connected"}
                      THEN "gone" ELSE told[c]]
    BY <1>5 DEF HandleClear, HandleMappingMsg, ConnFacts, TypeOK, LiveInv, CurIsLive, Sends
  <2>2. \A c \in Conns : c \in Feed!Known(cur)
            <=> conn[c].pMapping = cur /\ told[c] \in {"added", "connected"}
    BY DEF Feed!Known
  <2>3. told' = [c \in Conns |-> IF c \in Feed!Known(cur) THEN "gone" ELSE told[c]]
    BY <2>1, <2>2
  <2>4. Feed!TellCleared(cur)
    BY <2>1, <2>3 DEF Feed!TellCleared
  <2>5. QED BY <2>1, <2>4 DEF FeedKept, Feed!FeedNext
<1>6. ASSUME UNCHANGED <<alloc, told>>, \A c \in Conns : SameOwner(conn[c], conn'[c])
      PROVE  FeedKept
  BY <1>6, FeedStutter DEF SameOwner
<1>7. CASE CloseAllOfPort
  <2>1. /\ UNCHANGED <<alloc, told>>
        /\ \A c \in Conns :
              conn'[c] \in {conn[c], [BothClosed(conn[c]) EXCEPT !.bInMap = NOT_IN_MAP]}
    BY <1>7 DEF CloseAllOfPort, ClearRecords
  <2>2. \A c \in Conns : /\ conn'[c].life = conn[c].life
                         /\ conn'[c].pMapping = conn[c].pMapping
    <3>1. SUFFICES ASSUME NEW c \in Conns
                   PROVE  /\ conn'[c].life = conn[c].life
                          /\ conn'[c].pMapping = conn[c].pMapping
      OBVIOUS
    <3>2. BothClosed(conn[c]) \in Infos /\ SameOwner(conn[c], BothClosed(conn[c]))
      BY <1>0, InfoTypes, OwnerSteps
    <3>3. QED BY <2>1, <3>2 DEF SameOwner, Infos
  <2>3. QED BY <2>1, <2>2, FeedStutter
<1>8. ASSUME NEW c \in Conns, RunRemoveConnect(c) \/ ReadFails(c) PROVE FeedKept
  <2>1. /\ UNCHANGED <<alloc, told>>
        /\ \A d \in Conns : conn'[d] \in {conn[d], BothClosed(conn[d])}
    BY <1>0, <1>8 DEF RunRemoveConnect, ReadFails, AnsycRemoveConnect, mappingVars
  <2>2. \A d \in Conns : SameOwner(conn[d], conn'[d])
    BY <1>0, <2>1, OwnerSteps
  <2>3. QED BY <1>6, <2>1, <2>2
<1>9. ASSUME NEW c \in Conns, Connected(c) \/ ConnectFails(c) \/ ClientGivesUp(c)
      PROVE  FeedKept
  <2>1. /\ UNCHANGED <<alloc, told>>
        /\ \A d \in Conns :
               \/ conn'[d] = conn[d]
               \/ conn'[d] = [conn[d] EXCEPT !.up = FALSE]
               \/ conn'[d] = [conn[d] EXCEPT !.bInMap = IN_MAP_SUCC]
               \/ conn'[d] = [BothClosed(conn[d]) EXCEPT !.bInMap = IN_MAP_SUCC]
    BY <1>0, <1>9 DEF Connected, ConnectFails, ClientGivesUp, mappingVars
  <2>2. \A d \in Conns : SameOwner(conn[d], conn'[d])
    BY ZenonT(40), <1>0, <2>1, OwnerSteps
  <2>3. QED BY <1>6, <2>1, <2>2
<1>10. ASSUME NEW c \in Conns, NEW h \in {"client", "server"},
              OneCloseCb(c, h) \/ CloseRecorded(c, h)
       PROVE  FeedKept
  <2>1. /\ UNCHANGED <<alloc, told>>
        /\ \A d \in Conns : conn'[d] = conn[d] \/ conn'[d] = DataCleared(conn[d], h)
    BY <1>0, <1>10 DEF OneCloseCb, CloseRecorded, mappingVars
  <2>2. \A d \in Conns : SameOwner(conn[d], conn'[d])
    BY <1>0, <2>1, OwnerSteps
  <2>3. QED BY <1>6, <2>1, <2>2
<1>11. ASSUME NEW c \in Conns, NEW h \in {"client", "server"}, CloseUnrecorded(c, h)
       PROVE  FeedKept
  <2>1. /\ conn' = [conn EXCEPT ![c] = Freed] /\ UNCHANGED <<alloc, told>>
        /\ FoundRecord(c) = None /\ conn[c][h] = "closing"
    BY <1>11 DEF CloseUnrecorded, LastCloseCb, SocketClosed, mappingVars
  <2>2. conn[c].life = "live"
    BY <1>0, <2>1 DEF InfoInv
  <2>3. conn[c].bInMap = NOT_IN_MAP
    BY <1>0, <2>1, <2>2, RecordedMeans DEF FoundRecord, Settled
  <2>4. told[c] = "gone"
    BY <1>0, <2>2, <2>3 DEF ToldOK
  <2>5. QED BY <2>1, <2>2, <2>4, FeedDeletes
<1>12. CASE StartReading
  <2>1. PICK c \in Conns : c = ccur
    BY <1>0, <1>12 DEF StartReading
  <2>2. /\ conn' = [conn EXCEPT ![c] = Reading(conn[c], BothOpen(conn[c]))]
        /\ UNCHANGED <<alloc, told>>
    BY <1>0, <1>12, <2>1 DEF StartReading, ConnTypeOK, Reading, ConnFacts, mappingVars
  <2>3. \A d \in Conns : SameOwner(conn[d], conn'[d])
    <3>1. BothOpen(conn[c]) \in BOOLEAN
      BY DEF BothOpen
    <3>2. SameOwner(conn[c], Reading(conn[c], BothOpen(conn[c])))
      BY <1>0, <3>1, OwnerSteps
    <3>3. QED BY <2>2, <3>2, KeptUpdate DEF Kept, ConnFacts
  <2>4. QED BY <1>6, <2>2, <2>3
<1>13. CASE EraseRecord
  <2>1. PICK c \in Conns : c = ccur
    BY <1>0, <1>13 DEF EraseRecord
  <2>2. /\ conn' = [conn EXCEPT ![c] = Freed] /\ UNCHANGED <<alloc, told>>
        /\ conn[c].life = "live" /\ told[c] = "gone"
    BY <1>0, <1>13, <2>1 DEF EraseRecord, ToldOK, Here, mappingVars
  <2>3. QED BY <2>2, FeedDeletes
<1>14. CASE HandleConnectMsg
  <2>1. PICK c \in Conns : c = ccur
    BY <1>0, <1>14 DEF HandleConnectMsg, ConnSends
  <2>2. /\ UNCHANGED <<alloc, conn>> /\ told' = [told EXCEPT ![c] = Telling[cat]]
        /\ conn[c].life = "live" /\ Here(c) = cat /\ cat \in ConnSends
    BY <1>0, <1>14, <2>1 DEF HandleConnectMsg, mappingVars, Here, ConnSends
  <2>3. \/ told[c] = "nothing" /\ Telling[cat] = "added"
        \/ told[c] = "added" /\ Telling[cat] = "connected"
        \/ told[c] = "connected" /\ Telling[cat] = "gone"
    BY <1>0, <2>2 DEF ToldOK, Telling, ConnSends
  <2>4. Feed!TellAdded(c) \/ Feed!TellConnected(c) \/ Feed!TellGone(c)
    BY <2>2, <2>3 DEF Feed!TellAdded, Feed!TellConnected, Feed!TellGone, Feed!Tell
  <2>5. QED BY <2>4 DEF FeedKept, Feed!FeedNext
<1>15. ASSUME NEW m \in Mappings, NEW c \in Conns, NEW k \in Clients, Accept(m, c, k)
       PROVE  FeedKept
  <2>1. /\ conn' = [conn EXCEPT ![c] = Accepted(m, k)] /\ conn[c].life = "unused"
        /\ UNCHANGED <<alloc, told>> /\ listen[m] = "listening"
    BY <1>15 DEF Accept, Accepted, Accepts, mappingVars
  <2>2. alloc[m] = "live"
    BY <1>0, <2>1 DEF ConnFacts, LiveInv, OpenIsLive, Open, Good, NoFault
  <2>3. [d \in Conns |-> conn[d].life]'
            = [[d \in Conns |-> conn[d].life] EXCEPT ![c] = "live"]
    BY <1>0, <2>1 DEF Accepted, Unused
  <2>4. [d \in Conns |-> conn[d].pMapping]'
            = [[d \in Conns |-> conn[d].pMapping] EXCEPT ![c] = m]
    BY <1>0, <2>1 DEF Accepted, Unused
  <2>5. Feed!Accepted(c, m)
    BY <2>1, <2>2, <2>3, <2>4 DEF Feed!Accepted
  <2>6. QED BY <2>5 DEF FeedKept, Feed!FeedNext
<1>16. QED BY <1>2, <1>3, <1>4, <1>5, <1>7, <1>8, <1>9, <1>10, <1>11, <1>12, <1>13,
              <1>14, <1>15
           DEF TcpNext, TcpProgress, TcpEnvironment

(* The window is told of each connection in order, while it and its        *)
(* mapping exist, and of its end before either is deleted.                 *)
THEOREM TcpImplementsFeed == TcpSpec => ImplementsFeed
<1>1. TcpInit => Feed!FeedInit
  BY DEF TcpInit, Init, Unused, Feed!FeedInit
<1>2. ConnFacts /\ AllTold /\ [TcpNext]_tcpVars
          => [Debug /\ NoFault' => Feed!FeedNext]_(Feed!feedVars)
  BY FeedStep DEF FeedKept, Good
<1>3. QED BY <1>1, <1>2, Told, PTL DEF TcpSpec, ImplementsFeed
=============================================================================
