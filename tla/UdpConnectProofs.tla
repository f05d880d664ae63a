-------------------------- MODULE UdpConnectProofs --------------------------
(***************************************************************************)
(* Proofs about UdpConnect, for any mappings, ports, clients, connections  *)
(* and bound of the queue, in either build: that it implements Mapping;    *)
(* the types; that the records are exactly the connections that are to be  *)
(* in them; that no connection is lost; and that none touches a mapping    *)
(* that is not listening or closing down.                                  *)
(***************************************************************************)
EXTENDS UdpConnect, MappingProofs

-----------------------------------------------------------------------------
(* The connections change nothing in the life of a mapping.                *)
LEMMA UdpStepIsMappingStep == [UdpNext]_udpVars => [Next]_mappingVars
<1> SUFFICES ASSUME [UdpNext]_udpVars PROVE [Next]_mappingVars
  OBVIOUS
<1>1. CASE UNCHANGED udpVars
  BY <1>1 DEF udpVars
<1>2. CASE UdpNext
  <2> USE <1>2
  <2>1. fault = "none"
    BY DEF UdpNext
  <2>2. CASE MappingProgress
    BY <2>1, <2>2 DEF MappingProgress, MappingWork, Next, Progress, RunWork
  <2>3. CASE MappingRequests
    BY <2>1, <2>3 DEF MappingRequests, Next, Requests
  <2>4. ASSUME NEW m \in Mappings, SendAllConnect(m) PROVE Next
    BY <2>1, <2>4 DEF SendAllConnect, Next, Progress, RunWork
  <2>5. CASE RemoveAllOfPort \/ CloseAllOfPort
    BY <2>1, <2>5 DEF RemoveAllOfPort, CloseAllOfPort, Next, Progress
  <2>6. ASSUME NEW c \in Conns,
               CloseUnrecorded(c) \/ CloseRecorded(c) \/ ServerAnswers(c) \/ ServerBreaks(c)
        PROVE  UNCHANGED mappingVars
    BY <2>6 DEF CloseUnrecorded, CloseRecorded, ServerAnswers, ServerBreaks
  <2>7. CASE EraseRecord \/ HandleConnectMsg
    BY <2>7 DEF EraseRecord, HandleConnectMsg
  <2>8. ASSUME NEW m \in Mappings,
               NothingReceived(m) \/ \E c \in Conns, k \in Clients : GetUDPConnect(m, c, k)
        PROVE  UNCHANGED mappingVars
    BY <2>8 DEF NothingReceived, GetUDPConnect
  <2>9. QED BY <2>2, <2>3, <2>4, <2>5, <2>6, <2>7, <2>8
            DEF UdpNext, UdpProgress, UdpEnvironment
<1>3. QED BY <1>1, <1>2

(* Every behaviour of the connections is a behaviour of the mappings.      *)
THEOREM UdpImplementsMapping == UdpSpec => Spec
<1>1. UdpInit => Init
  BY DEF UdpInit
<1>2. QED BY <1>1, UdpStepIsMappingStep, PTL DEF UdpSpec, Spec

(* So the invariants of Mapping hold with the connections.                 *)
LEMMA MappingInvariants == UdpSpec => [](TypeOK /\ LiveInv)
BY UdpImplementsMapping, TypeCorrect, Live, PTL

-----------------------------------------------------------------------------
(* What the helpers do to a ConnectInfo.                                   *)
LEMMA InfoTypes ==
    /\ Unused \in Infos /\ Freed \in Infos
    /\ \A m \in Mappings, k \in Clients, b \in BOOLEAN : Created(m, k, b) \in Infos
    /\ \A info \in Infos :
          /\ SocketClosed(info) \in Infos
          /\ [SocketClosed(info) EXCEPT !.bInMap = NOT_IN_MAP] \in Infos
<1> USE DEF Infos, NOT_IN_MAP, IN_MAP_WAIT
<1>1. Unused \in Infos
  BY DEF Unused
<1>2. Freed \in Infos
  BY <1>1 DEF Freed
<1>3. ASSUME NEW m \in Mappings, NEW k \in Clients, NEW b \in BOOLEAN
      PROVE  Created(m, k, b) \in Infos
  BY <1>1, <1>3 DEF Created, Unused
<1>4. ASSUME NEW info \in Infos
      PROVE  /\ SocketClosed(info) \in Infos
             /\ [SocketClosed(info) EXCEPT !.bInMap = NOT_IN_MAP] \in Infos
  BY <1>4 DEF SocketClosed
<1>5. QED BY <1>1, <1>2, <1>3, <1>4

(* One ConnectInfo is replaced by another.                                 *)
LEMMA ConnUpdate ==
    ASSUME ConnTypeOK, NEW c, NEW info \in Infos, conn' = [conn EXCEPT ![c] = info]
    PROVE  conn' \in [Conns -> Infos]
BY DEF ConnTypeOK

LEMMA CountUpdate ==
    ASSUME ConnTypeOK, NEW m,
           \/ nConnect' = [nConnect EXCEPT ![m] = nConnect[m] - 1]
           \/ nConnect' = [nConnect EXCEPT ![m] = 0]
    PROVE  nConnect' \in [Mappings -> Int]
<1>1. nConnect \in [Mappings -> Int]
  BY DEF ConnTypeOK
<1>2. CASE m \in Mappings
  <2>1. nConnect[m] \in Int
    BY <1>1, <1>2
  <2>2. nConnect[m] - 1 \in Int
    BY <2>1
  <2>3. QED BY <1>1, <2>2
<1>3. CASE m \notin Mappings
  BY <1>1, <1>3
<1>4. QED BY <1>2, <1>3

LEMMA ConnTypeStep == TypeOK /\ ConnTypeOK /\ [UdpNext]_udpVars => ConnTypeOK'
<1> SUFFICES ASSUME TypeOK, ConnTypeOK, [UdpNext]_udpVars PROVE ConnTypeOK'
  OBVIOUS
<1> USE UdpAssumption, MappingAssumption DEF ConnGoto
<1>1. CASE UNCHANGED udpVars \/ MappingProgress \/ MappingRequests \/ RemoveAllOfPort
  BY <1>1 DEF udpVars, MappingProgress, MappingRequests, RemoveAllOfPort, connVars,
     ConnTypeOK
<1>2. ASSUME NEW m \in Mappings, SendAllConnect(m) PROVE ConnTypeOK'
  BY <1>2 DEF SendAllConnect, connVars, ConnTypeOK
<1>3. CASE CloseAllOfPort
  <2>1. conn' \in [Conns -> Infos]
    BY <1>3, InfoTypes DEF CloseAllOfPort, ConnTypeOK
  <2>2. PICK p : records' = [records EXCEPT ![p] = [k \in Clients |-> None]]
    BY <1>3 DEF CloseAllOfPort
  <2>3. records' \in [Ports -> [Clients -> Conns \cup {None}]]
    BY <2>2 DEF ConnTypeOK
  <2>4. PICK m : nConnect' = [nConnect EXCEPT ![m] = 0]
    BY <1>3 DEF CloseAllOfPort
  <2>5. nConnect' \in [Mappings -> Int]
    BY <2>4, CountUpdate
  <2>6. cfault' \in {"closed twice", cfault}
    BY <1>3, Zenon DEF CloseAllOfPort
  <2>7. QED BY <1>3, <2>1, <2>3, <2>5, <2>6 DEF CloseAllOfPort, ConnTypeOK
<1>4. ASSUME NEW c \in Conns, CloseUnrecorded(c) PROVE ConnTypeOK'
  <2>1. conn' \in [Conns -> Infos]
    BY <1>4, ConnUpdate, InfoTypes DEF CloseUnrecorded
  <2>2. QED BY <1>4, <2>1 DEF CloseUnrecorded, ConnTypeOK
<1>5. ASSUME NEW c \in Conns, CloseRecorded(c) PROVE ConnTypeOK'
  BY <1>5 DEF CloseRecorded, ConnTypeOK
<1>6. ASSUME NEW c \in Conns, ServerAnswers(c) PROVE ConnTypeOK'
  BY <1>6 DEF ServerAnswers, UdpSend, ConnTypeOK
<1>7. ASSUME NEW c \in Conns, ServerBreaks(c) PROVE ConnTypeOK'
  <2>1. SocketClosed(conn[c]) \in Infos
    BY InfoTypes DEF ConnTypeOK
  <2>2. conn' \in [Conns -> Infos]
    BY <1>7, <2>1, ConnUpdate DEF ServerBreaks
  <2>3. QED BY <1>7, <2>2 DEF ServerBreaks, ConnTypeOK
<1>8. CASE EraseRecord
  <2>1. PICK m : nConnect' = [nConnect EXCEPT ![m] = nConnect[m] - 1]
    BY <1>8 DEF EraseRecord
  <2>2. nConnect' \in [Mappings -> Int]
    BY <2>1, CountUpdate
  <2>3. PICK p, k : records' = [records EXCEPT ![p][k] = None]
    BY <1>8 DEF EraseRecord
  <2>4. records' \in [Ports -> [Clients -> Conns \cup {None}]]
    BY <2>3 DEF ConnTypeOK
  <2>5. conn' \in [Conns -> Infos]
    BY <1>8, ConnUpdate, InfoTypes DEF EraseRecord
  <2>6. QED BY <1>8, <2>2, <2>4, <2>5 DEF EraseRecord, ConnTypeOK
<1>9. CASE HandleConnectMsg
  BY <1>9 DEF HandleConnectMsg, ConnTypeOK
<1>10. ASSUME NEW m \in Mappings, NothingReceived(m) PROVE ConnTypeOK'
  BY <1>10 DEF NothingReceived, ConnTypeOK
<1>11. ASSUME NEW m \in Mappings, NEW c \in Conns, NEW k \in Clients,
              GetUDPConnect(m, c, k)
       PROVE  ConnTypeOK'
  <2>1. PICK b \in BOOLEAN : conn' = [conn EXCEPT ![c] = Created(m, k, b)]
    BY <1>11 DEF GetUDPConnect
  <2>2. conn' \in [Conns -> Infos]
    BY <2>1, ConnUpdate, InfoTypes
  <2>3. PortOf[m] \in Ports
    OBVIOUS
  <2>4. QED BY <1>11, <2>2, <2>3 DEF GetUDPConnect, ConnTypeOK
<1>12. QED BY <1>1, <1>2, <1>3, <1>4, <1>5, <1>6, <1>7, <1>8, <1>9, <1>10, <1>11
           DEF UdpNext, UdpProgress, UdpEnvironment

(* Every variable keeps its type.                                          *)
THEOREM UdpTypeCorrect == UdpSpec => []UdpTypeOK
<1>1. UdpInit => ConnTypeOK
  BY InfoTypes, UdpAssumption DEF UdpInit, ConnTypeOK
<1>2. QED BY <1>1, ConnTypeStep, MappingInvariants, PTL DEF UdpSpec, UdpTypeOK

-----------------------------------------------------------------------------
(* The inductive invariant.  A ConnectInfo has an open or a closing        *)
(* socket, and only a closing one may be out of the records.  The records  *)
(* are exactly the connections with bInMap set, each under its own port    *)
(* and client, and the port has an entry and a mapping that listens or is  *)
(* closing down, so that the clearing of the port finds all of them.       *)
InfoInv(info) ==
    IF info.life = "live"
    THEN /\ info.pMapping \in Mappings /\ info.key \in Clients
         /\ info.server \in {"open", "closing"}
         /\ info.receiving => info.server = "open"
         /\ info.bInMap = NOT_IN_MAP => info.server = "closing"
    ELSE /\ info.server = "none" /\ ~info.receiving /\ info.bInMap = NOT_IN_MAP

RecordInv(c) ==
    /\ \A p \in Ports, k \in Clients :
           records[p][k] = c => /\ conn[c].bInMap = IN_MAP_WAIT
                                /\ PortOf[conn[c].pMapping] = p /\ conn[c].key = k
    /\ conn[c].bInMap = IN_MAP_WAIT =>
           /\ records[PortOf[conn[c].pMapping]][conn[c].key] = c
           /\ PortOf[conn[c].pMapping] \in entries
           /\ fault = "none" => Held(conn[c].pMapping)

ConnInv == \A c \in Conns : InfoInv(conn[c]) /\ RecordInv(c)

PlaceInv ==
    /\ cat = "idle" \/ at = "idle"
    /\ cat \in {"DELETE", "erase"} => conn[ccur].bInMap = IN_MAP_WAIT

UdpInv == ConnInv /\ PlaceInv

LEMMA InfoSteps ==
    /\ InfoInv(Unused) /\ InfoInv(Freed)
    /\ \A m \in Mappings, k \in Clients, b \in BOOLEAN : InfoInv(Created(m, k, b))
    /\ \A info \in Infos :
          InfoInv(info) /\ info.server # "none" =>
              /\ InfoInv(SocketClosed(info))
              /\ InfoInv([SocketClosed(info) EXCEPT !.bInMap = NOT_IN_MAP])
<1> USE DEF InfoInv, NOT_IN_MAP, IN_MAP_WAIT
<1>1. InfoInv(Unused)
  BY DEF Unused
<1>2. InfoInv(Freed)
  BY DEF Freed, Unused
<1>3. ASSUME NEW m \in Mappings, NEW k \in Clients, NEW b \in BOOLEAN
      PROVE  InfoInv(Created(m, k, b))
  BY <1>3 DEF Created, Unused
<1>4. ASSUME NEW info \in Infos, InfoInv(info), info.server # "none"
      PROVE  /\ InfoInv(SocketClosed(info))
             /\ InfoInv([SocketClosed(info) EXCEPT !.bInMap = NOT_IN_MAP])
  BY <1>4 DEF SocketClosed, Infos
<1>5. QED BY <1>1, <1>2, <1>3, <1>4

(* What a step must leave alone for a connection to stay as it should.     *)
LEMMA RecordFrame ==
    ASSUME NEW c, InfoInv(conn[c]), RecordInv(c),
           conn'[c].pMapping = conn[c].pMapping, conn'[c].key = conn[c].key,
           conn'[c].bInMap = conn[c].bInMap,
           \A p \in Ports, k \in Clients : records'[p][k] = c <=> records[p][k] = c,
           entries \subseteq entries', fault' = "none" => fault = "none",
           \A m \in Mappings :
               /\ fault' = "none" /\ Held(m)
               /\ m = conn[c].pMapping /\ conn[c].bInMap = IN_MAP_WAIT
               => Held(m)'
    PROVE  RecordInv(c)'
<1> USE MappingAssumption
<1>1. (\A p \in Ports, k \in Clients :
           records[p][k] = c => /\ conn[c].bInMap = IN_MAP_WAIT
                                /\ PortOf[conn[c].pMapping] = p /\ conn[c].key = k)'
  BY DEF RecordInv
<1>2. ASSUME conn[c].bInMap = IN_MAP_WAIT
      PROVE  (/\ records[PortOf[conn[c].pMapping]][conn[c].key] = c
              /\ PortOf[conn[c].pMapping] \in entries
              /\ fault = "none" => Held(conn[c].pMapping))'
  <2>1. PICK m \in Mappings : m = conn[c].pMapping
    BY <1>2 DEF InfoInv, NOT_IN_MAP, IN_MAP_WAIT
  <2>2. PortOf[m] \in Ports /\ conn[c].key \in Clients
    BY <1>2 DEF InfoInv, NOT_IN_MAP, IN_MAP_WAIT
  <2>3. records'[PortOf[m]][conn[c].key] = c /\ PortOf[m] \in entries'
    BY <1>2, <2>1, <2>2 DEF RecordInv
  <2>4. fault' = "none" => Held(m)'
    BY <1>2, <2>1 DEF RecordInv
  <2>5. (fault = "none" => Held(conn[c].pMapping))'
    BY <2>1, <2>4 DEF Held, ClosingDown
  <2>6. QED BY <2>1, <2>3, <2>5
<1>3. QED BY <1>1, <1>2 DEF RecordInv

(* A step that changes no connection and no record.                        *)
LEMMA ConnFrame ==
    ASSUME ConnTypeOK, ConnInv, UNCHANGED <<conn, records, entries>>,
           fault' = "none" => fault = "none",
           \A m \in Mappings :
               fault' = "none" /\ Held(m) /\ PortOf[m] \in entries => Held(m)'
    PROVE  ConnInv'
<1>1. ASSUME NEW c \in Conns PROVE InfoInv(conn[c])' /\ RecordInv(c)'
  <2>1. InfoInv(conn[c])'
    BY DEF ConnInv, InfoInv
  <2>2. conn[c].bInMap = IN_MAP_WAIT => PortOf[conn[c].pMapping] \in entries
    BY DEF ConnInv, RecordInv
  <2>3. RecordInv(c)'
    BY <2>2, RecordFrame DEF ConnInv
  <2>4. QED BY <2>1, <2>3
<1>2. QED BY <1>1 DEF ConnInv

(* One connection changes, and the others are not touched.                 *)
LEMMA OneConnFrame ==
    ASSUME ConnTypeOK, ConnInv, NEW d \in Conns, NEW info,
           conn' = [conn EXCEPT ![d] = info], InfoInv(info), RecordInv(d)',
           UNCHANGED mappingVars, entries \subseteq entries',
           \A c \in Conns, p \in Ports, k \in Clients :
               c # d => (records'[p][k] = c <=> records[p][k] = c)
    PROVE  ConnInv'
<1>1. ASSUME NEW c \in Conns PROVE InfoInv(conn[c])' /\ RecordInv(c)'
  <2>1. CASE c = d
    <3>1. conn'[c] = info
      BY <2>1 DEF ConnTypeOK
    <3>2. QED BY <2>1, <3>1 DEF InfoInv
  <2>2. CASE c # d
    <3>1. conn'[c] = conn[c]
      BY <2>2 DEF ConnTypeOK
    <3>2. InfoInv(conn[c]) /\ RecordInv(c)
      BY DEF ConnInv
    <3>3. \A m : Held(m)' <=> Held(m)
      BY DEF Held, ClosingDown, mappingVars
    <3>4. fault' = fault
      BY DEF mappingVars
    <3>5. RecordInv(c)'
      BY <2>2, <3>1, <3>2, <3>3, <3>4, RecordFrame
    <3>6. QED BY <3>1, <3>2, <3>5 DEF InfoInv
  <2>3. QED BY <2>1, <2>2
<1>2. QED BY <1>1 DEF ConnInv

LEMMA ConnStep ==
    TypeOK /\ LiveInv /\ ConnTypeOK /\ UdpInv /\ [UdpNext]_udpVars => ConnInv'
<1> SUFFICES ASSUME TypeOK, LiveInv, ConnTypeOK, UdpInv, [UdpNext]_udpVars
             PROVE  ConnInv'
  OBVIOUS
<1> USE UdpAssumption, MappingAssumption DEF ConnGoto
<1>1. [Next]_mappingVars
  BY UdpStepIsMappingStep
<1>2. fault' = "none" => fault = "none"
  BY DEF UdpNext, udpVars, mappingVars
<1>3. /\ conn \in [Conns -> Infos]
      /\ records \in [Ports -> [Clients -> Conns \cup {None}]]
      /\ \A d \in Conns : conn[d] \in Infos /\ InfoInv(conn[d]) /\ RecordInv(d)
  BY DEF ConnTypeOK, UdpInv, ConnInv
<1>4. ASSUME UNCHANGED connVars, at \in {"removeAll", "clear"} => at' = at
      PROVE  ConnInv'
  <2>1. \A m \in Mappings : fault' = "none" /\ Held(m) => Held(m)'
    BY <1>1, <1>4, HeldStep
  <2>2. QED BY <1>2, <1>4, <2>1, ConnFrame DEF UdpInv, connVars
<1>5. CASE UNCHANGED udpVars
  BY <1>4, <1>5 DEF udpVars, mappingVars
<1>6. CASE MappingProgress
  <2>1. UNCHANGED connVars
    BY <1>6 DEF MappingProgress
  <2>2. CASE TakeBatch \/ \E m \in Mappings : MappingWork(m)
    BY <1>4, <2>1, <2>2
       DEF TakeBatch, Idle, MappingWork, RunFreed, StartIgnored, StartOnOpenHandle,
           AnsycStartMapping, StopStopped, StopHandle, Running, listen_close_cb
  <2>3. CASE TestDeleting \/ LoadState \/ StoreOr \/ StoreAnd \/ Erase \/ HandleMappingMsg
    BY <1>4, <2>1, <2>3
       DEF TestDeleting, LoadState, StoreOr, StoreAnd, Erase, HandleMappingMsg, Sends
  <2>4. QED BY <1>6, <2>2, <2>3 DEF MappingProgress
<1>7. CASE MappingRequests
  <2>1. UNCHANGED connVars
    BY <1>7 DEF MappingRequests
  <2>2. at' = at
    BY <1>7 DEF MappingRequests, AddMapping, StartMapping, StopMapping, GetAllConnect,
       RemoveMapping, ListenFails, RemoveStore, loopVars
  <2>3. QED BY <1>4, <2>1, <2>2
<1>8. ASSUME NEW m \in Mappings, SendAllConnect(m) PROVE ConnInv'
  BY <1>4, <1>8 DEF SendAllConnect, AnsycGetAllConnect, Running
<1>9. CASE RemoveAllOfPort
  <2>1. /\ UNCHANGED connVars
        /\ at = "removeAll" /\ at' \in {"CLEAR", "testDeleting"}
        /\ PortOf[cur] \in entries => at' = "CLEAR"
    BY <1>9 DEF RemoveAllOfPort, RemoveAllConnect, Goto
  <2>2. \A m \in Mappings :
            fault' = "none" /\ Held(m) /\ PortOf[m] \in entries => Held(m)'
    BY <1>1, <2>1, HeldStep
  <2>3. QED BY <1>2, <2>1, <2>2, ConnFrame DEF UdpInv, connVars
<1>10. CASE CloseAllOfPort
  <2> DEFINE all == Recorded(PortOf[cur])
             closed(c) == [SocketClosed(conn[c]) EXCEPT !.bInMap = NOT_IN_MAP]
  <2>1. /\ at = "clear" /\ entries' = entries
        /\ records' = [records EXCEPT ![PortOf[cur]] = [q \in Clients |-> None]]
        /\ \A c \in Conns : conn'[c] = IF c \in all THEN closed(c) ELSE conn[c]
    BY <1>10 DEF CloseAllOfPort, ClearRecords
  <2>2. \A m \in Mappings : fault' = "none" /\ Held(m) /\ m # cur => Held(m)'
    BY <1>1, <2>1, HeldStep
  <2>3. ASSUME NEW c \in Conns PROVE InfoInv(conn[c])' /\ RecordInv(c)'
    <3>1. CASE c \in all
      <4>1. /\ conn'[c] = closed(c) /\ conn[c].bInMap = IN_MAP_WAIT
            /\ PortOf[conn[c].pMapping] = PortOf[cur]
        <5>1. PICK k \in Clients : records[PortOf[cur]][k] = c
          BY <3>1 DEF Recorded
        <5>2. PortOf[cur] \in Ports
          <6>1. cur \in Mappings
            BY <2>1 DEF TypeOK
          <6>2. QED BY <6>1
        <5>3. /\ conn[c].bInMap = IN_MAP_WAIT
              /\ PortOf[conn[c].pMapping] = PortOf[cur]
          BY <1>3, <5>1, <5>2 DEF RecordInv
        <5>4. conn'[c] = closed(c)
          BY <2>1, <3>1
        <5>5. QED BY <5>3, <5>4
      <4>2. conn[c].server # "none"
        BY <1>3, <4>1 DEF InfoInv, NOT_IN_MAP, IN_MAP_WAIT
      <4>3. InfoInv(closed(c))
        BY <1>3, <4>2, InfoSteps
      <4>4. conn'[c].bInMap = NOT_IN_MAP
        BY <1>3, <4>1 DEF SocketClosed, Infos
      <4>5. \A p \in Ports, k \in Clients : records'[p][k] # c
        BY <1>3, <2>1, <4>1 DEF RecordInv
      <4>6. RecordInv(c)'
        BY <4>4, <4>5 DEF RecordInv, NOT_IN_MAP, IN_MAP_WAIT
      <4>7. QED BY <4>1, <4>3, <4>6 DEF InfoInv
    <3>2. CASE c \notin all
      <4>1. conn'[c] = conn[c]
        BY <2>1, <3>2
      <4>2. \A k \in Clients : records[PortOf[cur]][k] # c
        BY <3>2 DEF Recorded
      <4>3. \A p \in Ports, k \in Clients : records'[p][k] = c <=> records[p][k] = c
        BY <1>3, <2>1, <4>2
      <4>4. conn[c].bInMap = IN_MAP_WAIT => conn[c].pMapping # cur
        BY <1>3, <4>2 DEF RecordInv, InfoInv, NOT_IN_MAP, IN_MAP_WAIT
      <4>5. RecordInv(c)'
        BY <1>2, <1>3, <2>1, <2>2, <4>1, <4>3, <4>4, RecordFrame
      <4>6. QED BY <1>3, <4>1, <4>5 DEF InfoInv
    <3>3. QED BY <3>1, <3>2
  <2>4. QED BY <2>3 DEF ConnInv
<1>11. ASSUME NEW d \in Conns, CloseUnrecorded(d) PROVE ConnInv'
  <2>1. /\ conn' = [conn EXCEPT ![d] = Freed] /\ UNCHANGED <<mappingVars, records, entries>>
        /\ FoundRecord(d) = None /\ conn[d].server = "closing"
    BY <1>11 DEF CloseUnrecorded, CloseCb
  <2>2. fault = "none"
    <3>1. conn'[d] # conn[d]
      BY <1>3, <2>1 DEF Freed, Unused
    <3>2. QED BY <3>1 DEF UdpNext, udpVars, connVars
  <2>3. conn[d].bInMap # IN_MAP_WAIT
    BY <1>3, <2>1, <2>2
       DEF FoundRecord, MappingLive, Held, PortOfConn, RecordInv, InfoInv,
           NOT_IN_MAP, IN_MAP_WAIT
  <2>4. RecordInv(d)'
    <3>1. conn'[d].bInMap = NOT_IN_MAP
      BY <1>3, <2>1 DEF Freed, Unused
    <3>2. \A p \in Ports, k \in Clients : records'[p][k] # d
      BY <1>3, <2>1, <2>3 DEF RecordInv
    <3>3. QED BY <3>1, <3>2 DEF RecordInv, NOT_IN_MAP, IN_MAP_WAIT
  <2>5. QED BY <2>1, <2>4, OneConnFrame, InfoSteps DEF UdpInv
<1>12. ASSUME NEW d \in Conns, CloseRecorded(d) \/ ServerAnswers(d) PROVE ConnInv'
  <2>1. UNCHANGED <<mappingVars, conn, records, entries>>
    BY <1>12 DEF CloseRecorded, ServerAnswers
  <2>2. QED BY <1>2, <2>1, ConnFrame DEF UdpInv, Held, ClosingDown, mappingVars
<1>13. ASSUME NEW d \in Conns, ServerBreaks(d) PROVE ConnInv'
  <2>1. /\ conn' = [conn EXCEPT ![d] = SocketClosed(conn[d])]
        /\ UNCHANGED <<mappingVars, records, entries>> /\ conn[d].receiving
    BY <1>13 DEF ServerBreaks, ServerReceives
  <2>2. InfoInv(SocketClosed(conn[d]))
    BY <1>3, <2>1, InfoSteps DEF InfoInv
  <2>3. RecordInv(d)'
    <3>1. conn'[d] = SocketClosed(conn[d])
      BY <1>3, <2>1
    <3>2. /\ conn'[d].pMapping = conn[d].pMapping /\ conn'[d].key = conn[d].key
          /\ conn'[d].bInMap = conn[d].bInMap
      BY <1>3, <3>1 DEF SocketClosed, Infos
    <3>3. \A m : Held(m)' <=> Held(m)
      BY <2>1 DEF Held, ClosingDown, mappingVars
    <3>4. QED BY <1>2, <1>3, <2>1, <3>2, <3>3, RecordFrame
  <2>4. QED BY <2>1, <2>2, <2>3, OneConnFrame DEF UdpInv
<1>14. CASE EraseRecord
  <2>1. PICK d : d = ccur
    OBVIOUS
  <2> DEFINE p == PortOf[conn[d].pMapping]
             k == conn[d].key
  <2>2. /\ conn' = [conn EXCEPT ![d] = Freed] /\ UNCHANGED <<mappingVars, entries>>
        /\ records' = [records EXCEPT ![p][k] = None] /\ cat = "erase"
    BY <1>14, <2>1 DEF EraseRecord, PortOfConn
  <2>3. d \in Conns /\ conn[d].bInMap = IN_MAP_WAIT
    BY <2>1, <2>2 DEF UdpInv, PlaceInv, ConnTypeOK
  <2>4. p \in Ports /\ k \in Clients /\ records[p][k] = d
    BY <1>3, <2>3 DEF RecordInv, InfoInv, NOT_IN_MAP, IN_MAP_WAIT
  <2>5. \A q \in Ports, l \in Clients :
            records'[q][l] = IF q = p /\ l = k THEN None ELSE records[q][l]
    <3> HIDE DEF p, k
    <3>1. QED BY <1>3, <2>2
  <2>6. RecordInv(d)'
    <3>1. conn'[d].bInMap = NOT_IN_MAP
      BY <1>3, <2>2, <2>3 DEF Freed, Unused
    <3>2. \A q \in Ports, l \in Clients : records'[q][l] # d
      BY <1>3, <2>3, <2>5 DEF RecordInv
    <3>3. QED BY <3>1, <3>2 DEF RecordInv, NOT_IN_MAP, IN_MAP_WAIT
  <2>7. \A c \in Conns, q \in Ports, l \in Clients :
            c # d => (records'[q][l] = c <=> records[q][l] = c)
    <3> HIDE DEF p, k
    <3>1. QED BY <2>4, <2>5
  <2>8. QED BY <2>2, <2>3, <2>6, <2>7, OneConnFrame, InfoSteps DEF UdpInv
<1>15. CASE HandleConnectMsg
  <2>1. UNCHANGED <<mappingVars, conn, records, entries>>
    BY <1>15 DEF HandleConnectMsg
  <2>2. QED BY <1>2, <2>1, ConnFrame DEF UdpInv, Held, ClosingDown, mappingVars
<1>16. ASSUME NEW m \in Mappings, NothingReceived(m) PROVE ConnInv'
  <2>1. UNCHANGED <<mappingVars, conn, records, entries>>
    BY <1>16 DEF NothingReceived
  <2>2. QED BY <1>2, <2>1, ConnFrame DEF UdpInv, Held, ClosingDown, mappingVars
<1>17. ASSUME NEW m \in Mappings, NEW d \in Conns, NEW k \in Clients,
              GetUDPConnect(m, d, k)
       PROVE  ConnInv'
  <2>1. /\ conn[d].life = "unused" /\ listen[m] = "listening"
        /\ records[PortOf[m]][k] = None
        /\ UNCHANGED mappingVars /\ entries' = entries \cup {PortOf[m]}
        /\ records' = [records EXCEPT ![PortOf[m]][k] = d]
    BY <1>17 DEF GetUDPConnect, NewClient
  <2>2. PICK b \in BOOLEAN : conn' = [conn EXCEPT ![d] = Created(m, k, b)]
    BY <1>17 DEF GetUDPConnect
  <2>3. PortOf[m] \in Ports
    OBVIOUS
  <2>4. \A q \in Ports, l \in Clients :
            records'[q][l] = IF q = PortOf[m] /\ l = k THEN d ELSE records[q][l]
    BY <1>3, <2>1
  <2>5. RecordInv(d)'
    <3>1. conn'[d] = Created(m, k, b)
      BY <1>3, <2>2
    <3>2. /\ conn'[d].pMapping = m /\ conn'[d].key = k /\ conn'[d].bInMap = IN_MAP_WAIT
      BY <3>1 DEF Created, Unused
    <3>3. conn[d].bInMap # IN_MAP_WAIT
      BY <1>3, <2>1 DEF InfoInv, NOT_IN_MAP, IN_MAP_WAIT
    <3>4. \A q \in Ports, l \in Clients : records'[q][l] = d => q = PortOf[m] /\ l = k
      BY <1>3, <2>4, <3>3 DEF RecordInv
    <3>5. records'[PortOf[m]][k] = d
      BY <2>3, <2>4
    <3>6. fault = "none" => Held(m)
      BY <2>1 DEF Held, LiveInv, OpenIsLive, Open
    <3>7. (fault = "none" => Held(conn[d].pMapping))'
      BY <2>1, <3>2, <3>6 DEF Held, ClosingDown, mappingVars
    <3>8. QED BY <2>1, <3>2, <3>4, <3>5, <3>7 DEF RecordInv
  <2>6. \A c \in Conns, q \in Ports, l \in Clients :
            c # d => (records'[q][l] = c <=> records[q][l] = c)
    BY <2>1, <2>4
  <2>7. InfoInv(Created(m, k, b))
    BY InfoSteps
  <2>8. ConnTypeOK /\ ConnInv /\ entries \subseteq entries'
    BY <1>3, <2>1 DEF UdpInv
  <2> DEFINE info == Created(m, k, b)
  <2>9. conn' = [conn EXCEPT ![d] = info] /\ InfoInv(info) /\ UNCHANGED mappingVars
    BY <2>1, <2>2, <2>7
  <2> HIDE DEF info
  <2>10. QED BY <2>5, <2>6, <2>8, <2>9, OneConnFrame
<1>18. QED BY <1>5, <1>6, <1>7, <1>8, <1>9, <1>10, <1>11, <1>12, <1>13, <1>14, <1>15,
              <1>16, <1>17
           DEF UdpNext, UdpProgress, UdpEnvironment

LEMMA PlaceStep ==
    TypeOK /\ LiveInv /\ ConnTypeOK /\ UdpInv /\ [UdpNext]_udpVars => PlaceInv'
<1> SUFFICES ASSUME TypeOK, LiveInv, ConnTypeOK, UdpInv, [UdpNext]_udpVars
             PROVE  PlaceInv'
  OBVIOUS
<1> USE UdpAssumption, MappingAssumption DEF ConnGoto, PlaceInv, LoopIdle, Idle, ConnIdle
<1>1. PlaceInv /\ \A c \in Conns : InfoInv(conn[c]) /\ RecordInv(c)
  BY DEF UdpInv, ConnInv
<1>2. ASSUME UNCHANGED <<conn, cat, ccur>>, cat = "idle" \/ at' = at PROVE PlaceInv'
  BY <1>1, <1>2
<1>3. CASE UNCHANGED udpVars
  BY <1>2, <1>3 DEF udpVars, connVars, mappingVars
<1>4. CASE MappingProgress
  BY <1>1, <1>2, <1>4
     DEF MappingProgress, connVars, TestDeleting, LoadState, StoreOr, StoreAnd, Erase,
         HandleMappingMsg, Sends
<1>5. CASE MappingRequests
  <2>1. at' = at
    BY <1>5 DEF MappingRequests, AddMapping, StartMapping, StopMapping, GetAllConnect,
       RemoveMapping, ListenFails, RemoveStore, loopVars
  <2>2. QED BY <1>2, <1>5, <2>1 DEF MappingRequests, connVars
<1>6. ASSUME NEW m \in Mappings, SendAllConnect(m) PROVE PlaceInv'
  BY <1>2, <1>6 DEF SendAllConnect, connVars
<1>7. CASE RemoveAllOfPort
  BY <1>1, <1>2, <1>7 DEF RemoveAllOfPort, RemoveAllConnect, connVars
<1>8. CASE CloseAllOfPort
  BY <1>1, <1>8 DEF CloseAllOfPort, ClearRecords
<1>9. ASSUME NEW c \in Conns, CloseUnrecorded(c) \/ ServerAnswers(c) \/ ServerBreaks(c)
      PROVE  PlaceInv'
  BY <1>9 DEF CloseUnrecorded, CloseCb, ServerAnswers, ServerBreaks, ServerReceives
<1>10. ASSUME NEW c \in Conns, CloseRecorded(c) PROVE PlaceInv'
  <2>1. conn[c].bInMap = IN_MAP_WAIT
    BY <1>10 DEF CloseRecorded, FoundRecord, ConnTypeOK, Infos
  <2>2. QED BY <1>10, <2>1 DEF CloseRecorded, CloseCb, mappingVars
<1>11. CASE EraseRecord
  BY <1>11 DEF EraseRecord
<1>12. CASE HandleConnectMsg
  BY <1>1, <1>12 DEF HandleConnectMsg, mappingVars
<1>13. ASSUME NEW m \in Mappings, NothingReceived(m) PROVE PlaceInv'
  BY <1>2, <1>13 DEF NothingReceived, mappingVars
<1>14. ASSUME NEW m \in Mappings, NEW c \in Conns, NEW k \in Clients,
              GetUDPConnect(m, c, k)
       PROVE  PlaceInv'
  BY <1>14 DEF GetUDPConnect, NewClient, mappingVars
<1>15. QED BY <1>3, <1>4, <1>5, <1>6, <1>7, <1>8, <1>9, <1>10, <1>11, <1>12, <1>13,
              <1>14
           DEF UdpNext, UdpProgress, UdpEnvironment

LEMMA UdpInvariant == UdpSpec => [](ConnTypeOK /\ UdpInv)
<1>1. UdpInit => UdpInv
  <2> SUFFICES ASSUME UdpInit PROVE UdpInv
    OBVIOUS
  <2>1. \A c \in Conns : conn[c] = Unused
    BY DEF UdpInit
  <2>2. ASSUME NEW c \in Conns PROVE RecordInv(c)
    BY <2>1, UdpAssumption
       DEF UdpInit, RecordInv, Unused, NOT_IN_MAP, IN_MAP_WAIT
  <2>3. PlaceInv
    BY DEF UdpInit, PlaceInv
  <2>4. QED BY <2>1, <2>2, <2>3, InfoSteps DEF UdpInv, ConnInv
<1>2. TypeOK /\ LiveInv /\ ConnTypeOK /\ UdpInv /\ [UdpNext]_udpVars => UdpInv'
  BY ConnStep, PlaceStep DEF UdpInv
<1>3. UdpTypeOK => ConnTypeOK
  BY DEF UdpTypeOK
<1>4. QED BY <1>1, <1>2, <1>3, UdpTypeCorrect, MappingInvariants, PTL DEF UdpSpec

-----------------------------------------------------------------------------
(* GetUDPConnect hands a datagram to the live connection of its client on  *)
(* its port: the records never point to a deleted ConnectInfo.             *)
THEOREM UdpRecordsAreSound == UdpSpec => []UdpRecordsSound
<1>1. ConnTypeOK /\ UdpInv => UdpRecordsSound
  <2> SUFFICES ASSUME ConnTypeOK, UdpInv, NEW p \in Ports, NEW k \in Clients,
                      records[p][k] # None
               PROVE  LET c == records[p][k] IN
                      /\ conn[c].life = "live" /\ conn[c].key = k
                      /\ PortOfConn(c) = p /\ conn[c].bInMap = IN_MAP_WAIT
    BY DEF UdpRecordsSound
  <2>1. PICK c \in Conns : records[p][k] = c
    BY DEF ConnTypeOK
  <2>2. /\ conn[c].bInMap = IN_MAP_WAIT /\ conn[c].key = k
        /\ PortOf[conn[c].pMapping] = p
    BY <2>1 DEF UdpInv, ConnInv, RecordInv
  <2>3. conn[c].life = "live"
    BY <2>2 DEF UdpInv, ConnInv, InfoInv, NOT_IN_MAP, IN_MAP_WAIT
  <2>4. QED BY <2>1, <2>2, <2>3 DEF PortOfConn
<1>2. QED BY <1>1, UdpInvariant, PTL

(* No ConnectInfo is lost: one that is out of the records is being closed, *)
(* and its close callback will delete it.                                  *)
THEOREM NoConnectionIsLost == UdpSpec => []UnrecordedIsClosing
<1>1. ConnTypeOK /\ UdpInv => UnrecordedIsClosing
  <2> SUFFICES ASSUME ConnTypeOK, UdpInv, NEW c \in Conns, conn[c].life = "live"
               PROVE  \/ c \in Recorded(PortOfConn(c))
                      \/ conn[c].server = "closing" /\ conn[c].bInMap = NOT_IN_MAP
    BY DEF UnrecordedIsClosing
  <2>1. InfoInv(conn[c]) /\ RecordInv(c)
    BY DEF UdpInv, ConnInv
  <2>2. CASE conn[c].bInMap = NOT_IN_MAP
    BY <2>1, <2>2 DEF InfoInv
  <2>3. CASE conn[c].bInMap = IN_MAP_WAIT
    <3>1. records[PortOf[conn[c].pMapping]][conn[c].key] = c /\ conn[c].key \in Clients
      BY <2>1, <2>3 DEF RecordInv, InfoInv
    <3>2. QED BY <3>1, UdpAssumption DEF Recorded, PortOfConn
  <2>4. QED BY <2>2, <2>3 DEF ConnTypeOK, Infos
<1>2. QED BY <1>1, UdpInvariant, PTL

(* A connection whose socket receives, or that is in the records, belongs  *)
(* to a mapping that listens or is closing down.                           *)
THEOREM OnlyListenersAreTouched == UdpSpec => []TouchesListener
<1>1. ConnTypeOK /\ UdpInv => TouchesListener
  <2> SUFFICES ASSUME ConnTypeOK, UdpInv, fault = "none", NEW c \in Conns,
                      conn[c].receiving \/ conn[c].bInMap # NOT_IN_MAP
               PROVE  /\ MappingLive(c)
                      /\ \/ listen[conn[c].pMapping] = "listening"
                         \/ ClosingDown(conn[c].pMapping)
    BY DEF TouchesListener
  <2>1. conn[c].bInMap = IN_MAP_WAIT
    BY DEF UdpInv, ConnInv, InfoInv, ConnTypeOK, Infos
  <2>2. conn[c].pMapping \in Mappings /\ Held(conn[c].pMapping)
    BY <2>1 DEF UdpInv, ConnInv, InfoInv, RecordInv, NOT_IN_MAP, IN_MAP_WAIT
  <2>3. QED BY <2>2, MappingAssumption DEF Held, MappingLive
<1>2. QED BY <1>1, UdpInvariant, PTL

TouchesNoFreed == cfault # "freed mapping"

(* Neither an answer of a server nor a close callback reads a MappingInfo  *)
(* that was erased.                                                        *)
THEOREM NoFreedMapping == UdpSpec => []TouchesNoFreed
<1> USE DEF TouchesNoFreed
<1>1. UdpInit => TouchesNoFreed
  BY DEF UdpInit
<1>2. TouchesListener /\ TouchesNoFreed /\ [UdpNext]_udpVars
      => TouchesNoFreed'
  <2> SUFFICES ASSUME TouchesListener, TouchesNoFreed, [UdpNext]_udpVars
               PROVE  TouchesNoFreed'
    OBVIOUS
  <2>1. CASE UNCHANGED udpVars \/ MappingProgress \/ MappingRequests \/ RemoveAllOfPort
    BY <2>1 DEF udpVars, MappingProgress, MappingRequests, RemoveAllOfPort, connVars
  <2>2. CASE CloseAllOfPort \/ EraseRecord \/ HandleConnectMsg
    <3>1. CASE CloseAllOfPort
      <4>1. cfault' \in {"closed twice", cfault}
        BY <3>1, Zenon DEF CloseAllOfPort
      <4>2. QED BY <4>1
    <3>2. CASE EraseRecord \/ HandleConnectMsg
      BY <3>2 DEF EraseRecord, HandleConnectMsg
    <3>3. QED BY <2>2, <3>1, <3>2
  <2>3. ASSUME NEW m \in Mappings,
               \/ SendAllConnect(m) \/ NothingReceived(m)
               \/ \E c \in Conns, k \in Clients : GetUDPConnect(m, c, k)
        PROVE  TouchesNoFreed'
    BY <2>3 DEF SendAllConnect, NothingReceived, GetUDPConnect, connVars
  <2>4. ASSUME NEW c \in Conns, CloseUnrecorded(c) \/ ServerAnswers(c), UdpNext
        PROVE  TouchesNoFreed'
    BY <2>4 DEF CloseUnrecorded, ServerAnswers, ServerReceives, TouchesListener, UdpNext
  <2>5. ASSUME NEW c \in Conns, CloseRecorded(c) \/ ServerBreaks(c)
        PROVE  TouchesNoFreed'
    BY <2>5 DEF CloseRecorded, ServerBreaks
  <2>6. QED BY <2>1, <2>2, <2>3, <2>4, <2>5 DEF UdpNext, UdpProgress, UdpEnvironment
<1> HIDE DEF TouchesNoFreed
<1>3. QED BY <1>1, <1>2, OnlyListenersAreTouched, PTL DEF UdpSpec
=============================================================================
