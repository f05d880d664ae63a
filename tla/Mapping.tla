------------------------------- MODULE Mapping ------------------------------
(***************************************************************************)
(* The life of a port mapping (MappingInfo) in CLibuvAdapter.              *)
(*                                                                         *)
(* The UI thread adds a mapping and asks for it to be started, stopped,    *)
(* listed or removed; AddMapping and the flag MAPPING_DELETING are written *)
(* by the UI thread at once, the rest is posted as a uv__work and done by  *)
(* the loop thread (WorkQueue shows that works run once and in order, so   *)
(* the queue is a sequence here).  The loop thread closes a listening      *)
(* handle in two stages, uv_close and listen_close_cb, and reports with    *)
(* SendMessage, which waits until the UI thread is in its message loop.    *)
(*                                                                         *)
(* nState is a plain int that both threads read and write.  A plain        *)
(* assignment is one step; "|=" and "&=" are a load and a store.           *)
(*                                                                         *)
(* A callback of the loop thread is one step up to its next SendMessage or *)
(* access to nState.  fault tells how the program left defined behaviour;  *)
(* nothing is said of what it does afterwards.                             *)
(***************************************************************************)
EXTENDS Naturals, Sequences

CONSTANTS
    Mappings,     \* the MappingInfo nodes that m_mapMapping may allocate
    Ports,        \* agent ports, the keys of m_mapMapping
    PortOf,       \* the port of each MappingInfo
    TcpMappings,  \* those added with bTCP
    Conns,        \* the ConnectInfo blocks a work may carry
    None,         \* no MappingInfo
    MaxQueue,     \* bound: works waiting in loop->wq
    Debug         \* whether assert() is compiled in

ASSUME MappingAssumption ==
    /\ PortOf \in [Mappings -> Ports]
    /\ TcpMappings \subseteq Mappings
    /\ None \notin Mappings
    /\ MaxQueue \in Nat
    /\ Debug \in BOOLEAN

VARIABLES
    alloc,    \* each MappingInfo: "unused", "live" (in m_mapMapping), "erased"
    nState,   \* its flags
    listen,   \* its handle u.listen_tcp / u.listen_udp
    item,     \* whether the mapping list of the window shows it
    uiCur,    \* mapping whose nState the UI thread is updating in RemoveMapping
    uiOld,    \* the flags it has loaded
    wq,       \* loop->wq
    batch,    \* the works that uv__work_done has taken
    at,       \* where the loop thread is
    cur,      \* the mapping its callback works on
    old,      \* the flags it has loaded
    fault     \* how the program left defined behaviour

uiVars   == <<item, uiCur, uiOld>>
loopVars == <<at, cur, old>>
mappingVars == <<alloc, nState, listen, item, uiCur, uiOld, wq, batch, at, cur,
                 old, fault>>

Flags   == {"STOP", "START", "FAIL", "DELETING", "BIND_FAIL", "LISTEN_FAIL"}
Handles == {"none", "inited", "listening", "closing", "closed"}
Open    == {"inited", "listening"}
Faults  == {"none", "assert", "freed mapping", "init of open handle",
            "open handle freed"}

(* Places of the loop thread: at a SendMessage, named by its message, or   *)
(* before a step of listen_close_cb or _RemoveMapping.                     *)
Sends == {"LISTEN_FAIL", "CLEAR", "STOP", "REMOVE", "ALL"}
Steps == {"removeAll", "clear", "testDeleting", "loadOr", "storeOr", "loadAnd",
          "storeAnd", "erase"}

WorkOps == {"start", "stop", "all"}
Works == [op : WorkOps, obj : Mappings] \cup [op : {"conn"}, obj : Conns]

Init ==
    /\ alloc = [m \in Mappings |-> "unused"]
    /\ nState = [m \in Mappings |-> {}]
    /\ listen = [m \in Mappings |-> "none"]
    /\ item = [m \in Mappings |-> FALSE]
    /\ uiCur = None /\ uiOld = {}
    /\ wq = <<>> /\ batch = <<>>
    /\ at = "idle" /\ cur = None /\ old = {}
    /\ fault = "none"

-----------------------------------------------------------------------------
(* The UI thread.  It is in its message loop, where it takes clicks and    *)
(* messages, unless it is inside RemoveMapping.                            *)

UIIdle == uiCur = None

(* AsyncOperate *)
Post(operation, obj) ==
    /\ Len(wq) < MaxQueue
    /\ wq' = Append(wq, [op |-> operation, obj |-> obj])

(* OnAddClick and AddMapping.  A port in use gives err = 1, a mapping onto *)
(* itself err = 2: neither changes anything.                               *)
AddMapping(m) ==
    /\ UIIdle
    /\ alloc[m] = "unused"
    /\ \A n \in Mappings : alloc[n] = "live" => PortOf[n] # PortOf[m]
    /\ alloc' = [alloc EXCEPT ![m] = "live"]
    /\ nState' = [nState EXCEPT ![m] = {"STOP"}]
    /\ item' = [item EXCEPT ![m] = TRUE]
    /\ UNCHANGED <<listen, uiCur, uiOld, wq, batch, loopVars, fault>>

StartMapping(m) ==
    /\ UIIdle /\ item[m]
    /\ nState[m] # {"START"} /\ "DELETING" \notin nState[m]
    /\ Post("start", m)
    /\ UNCHANGED <<alloc, nState, listen, uiVars, batch, loopVars, fault>>

StopMapping(m) ==
    /\ UIIdle /\ item[m]
    /\ nState[m] = {"START"}
    /\ Post("stop", m)
    /\ UNCHANGED <<alloc, nState, listen, uiVars, batch, loopVars, fault>>

(* UpDataConnectList asks for the connections of a started mapping only.   *)
GetAllConnect(m) ==
    /\ UIIdle /\ item[m]
    /\ "START" \in nState[m] /\ "DELETING" \notin nState[m]
    /\ Post("all", m)
    /\ UNCHANGED <<alloc, nState, listen, uiVars, batch, loopVars, fault>>

(* RemoveMapping: the guard and the load of nState |= MAPPING_DELETING ... *)
RemoveMapping(m) ==
    /\ UIIdle /\ item[m]
    /\ "DELETING" \notin nState[m]
    /\ Len(wq) < MaxQueue
    /\ uiCur' = m /\ uiOld' = nState[m]
    /\ UNCHANGED <<alloc, nState, listen, item, wq, batch, loopVars, fault>>

(* ... the store, and the posting of AnsycStopMapping.                     *)
RemoveStore ==
    /\ ~UIIdle
    /\ nState' = [nState EXCEPT ![uiCur] = uiOld \cup {"DELETING"}]
    /\ Post("stop", uiCur)
    /\ uiCur' = None /\ uiOld' = {}
    /\ UNCHANGED <<alloc, listen, item, batch, loopVars, fault>>

(* RemoveConnect with bAsync, for a connection the window shows.           *)
RemoveConnect(c) ==
    /\ UIIdle
    /\ Post("conn", c)
    /\ UNCHANGED <<alloc, nState, listen, uiVars, batch, loopVars, fault>>

-----------------------------------------------------------------------------
(* The loop thread runs the works it has taken before anything else.       *)

Idle == at = "idle" /\ batch = <<>>

Goto(label, m) == at' = label /\ cur' = m

(* uv__work_done takes the whole queue.                                    *)
TakeBatch ==
    /\ Idle /\ wq # <<>>
    /\ batch' = wq /\ wq' = <<>>
    /\ UNCHANGED <<alloc, nState, listen, uiVars, loopVars, fault>>

(* The next work is operation on obj.                                      *)
Running(operation, obj) ==
    /\ at = "idle" /\ batch # <<>>
    /\ Head(batch) = [op |-> operation, obj |-> obj]
    /\ batch' = Tail(batch)

(* uv_close: a second call on a handle fails assert(0), or returns where   *)
(* asserts are not compiled in.                                            *)
CloseListen(m) ==
    \/ /\ listen[m] \in Open
       /\ listen' = [listen EXCEPT ![m] = "closing"]
       /\ UNCHANGED fault
    \/ /\ listen[m] \notin Open
       /\ fault' = IF Debug THEN "assert" ELSE fault
       /\ UNCHANGED listen

(* A work that dereferences a MappingInfo erased since it was posted.      *)
RunFreed(operation, m) ==
    /\ Running(operation, m)
    /\ alloc[m] # "live"
    /\ fault' = "freed mapping"
    /\ UNCHANGED <<alloc, nState, listen, uiVars, wq, loopVars>>

(* AnsycStartTCPMapping and AnsycStartUDPMapping.  Only exactly            *)
(* MAPPING_START means started; uv_tcp_init and uv_udp_init overwrite the  *)
(* handle and cannot fail; the outcome of bind and listen is the system's. *)
StartIgnored(m) ==
    /\ Running("start", m) /\ alloc[m] = "live"
    /\ nState[m] = {"START"}
    /\ UNCHANGED <<alloc, nState, listen, uiVars, wq, loopVars, fault>>

StartOnOpenHandle(m) ==
    /\ Running("start", m) /\ alloc[m] = "live"
    /\ nState[m] # {"START"}
    /\ listen[m] \in {"listening", "closing"}
    /\ fault' = "init of open handle"
    /\ UNCHANGED <<alloc, nState, listen, uiVars, wq, loopVars>>

StartOutcomes(m) ==
    {<<{"FAIL", "BIND_FAIL"}, "inited">>, <<{"START"}, "listening">>}
    \cup IF m \in TcpMappings THEN {<<{"FAIL", "LISTEN_FAIL"}, "inited">>} ELSE {}

AnsycStartMapping(m) ==
    /\ Running("start", m) /\ alloc[m] = "live"
    /\ nState[m] # {"START"}
    /\ listen[m] \notin {"listening", "closing"}
    /\ \E outcome \in StartOutcomes(m) :
           /\ nState' = [nState EXCEPT ![m] = outcome[1]]
           /\ listen' = [listen EXCEPT ![m] = outcome[2]]
    /\ UNCHANGED <<alloc, uiVars, wq, loopVars, fault>>

(* AnsycStopMapping: a stopped mapping is removed if that was asked for,   *)
(* any other has its handle closed.                                        *)
StopStopped(m) ==
    /\ Running("stop", m) /\ alloc[m] = "live"
    /\ "STOP" \in nState[m]
    /\ IF "DELETING" \in nState[m] THEN Goto("REMOVE", m)
                                   ELSE UNCHANGED <<at, cur>>
    /\ UNCHANGED <<alloc, nState, listen, uiVars, wq, old, fault>>

(* Mutant: AnsycStopMapping also returns when the mapping is being deleted *)
StopHandleNotDeleting(m) ==
    /\ Running("stop", m) /\ alloc[m] = "live"
    /\ "STOP" \notin nState[m]
    /\ IF "DELETING" \in nState[m] THEN UNCHANGED <<listen, fault>>
                                   ELSE CloseListen(m)
    /\ UNCHANGED <<alloc, nState, uiVars, wq, loopVars>>

StopHandle(m) ==
    /\ Running("stop", m) /\ alloc[m] = "live"
    /\ "STOP" \notin nState[m]
    /\ CloseListen(m)
    /\ UNCHANGED <<alloc, nState, uiVars, wq, loopVars>>

(* AnsycGetAllConnect: the connections are sent unless there is none.      *)
AnsycGetAllConnect(m) ==
    /\ Running("all", m) /\ alloc[m] = "live"
    /\ \/ Goto("ALL", m)
       \/ UNCHANGED <<at, cur>>
    /\ UNCHANGED <<alloc, nState, listen, uiVars, wq, old, fault>>

(* AnsycRemoveConnect touches the connection only.                         *)
AnsycRemoveConnect(c) ==
    /\ Running("conn", c)
    /\ UNCHANGED <<alloc, nState, listen, uiVars, wq, loopVars, fault>>

(* tcp_listen_connection_cb with status < 0, udp_listen_recv_cb with       *)
(* nread < 0: libuv has given up listening.                                *)
ListenFails(m) ==
    /\ Idle
    /\ listen[m] = "listening"
    /\ nState' = [nState EXCEPT ![m] = {"FAIL", "LISTEN_FAIL"}]
    /\ listen' = [listen EXCEPT ![m] = "closing"]
    /\ UNCHANGED <<alloc, uiVars, wq, batch, loopVars, fault>>

-----------------------------------------------------------------------------
(* listen_close_cb                                                         *)

listen_close_cb(m) ==
    /\ Idle
    /\ listen[m] = "closing"
    /\ listen' = [listen EXCEPT ![m] = "closed"]
    /\ Goto("LISTEN_FAIL", m)
    /\ UNCHANGED <<alloc, nState, uiVars, wq, batch, old, fault>>

(* RemoveAllConnect after its first message: a port without an entry in    *)
(* m_mapConnect is left alone.                                             *)
RemoveAllConnect ==
    /\ at = "removeAll"
    /\ \E label \in {"CLEAR", "testDeleting"} : Goto(label, cur)
    /\ UNCHANGED <<alloc, nState, listen, uiVars, wq, batch, old, fault>>

ClearRecords ==
    /\ at = "clear"
    /\ Goto("testDeleting", cur)
    /\ UNCHANGED <<alloc, nState, listen, uiVars, wq, batch, old, fault>>

(* Mutants: no test of MAPPING_DELETING; the mapping erased without the    *)
(* message MSG_REMOVE_MAPPING.                                             *)
TestDeletingNever ==
    /\ at = "testDeleting"
    /\ Goto("loadOr", cur)
    /\ UNCHANGED <<alloc, nState, listen, uiVars, wq, batch, old, fault>>

TestDeletingSilent ==
    /\ at = "testDeleting"
    /\ Goto(IF "DELETING" \in nState[cur] THEN "erase" ELSE "loadOr", cur)
    /\ UNCHANGED <<alloc, nState, listen, uiVars, wq, batch, old, fault>>

TestDeleting ==
    /\ at = "testDeleting"
    /\ Goto(IF "DELETING" \in nState[cur] THEN "REMOVE" ELSE "loadOr", cur)
    /\ UNCHANGED <<alloc, nState, listen, uiVars, wq, batch, old, fault>>

(* nState |= MAPPING_STOP; nState &= ~MAPPING_START                        *)
LoadState ==
    /\ at \in {"loadOr", "loadAnd"}
    /\ old' = nState[cur]
    /\ Goto(IF at = "loadOr" THEN "storeOr" ELSE "storeAnd", cur)
    /\ UNCHANGED <<alloc, nState, listen, uiVars, wq, batch, fault>>

StoreOr ==
    /\ at = "storeOr"
    /\ nState' = [nState EXCEPT ![cur] = old \cup {"STOP"}]
    /\ old' = {}
    /\ Goto("loadAnd", cur)
    /\ UNCHANGED <<alloc, listen, uiVars, wq, batch, fault>>

(* Mutant: MAPPING_START is not cleared.                                   *)
StoreAndKeep ==
    /\ at = "storeAnd"
    /\ nState' = [nState EXCEPT ![cur] = old]
    /\ old' = {}
    /\ Goto("STOP", cur)
    /\ UNCHANGED <<alloc, listen, uiVars, wq, batch, fault>>

StoreAnd ==
    /\ at = "storeAnd"
    /\ nState' = [nState EXCEPT ![cur] = old \ {"START"}]
    /\ old' = {}
    /\ Goto("STOP", cur)
    /\ UNCHANGED <<alloc, listen, uiVars, wq, batch, fault>>

(* _RemoveMapping after its message.  The handle is part of the node.      *)
Erase ==
    /\ at = "erase"
    /\ alloc' = [alloc EXCEPT ![cur] = "erased"]
    /\ fault' = IF listen[cur] \in {"none", "closed"} THEN fault
                                                      ELSE "open handle freed"
    /\ Goto("idle", None)
    /\ UNCHANGED <<nState, listen, uiVars, wq, batch, old>>

(* The UI thread handles the message the loop thread waits for             *)
(* (DealWithMappingMsg): MSG_REMOVE_MAPPING takes the item off the list.   *)
(* The loop thread goes on.                                                *)
AfterSend == [s \in Sends |-> CASE s = "LISTEN_FAIL" -> "removeAll"
                                [] s = "CLEAR"       -> "clear"
                                [] s = "REMOVE"      -> "erase"
                                [] OTHER             -> "idle"]

(* Mutant: the place the loop thread was in is not forgotten.              *)
HandleMappingMsgStay ==
    /\ UIIdle /\ at \in Sends
    /\ item' = IF at = "REMOVE" THEN [item EXCEPT ![cur] = FALSE] ELSE item
    /\ Goto(AfterSend[at], cur)
    /\ UNCHANGED <<alloc, nState, listen, uiCur, uiOld, wq, batch, old, fault>>

HandleMappingMsg ==
    /\ UIIdle /\ at \in Sends
    /\ item' = IF at = "REMOVE" THEN [item EXCEPT ![cur] = FALSE] ELSE item
    /\ Goto(AfterSend[at], IF AfterSend[at] = "idle" THEN None ELSE cur)
    /\ UNCHANGED <<alloc, nState, listen, uiCur, uiOld, wq, batch, old, fault>>

-----------------------------------------------------------------------------
RunWork(m) ==
    \/ \E operation \in WorkOps : RunFreed(operation, m)
    \/ StartIgnored(m) \/ StartOnOpenHandle(m) \/ AnsycStartMapping(m)
    \/ StopStopped(m) \/ StopHandle(m)
    \/ AnsycGetAllConnect(m)

(* What the loop thread and the UI thread do without being asked.          *)
Progress ==
    \/ TakeBatch
    \/ \E m \in Mappings : RunWork(m) \/ listen_close_cb(m)
    \/ \E c \in Conns : AnsycRemoveConnect(c)
    \/ RemoveAllConnect \/ ClearRecords \/ TestDeleting \/ LoadState \/ StoreOr
    \/ StoreAnd \/ Erase
    \/ HandleMappingMsg

Requests ==
    \/ \E m \in Mappings :
           \/ AddMapping(m) \/ StartMapping(m) \/ StopMapping(m)
           \/ GetAllConnect(m) \/ RemoveMapping(m)
    \/ \E c \in Conns : RemoveConnect(c)

Next ==
    /\ fault = "none"
    /\ \/ Progress
       \/ RemoveStore
       \/ Requests
       \/ \E m \in Mappings : ListenFails(m)

Spec == Init /\ [][Next]_mappingVars

(* Both threads are scheduled: the loop thread does what it has to do, and *)
(* the UI thread comes back to its message loop.  uv_run calls the close   *)
(* callbacks in every iteration, however many works arrive, so a closing   *)
(* handle is not passed over for ever.                                     *)
FairSpec ==
    /\ Spec
    /\ WF_mappingVars(fault = "none" /\ Progress)
    /\ WF_mappingVars(fault = "none" /\ RemoveStore)
    /\ \A m \in Mappings :
           SF_mappingVars(fault = "none" /\ listen_close_cb(m))

-----------------------------------------------------------------------------
(* Properties                                                              *)

(* Types of the variables; the loop thread is idle exactly when it works   *)
(* on no mapping.                                                          *)
TypeOK ==
    /\ alloc \in [Mappings -> {"unused", "live", "erased"}]
    /\ nState \in [Mappings -> SUBSET Flags]
    /\ listen \in [Mappings -> Handles]
    /\ item \in [Mappings -> BOOLEAN]
    /\ uiCur \in Mappings \cup {None} /\ uiOld \in SUBSET Flags
    /\ wq \in Seq(Works) /\ batch \in Seq(Works)
    /\ at \in {"idle"} \cup Sends \cup Steps
    /\ cur \in Mappings \cup {None} /\ old \in SUBSET Flags
    /\ fault \in Faults
    /\ at = "idle" <=> cur = None

(* listen_close_cb is between its start and the end of nState &= ~START.   *)
InClose(m) == cur = m /\ at \notin {"idle", "STOP", "REMOVE", "erase", "ALL"}

(* The state the window shows agrees with the port: unless the mapping is  *)
(* being removed, MAPPING_STOP means that no socket listens, and           *)
(* MAPPING_START that one listens or is being closed.                      *)
StateMatchesHandle ==
    \A m \in Mappings : "DELETING" \notin nState[m] =>
        /\ "STOP" \in nState[m] => listen[m] \in {"none", "closed"}
        /\ "START" \in nState[m] =>
               listen[m] \in {"listening", "closing"} \/ InClose(m)

(* The window never holds a pointer to an erased MappingInfo, and drops    *)
(* its item only for the MappingInfo that is erased next.                  *)
ItemMatchesMapping ==
    \A m \in Mappings :
        /\ item[m] => alloc[m] = "live"
        /\ alloc[m] = "live" /\ ~item[m] => at = "erase" /\ cur = m

Waiting(w) == \E i \in DOMAIN wq : wq[i] = w
Taken(w)   == \E i \in DOMAIN batch : batch[i] = w
StopWork(m) == [op |-> "stop", obj |-> m]

(* Where asserts are compiled in, a mapping marked MAPPING_DELETING is     *)
(* removed or about to be: its stop is queued, its handle is closing, or   *)
(* the loop thread is removing it.  (Only the overwriting of the mark      *)
(* itself loses a removal.)                                                *)
RemovalPending ==
    fault = "none" /\ Debug =>
        \A m \in Mappings : alloc[m] = "live" /\ "DELETING" \in nState[m] =>
            \/ Waiting(StopWork(m)) \/ Taken(StopWork(m))
            \/ listen[m] = "closing"
            \/ cur = m /\ at \in {"LISTEN_FAIL", "removeAll", "CLEAR", "clear",
                                   "testDeleting", "REMOVE", "erase"}

(* A stop that has been posted ends with the port released, whatever the   *)
(* user asks for meanwhile.                                                *)
StopEndsListening ==
    \A m \in Mappings :
        Waiting(StopWork(m)) \/ Taken(StopWork(m))
            ~> listen[m] \in {"none", "closed"} \/ fault # "none"

(* The connections of a mapping are about to be cleared: its handle is     *)
(* closing, or listen_close_cb has not got to them yet.                    *)
ClosingDown(m) ==
    \/ listen[m] = "closing"
    \/ cur = m /\ at \in {"LISTEN_FAIL", "removeAll", "CLEAR", "clear"}

-----------------------------------------------------------------------------
(* What the repository says of the program                                 *)

(* handle.rst: uv_close MUST be called on each handle before memory is     *)
(* released, and the release waits for the close callback.                 *)
ClosedBeforeRelease == fault # "open handle freed"

(* LibuvAdapter.h: RemoveMapping removes a mapping.                        *)
RemoveRemoves ==
    \A m \in Mappings :
        "DELETING" \in nState[m] ~> alloc[m] = "erased" \/ fault # "none"
=============================================================================
