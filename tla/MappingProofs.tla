--------------------------- MODULE MappingProofs ----------------------------
(***************************************************************************)
(* Proofs about Mapping, for any mappings, ports, connections and bound of *)
(* the queue, with asserts compiled in or not: the types, that the window  *)
(* never points to an erased MappingInfo, that the state it shows agrees   *)
(* with the port, and that a removal is pending until it is done.          *)
(***************************************************************************)
EXTENDS Mapping, SequenceTheorems, TLAPS

-----------------------------------------------------------------------------
(* What Post, Running and TakeBatch do to the two queues.                  *)

LEMMA PostType ==
    ASSUME TypeOK, NEW operation, NEW obj, Post(operation, obj),
           [op |-> operation, obj |-> obj] \in Works
    PROVE  wq' \in Seq(Works)
BY DEF Post, TypeOK

LEMMA RunningType ==
    ASSUME TypeOK, NEW operation, NEW obj, Running(operation, obj)
    PROVE  batch' \in Seq(Works)
BY HeadTailProperties DEF Running, TypeOK

LEMMA WorkTypes ==
    /\ \A operation \in WorkOps, m \in Mappings :
           [op |-> operation, obj |-> m] \in Works
    /\ \A c \in Conns : [op |-> "conn", obj |-> c] \in Works
BY DEF Works

(* Every variable keeps its type.                                          *)
THEOREM TypeCorrect == Spec => []TypeOK
<1>1. Init => TypeOK
  <2>1. <<>> \in Seq(Works) /\ {} \in SUBSET Flags
    OBVIOUS
  <2>2. ASSUME Init PROVE TypeOK
    <3>1. wq \in Seq(Works) /\ batch \in Seq(Works)
      BY <2>1, <2>2 DEF Init
    <3>2. /\ alloc \in [Mappings -> {"unused", "live", "erased"}]
          /\ nState \in [Mappings -> SUBSET Flags]
          /\ listen \in [Mappings -> Handles]
          /\ item \in [Mappings -> BOOLEAN]
      BY <2>2 DEF Init, Handles
    <3>3. QED BY <2>2, <3>1, <3>2 DEF Init, TypeOK, Faults
  <2>3. QED BY <2>2
<1>2. TypeOK /\ [Next]_mappingVars => TypeOK'
  <2> SUFFICES ASSUME TypeOK, [Next]_mappingVars PROVE TypeOK'
    OBVIOUS
  <2> USE MappingAssumption DEF uiVars, loopVars, Goto, Flags, Handles, Faults,
          Sends, Steps
  <2>1. ASSUME NEW m \in Mappings, AddMapping(m) PROVE TypeOK'
    BY <2>1 DEF AddMapping, TypeOK
  <2>2. ASSUME NEW m \in Mappings,
               StartMapping(m) \/ StopMapping(m) \/ GetAllConnect(m)
        PROVE  TypeOK'
    <3>1. wq' \in Seq(Works)
      BY <2>2, PostType, WorkTypes
         DEF StartMapping, StopMapping, GetAllConnect, WorkOps
    <3>2. QED BY <2>2, <3>1 DEF StartMapping, StopMapping, GetAllConnect, TypeOK
  <2>3. ASSUME NEW m \in Mappings, RemoveMapping(m) PROVE TypeOK'
    BY <2>3 DEF RemoveMapping, TypeOK
  <2>4. CASE RemoveStore
    <3>1. uiCur \in Mappings
      BY <2>4 DEF RemoveStore, UIIdle, TypeOK
    <3>2. wq' \in Seq(Works)
      BY <2>4, <3>1, PostType, WorkTypes DEF RemoveStore, WorkOps
    <3>3. nState' \in [Mappings -> SUBSET Flags]
      BY <2>4, <3>1 DEF RemoveStore, TypeOK
    <3>4. QED BY <2>4, <3>2, <3>3 DEF RemoveStore, TypeOK
  <2>5. ASSUME NEW c \in Conns, RemoveConnect(c) PROVE TypeOK'
    <3>1. wq' \in Seq(Works)
      BY <2>5, PostType, WorkTypes DEF RemoveConnect
    <3>2. QED BY <2>5, <3>1 DEF RemoveConnect, TypeOK
  <2>6. CASE TakeBatch
    <3>1. <<>> \in Seq(Works)
      OBVIOUS
    <3>2. wq' \in Seq(Works) /\ batch' \in Seq(Works)
      BY <2>6, <3>1, Zenon DEF TakeBatch, TypeOK
    <3>3. QED BY <2>6, <3>2 DEF TakeBatch, TypeOK
  <2>7. ASSUME NEW m \in Mappings, RunWork(m) PROVE TypeOK'
    <3>1. batch' \in Seq(Works)
      BY <2>7, RunningType DEF RunWork, RunFreed, StartIgnored, StartOnOpenHandle,
         AnsycStartMapping, StopStopped, StopHandle, AnsycGetAllConnect
    <3>2. at = "idle"
      BY <2>7 DEF Running, RunWork, RunFreed, StartIgnored, StartOnOpenHandle,
         AnsycStartMapping, StopStopped, StopHandle, AnsycGetAllConnect
    <3>3. ASSUME NEW operation \in WorkOps, RunFreed(operation, m) PROVE TypeOK'
      BY <3>1, <3>3 DEF RunFreed, TypeOK
    <3>4. CASE StartIgnored(m) \/ StartOnOpenHandle(m)
      BY <3>1, <3>4 DEF StartIgnored, StartOnOpenHandle, TypeOK
    <3>5. CASE AnsycStartMapping(m)
      <4>1. PICK outcome \in StartOutcomes(m) :
                /\ nState' = [nState EXCEPT ![m] = outcome[1]]
                /\ listen' = [listen EXCEPT ![m] = outcome[2]]
        BY <3>5 DEF AnsycStartMapping
      <4>2. outcome[1] \in SUBSET Flags /\ outcome[2] \in Handles
        BY DEF StartOutcomes
      <4>3. nState' \in [Mappings -> SUBSET Flags] /\ listen' \in [Mappings -> Handles]
        BY <4>1, <4>2, Zenon DEF TypeOK
      <4>4. QED BY <3>1, <3>5, <4>3 DEF AnsycStartMapping, TypeOK
    <3>6. CASE StopStopped(m) \/ AnsycGetAllConnect(m)
      BY <3>1, <3>2, <3>6 DEF StopStopped, AnsycGetAllConnect, TypeOK
    <3>7. CASE StopHandle(m)
      BY <3>1, <3>7 DEF StopHandle, CloseListen, TypeOK
    <3>8. QED BY <2>7, <3>3, <3>4, <3>5, <3>6, <3>7 DEF RunWork
  <2>8. ASSUME NEW c \in Conns, AnsycRemoveConnect(c) PROVE TypeOK'
    <3>1. batch' \in Seq(Works)
      BY <2>8, RunningType DEF AnsycRemoveConnect
    <3>2. QED BY <2>8, <3>1 DEF AnsycRemoveConnect, TypeOK
  <2>9. ASSUME NEW m \in Mappings, ListenFails(m) \/ listen_close_cb(m)
        PROVE  TypeOK'
    <3>1. nState' \in [Mappings -> SUBSET Flags]
      <4>1. {"FAIL", "LISTEN_FAIL"} \in SUBSET Flags
        OBVIOUS
      <4>2. nState \in [Mappings -> SUBSET Flags]
        BY DEF TypeOK
      <4>3. \/ nState' = [nState EXCEPT ![m] = {"FAIL", "LISTEN_FAIL"}]
            \/ nState' = nState
        BY <2>9 DEF ListenFails, listen_close_cb
      <4>4. QED BY <4>1, <4>2, <4>3, Zenon
    <3>2. CASE ListenFails(m)
      BY <3>1, <3>2 DEF ListenFails, TypeOK
    <3>3. CASE listen_close_cb(m)
      BY <3>1, <3>3 DEF listen_close_cb, TypeOK
    <3>4. QED BY <2>9, <3>2, <3>3
  <2>10. CASE RemoveAllConnect \/ ClearRecords \/ TestDeleting \/ LoadState
    BY <2>10 DEF RemoveAllConnect, ClearRecords, TestDeleting, LoadState, TypeOK
  <2>11. CASE StoreOr \/ StoreAnd
    <3>1. old \cup {"STOP"} \in SUBSET Flags /\ old \ {"START"} \in SUBSET Flags
      BY DEF TypeOK
    <3>2. nState \in [Mappings -> SUBSET Flags]
      BY DEF TypeOK
    <3>3. \/ nState' = [nState EXCEPT ![cur] = old \cup {"STOP"}]
          \/ nState' = [nState EXCEPT ![cur] = old \ {"START"}]
      BY <2>11 DEF StoreOr, StoreAnd
    <3>4. nState' \in [Mappings -> SUBSET Flags]
      BY <3>1, <3>2, <3>3, Zenon
    <3>5. QED BY <2>11, <3>4 DEF StoreOr, StoreAnd, TypeOK
  <2>12. CASE Erase
    BY <2>12 DEF Erase, TypeOK
  <2>13. CASE HandleMappingMsg
    BY <2>13 DEF HandleMappingMsg, AfterSend, TypeOK
  <2>14. CASE UNCHANGED mappingVars
    BY <2>14 DEF mappingVars, TypeOK
  <2>15. QED BY <2>1, <2>2, <2>3, <2>4, <2>5, <2>6, <2>7, <2>8, <2>9, <2>10,
               <2>11, <2>12, <2>13, <2>14 DEF Next, Progress, Requests
<1>3. QED BY <1>1, <1>2, PTL DEF Spec

-----------------------------------------------------------------------------
(* The life of a MappingInfo against its handle, the loop thread and the   *)
(* window.                                                                 *)
Fresh == \A m \in Mappings : alloc[m] = "unused" => listen[m] = "none"

OpenIsLive ==
    fault = "none" => \A m \in Mappings :
        listen[m] \in Open \cup {"closing"} => alloc[m] = "live"

CurIsLive == cur # None => alloc[cur] = "live"

EraseUnlisted == at = "erase" => ~item[cur]

LiveInv == /\ Fresh /\ OpenIsLive /\ CurIsLive /\ EraseUnlisted
           /\ ItemMatchesMapping

LEMMA LiveStep == TypeOK /\ LiveInv /\ [Next]_mappingVars => LiveInv'
<1> SUFFICES ASSUME TypeOK, LiveInv, [Next]_mappingVars PROVE LiveInv'
  OBVIOUS
<1> USE MappingAssumption DEF LiveInv, Fresh, OpenIsLive, CurIsLive, EraseUnlisted,
        ItemMatchesMapping, TypeOK, uiVars, loopVars, Goto, Open, Sends, Steps
<1>1. ASSUME NEW m \in Mappings, AddMapping(m) PROVE LiveInv'
  BY <1>1 DEF AddMapping, Flags, Handles
<1>2. ASSUME NEW m \in Mappings,
             \/ StartMapping(m) \/ StopMapping(m) \/ GetAllConnect(m)
             \/ RemoveMapping(m)
      PROVE  LiveInv'
  BY <1>2 DEF StartMapping, StopMapping, GetAllConnect, RemoveMapping
<1>3. ASSUME NEW c \in Conns, RemoveConnect(c) \/ AnsycRemoveConnect(c)
      PROVE  LiveInv'
  BY <1>3 DEF RemoveConnect, AnsycRemoveConnect
<1>4. CASE RemoveStore \/ TakeBatch
  BY <1>4 DEF RemoveStore, TakeBatch
<1>5. ASSUME NEW m \in Mappings, RunWork(m) PROVE LiveInv'
  <2>1. ASSUME NEW operation \in WorkOps, RunFreed(operation, m) PROVE LiveInv'
    BY <2>1 DEF RunFreed
  <2>2. CASE StartIgnored(m) \/ StartOnOpenHandle(m)
    BY <2>2 DEF StartIgnored, StartOnOpenHandle
  <2>3. CASE AnsycStartMapping(m)
    <3>1. PICK handle : listen' = [listen EXCEPT ![m] = handle]
      BY <2>3 DEF AnsycStartMapping
    <3>2. QED BY <2>3, <3>1 DEF AnsycStartMapping
  <2>4. CASE StopStopped(m) \/ AnsycGetAllConnect(m)
    BY <2>4 DEF StopStopped, AnsycGetAllConnect, Running
  <2>5. CASE StopHandle(m)
    BY <2>5 DEF StopHandle, CloseListen
  <2>6. QED BY <1>5, <2>1, <2>2, <2>3, <2>4, <2>5 DEF RunWork
<1>6. ASSUME NEW m \in Mappings, ListenFails(m) \/ listen_close_cb(m)
      PROVE  LiveInv'
  <2>1. fault = "none" /\ alloc[m] = "live"
    BY <1>6 DEF ListenFails, listen_close_cb, Next, mappingVars
  <2>2. CASE ListenFails(m)
    BY <2>1, <2>2 DEF ListenFails
  <2>3. CASE listen_close_cb(m)
    BY <2>1, <2>3 DEF listen_close_cb, Idle
  <2>4. QED BY <1>6, <2>2, <2>3
<1>7. CASE RemoveAllConnect \/ ClearRecords \/ TestDeleting \/ LoadState
  BY <1>7 DEF RemoveAllConnect, ClearRecords, TestDeleting, LoadState
<1>8. CASE StoreOr \/ StoreAnd
  BY <1>8 DEF StoreOr, StoreAnd
<1>9. CASE Erase
  BY <1>9 DEF Erase
<1>10. CASE HandleMappingMsg
  BY <1>10 DEF HandleMappingMsg, AfterSend
<1>11. CASE UNCHANGED mappingVars
  BY <1>11 DEF mappingVars
<1>12. QED BY <1>1, <1>2, <1>3, <1>4, <1>5, <1>6, <1>7, <1>8, <1>9, <1>10, <1>11
          DEF Next, Progress, Requests

LEMMA Live == Spec => []LiveInv
<1>1. Init => LiveInv
  BY DEF Init, LiveInv, Fresh, OpenIsLive, CurIsLive, EraseUnlisted,
     ItemMatchesMapping, Open
<1>2. QED BY <1>1, LiveStep, TypeCorrect, PTL DEF Spec

(* The window never holds a pointer to an erased MappingInfo.              *)
THEOREM WindowPointersValid == Spec => []ItemMatchesMapping
<1>1. LiveInv => ItemMatchesMapping
  BY DEF LiveInv
<1>2. QED BY <1>1, Live, PTL

-----------------------------------------------------------------------------
(* The state shown against the port.  The handle stays closed while        *)
(* How a start can end: it sets START only when the handle listens.         *)
LEMMA OutcomesSound ==
  \A m \in Mappings : \A outcome \in StartOutcomes(m) :
    /\ "STOP" \notin outcome[1]
    /\ "START" \in outcome[1] => outcome[2] = "listening"
BY DEF StartOutcomes

(* listen_close_cb waits for the window and updates nState.                *)
ClosedInClose == \A m \in Mappings : InClose(m) => listen[m] = "closed"

StateInv == StateMatchesHandle /\ ClosedInClose

LEMMA StateStep ==
    TypeOK /\ LiveInv /\ StateInv /\ [Next]_mappingVars => StateInv'
<1> SUFFICES ASSUME TypeOK, LiveInv, StateInv, [Next]_mappingVars
             PROVE  StateInv'
  OBVIOUS
<1> USE MappingAssumption DEF StateInv, StateMatchesHandle, ClosedInClose, InClose,
        TypeOK, uiVars, loopVars, Goto, Sends, Steps
<1>1. ASSUME NEW m \in Mappings, AddMapping(m) PROVE StateInv'
  BY <1>1 DEF AddMapping, LiveInv, Fresh
<1>2. ASSUME NEW m \in Mappings,
             \/ StartMapping(m) \/ StopMapping(m) \/ GetAllConnect(m)
             \/ RemoveMapping(m)
      PROVE  StateInv'
  BY <1>2 DEF StartMapping, StopMapping, GetAllConnect, RemoveMapping
<1>3. ASSUME NEW c \in Conns, RemoveConnect(c) \/ AnsycRemoveConnect(c)
      PROVE  StateInv'
  BY <1>3 DEF RemoveConnect, AnsycRemoveConnect
<1>4. CASE RemoveStore
  BY <1>4 DEF RemoveStore
<1>5. CASE TakeBatch
  BY <1>5 DEF TakeBatch
<1>6. ASSUME NEW m \in Mappings, RunWork(m) PROVE StateInv'
  <2>1. ASSUME NEW operation \in WorkOps, RunFreed(operation, m) PROVE StateInv'
    BY <2>1 DEF RunFreed
  <2>2. CASE StartIgnored(m) \/ StartOnOpenHandle(m)
    BY <2>2 DEF StartIgnored, StartOnOpenHandle
  <2>3. CASE AnsycStartMapping(m)
    <3>1. PICK outcome \in StartOutcomes(m) :
              /\ nState' = [nState EXCEPT ![m] = outcome[1]]
              /\ listen' = [listen EXCEPT ![m] = outcome[2]]
      BY <2>3 DEF AnsycStartMapping
    <3>2. /\ "STOP" \notin outcome[1]
          /\ "START" \in outcome[1] => outcome[2] = "listening"
      BY OutcomesSound, Zenon
    <3>3. at = "idle" /\ at' = at /\ cur' = cur
      BY <2>3 DEF AnsycStartMapping, Running
    <3>4. QED BY <3>1, <3>2, <3>3
  <2>4. CASE StopStopped(m) \/ AnsycGetAllConnect(m)
    BY <2>4 DEF StopStopped, AnsycGetAllConnect, Running
  <2>5. CASE StopHandle(m)
    BY <2>5 DEF StopHandle, CloseListen, Running, Open
  <2>6. QED BY <1>6, <2>1, <2>2, <2>3, <2>4, <2>5 DEF RunWork
<1>7. ASSUME NEW m \in Mappings, ListenFails(m) PROVE StateInv'
  BY <1>7 DEF ListenFails, Idle
<1>8. ASSUME NEW m \in Mappings, listen_close_cb(m) PROVE StateInv'
  BY <1>8 DEF listen_close_cb, Idle
<1>9. CASE RemoveAllConnect \/ ClearRecords \/ TestDeleting \/ LoadState
  BY <1>9 DEF RemoveAllConnect, ClearRecords, TestDeleting, LoadState
<1>10. CASE StoreOr
  BY <1>10 DEF StoreOr
<1>11. CASE StoreAnd
  BY <1>11 DEF StoreAnd
<1>12. CASE Erase \/ HandleMappingMsg
  BY <1>12 DEF Erase, HandleMappingMsg, AfterSend
<1>13. CASE UNCHANGED mappingVars
  BY <1>13 DEF mappingVars
<1>14. QED BY <1>1, <1>2, <1>3, <1>4, <1>5, <1>6, <1>7, <1>8, <1>9, <1>10, <1>11,
              <1>12, <1>13 DEF Next, Progress, Requests

LEMMA State == Spec => []StateInv
<1>1. Init => StateInv
  BY DEF Init, StateInv, StateMatchesHandle, ClosedInClose, InClose
<1>2. QED BY <1>1, StateStep, TypeCorrect, Live, PTL DEF Spec

(* The state the window shows agrees with the port.                        *)
THEOREM StateShownIsTrue == Spec => []StateMatchesHandle
<1>1. StateInv => StateMatchesHandle
  BY DEF StateInv
<1>2. QED BY <1>1, State, PTL

-----------------------------------------------------------------------------
(* What the actions do to the works that are queued.                       *)
Queued(w) == Waiting(w) \/ Taken(w)

LEMMA PostKeeps ==
    ASSUME TypeOK, NEW operation, NEW obj, Post(operation, obj), batch' = batch,
           [op |-> operation, obj |-> obj] \in Works, NEW w, Queued(w)
    PROVE  Queued(w)'
<1>1. CASE Waiting(w)
  <2>1. PICK i \in DOMAIN wq : wq[i] = w
    BY <1>1 DEF Waiting
  <2>2. i \in DOMAIN wq' /\ wq'[i] = w
    BY <2>1, AppendProperties DEF Post, TypeOK
  <2>3. QED BY <2>2 DEF Queued, Waiting
<1>2. CASE Taken(w)
  BY <1>2 DEF Queued, Taken
<1>3. QED BY <1>1, <1>2 DEF Queued

LEMMA PostAdds ==
    ASSUME TypeOK, NEW operation, NEW obj, Post(operation, obj),
           [op |-> operation, obj |-> obj] \in Works
    PROVE  Queued([op |-> operation, obj |-> obj])'
<1>1. /\ Len(wq) + 1 \in DOMAIN wq'
      /\ wq'[Len(wq) + 1] = [op |-> operation, obj |-> obj]
  BY AppendProperties DEF Post, TypeOK
<1>2. QED BY <1>1 DEF Queued, Waiting

LEMMA TakeKeeps ==
    ASSUME TakeBatch, NEW w, Queued(w)
    PROVE  Queued(w)'
BY DEF TakeBatch, Idle, Queued, Waiting, Taken

LEMMA RunKeeps ==
    ASSUME TypeOK, NEW operation, NEW obj, Running(operation, obj), wq' = wq,
           NEW w, w # [op |-> operation, obj |-> obj], Queued(w)
    PROVE  Queued(w)'
<1>1. CASE Waiting(w)
  BY <1>1 DEF Queued, Waiting
<1>2. CASE Taken(w)
  <2>1. PICK i \in DOMAIN batch : batch[i] = w
    BY <1>2 DEF Taken
  <2>2. i # 1 /\ i \in 1..Len(batch) /\ Len(batch) \in Nat
    <3>1. batch[1] = Head(batch) /\ DOMAIN batch = 1..Len(batch) /\ Len(batch) \in Nat
      BY DEF Running, TypeOK
    <3>2. QED BY <2>1, <3>1 DEF Running
  <2>3. /\ batch' = Tail(batch) /\ batch' \in Seq(Works)
        /\ Len(batch') = Len(batch) - 1
        /\ \A j \in 1..Len(batch') : batch'[j] = batch[j + 1]
    <3>1. batch \in Seq(Works) /\ batch # <<>> /\ batch' = Tail(batch)
      BY DEF Running, TypeOK
    <3>2. QED BY <3>1, HeadTailProperties
  <2>4. i - 1 \in 1..Len(batch') /\ (i - 1) + 1 = i
    BY <2>2, <2>3
  <2>5. i - 1 \in DOMAIN batch' /\ batch'[i - 1] = batch[i]
    BY <2>3, <2>4
  <2>6. QED BY <2>1, <2>5 DEF Queued, Taken
<1>3. QED BY <1>1, <1>2 DEF Queued

-----------------------------------------------------------------------------
(* A mapping marked MAPPING_DELETING is removed or about to be.  A mark    *)
(* that listen_close_cb has loaded and will store again was made after it  *)
(* tested the mark, so the stop posted with it is still queued.            *)
MarkLoaded ==
    fault = "none" /\ Debug /\ at \in {"storeOr", "storeAnd"} /\ "DELETING" \in old
        => Queued(StopWork(cur))

RemovalInv == RemovalPending /\ MarkLoaded

(* RemovalPending for one mapping.                                         *)
Pending(m) ==
    \/ Queued(StopWork(m))
    \/ listen[m] = "closing"
    \/ cur = m /\ at \in {"LISTEN_FAIL", "removeAll", "CLEAR", "clear",
                          "testDeleting", "REMOVE", "erase"}

LEMMA PendingForOne ==
    RemovalPending <=>
        (fault = "none" /\ Debug => \A m \in Mappings :
            alloc[m] = "live" /\ "DELETING" \in nState[m] => Pending(m))
BY DEF RemovalPending, Pending, Queued

(* What is pending stays pending in a step that keeps the handles, the     *)
(* place of the loop thread and the queued stops.                          *)
LEMMA PendingKept ==
    ASSUME TypeOK, RemovalInv, fault = "none", Debug,
           UNCHANGED <<alloc, nState, listen, loopVars>>,
           \A m \in Mappings : Queued(StopWork(m)) => Queued(StopWork(m))'
    PROVE  RemovalInv'
<1>1. ASSUME NEW m \in Mappings, alloc'[m] = "live", "DELETING" \in nState'[m]
      PROVE  Pending(m)'
  BY <1>1, PendingForOne DEF RemovalInv, Pending, loopVars
<1>2. RemovalPending'
  BY <1>1 DEF RemovalPending, Pending, Queued
<1>3. MarkLoaded'
  BY DEF RemovalInv, MarkLoaded, loopVars, TypeOK
<1>4. QED BY <1>2, <1>3 DEF RemovalInv

(* The goal of RemovalStep, split by mapping.                              *)
LEMMA RemovalGoal ==
    ASSUME fault' = "none" =>
               \A n \in Mappings :
                   alloc'[n] = "live" /\ "DELETING" \in nState'[n] => Pending(n)',
           MarkLoaded'
    PROVE  RemovalInv'
BY DEF RemovalInv, RemovalPending, Pending, Queued

LEMMA RunWorkKeepsRemoval ==
    ASSUME TypeOK, RemovalInv, fault = "none", Debug,
           NEW m \in Mappings, RunWork(m)
    PROVE  RemovalInv'
<1> USE DEF TypeOK, Goto, loopVars
<1>1. /\ at = "idle" /\ wq' = wq
      /\ \E operation \in WorkOps : Running(operation, m)
  BY DEF RunWork, RunFreed, StartIgnored, StartOnOpenHandle, AnsycStartMapping,
     StopStopped, StopHandle, AnsycGetAllConnect, WorkOps, Running
<1>2. \A n \in Mappings : n # m /\ Queued(StopWork(n)) => Queued(StopWork(n))'
  BY <1>1, RunKeeps DEF StopWork
<1>3. \A n \in Mappings : alloc[n] = "live" /\ "DELETING" \in nState[n]
          => Queued(StopWork(n)) \/ listen[n] = "closing"
  BY <1>1, PendingForOne DEF RemovalInv, Pending
<1>4. ASSUME NEW operation \in WorkOps, RunFreed(operation, m) PROVE RemovalInv'
  BY <1>1, <1>4, RemovalGoal DEF RunFreed, MarkLoaded
<1>5. CASE StartOnOpenHandle(m)
  BY <1>1, <1>5, RemovalGoal DEF StartOnOpenHandle, MarkLoaded
<1>6. CASE StartIgnored(m) \/ AnsycGetAllConnect(m)
  <2>1. Queued(StopWork(m)) => Queued(StopWork(m))'
    BY <1>1, <1>6, RunKeeps DEF StartIgnored, AnsycGetAllConnect, StopWork
  <2>2. at' # "storeOr" /\ at' # "storeAnd"
    BY <1>1, <1>6 DEF StartIgnored, AnsycGetAllConnect
  <2>3. UNCHANGED <<alloc, nState, listen>>
    BY <1>6 DEF StartIgnored, AnsycGetAllConnect
  <2>4. QED BY <1>2, <1>3, <2>1, <2>2, <2>3, RemovalGoal DEF Pending, MarkLoaded
<1>7. CASE AnsycStartMapping(m)
  <2>1. PICK outcome \in StartOutcomes(m) :
            /\ nState' = [nState EXCEPT ![m] = outcome[1]]
            /\ listen' = [listen EXCEPT ![m] = outcome[2]]
    BY <1>7 DEF AnsycStartMapping
  <2>2. "DELETING" \notin nState'[m]
    BY <2>1 DEF StartOutcomes
  <2>3. QED BY <1>1, <1>2, <1>3, <1>7, <2>1, <2>2, RemovalGoal
            DEF Pending, MarkLoaded, AnsycStartMapping
<1>8. CASE StopStopped(m)
  BY <1>1, <1>2, <1>3, <1>8, RemovalGoal DEF StopStopped, Pending, MarkLoaded
<1>9. CASE StopHandle(m)
  BY <1>1, <1>2, <1>3, <1>9, RemovalGoal
     DEF StopHandle, CloseListen, Pending, MarkLoaded
<1>10. QED BY <1>4, <1>5, <1>6, <1>7, <1>8, <1>9 DEF RunWork

LEMMA RequestsKeepRemoval ==
    ASSUME TypeOK, LiveInv, RemovalInv, fault = "none", Debug, Requests \/ RemoveStore
    PROVE  RemovalInv'
<1>1. ASSUME NEW m \in Mappings, AddMapping(m) PROVE RemovalInv'
  <2>1. /\ UNCHANGED <<listen, wq, batch, loopVars>>
        /\ alloc' = [alloc EXCEPT ![m] = "live"]
        /\ nState' = [nState EXCEPT ![m] = {"STOP"}]
    BY <1>1 DEF AddMapping
  <2>2. \A w : Queued(w)' <=> Queued(w)
    BY <2>1 DEF Queued, Waiting, Taken
  <2>3. \A n \in Mappings : alloc'[n] = "live" /\ "DELETING" \in nState'[n]
            => n # m /\ alloc[n] = "live" /\ "DELETING" \in nState[n]
    BY <2>1 DEF TypeOK
  <2>4. MarkLoaded'
    BY <1>1, <2>1, <2>2 DEF AddMapping, RemovalInv, MarkLoaded, loopVars
  <2>5. QED BY <2>1, <2>2, <2>3, <2>4, PendingForOne, RemovalGoal
            DEF RemovalInv, Pending, loopVars
<1>2. ASSUME NEW m \in Mappings,
             StartMapping(m) \/ StopMapping(m) \/ GetAllConnect(m)
      PROVE  RemovalInv'
  <2>1. \A w : Queued(w) => Queued(w)'
    BY <1>2, PostKeeps, WorkTypes
       DEF StartMapping, StopMapping, GetAllConnect, WorkOps
  <2>2. UNCHANGED <<alloc, nState, listen, loopVars>>
    BY <1>2 DEF StartMapping, StopMapping, GetAllConnect
  <2>3. QED BY <2>1, <2>2, PendingKept
<1>3. ASSUME NEW m \in Mappings, RemoveMapping(m) PROVE RemovalInv'
  <2>1. UNCHANGED <<alloc, nState, listen, wq, batch, loopVars>>
    BY <1>3 DEF RemoveMapping
  <2>2. \A w : Queued(w) => Queued(w)'
    BY <2>1 DEF Queued, Waiting, Taken
  <2>3. QED BY <2>1, <2>2, PendingKept
<1>4. ASSUME NEW c \in Conns, RemoveConnect(c) PROVE RemovalInv'
  <2>1. \A w : Queued(w) => Queued(w)'
    BY <1>4, PostKeeps, WorkTypes DEF RemoveConnect
  <2>2. UNCHANGED <<alloc, nState, listen, loopVars>>
    BY <1>4 DEF RemoveConnect
  <2>3. QED BY <2>1, <2>2, PendingKept
<1>5. CASE RemoveStore
  <2>1. PICK m \in Mappings : m = uiCur
    BY <1>5 DEF RemoveStore, UIIdle, TypeOK
  <2>2. Post("stop", m) /\ UNCHANGED <<alloc, listen, batch, loopVars, fault>>
    BY <1>5, <2>1 DEF RemoveStore
  <2>3. Queued(StopWork(m))'
    BY <2>2, PostAdds, WorkTypes DEF StopWork, WorkOps
  <2>4. \A n \in Mappings : Queued(StopWork(n)) => Queued(StopWork(n))'
    BY <2>2, PostKeeps, WorkTypes DEF WorkOps
  <2>5. \A n \in Mappings : n # m => nState'[n] = nState[n]
    BY <1>5, <2>1 DEF RemoveStore, TypeOK
  <2>6. MarkLoaded'
    BY <2>2, <2>4 DEF RemovalInv, MarkLoaded, loopVars, TypeOK
  <2>7. ASSUME NEW n \in Mappings, alloc'[n] = "live", "DELETING" \in nState'[n]
        PROVE  Pending(n)'
    <3>1. CASE n = m
      BY <2>3, <3>1 DEF Pending
    <3>2. CASE n # m
      BY <2>2, <2>4, <2>5, <2>7, <3>2, PendingForOne
         DEF RemovalInv, Pending, loopVars
    <3>3. QED BY <3>1, <3>2
  <2>8. QED BY <2>6, <2>7, RemovalGoal
<1>6. QED BY <1>1, <1>2, <1>3, <1>4, <1>5 DEF Requests

LEMMA LoopKeepsRemoval ==
    ASSUME TypeOK, LiveInv, StateInv, RemovalInv, fault = "none", Debug,
           \/ \E m \in Mappings : ListenFails(m) \/ listen_close_cb(m)
           \/ RemoveAllConnect \/ ClearRecords \/ TestDeleting \/ LoadState
           \/ StoreOr \/ StoreAnd \/ Erase \/ HandleMappingMsg
    PROVE  RemovalInv'
<1> USE DEF TypeOK, Goto, loopVars, Sends, Steps
<1>1. wq' = wq /\ batch' = batch
  BY DEF ListenFails, listen_close_cb, RemoveAllConnect, ClearRecords, TestDeleting,
     LoadState, StoreOr, StoreAnd, Erase, HandleMappingMsg
<1>2. \A n \in Mappings : Queued(StopWork(n))' <=> Queued(StopWork(n))
  BY <1>1 DEF Queued, Waiting, Taken
<1>3. \A n \in Mappings : alloc[n] = "live" /\ "DELETING" \in nState[n] => Pending(n)
  BY PendingForOne DEF RemovalInv
<1>4. ASSUME NEW m \in Mappings, ListenFails(m) PROVE RemovalInv'
  BY <1>2, <1>3, <1>4, RemovalGoal DEF ListenFails, Idle, Pending, MarkLoaded
<1>5. ASSUME NEW m \in Mappings, listen_close_cb(m) PROVE RemovalInv'
  BY <1>2, <1>3, <1>5, RemovalGoal DEF listen_close_cb, Idle, Pending, MarkLoaded
<1>6. CASE RemoveAllConnect \/ ClearRecords \/ TestDeleting
  BY <1>2, <1>3, <1>6, RemovalGoal
     DEF RemoveAllConnect, ClearRecords, TestDeleting, Pending, MarkLoaded
<1>7. CASE LoadState
  <2>1. cur \in Mappings /\ alloc[cur] = "live" /\ listen[cur] = "closed"
    BY <1>7 DEF LoadState, LiveInv, CurIsLive, StateInv, ClosedInClose, InClose
  <2>2. "DELETING" \in nState[cur] => Queued(StopWork(cur))
    BY <1>3, <1>7, <2>1 DEF LoadState, Pending
  <2>3. MarkLoaded'
    BY <1>2, <1>7, <2>1, <2>2 DEF LoadState, MarkLoaded
  <2>4. QED BY <1>2, <1>3, <1>7, <2>3, RemovalGoal DEF LoadState, Pending
<1>8. CASE StoreOr \/ StoreAnd
  <2>1. PICK m \in Mappings : m = cur /\ listen[m] = "closed"
    BY <1>8 DEF StoreOr, StoreAnd, StateInv, ClosedInClose, InClose
  <2>2. "DELETING" \in nState'[m] => Queued(StopWork(m))
    BY <1>8, <2>1 DEF StoreOr, StoreAnd, RemovalInv, MarkLoaded
  <2>3. \A n \in Mappings : n # m => nState'[n] = nState[n]
    BY <1>8, <2>1 DEF StoreOr, StoreAnd
  <2>4. UNCHANGED <<alloc, listen>> /\ at' \in {"loadAnd", "STOP"}
    BY <1>8 DEF StoreOr, StoreAnd
  <2>5. ASSUME NEW n \in Mappings, alloc'[n] = "live", "DELETING" \in nState'[n]
        PROVE  Pending(n)'
    <3>1. CASE n = m
      BY <1>2, <2>2, <2>5, <3>1 DEF Pending
    <3>2. CASE n # m
      BY <1>2, <1>3, <2>1, <2>3, <2>4, <2>5, <3>2 DEF Pending
    <3>3. QED BY <3>1, <3>2
  <2>6. QED BY <2>4, <2>5, RemovalGoal DEF MarkLoaded
<1>9. CASE Erase
  BY <1>2, <1>3, <1>9, RemovalGoal DEF Erase, Pending, MarkLoaded
<1>10. CASE HandleMappingMsg
  BY <1>2, <1>3, <1>10, RemovalGoal
     DEF HandleMappingMsg, AfterSend, Pending, MarkLoaded
<1>11. QED BY <1>4, <1>5, <1>6, <1>7, <1>8, <1>9, <1>10

LEMMA RemovalStep ==
    TypeOK /\ LiveInv /\ StateInv /\ RemovalInv /\ [Next]_mappingVars => RemovalInv'
<1> SUFFICES ASSUME TypeOK, LiveInv, StateInv, RemovalInv, [Next]_mappingVars
             PROVE  RemovalInv'
  OBVIOUS
<1>1. CASE UNCHANGED mappingVars
  BY <1>1 DEF mappingVars, RemovalInv, RemovalPending, MarkLoaded, Queued, Waiting,
     Taken
<1>2. CASE ~Debug
  BY <1>2 DEF RemovalInv, RemovalPending, MarkLoaded
<1>3. CASE Next /\ Debug
  <2>1. fault = "none"
    BY <1>3 DEF Next
  <2>2. CASE Requests \/ RemoveStore
    BY <1>3, <2>1, <2>2, RequestsKeepRemoval
  <2>3. ASSUME NEW m \in Mappings, RunWork(m) PROVE RemovalInv'
    BY <1>3, <2>1, <2>3, RunWorkKeepsRemoval
  <2>4. CASE TakeBatch
    <3>1. \A n \in Mappings : Queued(StopWork(n)) => Queued(StopWork(n))'
      BY <2>4, TakeKeeps
    <3>2. UNCHANGED <<alloc, nState, listen, loopVars>>
      BY <2>4 DEF TakeBatch
    <3>3. QED BY <1>3, <2>1, <3>1, <3>2, PendingKept
  <2>5. ASSUME NEW c \in Conns, AnsycRemoveConnect(c) PROVE RemovalInv'
    <3>1. \A n \in Mappings : Queued(StopWork(n)) => Queued(StopWork(n))'
      BY <2>5, RunKeeps DEF AnsycRemoveConnect, StopWork
    <3>2. UNCHANGED <<alloc, nState, listen, loopVars>>
      BY <2>5 DEF AnsycRemoveConnect
    <3>3. QED BY <1>3, <2>1, <3>1, <3>2, PendingKept
  <2>6. QED BY <1>3, <2>1, <2>2, <2>3, <2>4, <2>5, LoopKeepsRemoval
            DEF Next, Progress
<1>4. QED BY <1>1, <1>2, <1>3

(* A removal is not forgotten: while the mark is set the stop is queued,   *)
(* the handle is closing, or the loop thread is removing the mapping.      *)
THEOREM RemovalIsPending == Spec => []RemovalPending
<1>1. Init => RemovalInv
  BY DEF Init, RemovalInv, RemovalPending, MarkLoaded
<1>2. RemovalInv => RemovalPending
  BY DEF RemovalInv
<1>3. QED BY <1>1, <1>2, RemovalStep, TypeCorrect, Live, State, PTL DEF Spec

-----------------------------------------------------------------------------
(* A mapping that may have connections in the records, and how it stays    *)
(* one: only the clearing of its port takes it out of that state.          *)
Held(m) == alloc[m] = "live" /\ (listen[m] = "listening" \/ ClosingDown(m))

LEMMA HeldStep ==
    TypeOK /\ [Next]_mappingVars /\ fault' = "none" =>
        \A m \in Mappings :
            /\ Held(m)
            /\ cur = m /\ at \in {"removeAll", "clear"} => at' \in {at, "CLEAR"}
            => Held(m)'
<1> SUFFICES ASSUME TypeOK, [Next]_mappingVars, fault' = "none",
                    NEW m \in Mappings, Held(m),
                    cur = m /\ at \in {"removeAll", "clear"} => at' \in {at, "CLEAR"}
             PROVE  Held(m)'
  OBVIOUS
<1> USE DEF Held, ClosingDown, TypeOK, Goto, loopVars, uiVars, Idle
<1>1. CASE UNCHANGED mappingVars
  BY <1>1 DEF mappingVars
<1>2. ASSUME NEW n \in Mappings,
             \/ AddMapping(n) \/ StartMapping(n) \/ StopMapping(n)
             \/ GetAllConnect(n) \/ RemoveMapping(n)
      PROVE  Held(m)'
  BY <1>2 DEF AddMapping, StartMapping, StopMapping, GetAllConnect, RemoveMapping
<1>3. ASSUME NEW c \in Conns, RemoveConnect(c) \/ AnsycRemoveConnect(c)
      PROVE  Held(m)'
  BY <1>3 DEF RemoveConnect, AnsycRemoveConnect
<1>4. CASE RemoveStore \/ TakeBatch
  BY <1>4 DEF RemoveStore, TakeBatch
<1>5. ASSUME NEW n \in Mappings, RunWork(n) PROVE Held(m)'
  <2>1. ASSUME NEW operation \in WorkOps, RunFreed(operation, n) PROVE Held(m)'
    BY <2>1 DEF RunFreed
  <2>2. CASE StartIgnored(n) \/ StartOnOpenHandle(n)
    BY <2>2 DEF StartIgnored, StartOnOpenHandle
  <2>3. CASE AnsycStartMapping(n)
    <3>1. PICK handle : listen' = [listen EXCEPT ![n] = handle]
      BY <2>3 DEF AnsycStartMapping
    <3>2. QED BY <2>3, <3>1 DEF AnsycStartMapping, Running, MappingAssumption
  <2>4. CASE StopStopped(n) \/ AnsycGetAllConnect(n)
    BY <2>4 DEF StopStopped, AnsycGetAllConnect, Running
  <2>5. CASE StopHandle(n)
    BY <2>5 DEF StopHandle, CloseListen, Open
  <2>6. QED BY <1>5, <2>1, <2>2, <2>3, <2>4, <2>5 DEF RunWork
<1>6. ASSUME NEW n \in Mappings, ListenFails(n) \/ listen_close_cb(n)
      PROVE  Held(m)'
  BY <1>6 DEF ListenFails, listen_close_cb
<1>7. CASE RemoveAllConnect \/ ClearRecords
  BY <1>7 DEF RemoveAllConnect, ClearRecords
<1>8. CASE TestDeleting \/ LoadState \/ StoreOr \/ StoreAnd
  BY <1>8 DEF TestDeleting, LoadState, StoreOr, StoreAnd
<1>9. CASE Erase
  BY <1>9 DEF Erase
<1>10. CASE HandleMappingMsg
  BY <1>10 DEF HandleMappingMsg, AfterSend, Sends
<1>11. QED BY <1>1, <1>2, <1>3, <1>4, <1>5, <1>6, <1>7, <1>8, <1>9, <1>10
          DEF Next, Progress, Requests
=============================================================================
