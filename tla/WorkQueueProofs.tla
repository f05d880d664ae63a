-------------------------- MODULE WorkQueueProofs ---------------------------
(***************************************************************************)
(* Proofs about WorkQueue, for any set of posting threads and any set of   *)
(* operations: the mutex protects the queue, the completion packet is      *)
(* never posted twice, no wake-up is lost, operations run in the order of  *)
(* their registration, and the queue implements WorkFIFO.                  *)
(***************************************************************************)
EXTENDS WorkQueue, SequenceTheorems, TLAPS

-----------------------------------------------------------------------------
(* Every variable keeps its type.                                          *)
THEOREM TypeCorrect == Safety => []TypeOK
<1> USE DEF PosterPC, LoopPC
<1>1. Init => TypeOK
  <2>1. <<>> \in Seq(Works)
    OBVIOUS
  <2>2. 0 \in Nat
    OBVIOUS
  <2>3. QED BY <2>1, <2>2, Zenon DEF Init, TypeOK
<1>2. TypeOK /\ [Next]_vars => TypeOK'
  <2> SUFFICES ASSUME TypeOK, [Next]_vars PROVE TypeOK'
    OBVIOUS
  <2> USE DEF TypeOK, loopVars, posterVars, Goto
  <2>1. ASSUME NEW p \in Posters, InitLoop(p) PROVE TypeOK'
    BY <2>1 DEF InitLoop
  <2>2. ASSUME NEW p \in Posters, NEW w \in Works, AsyncOperate(p, w)
        PROVE  TypeOK'
    <3>1. <<w>> \in Seq(Works)
      OBVIOUS
    <3>2. QED BY <2>2, <3>1 DEF AsyncOperate
  <2>3. ASSUME NEW p \in Posters, PosterStep(p) PROVE TypeOK'
    <3>1. CASE RegisterLock(p)   BY <3>1 DEF RegisterLock
    <3>2. CASE RegisterInsert(p)
      <4>1. wq \o cur[p] \in Seq(Works) /\ posted \o cur[p] \in Seq(Works)
        BY ConcatProperties
      <4>2. QED BY <3>2, <4>1 DEF RegisterInsert
    <3>3. CASE AsyncSend(p)      BY <3>3 DEF AsyncSend
    <3>4. CASE PostCompletion(p) BY <3>4 DEF PostCompletion
    <3>5. CASE RegisterUnlock(p) BY <3>5 DEF RegisterUnlock
    <3>6. QED BY <2>3, <3>1, <3>2, <3>3, <3>4, <3>5 DEF PosterStep
  <2>4. ASSUME LoopStep PROVE TypeOK'
    <3>1. CASE LoopAlive      BY <3>1 DEF LoopAlive
    <3>2. CASE Poll           BY <3>2 DEF Poll
    <3>3. CASE ProcessWakeup  BY <3>3 DEF ProcessWakeup
    <3>4. CASE WorkDoneLock   BY <3>4 DEF WorkDoneLock
    <3>5. CASE WorkDoneMove   BY <3>5 DEF WorkDoneMove
    <3>6. CASE WorkDoneUnlock BY <3>6 DEF WorkDoneUnlock
    <3>7. CASE WorkDoneNext
      <4>1. batch # <<>> => <<Head(batch)>> \in Seq(Works) /\ Tail(batch) \in Seq(Works)
        BY HeadTailProperties
      <4>2. running' \in Seq(Works) /\ batch' \in Seq(Works)
        BY <3>7, <4>1 DEF WorkDoneNext
      <4>3. QED BY <3>7, <4>2 DEF WorkDoneNext
    <3>8. CASE SendNotify     BY <3>8 DEF SendNotify
    <3>9. ran \o running \in Seq(Works)
      BY ConcatProperties
    <3>10. CASE HandleNotify  BY <3>9, <3>10 DEF HandleNotify, Return
    <3>11. CASE WorkReturn    BY <3>9, <3>11 DEF WorkReturn, Return
    <3>12. QED BY <2>4, <3>1, <3>2, <3>3, <3>4, <3>5, <3>6, <3>7, <3>8, <3>10,
                  <3>11 DEF LoopStep
  <2>5. CASE Idle \/ UNCHANGED vars
    BY <2>5 DEF Idle, vars
  <2>6. QED BY <2>1, <2>2, <2>3, <2>4, <2>5 DEF Next
<1>3. QED BY <1>1, <1>2, PTL DEF Safety

-----------------------------------------------------------------------------
(* Before InitLoop has run there is no loop thread and nobody posts.       *)
NotStarted == ~hasLoop => lpc = "none" /\ running = <<>> /\ batch = <<>>

(* StartMapping and the other operations create the loop before anything   *)
(* is posted to it.                                                        *)
LEMMA StartsFirst == Safety => []NotStarted
<1>1. Init => NotStarted
  BY DEF Init, NotStarted
<1>2. NotStarted /\ [Next]_vars => NotStarted'
  <2> SUFFICES ASSUME NotStarted, [Next]_vars PROVE NotStarted'
    OBVIOUS
  <2> USE DEF NotStarted, loopVars, posterVars
  <2>1. ASSUME NEW p \in Posters, InitLoop(p) PROVE NotStarted'
    BY <2>1 DEF InitLoop
  <2>2. ASSUME NEW p \in Posters, NEW w \in Works, AsyncOperate(p, w)
        PROVE  NotStarted'
    BY <2>2 DEF AsyncOperate
  <2>3. ASSUME NEW p \in Posters, PosterStep(p) PROVE NotStarted'
    BY <2>3 DEF PosterStep, RegisterLock, RegisterInsert, AsyncSend,
       PostCompletion, RegisterUnlock
  <2>4. ASSUME LoopStep PROVE NotStarted'
    BY <2>4 DEF LoopStep, LoopAlive, Poll, ProcessWakeup, WorkDoneLock,
       WorkDoneMove, WorkDoneUnlock, WorkDoneNext, SendNotify, HandleNotify,
       WorkReturn, Return
  <2>5. CASE Idle \/ UNCHANGED vars
    BY <2>5 DEF Idle, vars
  <2>6. QED BY <2>1, <2>2, <2>3, <2>4, <2>5 DEF Next
<1>3. QED BY <1>1, <1>2, PTL DEF Safety

-----------------------------------------------------------------------------
(* wq_mutex is held by exactly the thread that is between lock and unlock. *)
THEOREM MutualExclusion == Safety => []MutexInv
<1>1. Init => MutexInv
  BY WorkQueueAssumption DEF Init, MutexInv
<1>2. TypeOK /\ NotStarted /\ MutexInv /\ [Next]_vars => MutexInv'
  <2> SUFFICES ASSUME TypeOK, NotStarted, MutexInv, [Next]_vars PROVE MutexInv'
    OBVIOUS
  <2> USE WorkQueueAssumption
      DEF TypeOK, MutexInv, PosterPC, LoopPC, loopVars, posterVars, Goto
  <2>1. ASSUME NEW p \in Posters, InitLoop(p) PROVE MutexInv'
    BY <2>1 DEF InitLoop, NotStarted
  <2>2. ASSUME NEW p \in Posters, NEW w \in Works, AsyncOperate(p, w)
        PROVE  MutexInv'
    BY <2>2 DEF AsyncOperate
  <2>3. ASSUME NEW p \in Posters, PosterStep(p) PROVE MutexInv'
    <3>1. CASE RegisterLock(p)   BY <3>1 DEF RegisterLock
    <3>2. CASE RegisterInsert(p) BY <3>2 DEF RegisterInsert
    <3>3. CASE AsyncSend(p)
      <4>1. pc'[p] \in {"unlock", "post"} /\ mutex = p /\ mutex' = mutex /\ lpc' = lpc
        BY <3>3 DEF AsyncSend
      <4>2. \A q \in Posters \ {p} : pc'[q] = pc[q]
        BY <3>3 DEF AsyncSend
      <4>3. QED BY <4>1, <4>2
    <3>4. CASE PostCompletion(p) BY <3>4 DEF PostCompletion
    <3>5. CASE RegisterUnlock(p) BY <3>5 DEF RegisterUnlock
    <3>6. QED BY <2>3, <3>1, <3>2, <3>3, <3>4, <3>5 DEF PosterStep
  <2>4. ASSUME LoopStep PROVE MutexInv'
    BY <2>4 DEF LoopStep, LoopAlive, Poll, ProcessWakeup, WorkDoneLock,
       WorkDoneMove, WorkDoneUnlock, WorkDoneNext, SendNotify, HandleNotify,
       WorkReturn, Return
  <2>5. CASE Idle \/ UNCHANGED vars
    BY <2>5 DEF Idle, vars
  <2>6. QED BY <2>1, <2>2, <2>3, <2>4, <2>5 DEF Next
<1>3. QED BY <1>1, <1>2, TypeCorrect, StartsFirst, PTL DEF Safety

-----------------------------------------------------------------------------
(* A completion packet of wq_async is in one place at a time, and is there *)
(* exactly when async_sent is set: uv_async_send never posts the request   *)
(* while it is still in the port or in the list of pending requests.       *)
THEOREM PacketPostedOnce == Safety => []OnePacket
<1>1. Init => OnePacket
  BY DEF Init, OnePacket
<1>2. TypeOK /\ NotStarted /\ MutexInv /\ OnePacket /\ [Next]_vars => OnePacket'
  <2> SUFFICES ASSUME TypeOK, NotStarted, MutexInv, OnePacket, [Next]_vars
               PROVE  OnePacket'
    OBVIOUS
  <2> USE WorkQueueAssumption
      DEF TypeOK, PosterPC, LoopPC, loopVars, posterVars, Goto
  <2>1. ASSUME NEW p \in Posters, InitLoop(p) PROVE OnePacket'
    BY <2>1 DEF InitLoop, NotStarted, OnePacket
  <2>2. ASSUME NEW p \in Posters, NEW w \in Works, AsyncOperate(p, w)
        PROVE  OnePacket'
    BY <2>2 DEF AsyncOperate, OnePacket
  <2>3. ASSUME NEW p \in Posters, PosterStep(p) PROVE OnePacket'
    <3>0. \A q \in Posters : pc[p] \in {"send", "post"} /\ pc[q] \in {"send", "post"} => q = p
      BY DEF MutexInv
    <3>1. CASE RegisterLock(p)   BY <3>1 DEF RegisterLock, OnePacket
    <3>2. CASE RegisterInsert(p) BY <3>2 DEF RegisterInsert, OnePacket
    <3>3. CASE AsyncSend(p)
      <4>1. CASE asyncSent BY <3>3, <4>1 DEF AsyncSend, OnePacket
      <4>2. CASE ~asyncSent
        <5>1. packets = 0 /\ lpc # "wake" /\ \A q \in Posters : pc[q] # "post"
          BY <4>2 DEF OnePacket
        <5>2. asyncSent' = TRUE /\ pc' = [pc EXCEPT ![p] = "post"]
              /\ packets' = packets /\ lpc' = lpc
          BY <3>3, <4>2 DEF AsyncSend
        <5>3. QED BY <5>1, <5>2 DEF OnePacket
      <4>3. QED BY <4>1, <4>2
    <3>4. CASE PostCompletion(p)
      <4>1. packets = 0 /\ asyncSent /\ lpc # "wake"
        BY <3>4 DEF PostCompletion, OnePacket
      <4>2. \A q \in Posters : pc'[q] # "post"
        BY <3>0, <3>4 DEF PostCompletion
      <4>3. QED BY <3>4, <4>1, <4>2 DEF PostCompletion, OnePacket
    <3>5. CASE RegisterUnlock(p) BY <3>5 DEF RegisterUnlock, OnePacket
    <3>6. QED BY <2>3, <3>1, <3>2, <3>3, <3>4, <3>5 DEF PosterStep
  <2>4. ASSUME LoopStep PROVE OnePacket'
    <3>1. CASE Poll          BY <3>1 DEF Poll, OnePacket
    <3>2. CASE ProcessWakeup BY <3>2 DEF ProcessWakeup, OnePacket
    <3>3. CASE ~ Poll /\ ~ ProcessWakeup
      <4>1. UNCHANGED <<packets, asyncSent, pc>> /\ lpc # "wake" /\ lpc' # "wake"
        BY <2>4, <3>3 DEF LoopStep, LoopAlive, WorkDoneLock, WorkDoneMove,
           WorkDoneUnlock, WorkDoneNext, SendNotify, HandleNotify, WorkReturn,
           Return
      <4>2. QED BY <4>1 DEF OnePacket
    <3>4. QED BY <3>1, <3>2, <3>3
  <2>5. CASE Idle \/ UNCHANGED vars
    BY <2>5 DEF Idle, vars, OnePacket
  <2>6. QED BY <2>1, <2>2, <2>3, <2>4, <2>5 DEF Next
<1>3. QED BY <1>1, <1>2, TypeCorrect, StartsFirst, MutualExclusion, PTL DEF Safety

-----------------------------------------------------------------------------
(* An operation never sits in loop->wq without a wake-up on its way.       *)
THEOREM WakeupNeverLost == Safety => []NoLostWakeup
<1>1. Init => NoLostWakeup
  BY DEF Init, NoLostWakeup
<1>2. TypeOK /\ NotStarted /\ NoLostWakeup /\ [Next]_vars => NoLostWakeup'
  <2> SUFFICES ASSUME TypeOK, NotStarted, NoLostWakeup, [Next]_vars
               PROVE  NoLostWakeup'
    OBVIOUS
  <2> USE DEF TypeOK, PosterPC, LoopPC, loopVars, posterVars, Goto
  <2>1. ASSUME NEW p \in Posters, InitLoop(p) PROVE NoLostWakeup'
    BY <2>1 DEF InitLoop, NotStarted, NoLostWakeup
  <2>2. ASSUME NEW p \in Posters, NEW w \in Works, AsyncOperate(p, w)
        PROVE  NoLostWakeup'
    BY <2>2 DEF AsyncOperate, NoLostWakeup
  <2>3. ASSUME NEW p \in Posters, PosterStep(p) PROVE NoLostWakeup'
    <3>1. CASE RegisterLock(p)   BY <3>1 DEF RegisterLock, NoLostWakeup
    <3>2. CASE RegisterInsert(p)
      <4>1. pc'[p] = "send"
        BY <3>2 DEF RegisterInsert
      <4>2. QED BY <4>1 DEF NoLostWakeup
    <3>3. CASE AsyncSend(p)      BY <3>3 DEF AsyncSend, NoLostWakeup
    <3>4. CASE PostCompletion(p) BY <3>4 DEF PostCompletion, NoLostWakeup
    <3>5. CASE RegisterUnlock(p) BY <3>5 DEF RegisterUnlock, NoLostWakeup
    <3>6. QED BY <2>3, <3>1, <3>2, <3>3, <3>4, <3>5 DEF PosterStep
  <2>4. ASSUME LoopStep PROVE NoLostWakeup'
    BY <2>4 DEF LoopStep, LoopAlive, Poll, ProcessWakeup, WorkDoneLock,
       WorkDoneMove, WorkDoneUnlock, WorkDoneNext, SendNotify, HandleNotify,
       WorkReturn, Return, NoLostWakeup
  <2>5. CASE Idle \/ UNCHANGED vars
    BY <2>5 DEF Idle, vars, NoLostWakeup
  <2>6. QED BY <2>1, <2>2, <2>3, <2>4, <2>5 DEF Next
<1>3. QED BY <1>1, <1>2, TypeCorrect, StartsFirst, PTL DEF Safety

-----------------------------------------------------------------------------
(* A poster between AsyncOperate and the insertion carries one operation   *)
(* that nobody else carries and that has not been posted; the local queue  *)
(* and the running operation exist only while uv__work_done runs.          *)
Carrying ==
    /\ \A p \in Posters :
        /\ pc[p] = "idle" => cur[p] = <<>>
        /\ pc[p] \in {"lock", "insert"} =>
              \E w \in Works : cur[p] = <<w>> /\ w \notin Elements(posted)
    /\ \A p, q \in Posters : p # q /\ cur[p] # <<>> => cur[p] # cur[q]
    /\ lpc \notin {"unlock", "next", "run", "sending"} => batch = <<>>
    /\ lpc \notin {"run", "sending"} => running = <<>>
    /\ lpc \in {"run", "sending"} => \E w \in Works : running = <<w>>

(* The elements of a concatenation, and a concatenation of four parts.     *)
LEMMA ElementsConcat ==
  ASSUME NEW S, NEW s \in Seq(S), NEW t \in Seq(S)
  PROVE  Elements(s \o t) = Elements(s) \cup Elements(t)
<1>1. /\ s \o t \in Seq(S) /\ Len(s \o t) = Len(s) + Len(t)
      /\ Len(s) \in Nat /\ Len(t) \in Nat
      /\ DOMAIN s = 1 .. Len(s) /\ DOMAIN t = 1 .. Len(t)
      /\ DOMAIN (s \o t) = 1 .. Len(s) + Len(t)
  BY ConcatProperties, LenProperties
<1>2. \A i \in 1 .. Len(s) + Len(t) :
        (s \o t)[i] = IF i <= Len(s) THEN s[i] ELSE t[i - Len(s)]
  BY ConcatProperties
<1>3. ASSUME NEW x \in Elements(s \o t) PROVE x \in Elements(s) \cup Elements(t)
  <2>1. PICK i \in 1 .. Len(s) + Len(t) : x = (s \o t)[i]
    BY <1>1 DEF Elements
  <2>2. CASE i <= Len(s)
    <3>1. i \in DOMAIN s /\ x = s[i]
      BY <1>1, <1>2, <2>1, <2>2
    <3>2. QED BY <3>1 DEF Elements
  <2>3. CASE ~(i <= Len(s))
    <3>1. i - Len(s) \in DOMAIN t /\ x = t[i - Len(s)]
      BY <1>1, <1>2, <2>1, <2>3
    <3>2. QED BY <3>1 DEF Elements
  <2>4. QED BY <2>2, <2>3
<1>4. ASSUME NEW x \in Elements(s) PROVE x \in Elements(s \o t)
  <2>1. PICK i \in 1 .. Len(s) : x = s[i]
    BY <1>1 DEF Elements
  <2>2. i \in DOMAIN (s \o t) /\ x = (s \o t)[i]
    BY <1>1, <1>2, <2>1
  <2>3. QED BY <2>2 DEF Elements
<1>5. ASSUME NEW x \in Elements(t) PROVE x \in Elements(s \o t)
  <2>1. PICK i \in 1 .. Len(t) : x = t[i]
    BY <1>1 DEF Elements
  <2>2. i + Len(s) \in DOMAIN (s \o t) /\ x = (s \o t)[i + Len(s)]
    BY <1>1, <1>2, <2>1
  <2>3. QED BY <2>2 DEF Elements
<1>6. QED BY <1>3, <1>4, <1>5

LEMMA ElementsSingle == \A w : Elements(<<w>>) = {w}
  BY DEF Elements

LEMMA ElementsEmpty == Elements(<<>>) = {}
  BY DEF Elements

LEMMA ElementsAppend ==
  \A s \in Seq(Works), w \in Works : Elements(s \o <<w>>) = Elements(s) \cup {w}
<1> SUFFICES ASSUME NEW s \in Seq(Works), NEW w \in Works
             PROVE  Elements(s \o <<w>>) = Elements(s) \cup {w}
  OBVIOUS
<1>1. <<w>> \in Seq(Works)
  OBVIOUS
<1>2. Elements(s \o <<w>>) = Elements(s) \cup Elements(<<w>>)
  BY <1>1, ElementsConcat, Zenon
<1>3. QED BY <1>2, ElementsSingle, Zenon

(* Each operation is carried by one poster and posted once.                *)
LEMMA CarryingInv == Safety => []Carrying
<1>1. Init => Carrying
  BY DEF Init, Carrying
<1>2. TypeOK /\ NotStarted /\ Carrying /\ [Next]_vars => Carrying'
  <2> SUFFICES ASSUME TypeOK, NotStarted, Carrying, [Next]_vars
               PROVE  Carrying'
    OBVIOUS
  <2> USE DEF TypeOK, PosterPC, LoopPC, loopVars, posterVars, Goto
  <2>1. ASSUME NEW p \in Posters, InitLoop(p) PROVE Carrying'
    BY <2>1 DEF InitLoop, NotStarted, Carrying
  <2>2. ASSUME NEW p \in Posters, NEW w \in Works, AsyncOperate(p, w)
        PROVE  Carrying'
    <3>1. /\ cur' = [cur EXCEPT ![p] = <<w>>]
          /\ pc' = [pc EXCEPT ![p] = "lock"]
          /\ UNCHANGED <<posted, lpc, batch, running>>
          /\ w \notin Elements(posted)
          /\ \A q \in Posters : cur[q] # <<w>>
      BY <2>2 DEF AsyncOperate, Fresh
    <3>2. \A q, r \in Posters : q # r /\ cur'[q] # <<>> => cur'[q] # cur'[r]
      BY <3>1 DEF Carrying
    <3>3. \A q \in Posters :
            /\ pc'[q] = "idle" => cur'[q] = <<>>
            /\ pc'[q] \in {"lock", "insert"} =>
                 \E v \in Works : cur'[q] = <<v>> /\ v \notin Elements(posted')
      BY <3>1 DEF Carrying
    <3>4. QED BY <3>1, <3>2, <3>3 DEF Carrying
  <2>3. ASSUME NEW p \in Posters, PosterStep(p) PROVE Carrying'
    <3>1. CASE RegisterLock(p)   BY <3>1 DEF RegisterLock, Carrying
    <3>2. CASE RegisterInsert(p)
      <4>1. /\ pc' = [pc EXCEPT ![p] = "send"]
            /\ UNCHANGED <<cur, lpc, batch, running>>
            /\ posted' = posted \o cur[p] /\ pc[p] = "insert"
        BY <3>2 DEF RegisterInsert
      <4>2. PICK w \in Works : cur[p] = <<w>>
        BY <4>1 DEF Carrying
      <4>3. Elements(posted') = Elements(posted) \cup {w}
        <5>1. posted \in Seq(Works)
          OBVIOUS
        <5>2. Elements(posted \o <<w>>) = Elements(posted) \cup {w}
          BY <5>1, ElementsAppend, Zenon
        <5>3. QED BY <4>1, <4>2, <5>2, Zenon
      <4>4. ASSUME NEW q \in Posters, pc'[q] \in {"lock", "insert"}
            PROVE  \E v \in Works : cur'[q] = <<v>> /\ v \notin Elements(posted')
        <5>1. q # p /\ pc[q] \in {"lock", "insert"}
          BY <4>1, <4>4
        <5>2. PICK v \in Works : cur[q] = <<v>> /\ v \notin Elements(posted)
          BY <5>1 DEF Carrying
        <5>3. <<v>> # <<w>>
          <6>1. cur[p] # <<>>
            BY <4>2
          <6>2. \A r, t \in Posters : r # t /\ cur[r] # <<>> => cur[r] # cur[t]
            BY Zenon DEF Carrying
          <6>3. cur[p] # cur[q]
            BY <5>1, <6>1, <6>2, Zenon
          <6>4. QED BY <4>2, <5>2, <6>3, Zenon
        <5>4. v # w
          BY <5>3
        <5>5. v \notin Elements(posted') /\ cur'[q] = <<v>>
          BY <4>1, <4>3, <5>2, <5>4
        <5>6. QED BY <5>5
      <4>5. \A q \in Posters : pc'[q] = "idle" => cur'[q] = <<>>
        BY <4>1 DEF Carrying
      <4>6. QED BY <4>1, <4>4, <4>5 DEF Carrying
    <3>3. CASE AsyncSend(p)      BY <3>3 DEF AsyncSend, Carrying
    <3>4. CASE PostCompletion(p) BY <3>4 DEF PostCompletion, Carrying
    <3>5. CASE RegisterUnlock(p) BY <3>5 DEF RegisterUnlock, Carrying
    <3>6. QED BY <2>3, <3>1, <3>2, <3>3, <3>4, <3>5 DEF PosterStep
  <2>4. ASSUME LoopStep PROVE Carrying'
    <3>0. UNCHANGED <<pc, cur, posted>>
      BY <2>4 DEF LoopStep, LoopAlive, Poll, ProcessWakeup, WorkDoneLock,
         WorkDoneMove, WorkDoneUnlock, WorkDoneNext, SendNotify, HandleNotify,
         WorkReturn, Return
    <3>1. CASE WorkDoneNext
      <4>1. CASE batch # <<>>
        <5>1. Head(batch) \in Works
          BY <4>1, HeadTailProperties
        <5>2. running' = <<Head(batch)>> /\ lpc' = "run"
          BY <3>1, <4>1 DEF WorkDoneNext
        <5>3. QED BY <3>0, <5>1, <5>2 DEF Carrying
      <4>2. CASE batch = <<>>
        BY <3>0, <3>1, <4>2 DEF WorkDoneNext, Carrying
      <4>3. QED BY <4>1, <4>2
    <3>2. CASE ~WorkDoneNext
      BY <3>0, <2>4, <3>2 DEF Carrying, LoopStep, LoopAlive, Poll,
         ProcessWakeup, WorkDoneLock, WorkDoneMove, WorkDoneUnlock, SendNotify,
         HandleNotify, WorkReturn, Return
    <3>3. QED BY <3>1, <3>2
  <2>5. CASE Idle \/ UNCHANGED vars
    BY <2>5 DEF Idle, vars, Carrying
  <2>6. QED BY <2>1, <2>2, <2>3, <2>4, <2>5 DEF Next
<1>3. QED BY <1>1, <1>2, TypeCorrect, StartsFirst, PTL DEF Safety

-----------------------------------------------------------------------------
(* Concatenation is associative and stays in Seq(S).                       *)
LEMMA Concat3 ==
  ASSUME NEW S, NEW s \in Seq(S), NEW t \in Seq(S), NEW u \in Seq(S)
  PROVE  (s \o t) \o u = s \o (t \o u) /\ s \o t \in Seq(S)
  BY ConcatAssociative, ConcatProperties

(* A nonempty sequence is its head followed by its tail.                   *)
LEMMA HeadTail ==
  ASSUME NEW S, NEW s \in Seq(S), s # <<>>
  PROVE  /\ <<Head(s)>> \in Seq(S) /\ Tail(s) \in Seq(S)
         /\ <<Head(s)>> \o Tail(s) = s
<1> DEFINE h == <<Head(s)>>
<1>1. h \in Seq(S) /\ Len(h) = 1 /\ h[1] = s[1]
  BY HeadTailProperties
<1>2. Tail(s) \in Seq(S) /\ Len(Tail(s)) = Len(s) - 1
      /\ \A i \in 1 .. Len(Tail(s)) : Tail(s)[i] = s[i + 1]
  BY HeadTailProperties
<1>3. Len(s) \in Nat /\ Len(s) # 0
  BY EmptySeq, LenProperties
<1> HIDE DEF h
<1>4. h \o Tail(s) \in Seq(S) /\ Len(h \o Tail(s)) = Len(s)
  BY <1>1, <1>2, <1>3, ConcatProperties
<1>5. ASSUME NEW i \in 1 .. Len(s) PROVE (h \o Tail(s))[i] = s[i]
  <2>1. (h \o Tail(s))[i] = IF i <= 1 THEN h[i] ELSE Tail(s)[i - 1]
    BY <1>1, <1>2, <1>3, ConcatProperties
  <2>2. CASE i = 1 BY <1>1, <2>1, <2>2
  <2>3. CASE i # 1
    <3>1. i - 1 \in 1 .. Len(Tail(s)) /\ ~(i <= 1) /\ (i - 1) + 1 = i
      BY <1>2, <1>3, <2>3
    <3>2. QED BY <1>2, <2>1, <3>1
  <2>4. QED BY <2>2, <2>3
<1>6. h \o Tail(s) = s
  BY <1>4, <1>5, SeqEqual
<1>7. QED BY <1>1, <1>2, <1>6 DEF h

(* Operations run in the order of their registration, none twice, none     *)
(* dropped.                                                                *)
THEOREM RunInOrder == Safety => []InOrder
<1>1. Init => InOrder
  <2>1. <<>> \o <<>> = <<>>
    BY ConcatEmptySeq
  <2>2. QED BY <2>1 DEF Init, InOrder
<1>2. TypeOK /\ NotStarted /\ Carrying /\ InOrder /\ [Next]_vars => InOrder'
  <2> SUFFICES ASSUME TypeOK, NotStarted, Carrying, InOrder, [Next]_vars
               PROVE  InOrder'
    OBVIOUS
  <2>0. /\ wq \in Seq(Works) /\ batch \in Seq(Works) /\ running \in Seq(Works)
        /\ ran \in Seq(Works) /\ \A p \in Posters : cur[p] \in Seq(Works)
    BY DEF TypeOK
  <2>1. ASSUME NEW p \in Posters, RegisterInsert(p) PROVE InOrder'
    <3>1. posted' = posted \o cur[p] /\ wq' = wq \o cur[p]
          /\ UNCHANGED <<ran, running, batch>>
      BY <2>1 DEF RegisterInsert, loopVars
    <3>2. ran \o running \in Seq(Works) /\ (ran \o running) \o batch \in Seq(Works)
      BY <2>0, Concat3
    <3>3. (((ran \o running) \o batch) \o wq) \o cur[p]
            = ((ran \o running) \o batch) \o (wq \o cur[p])
      <4> DEFINE done == (ran \o running) \o batch
                 c    == cur[p]
      <4>1. done \in Seq(Works) /\ wq \in Seq(Works) /\ c \in Seq(Works)
        BY <2>0, <3>2
      <4> HIDE DEF done, c
      <4>2. (done \o wq) \o c = done \o (wq \o c)
        BY <4>1, ConcatAssociative
      <4>3. QED BY <4>2 DEF done, c
    <3>4. QED BY <3>1, <3>3 DEF InOrder
  <2>2. CASE WorkDoneMove
    <3>1. batch = <<>> /\ batch' = wq /\ wq' = <<>> /\ UNCHANGED <<ran, running, posted>>
      BY <2>2 DEF WorkDoneMove, Carrying, posterVars
    <3>2. ran \o running \in Seq(Works) /\ (ran \o running) \o wq \in Seq(Works)
      BY <2>0, Concat3
    <3>3. (ran \o running) \o <<>> = ran \o running
          /\ ((ran \o running) \o wq) \o <<>> = (ran \o running) \o wq
      BY <3>2, ConcatEmptySeq
    <3>4. QED BY <3>1, <3>3 DEF InOrder
  <2>3. CASE WorkDoneNext
    <3>1. CASE batch # <<>>
      <4>1. /\ running = <<>> /\ running' = <<Head(batch)>> /\ batch' = Tail(batch)
            /\ UNCHANGED <<ran, wq, posted>>
        BY <2>3, <3>1 DEF WorkDoneNext, Carrying, posterVars
      <4>2. <<Head(batch)>> \in Seq(Works) /\ Tail(batch) \in Seq(Works)
            /\ <<Head(batch)>> \o Tail(batch) = batch
        BY <2>0, <3>1, HeadTail
      <4>3. (ran \o <<Head(batch)>>) \o Tail(batch) = ran \o batch
        BY <2>0, <4>2, Concat3
      <4>4. ran \o <<>> = ran
        BY <2>0, ConcatEmptySeq
      <4>5. QED BY <4>1, <4>3, <4>4 DEF InOrder
    <3>2. CASE batch = <<>>
      BY <2>3, <3>2 DEF WorkDoneNext, InOrder, posterVars
    <3>3. QED BY <3>1, <3>2
  <2>4. CASE HandleNotify \/ WorkReturn
    <3>1. ran' = ran \o running /\ running' = <<>> /\ UNCHANGED <<batch, wq, posted>>
      BY <2>4 DEF HandleNotify, WorkReturn, Return, posterVars
    <3>2. (ran \o running) \o <<>> = ran \o running
      BY <2>0, Concat3, ConcatEmptySeq
    <3>3. QED BY <3>1, <3>2 DEF InOrder
  <2>5. CASE UNCHANGED <<wq, batch, running, posted, ran>>
    BY <2>5 DEF InOrder
  <2>6. QED
    <3>1. CASE LoopStep
      BY <3>1, <2>2, <2>3, <2>4, <2>5 DEF LoopStep, LoopAlive, Poll,
         ProcessWakeup, WorkDoneLock, WorkDoneUnlock, SendNotify, posterVars
    <3>2. ASSUME NEW p \in Posters, PosterStep(p) PROVE InOrder'
      BY <3>2, <2>1, <2>5 DEF PosterStep, RegisterLock, AsyncSend,
         PostCompletion, RegisterUnlock, loopVars
    <3>3. ASSUME NEW p \in Posters, InitLoop(p) PROVE InOrder'
      BY <3>3, <2>5 DEF InitLoop, posterVars
    <3>4. ASSUME NEW p \in Posters, NEW w \in Works, AsyncOperate(p, w)
          PROVE  InOrder'
      BY <3>4, <2>5 DEF AsyncOperate, loopVars
    <3>5. CASE Idle \/ UNCHANGED vars
      BY <3>5, <2>5 DEF Idle, vars
    <3>6. QED BY <3>1, <3>2, <3>3, <3>4, <3>5 DEF Next
<1>3. QED BY <1>1, <1>2, TypeCorrect, StartsFirst, CarryingInv, PTL DEF Safety

-----------------------------------------------------------------------------
(* The queue implements the abstract queue: registering an operation is    *)
(* Post, the return of its callback is Run, every other step changes       *)
(* nothing that the callers of AsyncOperate can see.                       *)
THEOREM QueueImplementsFIFO == Safety => ImplementsFIFO
<1> DEFINE queue == running \o batch \o wq
<1>1. Init => FIFO!Init
  <2>1. <<>> \o <<>> = <<>>
    BY ConcatEmptySeq
  <2>2. QED BY <2>1 DEF Init, FIFO!Init
<1>2. TypeOK /\ NotStarted /\ Carrying /\ InOrder /\ InOrder' /\ [Next]_vars
        => [FIFO!Next]_FIFO!vars
  <2> SUFFICES ASSUME TypeOK, NotStarted, Carrying, InOrder, [Next]_vars
               PROVE  [FIFO!Next]_FIFO!vars
    OBVIOUS
  <2>0. /\ wq \in Seq(Works) /\ batch \in Seq(Works) /\ running \in Seq(Works)
        /\ ran \in Seq(Works) /\ \A p \in Posters : cur[p] \in Seq(Works)
        /\ running \o batch \in Seq(Works) /\ queue \in Seq(Works)
    BY Concat3 DEF TypeOK
  <2>1. ASSUME NEW p \in Posters, RegisterInsert(p) PROVE FIFO!Next
    <3>1. wq' = wq \o cur[p] /\ UNCHANGED <<ran, running, batch>> /\ pc[p] = "insert"
      BY <2>1 DEF RegisterInsert, loopVars
    <3>2. PICK w \in Works : cur[p] = <<w>> /\ w \notin Elements(posted)
      BY <3>1 DEF Carrying
    <3>3. queue' = queue \o <<w>>
      BY <2>0, <3>1, <3>2, Concat3
    <3>4. queue' = Append(queue, w)
      BY <2>0, <3>3, AppendIsConcat
    <3>5. Elements(posted) = Elements(queue) \cup Elements(ran)
      <4>1. posted = ran \o queue
        <5>1. ((ran \o running) \o batch) \o wq = ran \o ((running \o batch) \o wq)
          <6> DEFINE rb == running \o batch
          <6>1. /\ ran \in Seq(Works) /\ rb \in Seq(Works) /\ wq \in Seq(Works)
                /\ (ran \o running) \o batch = ran \o rb
            BY <2>0, ConcatAssociative
          <6> HIDE DEF queue, rb
          <6>2. (ran \o rb) \o wq = ran \o (rb \o wq)
            BY <6>1, ConcatAssociative
          <6>3. QED BY <6>1, <6>2 DEF rb
        <5>2. QED BY <5>1 DEF InOrder
      <4>2. Elements(posted) = Elements(ran) \cup Elements(queue)
        <5>1. ran \in Seq(Works) /\ queue \in Seq(Works)
          BY <2>0
        <5> HIDE DEF queue
        <5>2. Elements(ran \o queue) = Elements(ran) \cup Elements(queue)
          BY <5>1, ElementsConcat, Zenon
        <5>3. QED BY <4>1, <5>2
      <4>3. QED BY <4>2
    <3>6. FIFO!Post(w)
      <4>1. FIFO!Elements(queue) = Elements(queue) /\ FIFO!Elements(ran) = Elements(ran)
        BY DEF FIFO!Elements, Elements
      <4>2. QED BY <3>1, <3>2, <3>4, <3>5, <4>1 DEF FIFO!Post
    <3>7. QED BY <3>6 DEF FIFO!Next
  <2>2. CASE HandleNotify \/ WorkReturn
    <3>1. /\ ran' = ran \o running /\ running' = <<>> /\ UNCHANGED <<batch, wq>>
          /\ lpc \in {"run", "sending"}
      BY <2>2 DEF HandleNotify, WorkReturn, Return
    <3>2. PICK w \in Works : running = <<w>>
      BY <3>1 DEF Carrying
    <3>3. <<>> \o batch = batch /\ batch \o wq \in Seq(Works)
      BY <2>0, ConcatEmptySeq, Concat3
    <3>4. queue' = batch \o wq
      BY <3>1, <3>3
    <3>5. queue = <<w>> \o (batch \o wq)
      BY <2>0, <3>2, Concat3
    <3>6. queue # <<>> /\ Head(queue) = w /\ Tail(queue) = batch \o wq
      BY <3>3, <3>5
    <3>7. ran' = Append(ran, w)
      BY <2>0, <3>1, <3>2, AppendIsConcat
    <3>8. FIFO!Run
      BY <3>4, <3>6, <3>7 DEF FIFO!Run
    <3>9. QED BY <3>8 DEF FIFO!Next
  <2>3. CASE WorkDoneMove
    <3>1. batch = <<>> /\ batch' = wq /\ wq' = <<>> /\ UNCHANGED <<ran, running>>
      BY <2>3 DEF WorkDoneMove, Carrying
    <3>2. running \o <<>> = running /\ running \o wq \in Seq(Works)
          /\ (running \o wq) \o <<>> = running \o wq
      BY <2>0, Concat3, ConcatEmptySeq
    <3>3. QED BY <3>1, <3>2 DEF FIFO!vars
  <2>4. CASE WorkDoneNext
    <3>1. CASE batch # <<>>
      <4>1. /\ running = <<>> /\ running' = <<Head(batch)>> /\ batch' = Tail(batch)
            /\ UNCHANGED <<ran, wq>>
        BY <2>4, <3>1 DEF WorkDoneNext, Carrying
      <4>2. <<Head(batch)>> \o Tail(batch) = batch /\ <<>> \o batch = batch
        BY <2>0, <3>1, HeadTail, ConcatEmptySeq
      <4>3. running' \o batch' = running \o batch
        BY <4>1, <4>2
      <4>4. QED BY <4>1, <4>3 DEF FIFO!vars
    <3>2. CASE batch = <<>>
      BY <2>4, <3>2 DEF WorkDoneNext, FIFO!vars
    <3>3. QED BY <3>1, <3>2
  <2>5. CASE UNCHANGED <<wq, batch, running, ran>>
    BY <2>5 DEF FIFO!vars
  <2>6. QED
    <3>1. CASE LoopStep
      BY <3>1, <2>2, <2>3, <2>4, <2>5 DEF LoopStep, LoopAlive, Poll,
         ProcessWakeup, WorkDoneLock, WorkDoneUnlock, SendNotify
    <3>2. ASSUME NEW p \in Posters, PosterStep(p) PROVE [FIFO!Next]_FIFO!vars
      BY <3>2, <2>1, <2>5 DEF PosterStep, RegisterLock, AsyncSend,
         PostCompletion, RegisterUnlock, loopVars
    <3>3. ASSUME NEW p \in Posters, InitLoop(p) PROVE [FIFO!Next]_FIFO!vars
      BY <3>3, <2>5 DEF InitLoop
    <3>4. ASSUME NEW p \in Posters, NEW w \in Works, AsyncOperate(p, w)
          PROVE  [FIFO!Next]_FIFO!vars
      BY <3>4, <2>5 DEF AsyncOperate, loopVars
    <3>5. CASE Idle \/ UNCHANGED vars
      BY <3>5, <2>5 DEF Idle, vars
    <3>6. QED BY <3>1, <3>2, <3>3, <3>4, <3>5 DEF Next
<1>3. QED BY <1>1, <1>2, TypeCorrect, StartsFirst, CarryingInv, RunInOrder, PTL
          DEF Safety, ImplementsFIFO, FIFO!Safety
=============================================================================
