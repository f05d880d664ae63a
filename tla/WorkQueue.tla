----------------------------- MODULE WorkQueue ------------------------------
(***************************************************************************)
(* How an operation of the user reaches the loop thread.                   *)
(*                                                                         *)
(* CLibuvAdapter::AsyncOperate (LibuvAdapter.cpp) allocates a uv__work,    *)
(* and RegisterAnsycWork appends it to loop->wq under loop->wq_mutex and   *)
(* calls uv_async_send.  uv_async_send (libuv-dll/src/win/async.c) sets    *)
(* async_sent with an atomic exchange and posts one completion packet when *)
(* the flag was clear.  The loop thread (uv_run, win/core.c) dequeues the  *)
(* packet, clears async_sent and calls uv__work_done (threadpool.c), which *)
(* takes the whole queue under the mutex and runs the operations.  An      *)
(* operation may call the observer, CMainDlg, which answers with           *)
(* SendMessage: the loop thread waits until the UI thread, back in its     *)
(* message loop, has handled the message.                                  *)
(*                                                                         *)
(* Posters are the threads other than the loop thread that post (in        *)
(* PortMapping.exe the UI thread; the protocol is that of libuv's pool     *)
(* threads too, threadpool.c:97-102).  One step is one lock operation, one *)
(* atomic exchange or one access to the queue.                             *)
(***************************************************************************)
EXTENDS Naturals, Sequences

CONSTANTS
    Posters,        \* threads that call AsyncOperate
    UI,             \* the one that runs the window's message loop
    Loop,           \* the thread of uv_run
    Free,           \* value of the mutex when no thread holds it
    Works,          \* the uv__work blocks
    Notifying,      \* those whose callback calls the observer
    ThreadMayFail   \* whether uv_thread_create may fail

ASSUME WorkQueueAssumption ==
    /\ UI \in Posters
    /\ Loop \notin Posters
    /\ Free \notin Posters \cup {Loop}
    /\ Notifying \subseteq Works
    /\ ThreadMayFail \in BOOLEAN

VARIABLES
    hasLoop,    \* m_pLoop # nullptr
    checking,   \* the check handle m_check_keeprun is active
    mutex,      \* owner of loop->wq_mutex, or Free
    wq,         \* loop->wq
    asyncSent,  \* loop->wq_async.async_sent
    packets,    \* completion packets of wq_async in the completion port
    pc,         \* where each poster is
    cur,        \* the uv__work each poster is registering
    lpc,        \* where the loop thread is
    batch,      \* the local queue of uv__work_done
    running,    \* the operation whose callback is executing, if any
    posted,     \* history: operations inserted into wq, in order
    ran         \* history: operations whose callback has returned, in order

loopVars   == <<lpc, batch, running, ran>>
posterVars == <<pc, cur, posted>>
vars == <<hasLoop, checking, mutex, wq, asyncSent, packets, pc, cur, lpc,
          batch, running, posted, ran>>

Elements(s) == {s[i] : i \in DOMAIN s}

PosterPC == {"idle", "lock", "insert", "send", "post", "unlock"}
LoopPC   == {"none", "top", "poll", "wake", "lock", "move", "unlock", "next",
             "run", "sending", "exited"}

Init ==
    /\ hasLoop = FALSE /\ checking = FALSE
    /\ mutex = Free /\ wq = <<>> /\ asyncSent = FALSE /\ packets = 0
    /\ pc = [p \in Posters |-> "idle"]
    /\ cur = [p \in Posters |-> <<>>]
    /\ lpc = "none" /\ batch = <<>> /\ running = <<>>
    /\ posted = <<>> /\ ran = <<>>

-----------------------------------------------------------------------------
(* The posting thread                                                      *)

Goto(p, label) == pc' = [pc EXCEPT ![p] = label]

(* A block that malloc returns is distinct from every block in use; a      *)
(* block is a new operation each time.                                     *)
Fresh(w) == /\ w \notin Elements(posted)
            /\ \A p \in Posters : cur[p] # <<w>>

(* Mutant: InitLoop without uv_check_start.                                *)
InitLoopNoCheck(p) ==
    /\ p = UI /\ pc[p] = "idle" /\ ~hasLoop
    /\ hasLoop' = TRUE
    /\ lpc' = "top"
    /\ UNCHANGED <<checking, mutex, wq, asyncSent, packets, batch, running, ran,
                   posterVars>>

(* The first operation of the user finds m_pLoop null and creates the loop *)
(* and its thread.  When uv_thread_create fails, InitLoop returns false    *)
(* and the operation is given up, but m_pLoop stays set.                   *)
InitLoop(p) ==
    /\ p = UI /\ pc[p] = "idle" /\ ~hasLoop
    /\ hasLoop' = TRUE
    /\ checking' = TRUE
    /\ lpc' \in {"top"} \cup (IF ThreadMayFail THEN {"none"} ELSE {})
    /\ UNCHANGED <<mutex, wq, asyncSent, packets, batch, running, ran,
                   posterVars>>

AsyncOperate(p, w) ==
    /\ pc[p] = "idle" /\ hasLoop /\ Fresh(w)
    /\ cur' = [cur EXCEPT ![p] = <<w>>]
    /\ Goto(p, "lock")
    /\ UNCHANGED <<hasLoop, checking, mutex, wq, asyncSent, packets, posted,
                   loopVars>>

RegisterLock(p) ==
    /\ pc[p] = "lock" /\ mutex = Free
    /\ mutex' = p
    /\ Goto(p, "insert")
    /\ UNCHANGED <<hasLoop, checking, wq, asyncSent, packets, cur, posted,
                   loopVars>>

(* Mutant: no call of uv_async_send while the loop thread is executing     *)
(* operations.                                                             *)
RegisterInsertLazy(p) ==
    /\ pc[p] = "insert"
    /\ wq' = wq \o cur[p]
    /\ posted' = posted \o cur[p]
    /\ Goto(p, IF batch # <<>> THEN "unlock" ELSE "send")
    /\ UNCHANGED <<hasLoop, checking, mutex, asyncSent, packets, cur, loopVars>>

RegisterInsert(p) ==
    /\ pc[p] = "insert"
    /\ wq' = wq \o cur[p]
    /\ posted' = posted \o cur[p]
    /\ Goto(p, "send")
    /\ UNCHANGED <<hasLoop, checking, mutex, asyncSent, packets, cur, loopVars>>

(* Mutant: a packet for every call.                                        *)
AsyncSendAlways(p) ==
    /\ pc[p] = "send"
    /\ asyncSent' = TRUE
    /\ Goto(p, "post")
    /\ UNCHANGED <<hasLoop, checking, mutex, wq, packets, cur, posted, loopVars>>

(* The atomic exchange of uv_async_send.                                   *)
AsyncSend(p) ==
    /\ pc[p] = "send"
    /\ asyncSent' = TRUE
    /\ Goto(p, IF asyncSent THEN "unlock" ELSE "post")
    /\ UNCHANGED <<hasLoop, checking, mutex, wq, packets, cur, posted, loopVars>>

PostCompletion(p) ==
    /\ pc[p] = "post"
    /\ packets' = packets + 1
    /\ Goto(p, "unlock")
    /\ UNCHANGED <<hasLoop, checking, mutex, wq, asyncSent, cur, posted, loopVars>>

RegisterUnlock(p) ==
    /\ pc[p] = "unlock"
    /\ mutex' = Free
    /\ cur' = [cur EXCEPT ![p] = <<>>]
    /\ Goto(p, "idle")
    /\ UNCHANGED <<hasLoop, checking, wq, asyncSent, packets, posted, loopVars>>

-----------------------------------------------------------------------------
(* The loop thread                                                         *)

(* The test of uv_run's while: without an active handle it would return.   *)
(* wq_async itself is unreferenced and does not count.                     *)
LoopAlive ==
    /\ lpc = "top"
    /\ lpc' = IF checking THEN "poll" ELSE "exited"
    /\ UNCHANGED <<hasLoop, checking, mutex, wq, asyncSent, packets, batch,
                   running, ran, posterVars>>

(* Mutant: the result of the wait is used without looking whether it timed *)
(* out.                                                                    *)
PollUntested ==
    /\ lpc = "poll"
    /\ packets' = packets - 1
    /\ lpc' = "wake"
    /\ UNCHANGED <<hasLoop, checking, mutex, wq, asyncSent, batch, running, ran,
                   posterVars>>

(* uv_poll dequeues the packet and appends the request to the pending      *)
(* list; the next iteration processes it.  An iteration for other requests *)
(* changes nothing here.                                                   *)
Poll ==
    /\ lpc = "poll" /\ packets > 0
    /\ packets' = packets - 1
    /\ lpc' = "wake"
    /\ UNCHANGED <<hasLoop, checking, mutex, wq, asyncSent, batch, running, ran,
                   posterVars>>

ProcessWakeup ==
    /\ lpc = "wake"
    /\ asyncSent' = FALSE
    /\ lpc' = "lock"
    /\ UNCHANGED <<hasLoop, checking, mutex, wq, packets, batch, running, ran,
                   posterVars>>

WorkDoneLock ==
    /\ lpc = "lock" /\ mutex = Free
    /\ mutex' = Loop
    /\ lpc' = "move"
    /\ UNCHANGED <<hasLoop, checking, wq, asyncSent, packets, batch, running,
                   ran, posterVars>>

WorkDoneMove ==
    /\ lpc = "move"
    /\ batch' = wq
    /\ wq' = <<>>
    /\ lpc' = "unlock"
    /\ UNCHANGED <<hasLoop, checking, mutex, asyncSent, packets, running, ran,
                   posterVars>>

WorkDoneUnlock ==
    /\ lpc = "unlock"
    /\ mutex' = Free
    /\ lpc' = "next"
    /\ UNCHANGED <<hasLoop, checking, wq, asyncSent, packets, batch, running,
                   ran, posterVars>>

(* Mutant: QUEUE_REMOVE forgotten.                                         *)
WorkDoneNextKeep ==
    /\ lpc = "next"
    /\ batch # <<>>
    /\ running' = <<Head(batch)>>
    /\ lpc' = "run"
    /\ UNCHANGED <<hasLoop, checking, mutex, wq, asyncSent, packets, batch, ran,
                   posterVars>>

(* The while of uv__work_done: take the head, or leave.                    *)
WorkDoneNext ==
    /\ lpc = "next"
    /\ \/ /\ batch # <<>>
          /\ running' = <<Head(batch)>>
          /\ batch' = Tail(batch)
          /\ lpc' = "run"
       \/ /\ batch = <<>>
          /\ lpc' = "top"
          /\ UNCHANGED <<running, batch>>
    /\ UNCHANGED <<hasLoop, checking, mutex, wq, asyncSent, packets, ran,
                   posterVars>>

(* The callback calls the observer: SendMessage hands the message to the   *)
(* UI thread and waits.                                                    *)
SendNotify ==
    /\ lpc = "run" /\ running[1] \in Notifying
    /\ lpc' = "sending"
    /\ UNCHANGED <<hasLoop, checking, mutex, wq, asyncSent, packets, batch,
                   running, ran, posterVars>>

Return ==
    /\ ran' = ran \o running
    /\ running' = <<>>
    /\ lpc' = "next"

(* The UI thread, back in its message loop, handles the message; the       *)
(* callback then returns.                                                  *)
HandleNotify ==
    /\ lpc = "sending" /\ pc[UI] = "idle"
    /\ Return
    /\ UNCHANGED <<hasLoop, checking, mutex, wq, asyncSent, packets, batch,
                   posterVars>>

WorkReturn ==
    /\ lpc = "run" /\ running[1] \notin Notifying
    /\ Return
    /\ UNCHANGED <<hasLoop, checking, mutex, wq, asyncSent, packets, batch,
                   posterVars>>

(* Nothing left to do: every operation has been executed, or the loop      *)
(* thread does not exist.                                                  *)
Idle ==
    /\ \A p \in Posters : pc[p] = "idle"
    /\ \A w \in Works : w \in Elements(posted)
    /\ lpc = "none" \/ (lpc = "poll" /\ wq = <<>> /\ packets = 0)
    /\ UNCHANGED vars

PosterStep(p) ==
    \/ RegisterLock(p) \/ RegisterInsert(p) \/ AsyncSend(p)
    \/ PostCompletion(p) \/ RegisterUnlock(p)

LoopStep ==
    \/ LoopAlive \/ Poll \/ ProcessWakeup
    \/ WorkDoneLock \/ WorkDoneMove \/ WorkDoneUnlock
    \/ WorkDoneNext \/ SendNotify \/ HandleNotify \/ WorkReturn

Next ==
    \/ \E p \in Posters :
        InitLoop(p) \/ PosterStep(p) \/ \E w \in Works : AsyncOperate(p, w)
    \/ LoopStep
    \/ Idle

Safety == Init /\ [][Next]_vars

(* The threads run: a poster that has entered RegisterAnsycWork leaves it, *)
(* and the loop thread goes on.  Nothing obliges the user to operate.      *)
(* Strong fairness of HandleNotify: a sent message is dispatched the next  *)
(* time the UI thread is in its message loop, before any input.  Strong    *)
(* fairness of the two lock steps: a critical section wakes its waiters.   *)
Fairness ==
    /\ \A p \in Posters : WF_vars(PosterStep(p)) /\ SF_vars(RegisterLock(p))
    /\ WF_vars(LoopStep) /\ SF_vars(WorkDoneLock) /\ SF_vars(HandleNotify)

Spec == Safety /\ Fairness

-----------------------------------------------------------------------------
TypeOK ==
    /\ hasLoop \in BOOLEAN /\ checking \in BOOLEAN /\ asyncSent \in BOOLEAN
    /\ mutex \in Posters \cup {Loop, Free}
    /\ packets \in Nat
    /\ pc \in [Posters -> PosterPC]
    /\ cur \in [Posters -> Seq(Works)]
    /\ lpc \in LoopPC
    /\ wq \in Seq(Works) /\ batch \in Seq(Works) /\ running \in Seq(Works)
    /\ posted \in Seq(Works) /\ ran \in Seq(Works)

(* The section between uv_mutex_lock and uv_mutex_unlock in                *)
(* RegisterAnsycWork and in uv__work_done belongs to one thread at a time; *)
(* in particular no callback runs, and no SendMessage waits, while the     *)
(* loop thread holds the mutex the UI thread may be waiting for.           *)
MutexInv ==
    /\ \A p \in Posters :
        pc[p] \in {"insert", "send", "post", "unlock"} <=> mutex = p
    /\ lpc \in {"move", "unlock"} <=> mutex = Loop

(* The request embedded in wq_async is posted to the completion port at    *)
(* most once at a time (uv_insert_pending_req corrupts its list            *)
(* otherwise): there is one packet, or one about to be posted, or one      *)
(* being processed, exactly when async_sent is set.                        *)
OnePacket ==
    /\ packets \in {0, 1}
    /\ asyncSent <=> \/ packets = 1
                     \/ lpc = "wake"
                     \/ \E p \in Posters : pc[p] = "post"
    /\ packets = 1 => lpc # "wake" /\ \A p \in Posters : pc[p] # "post"
    /\ lpc = "wake" => \A p \in Posters : pc[p] # "post"

(* An operation waiting in loop->wq always has a wake-up on its way: the   *)
(* flag is set (and OnePacket gives the packet), or its poster is about to *)
(* call uv_async_send, or the loop thread is about to take the queue.      *)
NoLostWakeup ==
    wq # <<>> => \/ asyncSent
                 \/ \E p \in Posters : pc[p] = "send"
                 \/ lpc \in {"lock", "move"}

(* Operations are executed in the order in which they were registered,     *)
(* none twice and none dropped.                                            *)
InOrder == posted = ran \o running \o batch \o wq

(* Every registered operation is executed.                                 *)
EveryWorkRuns ==
    \A w \in Works : w \in Elements(posted) ~> w \in Elements(ran)

(* The queue implements the promise of AsyncOperate: works run in the      *)
(* order of their registration, none twice and none dropped.               *)
FIFO == INSTANCE WorkFIFO WITH queue <- running \o batch \o wq

ImplementsFIFO == FIFO!Safety
=============================================================================
