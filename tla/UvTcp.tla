------------------------------- MODULE UvTcp --------------------------------
(***************************************************************************)
(* The two uv_tcp_t handles of one forwarded connection: libuv's requests, *)
(* counters and flags, the order of uv_run, and the callbacks of the       *)
(* adapter, in a Release build (without asserts).                          *)
(*                                                                         *)
(* A request belongs to Windows (kernel) until uv_poll_ex takes its        *)
(* completion, then waits in loop->pending_reqs_tail (pending) for the     *)
(* next iteration, which processes it (batch).  A handle that closes gets  *)
(* its close callback (uv_tcp_endgame) when it has no requests left.       *)
(* uv_tcp_read_start always reads with an empty buffer first (a "zero      *)
(* read"), as uv_active_tcp_streams_threshold is 0, and then takes what is *)
(* there without waiting.                                                  *)
(***************************************************************************)
EXTENDS Integers, Sequences, FiniteSets

CONSTANTS
    BufLen,    \* length of the buffer of alloc_cb
    MaxBytes,  \* bound: what each peer sends
    None

Handles == {"client", "server"}

ASSUME UvTcpAssumption ==
    /\ BufLen \in Nat \ {0} /\ MaxBytes \in [Handles -> Nat]
    /\ None \notin {"client", "server"}

Other(h) == IF h = "client" THEN "server" ELSE "client"

Flags == {"CONNECTION", "READABLE", "WRITABLE", "READING", "READ_PENDING",
          "CLOSING", "CLOSED"}

Connect == <<"connect", "server">>
Read(h) == <<"read", h>>
Write(h, n) == <<"write", h, n>>   \* n: the bytes passed on before

Requests == {Connect} \cup {Read(h) : h \in Handles}
            \cup UNION {{Write(h, n) : n \in 0..MaxBytes[Other(h)]} : h \in Handles}

VARIABLES
    life,      \* the ConnectInfo: "unused", "live", "freed"
    tcp,       \* flags, reqs_pending and activecnt of the handles
    data,      \* the handles whose data pointer is set
    kernel,    \* requests that Windows works on
    pending,   \* loop->pending_reqs_tail
    batch,     \* the requests that uv_process_reqs still has to process
    failed,    \* requests that were completed with an error
    endgames,  \* loop->endgame_handles
    phase,     \* where uv_run is
    place,     \* where the processing of one request is, and of which handle
    inbox,     \* bytes that wait in the sockets
    sent,      \* bytes the peers have sent
    passed,    \* bytes given to uv_write on each handle
    peer,      \* whether the peers are "open", ended or were "reset"
    closedTwice \* history: uv_close was called on a closing handle

loopVars == <<kernel, pending, batch, failed, phase, place>>
peerVars == <<inbox, sent, passed, peer>>
uvVars == <<life, tcp, data, endgames, closedTwice, loopVars, peerVars>>

Idle == <<"idle", None>>

UvInit ==
    /\ life = "unused"
    /\ tcp = [h \in Handles |-> [flags |-> {}, reqs_pending |-> 0, activecnt |-> 0]]
    /\ data = {}
    /\ kernel = {} /\ pending = <<>> /\ batch = <<>> /\ failed = {}
    /\ endgames = {}
    /\ phase = "reqs" /\ place = Idle
    /\ inbox = [h \in Handles |-> 0] /\ sent = [h \in Handles |-> 0]
    /\ passed = [h \in Handles |-> 0] /\ peer = [h \in Handles |-> "open"]
    /\ closedTwice = FALSE

-----------------------------------------------------------------------------
(* Operations on a handle t.                                               *)
Has(h, flag) == flag \in tcp[h].flags

Submitted(t)  == [t EXCEPT !.reqs_pending = @ + 1]
Registered(t) == [t EXCEPT !.reqs_pending = @ + 1, !.activecnt = @ + 1]

(* Mutant: activecnt is decreased whether the handle reads or not.         *)
StoppedAlways(t) ==
    [t EXCEPT !.flags = @ \ {"READING"}, !.activecnt = @ - 1]

Stopped(t) ==
    IF "READING" \in t.flags
    THEN [t EXCEPT !.flags = @ \ {"READING"}, !.activecnt = @ - 1] ELSE t

(* uv_close.                                                               *)
Closing(t) ==
    IF "CLOSING" \in t.flags THEN t
    ELSE [Stopped(t) EXCEPT !.flags = (@ \ {"READABLE", "WRITABLE"}) \cup {"CLOSING"}]

(* uv_want_endgame, from uv_tcp_close or DECREASE_PENDING_REQ_COUNT.       *)
(* Mutants: requests are not waited for; only uv_tcp_close queues.         *)
EndedAlways(t) == "CLOSING" \in t.flags

Ended(t) == "CLOSING" \in t.flags /\ t.reqs_pending = 0

UpdateAtClose(new) ==
    /\ tcp' = new
    /\ endgames' = endgames \cup
           {h \in Handles : Ended(new[h]) /\ "CLOSING" \notin tcp[h].flags}

Update(new) ==
    /\ tcp' = new
    /\ endgames' = endgames \cup {h \in Handles : Ended(new[h]) /\ ~Ended(tcp[h])}

(* Mutant: the counter is decreased twice.                                 *)
DoneTwice(t) == [t EXCEPT !.reqs_pending = @ - 2]

Done(t) == [t EXCEPT !.reqs_pending = @ - 1]

(* The adapter closes both handles after its callback was called for h,    *)
(* whose request is then done.                                             *)
BothClosing(new) == [h \in Handles |-> Closing(new[h])]

NoteClose == closedTwice' = (closedTwice \/ \E h \in Handles : Has(h, "CLOSING"))

-----------------------------------------------------------------------------
(* tcp_listen_connection_cb: uv_accept and uv_tcp_connect.                 *)
Accepted(t) == [t EXCEPT !.flags = {"CONNECTION", "READABLE", "WRITABLE"}]

Accept ==
    /\ life = "unused" /\ phase = "reqs" /\ batch = <<>>
    /\ life' = "live"
    /\ tcp' = [tcp EXCEPT !["client"] = Accepted(@), !["server"] = Registered(@)]
    /\ \/ kernel' = {Connect} /\ UNCHANGED pending
       \/ pending' = <<Connect>> /\ UNCHANGED kernel
    /\ UNCHANGED <<data, endgames, closedTwice, batch, failed, phase, place, peerVars>>

(* The requests that the loop has taken over from Windows.                 *)
Queued == {pending[i] : i \in DOMAIN pending} \cup {batch[i] : i \in DOMAIN batch}

(* AnsycRemoveConnect, in the processing of requests, and RemoveAllConnect *)
(* from listen_close_cb, in that of endgames.  The user removes what the   *)
(* window shows, a connection whose connect request was answered.          *)
Remove ==
    /\ place = Idle
    /\ \/ phase = "reqs" /\ Connect \notin kernel \cup Queued
       \/ phase = "endgames"
    /\ Update(BothClosing(tcp))
    /\ data' = Handles
    /\ NoteClose
    /\ UNCHANGED <<life, loopVars, peerVars>>

(* The next request of the batch.                                          *)
Process(r) ==
    /\ phase = "reqs" /\ place = Idle
    /\ batch # <<>> /\ Head(batch) = r
    /\ batch' = Tail(batch)

(* uv_process_tcp_connect_req and tcp_connect_cb, up to the message that   *)
(* the adapter sends; then the rest of both.  A socket that was closed     *)
(* after its request succeeded refuses the setsockopt.                     *)
Connected ==
    /\ Process(Connect)
    /\ Connect \notin failed /\ ~Has("server", "CLOSING")
    /\ tcp' = [tcp EXCEPT
          !["server"].flags = @ \cup {"CONNECTION", "READABLE", "WRITABLE"},
          !["server"].activecnt = @ - 1]
    /\ place' = <<"connect", "server">>
    /\ UNCHANGED <<life, data, endgames, closedTwice, kernel, pending, failed,
                   phase, peerVars>>

ConnectFails ==
    /\ Process(Connect)
    /\ Connect \in failed \/ Has("server", "CLOSING")
    /\ Update(BothClosing([tcp EXCEPT !["server"].activecnt = @ - 1]))
    /\ data' = Handles
    /\ NoteClose
    /\ place' = <<"connect", "server">>
    /\ failed' = failed \ {Connect}
    /\ UNCHANGED <<life, kernel, pending, phase, peerVars>>

(* How uv_tcp_queue_read may go for h: Windows keeps the request, has data *)
(* at once, or refuses it; only then READ_PENDING is not set.              *)
Ways(h) ==
    {"kernel"} \cup (IF inbox[h] > 0 \/ peer[h] = "ended" THEN {"now"} ELSE {})
               \cup (IF peer[h] = "reset" THEN {"error"} ELSE {})

QueuedRead(t, way) ==
    LET s == Submitted(t) IN
    IF way = "error" THEN s ELSE [s EXCEPT !.flags = @ \cup {"READ_PENDING"}]

QueueReads(S, way) ==
    /\ kernel' = kernel \cup {Read(h) : h \in {g \in S : way[g] = "kernel"}}
    /\ failed' = failed \cup {Read(h) : h \in {g \in S : way[g] = "error"}}
    /\ LET now == {h \in S : way[h] # "kernel"} IN
       \E order \in [1..Cardinality(now) -> now] :
           /\ \A h \in now : \E i \in DOMAIN order : order[i] = h
           /\ pending' = pending \o [i \in DOMAIN order |-> Read(order[i])]

StartReading(h, way) ==
    LET t == tcp[h] IN
    QueuedRead([t EXCEPT !.flags = @ \cup {"READING"}, !.activecnt = @ + 1], way)

ReadBoth ==
    /\ place = <<"connect", "server">>
    /\ \A h \in Handles : Has(h, "READABLE")
    /\ \E way \in [Handles -> {"kernel", "now", "error"}] :
           /\ \A h \in Handles : way[h] \in Ways(h)
           /\ QueueReads(Handles, way)
           /\ tcp' = [h \in Handles |->
                 IF h = "server" THEN Done(StartReading(h, way[h]))
                                 ELSE StartReading(h, way[h])]
    /\ data' = Handles /\ place' = Idle
    /\ UNCHANGED <<life, endgames, closedTwice, batch, phase, peerVars>>

(* uv_read_start answers UV_ENOTCONN.                                      *)
ReadNone ==
    /\ place = <<"connect", "server">>
    /\ ~Has("server", "READABLE") /\ ~Has("client", "READABLE")
    /\ Update([tcp EXCEPT !["server"] = Done(@)])
    /\ data' = Handles /\ place' = Idle
    /\ UNCHANGED <<life, closedTwice, kernel, pending, batch, failed, phase, peerVars>>

-----------------------------------------------------------------------------
(* uv_process_tcp_read_req.                                                *)
NotPending(h) == [tcp EXCEPT ![h].flags = @ \ {"READ_PENDING"}]

ReadSucceeds(h) ==
    /\ Process(Read(h)) /\ Read(h) \notin failed
    /\ tcp' = NotPending(h)
    /\ place' = <<"loop", h>>
    /\ UNCHANGED <<life, data, endgames, closedTwice, kernel, pending, failed,
                   phase, peerVars>>

(* The failure of a zero read is reported only while reading: closing the  *)
(* handle has stopped it.                                                  *)
(* Mutant: as if the read had a buffer, reported in any case.              *)
ReadFailsReported(h) ==
    /\ Process(Read(h)) /\ Read(h) \in failed
    /\ LET new == NotPending(h) IN
       Update([BothClosing([new EXCEPT ![h] = Stopped(@)]) EXCEPT ![h] = Done(@)])
    /\ NoteClose
    /\ failed' = failed \ {Read(h)}
    /\ UNCHANGED <<life, data, kernel, pending, phase, place, peerVars>>

ReadFails(h) ==
    /\ Process(Read(h)) /\ Read(h) \in failed /\ Has(h, "READING")
    /\ LET new == NotPending(h) IN
       Update([BothClosing([new EXCEPT ![h] = Stopped(@)]) EXCEPT ![h] = Done(@)])
    /\ NoteClose
    /\ failed' = failed \ {Read(h)}
    /\ UNCHANGED <<life, data, kernel, pending, phase, place, peerVars>>

ReadCancelled(h) ==
    /\ Process(Read(h)) /\ Read(h) \in failed /\ ~Has(h, "READING")
    /\ Update([NotPending(h) EXCEPT ![h] = Done(@)])
    /\ failed' = failed \ {Read(h)}
    /\ UNCHANGED <<life, data, closedTwice, kernel, pending, phase, place, peerVars>>

(* Reads without waiting, until a buffer is not filled.                    *)
Looping(h) == place = <<"loop", h>> /\ Has(h, "READING")

(* uv_write of n bytes: Windows keeps the request or has it done, or fails *)
(* it, at once.  Without WRITABLE it is refused.                           *)
PassOn(h, n) ==
    IF Has(h, "WRITABLE")
    THEN LET r == Write(h, passed[h]) IN
         /\ tcp' = [tcp EXCEPT ![h] = Registered(@)]
         /\ passed' = [passed EXCEPT ![h] = @ + n]
         /\ \/ kernel' = kernel \cup {r} /\ UNCHANGED pending
            \/ pending' = Append(pending, r) /\ UNCHANGED kernel
    ELSE UNCHANGED <<tcp, passed, kernel, pending>>

(* tcp_read_cb passes the bytes on.                                        *)
ReceiveData(h) ==
    /\ Looping(h) /\ inbox[h] > 0 /\ peer[h] # "reset"
    /\ LET n == IF inbox[h] < BufLen THEN inbox[h] ELSE BufLen IN
       /\ inbox' = [inbox EXCEPT ![h] = @ - n]
       /\ place' = IF n < BufLen THEN <<"done", h>> ELSE place
       /\ PassOn(Other(h), n)
    /\ UNCHANGED <<life, data, endgames, closedTwice, batch, failed, phase, sent, peer>>

(* Nothing there: an end of file, an error, or WSAEWOULDBLOCK, which is    *)
(* reported as 0 bytes.  tcp_read_cb closes both handles in each case.     *)
ReceiveEnd(h) ==
    /\ Looping(h) /\ inbox[h] = 0 /\ peer[h] = "ended"
    /\ LET t == [tcp[h] EXCEPT !.flags = @ \ {"READABLE"}] IN
       Update(BothClosing([tcp EXCEPT ![h] = Stopped(t)]))
    /\ NoteClose
    /\ place' = <<"done", h>>
    /\ UNCHANGED <<life, data, kernel, pending, batch, failed, phase, peerVars>>

ReceiveError(h) ==
    /\ Looping(h) /\ peer[h] = "reset"
    /\ Update(BothClosing([tcp EXCEPT ![h] = Stopped(@)]))
    /\ NoteClose
    /\ place' = <<"done", h>>
    /\ UNCHANGED <<life, data, kernel, pending, batch, failed, phase, peerVars>>

ReceiveNothing(h) ==
    /\ Looping(h) /\ inbox[h] = 0 /\ peer[h] = "open"
    /\ Update(BothClosing(tcp))
    /\ NoteClose
    /\ place' = <<"done", h>>
    /\ UNCHANGED <<life, data, kernel, pending, batch, failed, phase, peerVars>>

ReadAgain(h) ==
    /\ place = <<"done", h>> /\ Has(h, "READING")
    /\ \E way \in Ways(h) :
           /\ QueueReads({h}, [g \in {h} |-> way])
           /\ tcp' = [tcp EXCEPT ![h] = Done(QueuedRead(@, way))]
    /\ place' = Idle
    /\ UNCHANGED <<life, data, endgames, closedTwice, batch, phase, peerVars>>

ReadNoMore(h) ==
    /\ place \in {<<"loop", h>>, <<"done", h>>} /\ ~Has(h, "READING")
    /\ Update([tcp EXCEPT ![h] = Done(@)])
    /\ place' = Idle
    /\ UNCHANGED <<life, data, closedTwice, kernel, pending, batch, failed, phase,
                   peerVars>>

(* uv_process_tcp_write_req; tcp_write_cb only deletes the request.        *)
Written(h, n) ==
    /\ Process(Write(h, n))
    /\ LET t == [tcp[h] EXCEPT !.activecnt = @ - 1] IN
       Update([tcp EXCEPT ![h] = Done(t)])
    /\ UNCHANGED <<life, data, closedTwice, kernel, pending, failed, phase, place, peerVars>>

-----------------------------------------------------------------------------
(* uv_run: the requests, then uv_poll_ex, then the endgames.               *)
StartPoll ==
    /\ phase = "reqs" /\ place = Idle /\ batch = <<>>
    /\ phase' = "poll"
    /\ UNCHANGED <<life, tcp, data, endgames, closedTwice, kernel, pending, batch,
                   failed, place, peerVars>>

HandleOf(r) == r[2]

(* How Windows completes a request; closesocket cancels what has not been  *)
(* completed.  tcp_write_cb does not look at the outcome of a write.       *)
Succeeds(r) ==
    r[1] = "read" => inbox[HandleOf(r)] > 0 \/ peer[HandleOf(r)] = "ended"

Fails(r) ==
    CASE r[1] = "connect" -> TRUE
      [] r[1] = "read"    -> Has(HandleOf(r), "CLOSING") \/ peer[HandleOf(r)] = "reset"
      [] r[1] = "write"   -> FALSE

Dequeue(r) ==
    /\ phase = "poll" /\ r \in kernel
    /\ \/ Succeeds(r) /\ failed' = failed
       \/ Fails(r) /\ failed' = failed \cup {r}
    /\ kernel' = kernel \ {r}
    /\ pending' = Append(pending, r)
    /\ UNCHANGED <<life, tcp, data, endgames, closedTwice, batch, phase, place, peerVars>>

EndPoll ==
    /\ phase = "poll" /\ phase' = "endgames"
    /\ UNCHANGED <<life, tcp, data, endgames, closedTwice, kernel, pending, batch,
                   failed, place, peerVars>>

(* uv_tcp_endgame and tcp_connect_close_cb.                                *)
(* Mutant: the first callback clears both data pointers.                   *)
EndgameClearsBoth(h) ==
    /\ phase = "endgames" /\ h \in endgames
    /\ endgames' = endgames \ {h}
    /\ tcp' = [tcp EXCEPT ![h].flags = @ \cup {"CLOSED"}]
    /\ data' = {}
    /\ life' = IF h \in data /\ data' = {} THEN "freed" ELSE life
    /\ UNCHANGED <<closedTwice, loopVars, peerVars>>

Endgame(h) ==
    /\ phase = "endgames" /\ h \in endgames
    /\ endgames' = endgames \ {h}
    /\ tcp' = [tcp EXCEPT ![h].flags = @ \cup {"CLOSED"}]
    /\ data' = data \ {h}
    /\ life' = IF h \in data /\ data' = {} THEN "freed" ELSE life
    /\ UNCHANGED <<closedTwice, loopVars, peerVars>>

TakePending ==
    /\ phase = "endgames" /\ endgames = {}
    /\ phase' = "reqs"
    /\ batch' = pending /\ pending' = <<>>
    /\ UNCHANGED <<life, tcp, data, endgames, closedTwice, kernel, failed, place, peerVars>>

-----------------------------------------------------------------------------
(* The peers, while their socket is connected and open.                    *)
Reachable(h) == Has(h, "CONNECTION") /\ ~Has(h, "CLOSING") /\ peer[h] = "open"

PeerSends(h) ==
    /\ Reachable(h) /\ sent[h] < MaxBytes[h]
    /\ sent' = [sent EXCEPT ![h] = @ + 1]
    /\ inbox' = [inbox EXCEPT ![h] = @ + 1]
    /\ UNCHANGED <<life, tcp, data, endgames, closedTwice, loopVars, passed, peer>>

PeerLeaves(h) ==
    /\ Reachable(h)
    /\ \E how \in {"ended", "reset"} : peer' = [peer EXCEPT ![h] = how]
    /\ UNCHANGED <<life, tcp, data, endgames, closedTwice, loopVars, inbox, sent, passed>>

-----------------------------------------------------------------------------
RequestSteps ==
    \/ Connected \/ ConnectFails \/ ReadBoth \/ ReadNone
    \/ \E h \in Handles :
           \/ ReadSucceeds(h) \/ ReadFails(h) \/ ReadCancelled(h)
           \/ ReceiveData(h) \/ ReceiveEnd(h) \/ ReceiveError(h)
           \/ ReceiveNothing(h) \/ ReadAgain(h) \/ ReadNoMore(h)
           \/ \E n \in 0..MaxBytes[Other(h)] : Written(h, n)

LoopSteps ==
    \/ RequestSteps \/ StartPoll \/ EndPoll \/ TakePending
    \/ \E h \in Handles : Endgame(h)

UvNext ==
    \/ Accept
    \/ /\ life = "live"
       /\ \/ LoopSteps \/ Remove
          \/ \E r \in Requests : Dequeue(r)
          \/ \E h \in Handles : PeerSends(h) \/ PeerLeaves(h)

UvSpec == UvInit /\ [][UvNext]_uvVars

(* The loop thread goes on; Windows completes the connect request, and    *)
(* every request of a closed socket.                                       *)
UvFairSpec ==
    /\ UvSpec
    /\ WF_uvVars(UvNext /\ LoopSteps)
    /\ SF_uvVars(UvNext /\ Dequeue(Connect))
    /\ \A h \in Handles :
           SF_uvVars(UvNext /\ \E r \in Requests :
                         HandleOf(r) = h /\ Has(h, "CLOSING") /\ Dequeue(r))

-----------------------------------------------------------------------------
(* Properties                                                              *)

(* The request that is being processed.                                    *)
InProcess == IF place[1] = "idle" THEN {}
             ELSE IF place[1] = "connect" THEN {Connect} ELSE {Read(place[2])}

Outstanding(h) == {r \in kernel \cup Queued \cup InProcess : HandleOf(r) = h}

UvTypeOK ==
    /\ life \in {"unused", "live", "freed"}
    /\ tcp \in [Handles -> [flags : SUBSET Flags, reqs_pending : Nat, activecnt : Nat]]
    /\ data \subseteq Handles /\ endgames \subseteq Handles
    /\ kernel \subseteq Requests /\ failed \subseteq Requests
    /\ pending \in Seq(Requests) /\ batch \in Seq(Requests)
    /\ phase \in {"reqs", "poll", "endgames"}
    /\ place \in {Idle, Connect} \cup ({"loop", "done"} \X Handles)
    /\ inbox \in [Handles -> Nat] /\ sent \in [Handles -> Nat]
    /\ passed \in [Handles -> Nat] /\ peer \in [Handles -> {"open", "ended", "reset"}]
    /\ closedTwice \in BOOLEAN
    /\ failed \subseteq Queued

(* reqs_pending counts the requests that point to the handle, wherever     *)
(* they are; activecnt counts those that are registered, and the reading.  *)
(* The asserts of handle-inl.h and req-inl.h follow: no counter gets       *)
(* negative, no request is in two places.  And every byte that was read    *)
(* was given to the other socket: uv_write never finds it closed.          *)
CountsExact ==
    /\ \A h \in Handles :
          /\ tcp[h].reqs_pending = Cardinality(Outstanding(h))
          /\ tcp[h].activecnt =
                Cardinality({r \in Outstanding(h) : r[1] # "read" /\ r \notin InProcess})
                + (IF Has(h, "READING") THEN 1 ELSE 0)
          /\ h \in endgames <=> Ended(tcp[h]) /\ ~Has(h, "CLOSED")
    /\ Cardinality(kernel \cup Queued) = Cardinality(kernel) + Len(pending) + Len(batch)
    /\ \A h \in Handles : sent[h] - inbox[h] = passed[Other(h)]

(* When the ConnectInfo is deleted, both handles are closed, and neither   *)
(* Windows nor the loop has a request of them.                             *)
NothingOutlives ==
    life = "freed" =>
        \A h \in Handles : Has(h, "CLOSED") /\ Outstanding(h) = {} /\ h \notin endgames

(* tcp_read_cb, which closes without looking, is never called for a handle *)
(* that is closing: only a removal or the answer of a connect request      *)
(* closes twice.                                                           *)
ReadClosesOnce == [][closedTwice' = closedTwice \/ Remove \/ ConnectFails]_uvVars

(* libuv and the callbacks keep the promises of ConnectionLife.            *)
Socket(h) == IF life # "live" THEN "none"
             ELSE IF Has(h, "CLOSED") THEN "closed"
             ELSE IF Has(h, "CLOSING") THEN "closing" ELSE "open"

Life == INSTANCE ConnectionLife WITH
            client <- Socket("client"), server <- Socket("server"),
            cdata <- "client" \in data, sdata <- "server" \in data,
            connecting <- life = "live" /\ Connect \in kernel \cup Queued \cup InProcess,
            reading <- Has("client", "READING") /\ Has("server", "READING")

ImplementsLife == Life!LifeSpec

(* Closing ends: a connection whose handles were closed once is deleted.   *)
CloseEnds ==
    (\E h \in Handles : Has(h, "CLOSING")) ~> life = "freed" \/ closedTwice

-----------------------------------------------------------------------------
(* What the repository says of the program                                 *)

(* stream.rst: a read of 0 bytes does not indicate an error or an end of   *)
(* file; so none closes the connection.                                    *)
ZeroReadKeeps ==
    [][\A h \in Handles : Looping(h) /\ peer[h] = "open" =>
           Has(h, "CLOSING")' = Has(h, "CLOSING")]_uvVars
=============================================================================
