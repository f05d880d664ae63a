# PortMapping: verification development

PortMapping.exe forwards TCP and UDP ports on Windows. Its window adds, starts, stops and removes
*mappings* (an agent port and the address of a server behind it); a loop thread listens on the agent
ports, connects to the servers and passes the bytes on. This directory holds TLA+ models of the
parts of the program where the order of events matters, what TLC checks of them, and what the TLA+
proof system proves of them.

## 1. The program

### Parts, their state and their operations

| part | state | operations |
|---|---|---|
| window, `CMainDlg` (MainDlg.cpp), list items (MyListItem.cpp) | the mapping list and the connection list, whose items hold raw pointers to `MappingInfo` and `ConnectInfo`; the selected mapping | clicks, menus, a 600 ms timer that refreshes the items, messages of the loop thread |
| adapter, `CLibuvAdapter` (LibuvAdapter.cpp) | `m_pLoop`; `m_mapMapping` (port to `MappingInfo`); `m_mapConnect` (port to client address to `ConnectInfo*`); the flags `nState` of each mapping | `AddMapping`, `StartMapping`, `StopMapping`, `RemoveMapping`, `RemoveConnect`, `GetAllConnect` on the UI thread, and the `Ansyc...` works and libuv callbacks on the loop thread |
| hand-over (RegisterAnsycWork; libuv's async.c, threadpool.c, core.c) | `loop->wq` under `wq_mutex`, `async_sent`, the completion port | insert and wake; take the queue and run it |
| listening socket of a mapping | its libuv handle, `nState` | start, stop, failure, `listen_close_cb` |
| TCP connection | two sockets, `bInMap`, their `data` pointers, its record | accept, connect, read, failure, two close callbacks, removal by the user |
| UDP connection | one socket, `bInMap`, its record | first datagram, answers, failure, close callback |
| traffic counters | bytes and megabytes per direction, for a connection and its mapping | `tcp_read_cb`, `udp_*_recv_cb`, `GetFlowString` |
| menus (UIMenu.cpp, observer_impl_base.hpp), edit fields (EditUIEx.cpp) | a tree of receivers; `m_bOK` and a tool tip | opening and closing menus; checking a port or an address |
| test programs (src/TestServer) | sockets of a C# server and client | start, stop, receive, echo |

DuiLib, the rest of libuv and Visual Leak Detector are vendored.

### How they interact

The UI thread writes the flag `MAPPING_DELETING` and reads `nState` directly, and posts everything
else as a `uv__work`. The loop thread runs the works one after the other and its libuv callbacks in
between. It reports to the window through `INotifyLoop`, which `CMainDlg` implements with
`SendMessage`: **the loop thread waits until the UI thread is in its message loop and has handled
the message**. So a callback of the loop thread is cut in two by every message, with the UI thread
posting further works, or changing `nState`, in between.

### What is hard

* Two threads share `nState`, a plain `int`, and the queue; one of them waits for the other.
* Closing is asynchronous: a handle that was given to `uv_close` stays alive until its callback, a
  TCP connection has two such callbacks, in any order, and works posted before the close run after it.
* The window keeps raw pointers to blocks that the loop thread deletes.
* A key of `m_mapConnect` is the address of a client, and a client may come back from it.
* `assert` is compiled in in a Debug build (PortMapping.vcxproj has both): `uv_close` of a closing
  handle then aborts, and in a Release build returns. Both builds are modelled (constant `Debug`).

`PROJECT.json` lists 40 hazards, at their lines, with the properties that would catch them going wrong. Those
that go wrong in this code, or that no property can catch, carry a note instead: it names the fault a model
reaches, or the configuration that shows the counterexample.

### What makes each part correct

* hand-over: every operation runs once, in order; no wake-up is lost; the two threads never wait for
  each other.
* mapping: the state shown agrees with the port; a stop releases the port; a removal removes; the
  window never points to an erased mapping; no handle is released open.
* connection: the record, the count, the window and the sockets agree; the `ConnectInfo` is deleted
  once, after its last callback; none outlives its mapping; none is lost.
* sockets: libuv's counters are those of the requests that exist; the `ConnectInfo` is deleted when
  nothing points to it any more; every byte that is read is passed on.
* traffic: the counters of a connection are the bytes it carried, or lack whole megabytes; what the window shows of them, read
  without a lock, is near.
* connection list: its items are the connections of the selected mapping, and their pointers can be followed.
* edit fields: Add is enabled only while the texts are right; the tool tip stands where the error is.

## 2. Modules

| module | models | extends |
|---|---|---|
| `WorkFIFO` | what `AsyncOperate` promises: a queue that runs each work once, in order | |
| `WorkQueue` | how it is kept: mutex, `async_sent`, completion packet, batch, SendMessage | |
| `WorkQueueProofs` | proofs of its safety and of the refinement | `WorkQueue` |
| `Mapping` | a mapping from `AddMapping` to `_RemoveMapping`, both threads | |
| `MappingProofs` | proofs of its safety | `Mapping` |
| `TcpConnect` | TCP connections, composed with the mappings they belong to | `Mapping` |
| `TcpConnectProofs` | the composition implements `Mapping`, `ConnectionLife` and `ConnectFeed`; proofs of its safety | `TcpConnect`, `MappingProofs` |
| `UdpConnect` | UDP connections, composed with their mappings | `Mapping` |
| `UdpConnectProofs` | the composition implements `Mapping`; proofs of its safety | `UdpConnect`, `MappingProofs` |
| `ConnectionLife` | what may happen to one `ConnectInfo`: the contract of `TcpConnect` and `UvTcp` | |
| `UvTcp` | the two `uv_tcp_t` of a connection: requests, counters, flags, the phases of `uv_run`, the callbacks | |
| `UvTcpProofs` | libuv's counters are exact, nothing outlives a `ConnectInfo`, `ConnectionLife` is implemented | `UvTcp` |
| `ConnectFeed` | what the loop thread promises to tell the window: the contract of `TcpConnect` and `Window` | |
| `Window` | the selected mapping, the connection list and its items, composed with the feed | `ConnectFeed` |
| `WindowProofs` | proofs of its safety, for any number of items and questions | `Window` |
| `Traffic` | the byte and megabyte counters, statement by statement, and the window's unlocked reads | |
| `TrafficProofs` | the counters are exact, the reads near and the totals short by whole megabytes, for every radix | `Traffic` |
| `Input` | the edit fields, the Add button, the shared tool tip, the conversions of `AddMapping` | |
| `InputProofs` | proofs of its safety | `Input` |
| `MC...` | small instances for TLC | |

How they are tied together:

```
 WorkFIFO <-- WorkQueue          Mapping <-- TcpConnect --> ConnectionLife <-- UvTcp
                                         <-- UdpConnect
                                             TcpConnect --> ConnectFeed <-- Window
```

An arrow is a refinement. Those to `Mapping`, and of `Window` to `ConnectFeed`, extend the abstract
module and are proved (`TcpImplementsMapping`, `UdpImplementsMapping`, `WindowKeepsFeed`). The others
instantiate it with a mapping; TLC checks each on an instance, and all are proved (`QueueImplementsFIFO`,
`TcpImplementsLife`, `TcpImplementsFeed`, `UvImplementsLife`). `ConnectionLife` and
`ConnectFeed` are contracts with a module on each side: `TcpConnect` abstracts a socket to what
`UvTcp` shows libuv to do with it, and `Window` assumes of the loop thread what `TcpConnect` keeps.

**WorkQueue.** One step is one lock operation, one atomic exchange, or one access to the queue.
`pc[p]` follows a posting thread through `RegisterAnsycWork` and `uv_async_send`, `lpc` the loop
thread through `uv_run`, `uv_process_async_wakeup_req` and `uv__work_done`. `posted` and `ran` are
histories. `InitLoop` creates the loop on the first operation; when `uv_thread_create` fails
(`ThreadMayFail`) `m_pLoop` stays set.

**Mapping.** Because `WorkQueue` implements `WorkFIFO`, the queue is a sequence here (`wq`, and
`batch`, the part `uv__work_done` has taken). A callback of the loop thread is one step up to its
next `SendMessage` or access to `nState`; `at` says where it is, `cur` on which mapping. A plain
assignment of `nState` is one step; `|=` and `&=` are a load and a store (`RemoveMapping` and
`RemoveStore` on the UI thread, `LoadState`/`StoreOr`/`StoreAnd` in `listen_close_cb`). `listen` is
the life of the handle. `StartMapping` and its like are the adapter's functions with the guards of
the menus that call them. A `MappingInfo` is a block that is allocated once.

`fault` names how the program left defined behaviour: an assertion failed, a work ran on an erased
mapping, a handle in use was initialised again or released. No step follows a fault, and nothing is
claimed beyond it. Where a sentence of the repository rules the fault out, a run shows that it is
reached; the others are listed as hazards with a note.

**TcpConnect** extends `Mapping`; each of its steps is a step of `Mapping` (`RemoveAllConnect` and
`ClearRecords` there are refined to what they do to the connections) or leaves the mappings alone.
`conn[c]` is a `ConnectInfo`: its sockets, their `data` pointers (`cdata`, `sdata`: whether they
are set), `bInMap`, the pending connect request, and whether its client still holds its end (`up`).
`records` is `m_mapConnect`, `entries` the ports that have an inner map at all, `told` the last
message the window got of a connection. Reads appear through the failures only; the bytes
belong to the traffic module.

**UdpConnect** extends `Mapping` in the same way. A UDP connection is never shown in the window
(only `IN_MAP_SUCC` is, and `bInMap = true` is `IN_MAP_WAIT`), so the user cannot remove one and
that branch of `AnsycRemoveConnect` cannot be reached. A datagram of a known client changes
counters only and is no action; a datagram of a server is one, as it touches the mapping.

TCP and UDP connections of one mapping never meet: a mapping is one or the other, and its records
are under its own port. They are therefore two compositions, not one.

**UvTcp.** libuv's `tcp.c`, `req-inl.h`, `handle-inl.h` and `uv_run`, in the use the adapter makes of
them. `tcp[h]` holds the flags, `reqs_pending` and `activecnt` of a handle. A request is in Windows
(`kernel`), in `loop->pending_reqs_tail` (`pending`), in the batch that `uv_process_reqs` works
through, or being processed (`place`: inside its callback). The adapter's callbacks are part of the
step that calls them. `data` are the data pointers, which say what a second close callback finds.
The peers send, end and reset (`inbox`, `sent`, `peer`); `passed` counts what was given to `uv_write`.

**ConnectFeed and Window.** The feed has four variables and one action per message of the loop
thread. In `Window` a message and what the loop thread did before it are one step, as the loop thread
waits in `SendMessage`. An item (`of`, `place`, `userData`) is listed, then removed, then destroyed by
the message DuiLib posts to itself. `stray` are the items nothing is claimed of: those
that outlived a selection, because `UpDataConnectList` does not clear the list for a mapping that does not
run, and those replaced by a newer item of the same connection. `skipped` are the connections the
loop of `HandleCustomMessage` does not reach. UDP connections are never shown.

**Traffic.** One step is one statement of a read callback or one load of the window. `Radix` is
`Kilo` squared, 2^20 in the code. A mapping is TCP or UDP (`bTCP`, chosen at the start and kept). Over TCP the
server's direction carries from the client's bytes (line 339), which were masked before, so nothing is ever
carried: of that direction, which is not in `CountedDirs`, `CountersExact` and `TotalFallsShort` say that the counters lack
whole megabytes and never show bytes that did not come; how many they lack has no bound. `ServerFlowShown` shows
what the window makes of it.

**Input.** A text is what its check and its conversion see of it. `CheckPort` and `CheckIP` look at
`m_bOK` of all fields before their own is updated, so after every repair, even of the only wrong field, the button
stays off until the next change; it is never on too early. An address whose numbers are written with zeros in front passes the check and
is refused by `uv_ip4_addr`, whose result is ignored: the mapping then goes to 0.0.0.0 (listed as a hazard).

## 3. Runs

| run | instance | shows |
|---|---|---|
| `work_queue` | two posters, three works, two of which notify | one packet, no lost wake-up, every work runs, `WorkFIFO` is implemented, no deadlock with `SendMessage` |
| `mapping_release` | a TCP and a UDP mapping on one port, one after the other; no asserts | state shown is true, list items are valid, every stop ends with the port released |
| `tcp_debug` | one mapping, two connections, two addresses; asserts | records, count, window, sockets and removals agree; `ConnectFeed` and `ConnectionLife` are implemented |
| `closing_ends` | one connection; asserts | closing ends with the block deleted and the window told |
| `udp_connections` | one mapping, two connections, two clients; no asserts | no connection is lost or outlives its mapping; closing ends with deletion |
| `uv_tcp` | one connection; buffers of 2 bytes, 2 from the client, 1 from the server; no asserts | libuv's counters are exact, nothing outlives the `ConnectInfo`, every byte is passed on, `ConnectionLife` is implemented, closing ends |
| `traffic` | a TCP or UDP mapping with two connections, one replaced once; 8 bytes, a megabyte of 4 | counters and totals are exact or short by whole megabytes only, a refresh is near |
| `window` | two mappings, two connections, four items, two questions | trusted items are right, what is missing is accounted for, an item leaves for a reason |
| `input` | two ports, two local addresses and 0.0.0.0 | the button and the tool tip are true after every sequence of edits |
| `closed_before_release` (violation) | | a removal that races a start erases a listening handle |
| `no_duplicate_key` (violation) | | a client comes back before its old record is gone |
| `zero_read_keeps` (violation) | | data that fills a buffer is followed by a read of 0 bytes, which closes a healthy connection |

Each violation run states a sentence of the repository, quoted in `PROJECT.json` under "findings".
Six more configurations hold counterexamples to run by hand (`tlc -config X.cfg MC...`):
`RemoveRemoves` (a removal asked for while a start is queued is forgotten), `ChangeMeansConnected` (a failed
connect is reported as connected), `BreakIsTold` (a removal between the two close callbacks leaves
the connection for ever, no asserts), `RepliesArePassed` (the answer of a UDP server is refused by
`uv_udp_send`), `AnswerShowsAll` (a connection that waits for its server hides the later ones), and
`ServerFlowShown` (the server's bytes are lost from the display).

### Bounds, and why they are enough

* `MaxQueue` bounds the works waiting in `loop->wq`. With 2 a stop and a removal, or a start and a
  removal, wait together while a third is running from `batch`: the longest interplay of works on one
  mapping.
* Two posters meet in pairs at every lock and exchange; three works are enough for one to run, one to
  wait in the batch and one to be posted meanwhile.
* Two mappings on one port let a removed port be added again. Mappings on different ports share only
  the loop thread, which works on one at a time.
* Two connections, of the same or of different clients, let one replace the other's record, and
  one be set up while the other closes or the port is cleared. `closing_ends` concerns
  one connection against the user and its mapping.
* `uv_tcp` has one connection, as libuv's handles do not see each other but for the two of one
  `ConnectInfo`. Two bytes of the client fill the buffer, so a read may be full (and be followed by
  another), partial or empty; the server never fills it. Writes of both directions are under way together.
* `traffic`: with a megabyte of 4 bytes and reads of up to 2, 8 bytes carry twice, in either direction and over either
  protocol; a third connection makes a total lose a carry. `window`: four items let each connection be shown twice, and two
  questions let the user leave a mapping and come back before the first answer.
* Blocks (`MappingInfo`, `ConnectInfo`, works) are used once: an address that malloc hands out again
  would hide a use after free, not add one.
* Connections are interchangeable in `tcp_debug` and `traffic`, items and mappings in `window` (symmetry; their
  temporal properties are action properties); no symmetry is used with liveness.
* The system may come to rest (all mappings erased, all blocks used), so deadlock is not checked in
  those runs. It is checked in `work_queue`, where `Idle` marks the states that are at rest by design, and in
  `input`, where the user can always go on.

### Fairness

* `WorkQueue`: posters that have entered `RegisterAnsycWork` go on, and so does the loop thread;
  waiting for the mutex is strongly fair, as a critical section wakes its waiters; a sent message is
  dispatched before any input when the UI thread is back in its message loop (strong). Nothing
  obliges the user to click.
* `Mapping`, `TcpConnect`, `UdpConnect`: the loop thread makes progress, the UI thread leaves
  `RemoveMapping`, and `uv_run` reaches the close callback of each closing handle, however many works
  arrive (strong, per handle). Accepts, answers, failures and breaks of peers are never assumed, except that
  a pending connect request is answered, which Windows does when the socket is closed.
* `UvTcp`: the loop thread goes on (weak, for its steps together: `uv_run` is one thread); Windows completes the connect
  request, and every request of a socket that was closed (strong, per handle). Requests of an open
  socket may stay for ever, and peers need not send or leave. `CloseEnds` is claimed only where no
  handle was closed twice, as `uv_close` of a closing handle returns at once in this build.
* The safety of `Window`, `Traffic` and `Input` needs no fairness, and no liveness is claimed there.

## 4. Proofs

All theorems hold for every value of the constants that satisfies the named `ASSUME`s, and for both
values of `Debug` unless they say otherwise. They rest on nothing else; `tlapm` checks each to the last leaf.

**WorkQueueProofs.** `TypeCorrect`; then `MutualExclusion` (`MutexInv` is inductive with the types);
`PacketPostedOnce`, by mutual exclusion of the section that sends; `WakeupNeverLost`, which needs
`PacketPostedOnce` and that nothing is queued before the loop starts (`StartsFirst`); `RunInOrder`, which
needs that a poster carries exactly the work it is about to insert (`CarryingInv`). `QueueImplementsFIFO`
maps the queue of `WorkFIFO` to `running \o batch \o wq`, by `InOrder`: inserting is `Post`, finishing is `Run`, the rest stutters.

**MappingProofs.** `TypeCorrect`. `WindowPointersValid` and `StateShownIsTrue` are not inductive: the
first needs where the loop thread may be while a mapping is live (`LiveInv`), the second what the flags
held by a load imply until they are stored (`StateInv`). `RemovalIsPending` is proved one mapping at a
time (`PendingForOne`): a stop stays queued until it is run, and what it then does keeps the removal going.

**TcpConnectProofs.** `TcpStepIsMappingStep` gives `TcpImplementsMapping`, so what is proved of `Mapping`
holds with the connections. `TcpTypeCorrect`. Each connection satisfies an invariant of its own fields
(`InfoInv`) and of the place of the loop thread (`PlaceInv`); `StepShapes` then says that a step keeps the
owner of each record or is one of the few that change a record, and `FreedAfterClose` follows from
`FreeStep`. `RecordsAreSound` and `StoppedHasNoRecords` are one induction (`RecordsInv`): a record
can only be kept sound because a stopped mapping has none, and a mapping's records are found only
because they are sound. It holds in Release builds too, where sockets are closed twice.

The same module proves the contracts. `TcpImplementsLife` holds in either build: no step of the composition does
to a `ConnectInfo` what `ConnectionLife` does not allow. It needs `DataOfLive` (a data pointer is set only
in a live block) and `PlaceData` (how the callback that goes on after a message finds the connection).
The other four speak of Debug builds until an assertion fails (`Good`): in Release a second `uv_close`
survives and the records, the count and the window part, as the findings show. One invariant,
`ConnFacts`, carries them: each port has one live mapping (`PortsDistinct`), and each connection is
`Settled`, that is, `bInMap` tells the truth about the records, an open connection is recorded, and one
that is connecting and shown is the one the callback is at. `ForwardingRecorded` follows at once.
`CountIsTrue` adds the equation between `nConnect` and the cardinality of the counted records
(`CountInv`), step by step with the theorems on finite sets. `AnswerIsWhatWasTold` adds `AllTold`: what the
window was told of each connection follows from `bInMap` and from where the callback is, also while a port is
being cleared (`Clearing`). With both, `FeedStep` takes each step to a step of `ConnectFeed` (`TcpImplementsFeed`).

**UdpConnectProofs.** `UdpImplementsMapping` and `UdpTypeCorrect` as for TCP. The inductive invariant
`UdpInv` says that the records are *exactly* the connections with `bInMap` set, each under its own port
and client, that only a closing one has it cleared, and that the port of a recorded one has an entry and a
mapping that listens or is closing down; the last is `HeldStep` of `MappingProofs`, shared with
TCP. `UdpRecordsAreSound`, `NoConnectionIsLost` and `OnlyListenersAreTouched` follow from it without
further induction. `NoFreedMapping` adds that the fault "freed mapping" of `UdpConnect` is never reached.

**WindowProofs.** `KnownLive`: the feed keeps its own word. `WindowKeepsFeed`: a step of the window is
a step of the feed or invisible to it, so `FeedInv` (what the window knows exists) holds here too.
`ShowFacts` says what new items do to the lists. With it `WindowTypeCorrect`, `ListedCorrect`
and `ConnectedCorrect` are each inductive, one step per message and click; `ListedCorrect` is the reason why
`HandleDeleteFaults` never concerns an item that is trusted. `LeavesCorrect` is an action property of the
same invariants.

**TrafficProofs.** Lemmas on division by the radix (`DivMod`, `CarryKeepsValue`, `MaskMask`) give
`CountersAreExact` for every `Kilo`, by an invariant that says what each half-done callback still
owes the counters (`CountInv`). The flows of a TCP server have one of their own, `LateInv`: no megabytes, and bytes that
are a remainder of what was carried. It needs `CountInv`, by which the client's bytes are below a megabyte whenever
a callback of the server's direction looks at them (`NothingCarried`). `RefreshesAreNear` adds what the window's first load remembers (`SeenStep`).
`TotalIsShort` is, in the directions that are counted, about a sum over all connections. Its invariant, `SumInv`, says that what a mapping
carried is its megabytes, plus the remainder of each connection below the radix, plus what the ended connections lost,
plus what the callback still owes. No induction over the set is needed to state or keep it: `SumOf` asks for *some*
function on the sets of connections that adds one remainder at a time and stays below its bound, and
`SumsFollow` makes the next such function from it when one remainder changes. Its hypothesis `Conns # {}`
is needed: without a connection nothing is carried, but "fewer megabytes than connections" has no meaning.

**UvTcpProofs.** One inductive invariant, `UvInv`, for any number of bytes and any buffer. Its heart is `CountsInv`:
`reqs_pending` of a handle is the cardinality of the set of its requests, wherever they are, and
`activecnt` that of its connect and write requests that wait. To be inductive it needs `PlacesInv` (a
request is in one place, once), `RequestsInv` (nothing is asked of a socket before its connect request is
answered), `FlagsInv` (both handles are read and closed together), `EndsInv` (an endgame is queued exactly for a
closing handle without requests) and `BytesInv` (bytes are neither lost nor made up, so each write has a number of its own). Most actions let a request end or
move; lemma `Narrowing` treats them at once. `UvTypes`, `CountsAreExact`, `NothingIsOutlived` and
the action property `ReadsCloseOnce` follow; `LifeInv` relates the data pointers to the handles, and
each action is shown to be a step of `ConnectionLife` or invisible to it (`LifeKept`), which gives `UvImplementsLife`.

**InputProofs.** One invariant ties `ok`, `text`, `enabled` and `tip` together; `InputTypeCorrect`,
`AddIsNeverEarly` and `TipIsAlwaysTrue` follow.

**Only model-checked:** liveness (`EveryWorkRuns`, `StopEndsListening`, `ClosingEnds`, `UdpClosingEnds`,
`CloseEnds`), which is beyond this prover, as are fairness and ENABLED. Every invariant and every action
property of a passing run, and every refinement, is stated by a theorem.

## 5. What could be added

* A Release-build contract of the window's feed. In that build a connection may be told of after its
  end, and stay in the records; nothing in the repository says what the window may then rely on.
* The pools of several mappings at once. They share the loop thread and `m_mapConnect`, whose inner
  maps are per port, so their steps commute but for the order of works; the proofs already hold for any
  number of mappings.

## 6. Not modelled

* **Menus and observers** (UIMenu.cpp, observer_impl_base.hpp): the menus of the skin are flat, so the tree of
  receivers has one node whose only message closes it; opening, drawing and placing it is DuiLib.
* **Test server and test client** (C#): programs for trying a mapping by hand. They are no part of
  PortMapping.exe, and nothing in it depends on their states; their peers appear as the environment
  of `TcpConnect`, `UdpConnect` and `UvTcp` (connect, send, end, reset).
* **DuiLib and the rest of libuv** (files, processes, pipes, terminals, DNS, the Unix half): vendored, and most of
  the lines of the repository. The program does not call them, or only to draw; what it relies on is
  modelled where it is used. Modelling more of them would say nothing of port forwarding.
* The check boxes of the lists and the hiding of panes, which only choose what is posted.
* Drawing, layout and skins; `GetLocalIP` and string conversions; the internals of `std::map`, which the
  two threads use without a lock (each operation is one step; listed as a hazard); memory that is leaked
  but never used again (buffers, send requests); what Windows sends of a buffer that `tcp_read_cb` freed
  while its write was under way (a hazard); the program's exit while the loop thread runs; what the
  program does after a fault.
