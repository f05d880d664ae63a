------------------------------- MODULE Traffic -------------------------------
(***************************************************************************)
(* What PortMapping counts of the bytes it passes on, and what the window  *)
(* shows of it.  tcp_read_cb, udp_listen_recv_cb and udp_server_recv_cb    *)
(* keep, for a connection and for its mapping and for each direction, a    *)
(* number of bytes and a number of megabytes (LibuvAdapter.cpp 305-420).   *)
(* The window's timer reads the two numbers of a flow without any lock and *)
(* shows them as GB, MB, KB and bytes (MyListItem.cpp 5-19, 404-516).      *)
(*                                                                         *)
(* One step is one statement of a callback, or one load of the window.     *)
(***************************************************************************)
EXTENDS Integers, FiniteSets

CONSTANTS
    Conns,      \* ConnectInfo blocks of one mapping
    Total,      \* stands for the mapping itself, whose counters are totals
    None,
    Kilo,       \* 1024: bytes of a KB, KB of a MB, MB of a GB
    MaxRead,    \* the most one read returns; libuv suggests 64 KB
    MaxBytes,   \* bound: bytes carried in all
    MaxOpened   \* bound: connections the mapping ever has

Radix == Kilo * Kilo

ASSUME TrafficAssumption ==
    /\ IsFiniteSet(Conns) /\ Total \notin Conns /\ None \notin Conns
    /\ Kilo \in Nat \ {0, 1} /\ MaxRead \in Nat \ {0} /\ MaxRead <= Radix
    /\ MaxBytes \in Nat /\ MaxOpened \in Nat

Dirs  == {"client", "server"}
Flows == (Conns \cup {Total}) \X Dirs

VARIABLES
    bTCP,           \* the mapping's protocol, TCP or UDP: chosen when it is added
    bytes, mega,    \* n...B and n...M of each flow
    step,           \* the statement the loop thread is about to execute
    job,            \* the read it is counting: connection, direction, nread
    look,           \* what the window has read of the flow it refreshes
    carried,        \* history: bytes read of each flow, by the present ConnectInfo
    opened          \* history: connections so far

vars == <<bTCP, bytes, mega, step, job, look, carried, opened>>

NoLook == [who |-> None]
NoJob  == [conn |-> None, dir |-> "client", n |-> 0]
Cur == <<job.conn, job.dir>>
All == <<Total, job.dir>>

Init ==
    /\ bTCP \in BOOLEAN
    /\ bytes = [f \in Flows |-> 0] /\ mega = [f \in Flows |-> 0]
    /\ carried = [f \in Flows |-> 0]
    /\ step = "idle" /\ job = NoJob
    /\ look = NoLook
    /\ opened = Cardinality(Conns)

-----------------------------------------------------------------------------
(* The loop thread. *)

\* A read of n bytes has completed on the socket of connection c that faces d.
Read(c, d, n) ==
    /\ step = "idle"
    /\ carried[<<Total, "client">>] + carried[<<Total, "server">>] + n <= MaxBytes
    /\ step' = "add"
    /\ job' = [conn |-> c, dir |-> d, n |-> n]
    /\ carried' = [carried EXCEPT ![<<c, d>>] = @ + n, ![<<Total, d>>] = @ + n]
    /\ UNCHANGED <<bTCP, bytes, mega, look, opened>>

\* Whose bytes are carried: tcp_read_cb looks at the client's in both branches.
Source ==
    IF bTCP THEN <<job.conn, "client">> ELSE Cur

At(here, next) ==
    /\ step = here /\ step' = next
    /\ job' = IF next = "idle" THEN NoJob ELSE job
    /\ UNCHANGED <<bTCP, look, carried, opened>>

Add(f)   == bytes' = [bytes EXCEPT ![f] = @ + job.n] /\ UNCHANGED mega
Carry(f) == mega' = [mega EXCEPT ![f] = @ + bytes[Source] \div Radix] /\ UNCHANGED bytes

\* Mutants: a subtraction for the mask; no mask at all.
MaskSubtracts(f) == bytes' = [bytes EXCEPT ![f] = @ - Radix] /\ UNCHANGED mega
MaskForgets(f)   == UNCHANGED <<bytes, mega>>
Mask(f)  == bytes' = [bytes EXCEPT ![f] = @ % Radix] /\ UNCHANGED mega

AddCur     == At("add", "addTotal") /\ Add(Cur)
AddTotal   == At("addTotal", "carry") /\ Add(All)
CarryCur   == At("carry", "carryTotal") /\ Carry(Cur)
CarryTotal == At("carryTotal", "mask") /\ Carry(All)

\* Mutant: the total is not masked.
MaskTotalForgets == At("maskTotal", "idle") /\ UNCHANGED <<bytes, mega>>
MaskCur    == At("mask", "maskTotal") /\ Mask(Cur)
MaskTotal  == At("maskTotal", "idle") /\ Mask(All)

\* The connection ends and its block makes room for a new one, whose counters
\* are cleared.  The window's item goes with the block, so it is not being read.
Reopen(c) ==
    /\ step = "idle" /\ opened < MaxOpened
    /\ look.who # c
    /\ opened' = opened + 1
    /\ LET Clear(f) == [x \in Flows |-> IF x[1] = c THEN 0 ELSE f[x]]
       IN bytes' = Clear(bytes) /\ mega' = Clear(mega) /\ carried' = Clear(carried)
    /\ UNCHANGED <<bTCP, step, job, look>>

-----------------------------------------------------------------------------
(* The window: the 600 ms timer refreshes one flow after the other. *)

\* The arguments of GetFlowString are evaluated in either order.
Refresh(who, d, firstM) ==
    /\ look = NoLook
    /\ look' = [who |-> who, dir |-> d, since |-> carried[<<who, d>>],
                M |-> IF firstM THEN mega[<<who, d>>] ELSE -1,
                B |-> IF firstM THEN -1 ELSE bytes[<<who, d>>]]
    /\ UNCHANGED <<bTCP, bytes, mega, step, job, carried, opened>>

Complete == look # NoLook /\ look.M >= 0 /\ look.B >= 0

ReadOther ==
    /\ look # NoLook /\ ~Complete
    /\ look' = IF look.M < 0 THEN [look EXCEPT !.M = mega[<<look.who, look.dir>>]]
                             ELSE [look EXCEPT !.B = bytes[<<look.who, look.dir>>]]
    /\ UNCHANGED <<bTCP, bytes, mega, step, job, carried, opened>>

\* Mutant: megabytes that are part of the gigabytes are printed again.
GetFlowStringRepeats(m, b) ==
    [G |-> m \div Kilo, M |-> m, KB |-> b \div Kilo,
     B |-> IF m \div Kilo > 0 THEN 0 ELSE b % Kilo]

\* What GetFlowString prints: gigabytes hide the bytes.
GetFlowString(m, b) ==
    [G |-> m \div Kilo, M |-> m % Kilo, KB |-> b \div Kilo,
     B |-> IF m \div Kilo > 0 THEN 0 ELSE b % Kilo]

Show ==
    /\ Complete /\ look' = NoLook
    /\ UNCHANGED <<bTCP, bytes, mega, step, job, carried, opened>>

LoopNext ==
    \/ \E c \in Conns, d \in Dirs, n \in 1..MaxRead : Read(c, d, n)
    \/ AddCur \/ AddTotal \/ CarryCur \/ CarryTotal \/ MaskCur \/ MaskTotal
    \/ \E c \in Conns : Reopen(c)

UiNext ==
    \/ \E who \in Conns \cup {Total}, d \in Dirs, firstM \in BOOLEAN : Refresh(who, d, firstM)
    \/ ReadOther \/ Show

Next == LoopNext \/ UiNext
Spec == Init /\ [][Next]_vars
-----------------------------------------------------------------------------
(* Properties *)

Steps == {"idle", "add", "addTotal", "carry", "carryTotal", "mask", "maskTotal"}

\* The values the counters and the registers of both threads may have.
TrafficTypeOK ==
    /\ bTCP \in BOOLEAN
    /\ bytes \in [Flows -> Nat] /\ mega \in [Flows -> Nat] /\ carried \in [Flows -> Nat]
    /\ step \in Steps
    /\ job \in [conn : Conns \cup {None}, dir : Dirs, n : 0..MaxRead]
    /\ step # "idle" => job.conn \in Conns
    /\ look = NoLook \/ look \in [who : Conns \cup {Total}, dir : Dirs, since : Nat,
                                  M : Nat \cup {-1}, B : Nat \cup {-1}]
    /\ opened \in Nat

\* The flows whose megabytes come from their own bytes: the client's, and the
\* server's over UDP.
CountedDirs == IF bTCP THEN {"client"} ELSE Dirs
Counted     == Conns \X CountedDirs

Value(f) == mega[f] * Radix + bytes[f]
Short(f) == carried[f] - Value(f)

\* Between two callbacks the counters of a connection add up to the bytes it has
\* read, whatever connections share the loop thread.  For what the server of a
\* TCP connection sent, whose megabytes are taken from the other direction (339),
\* they are short by whole megabytes, and never show more than was carried.
CountersExact ==
    step = "idle" => \A f \in Conns \X Dirs :
        /\ bytes[f] < Radix
        /\ Short(f) >= 0 /\ Short(f) % Radix = 0
        /\ f \in Counted => Short(f) = 0

\* A mapping's total is a whole number of megabytes short: what a mask cuts off
\* the sum of several remainders is never carried (324-326, 393-395).  In the
\* directions that are counted that is at most one for each connection it had
\* besides the first.
TotalFallsShort ==
    step = "idle" => \A d \in Dirs :
        LET short == Short(<<Total, d>>)
        IN /\ short >= 0 /\ short % Radix = 0
           /\ d \in CountedDirs => short <= (opened - 1) * Radix

TextValue(t) == ((t.G * Kilo + t.M) * Kilo + t.KB) * Kilo + t.B

\* What a refresh shows of a connection, read in two loads while the loop thread
\* counts, lies between what had been carried when it began and what has been
\* carried now, give or take one carry and one read.
RefreshIsNear ==
    Complete /\ <<look.who, look.dir>> \in Counted =>
        LET shown == TextValue(GetFlowString(look.M, look.B))
        IN /\ shown > look.since - (Radix + MaxRead + Kilo)
           /\ shown < carried[<<look.who, look.dir>>] + Radix + MaxRead

\* The window's column for what a server sent (MyListItem.cpp 434, 483, 512)
\* shows, between two reads, the bytes that were carried.
ServerFlowShown ==
    step = "idle" => \A c \in Conns :
        LET f == <<c, "server">>
        IN TextValue(GetFlowString(mega[f], bytes[f])) > carried[f] - Kilo
=============================================================================
