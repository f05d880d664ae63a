---------------------------- MODULE ConnectFeed -----------------------------
(***************************************************************************)
(* What the loop thread promises the window about TCP connections, where   *)
(* asserts are compiled in: it tells of a connection only while it exists  *)
(* and its mapping does, in the order added, connected, gone; it deletes a *)
(* ConnectInfo only after the window was told of its end, and erases a     *)
(* MappingInfo only after that of all its connections.                     *)
(*                                                                         *)
(* TcpConnect implements this module; Window relies on it.                 *)
(***************************************************************************)
CONSTANTS Mappings, Conns, None

VARIABLES
    alloc,   \* each MappingInfo: "unused", "live", "erased"
    life,    \* each ConnectInfo: "unused", "live", "freed"
    owner,   \* its mapping
    told     \* what the window was last told of it

feedVars == <<alloc, life, owner, told>>

FeedInit ==
    /\ alloc = [m \in Mappings |-> "unused"]
    /\ life = [c \in Conns |-> "unused"]
    /\ owner = [c \in Conns |-> None]
    /\ told = [c \in Conns |-> "nothing"]

(* The connections of m that the window knows and may point to.            *)
Known(m) == {c \in Conns : owner[c] = m /\ told[c] \in {"added", "connected"}}

MappingAdded(m) ==
    /\ alloc[m] = "unused"
    /\ alloc' = [alloc EXCEPT ![m] = "live"]
    /\ UNCHANGED <<life, owner, told>>

MappingErased(m) ==
    /\ alloc[m] = "live"
    /\ \A c \in Conns : owner[c] = m => told[c] = "gone"
    /\ alloc' = [alloc EXCEPT ![m] = "erased"]
    /\ UNCHANGED <<life, owner, told>>

Accepted(c, m) ==
    /\ life[c] = "unused" /\ alloc[m] = "live"
    /\ life' = [life EXCEPT ![c] = "live"]
    /\ owner' = [owner EXCEPT ![c] = m]
    /\ UNCHANGED <<alloc, told>>

Tell(c, was, is) ==
    /\ life[c] = "live" /\ told[c] = was
    /\ told' = [told EXCEPT ![c] = is]
    /\ UNCHANGED <<alloc, life, owner>>

TellAdded(c)     == Tell(c, "nothing", "added")
TellConnected(c) == Tell(c, "added", "connected")
TellGone(c)      == Tell(c, "connected", "gone")

TellCleared(m) ==
    /\ alloc[m] = "live"
    /\ told' = [c \in Conns |-> IF c \in Known(m) THEN "gone" ELSE told[c]]
    /\ UNCHANGED <<alloc, life, owner>>

Deleted(c) ==
    /\ life[c] = "live" /\ told[c] = "gone"
    /\ life' = [life EXCEPT ![c] = "freed"]
    /\ owner' = [owner EXCEPT ![c] = None]
    /\ UNCHANGED <<alloc, told>>

FeedNext ==
    \/ \E m \in Mappings : MappingAdded(m) \/ MappingErased(m) \/ TellCleared(m)
    \/ \E c \in Conns :
           \/ TellAdded(c) \/ TellConnected(c) \/ TellGone(c) \/ Deleted(c)
           \/ \E m \in Mappings : Accepted(c, m)

FeedSpec == FeedInit /\ [][FeedNext]_feedVars

(* A connection the window knows is still there, and so is its mapping:    *)
(* the pointers of its items may be read.                                  *)
KnownAreLive ==
    \A c \in Conns : told[c] \in {"added", "connected"} =>
        life[c] = "live" /\ owner[c] \in Mappings /\ alloc[owner[c]] = "live"
=============================================================================
