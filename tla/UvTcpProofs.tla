---------------------------- MODULE UvTcpProofs -----------------------------
(***************************************************************************)
(* Proofs about the two sockets of a connection.                           *)
(*                                                                         *)
(* The heart is CountsInv: reqs_pending of a handle is the number of its   *)
(* requests, wherever they are, and activecnt that of its connect and      *)
(* write requests that wait.  It is inductive only with the places of the  *)
(* requests (each in one place, once), their order (nothing is asked of a  *)
(* socket before the connect request is answered; a write has a number of  *)
(* its own, as bytes are neither lost nor made up) and the symmetry of the *)
(* flags (both handles are closed and read together).                      *)
(*                                                                         *)
(* Most actions only let a request end or move, and keep the flags or      *)
(* close both handles: lemma Narrowing is about these.  Each action is     *)
(* shown to keep the invariant and to be a step of ConnectionLife.         *)
(***************************************************************************)
EXTENDS UvTcp, FiniteSetTheorems, Functions, TLAPS

-----------------------------------------------------------------------------
(* Lists of requests.                                                      *)
Elements(s) == {s[i] : i \in DOMAIN s}
Once(s) == \A i, j \in DOMAIN s : s[i] = s[j] => i = j

LEMMA ElementsEmpty == Elements(<<>>) = {} /\ Once(<<>>)
BY DEF Elements, Once

LEMMA ElementsAppend ==
    ASSUME NEW S, NEW s \in Seq(S), NEW r \in S
    PROVE  /\ Elements(Append(s, r)) = Elements(s) \cup {r}
           /\ Once(s) /\ r \notin Elements(s) => Once(Append(s, r))
<1> DEFINE t == Append(s, r)
<1>1. /\ DOMAIN s = 1..Len(s) /\ DOMAIN t = 1..(Len(s) + 1) /\ Len(s) \in Nat
      /\ t[Len(s) + 1] = r /\ \A i \in 1..Len(s) : t[i] = s[i]
  OBVIOUS
<1> HIDE DEF t
<1>2. Elements(t) = Elements(s) \cup {r}
  BY <1>1 DEF Elements
<1>3. ASSUME Once(s), r \notin Elements(s) PROVE Once(t)
  BY <1>1, <1>3 DEF Elements, Once
<1>4. QED BY <1>2, <1>3 DEF t

LEMMA ElementsTail ==
    ASSUME NEW S, NEW s \in Seq(S), s # <<>>, Once(s)
    PROVE  /\ Head(s) \in Elements(s) /\ Elements(Tail(s)) = Elements(s) \ {Head(s)}
           /\ Once(Tail(s))
<1> DEFINE t == Tail(s)
<1>1. /\ DOMAIN s = 1..Len(s) /\ Len(s) \in Nat /\ Len(s) > 0 /\ DOMAIN t = 1..(Len(s) - 1)
      /\ Head(s) = s[1] /\ \A i \in 1..(Len(s) - 1) : t[i] = s[i + 1]
  OBVIOUS
<1> HIDE DEF t
<1>2. Head(s) \in Elements(s)
  BY <1>1 DEF Elements
<1>3. ASSUME NEW x \in Elements(t) PROVE x \in Elements(s) \ {Head(s)}
  <2>1. PICK i \in 1..(Len(s) - 1) : x = s[i + 1]
    BY <1>1, <1>3 DEF Elements
  <2>2. i + 1 \in 1..Len(s) /\ i + 1 # 1 /\ 1 \in 1..Len(s)
    BY <1>1
  <2>3. QED BY <1>1, <2>1, <2>2 DEF Elements, Once
<1>4. ASSUME NEW x \in Elements(s) \ {Head(s)} PROVE x \in Elements(t)
  <2>1. PICK i \in 1..Len(s) : x = s[i] /\ i # 1
    BY <1>1, <1>4 DEF Elements
  <2>2. i - 1 \in 1..(Len(s) - 1) /\ t[i - 1] = x
    BY <1>1, <2>1
  <2>3. QED BY <1>1, <2>2 DEF Elements
<1>5. Once(t)
  <2> SUFFICES ASSUME NEW i \in 1..(Len(s) - 1), NEW j \in 1..(Len(s) - 1), t[i] = t[j]
               PROVE  i = j
    BY <1>1 DEF Once
  <2>1. s[i + 1] = s[j + 1] /\ i + 1 \in 1..Len(s) /\ j + 1 \in 1..Len(s)
    BY <1>1
  <2>2. i + 1 = j + 1
    BY <1>1, <2>1 DEF Once
  <2>3. QED BY <2>2
<1>6. QED BY <1>2, <1>3, <1>4, <1>5 DEF t

LEMMA ElementsConcat ==
    ASSUME NEW S, NEW s \in Seq(S), NEW t \in Seq(S)
    PROVE  /\ Elements(s \o t) = Elements(s) \cup Elements(t)
           /\ Once(s) /\ Once(t) /\ Elements(s) \cap Elements(t) = {} => Once(s \o t)
<1> DEFINE u == s \o t
<1>1. /\ DOMAIN s = 1..Len(s) /\ DOMAIN t = 1..Len(t) /\ DOMAIN u = 1..(Len(s) + Len(t))
      /\ Len(s) \in Nat /\ Len(t) \in Nat
      /\ \A i \in 1..(Len(s) + Len(t)) : u[i] = IF i <= Len(s) THEN s[i] ELSE t[i - Len(s)]
  OBVIOUS
<1> HIDE DEF u
<1>2. ASSUME NEW x \in Elements(u) PROVE x \in Elements(s) \cup Elements(t)
  <2>1. PICK i \in 1..(Len(s) + Len(t)) : x = u[i]
    BY <1>1 DEF Elements
  <2>2. CASE i <= Len(s)
    BY <1>1, <2>1, <2>2 DEF Elements
  <2>3. CASE i > Len(s)
    <3>1. i - Len(s) \in 1..Len(t) /\ x = t[i - Len(s)]
      BY <1>1, <2>1, <2>3
    <3>2. QED BY <1>1, <3>1 DEF Elements
  <2>4. QED BY <1>1, <2>2, <2>3
<1>3. ASSUME NEW x \in Elements(s) PROVE x \in Elements(u)
  <2>1. PICK i \in 1..Len(s) : x = s[i]
    BY <1>1 DEF Elements
  <2>2. i \in 1..(Len(s) + Len(t)) /\ u[i] = x
    BY <1>1, <2>1
  <2>3. QED BY <1>1, <2>2 DEF Elements
<1>4. ASSUME NEW x \in Elements(t) PROVE x \in Elements(u)
  <2>1. PICK i \in 1..Len(t) : x = t[i]
    BY <1>1 DEF Elements
  <2>2. i + Len(s) \in 1..(Len(s) + Len(t)) /\ u[i + Len(s)] = x
    <3>1. /\ i + Len(s) \in 1..(Len(s) + Len(t)) /\ ~(i + Len(s) <= Len(s))
          /\ i + Len(s) - Len(s) = i
      BY <1>1
    <3>2. u[i + Len(s)] = t[i + Len(s) - Len(s)]
      BY <1>1, <3>1
    <3>3. QED BY <2>1, <3>1, <3>2
  <2>3. QED BY <1>1, <2>2 DEF Elements
<1>5. ASSUME Once(s), Once(t), Elements(s) \cap Elements(t) = {} PROVE Once(u)
  <2> SUFFICES ASSUME NEW i \in 1..(Len(s) + Len(t)), NEW j \in 1..(Len(s) + Len(t)),
                      u[i] = u[j]
               PROVE  i = j
    BY <1>1 DEF Once
  <2>1. CASE i <= Len(s) /\ j <= Len(s)
    BY <1>1, <1>5, <2>1 DEF Once
  <2>2. CASE i > Len(s) /\ j > Len(s)
    <3>1. i - Len(s) \in 1..Len(t) /\ j - Len(s) \in 1..Len(t) /\ t[i - Len(s)] = t[j - Len(s)]
      BY <1>1, <2>2
    <3>2. i - Len(s) = j - Len(s)
      BY <1>1, <1>5, <3>1 DEF Once
    <3>3. QED BY <1>1, <3>2
  <2>3. ASSUME NEW a \in 1..Len(s), NEW b \in 1..Len(t) PROVE s[a] # t[b]
    BY <1>1, <1>5, <2>3 DEF Elements
  <2>4. CASE i <= Len(s) /\ j > Len(s)
    <3>1. j - Len(s) \in 1..Len(t) /\ i \in 1..Len(s) /\ s[i] = t[j - Len(s)]
      BY <1>1, <2>4
    <3>2. QED BY <2>3, <3>1
  <2>5. CASE i > Len(s) /\ j <= Len(s)
    <3>1. i - Len(s) \in 1..Len(t) /\ j \in 1..Len(s) /\ s[j] = t[i - Len(s)]
      BY <1>1, <2>5
    <3>2. QED BY <2>3, <3>1
  <2>6. QED BY <1>1, <2>1, <2>2, <2>4, <2>5
<1>6. QED BY <1>2, <1>3, <1>4, <1>5 DEF u

(* A list without repetition is as long as the set of its elements.        *)
LEMMA ElementsCount ==
    ASSUME NEW S, NEW s \in Seq(S), Once(s)
    PROVE  IsFiniteSet(Elements(s)) /\ Cardinality(Elements(s)) = Len(s)
<1>1. Len(s) \in Nat /\ DOMAIN s = 1..Len(s) /\ s \in [1..Len(s) -> Elements(s)]
  BY DEF Elements
<1>2. s \in Bijection(1..Len(s), Elements(s))
  BY <1>1 DEF Bijection, Injection, Surjection, IsInjective, Elements, Once
<1>3. ExistsBijection(1..Len(s), Elements(s))
  BY <1>2 DEF ExistsBijection
<1>4. IsFiniteSet(1..Len(s)) /\ Cardinality(1..Len(s)) = Len(s)
  BY <1>1, FS_Interval
<1>5. QED BY <1>3, <1>4, FS_Bijection

-----------------------------------------------------------------------------
(* Requests, and sets of them.                                             *)
LEMMA Kinds ==
    /\ Connect \in Requests /\ HandleOf(Connect) = "server" /\ Connect[1] = "connect"
    /\ \A h \in Handles :
          /\ Read(h) \in Requests /\ HandleOf(Read(h)) = h /\ Read(h)[1] = "read"
          /\ Read(h) # Connect
          /\ \A n : /\ HandleOf(Write(h, n)) = h /\ Write(h, n)[1] = "write"
                    /\ Write(h, n) # Connect /\ \A g \in Handles : Write(h, n) # Read(g)
          /\ \A n \in 0..MaxBytes[Other(h)] : Write(h, n) \in Requests
    /\ \A h, g \in Handles : Read(h) = Read(g) => h = g
    /\ \A h, g \in Handles : \A n, m : Write(h, n) = Write(g, m) => h = g /\ n = m
<1>1. Connect \in Requests /\ HandleOf(Connect) = "server" /\ Connect[1] = "connect"
  BY DEF Requests, Connect, HandleOf
<1>2. ASSUME NEW h \in Handles
      PROVE  /\ Read(h) \in Requests /\ HandleOf(Read(h)) = h /\ Read(h)[1] = "read"
             /\ Read(h) # Connect
  BY DEF Requests, Connect, Read, HandleOf, Handles
<1>3. ASSUME NEW h \in Handles, NEW n
      PROVE  /\ HandleOf(Write(h, n)) = h /\ Write(h, n)[1] = "write" /\ Write(h, n)[3] = n
             /\ Write(h, n) # Connect
  BY DEF Write, Connect, HandleOf
<1>4. ASSUME NEW h \in Handles, NEW n, NEW g \in Handles PROVE Write(h, n) # Read(g)
  BY <1>2, <1>3
<1>5. ASSUME NEW h \in Handles, NEW n \in 0..MaxBytes[Other(h)] PROVE Write(h, n) \in Requests
  BY DEF Requests
<1>6. ASSUME NEW h \in Handles, NEW g \in Handles, NEW n, NEW m, Write(h, n) = Write(g, m)
      PROVE  h = g /\ n = m
  BY <1>3, <1>6
<1>7. QED BY <1>1, <1>2, <1>3, <1>4, <1>5, <1>6

LEMMA RequestsFinite == IsFiniteSet(Requests)
<1> DEFINE Writes(h) == {Write(h, n) : n \in 0..MaxBytes[Other(h)]}
           Writing(h) == [n \in 0..MaxBytes[Other(h)] |-> Write(h, n)]
<1>1. ASSUME NEW h \in Handles PROVE IsFiniteSet(Writes(h))
  <2>1. MaxBytes[Other(h)] \in Nat
    BY UvTcpAssumption DEF Other, Handles
  <2>2. IsFiniteSet(0..MaxBytes[Other(h)])
    BY <2>1, FS_Interval
  <2>3. Writing(h) \in Surjection(0..MaxBytes[Other(h)], Writes(h))
    BY DEF Surjection
  <2> HIDE DEF Writes, Writing
  <2>4. QED BY <2>2, <2>3, FS_Surjection
<1>2. Requests = (({Connect, Read("client"), Read("server")} \cup Writes("client"))
                  \cup Writes("server"))
  BY DEF Requests, Handles
<1> HIDE DEF Writes
<1>3. IsFiniteSet({Connect, Read("client"), Read("server")})
  <2>1. IsFiniteSet({Connect})
    BY FS_Singleton
  <2>2. IsFiniteSet({Connect} \cup {Read("client")})
    BY <2>1, FS_AddElement
  <2>3. IsFiniteSet(({Connect} \cup {Read("client")}) \cup {Read("server")})
    BY <2>2, FS_AddElement
  <2>4. {Connect, Read("client"), Read("server")}
           = ({Connect} \cup {Read("client")}) \cup {Read("server")}
    OBVIOUS
  <2>5. QED BY <2>3, <2>4
<1>4. QED BY <1>1, <1>2, <1>3, FS_Union DEF Handles

(* Those of handle h, and those of them that activecnt counts.             *)
Of(h, X) == {r \in X : HandleOf(r) = h}
Registering(h, X) == {r \in X : HandleOf(r) = h /\ r[1] # "read"}

LEMMA CountAdded ==
    ASSUME NEW h, NEW X \in SUBSET Requests, NEW r \in Requests
    PROVE  /\ Cardinality(Of(h, X)) \in Nat /\ Cardinality(Registering(h, X)) \in Nat
           /\ r \notin X =>
                /\ Cardinality(Of(h, X \cup {r}))
                      = Cardinality(Of(h, X)) + (IF HandleOf(r) = h THEN 1 ELSE 0)
                /\ Cardinality(Registering(h, X \cup {r}))
                      = Cardinality(Registering(h, X))
                        + (IF HandleOf(r) = h /\ r[1] # "read" THEN 1 ELSE 0)
<1>1. IsFiniteSet(Of(h, X)) /\ IsFiniteSet(Registering(h, X))
  <2>1. Of(h, X) \in SUBSET Requests /\ Registering(h, X) \in SUBSET Requests
    BY DEF Of, Registering
  <2>2. QED BY <2>1, RequestsFinite, FS_Subset
<1>2. Cardinality(Of(h, X)) \in Nat /\ Cardinality(Registering(h, X)) \in Nat
  BY <1>1, FS_CardinalityType
<1>3. /\ r \notin X => r \notin Of(h, X) /\ r \notin Registering(h, X)
      /\ Of(h, X \cup {r}) = IF HandleOf(r) = h THEN Of(h, X) \cup {r} ELSE Of(h, X)
      /\ Registering(h, X \cup {r}) = IF HandleOf(r) = h /\ r[1] # "read"
                                      THEN Registering(h, X) \cup {r} ELSE Registering(h, X)
  BY DEF Of, Registering
<1>4. ASSUME r \notin X
      PROVE  /\ Cardinality(Of(h, X) \cup {r}) = Cardinality(Of(h, X)) + 1
             /\ Cardinality(Registering(h, X) \cup {r}) = Cardinality(Registering(h, X)) + 1
  <2>1. r \notin Of(h, X) /\ r \notin Registering(h, X)
    BY <1>3, <1>4
  <2>2. Cardinality(Of(h, X) \cup {r}) = Cardinality(Of(h, X)) + 1
    BY <1>1, <2>1, FS_AddElement
  <2>3. Cardinality(Registering(h, X) \cup {r}) = Cardinality(Registering(h, X)) + 1
    BY <1>1, <2>1, FS_AddElement
  <2>4. QED BY <2>2, <2>3
<1>5. QED BY <1>2, <1>3, <1>4

LEMMA CountRemoved ==
    ASSUME NEW h, NEW X \in SUBSET Requests, NEW r \in X
    PROVE  /\ Cardinality(Of(h, X)) \in Nat /\ Cardinality(Registering(h, X)) \in Nat
           /\ Cardinality(Of(h, X \ {r}))
                 = Cardinality(Of(h, X)) - (IF HandleOf(r) = h THEN 1 ELSE 0)
           /\ Cardinality(Registering(h, X \ {r}))
                 = Cardinality(Registering(h, X))
                   - (IF HandleOf(r) = h /\ r[1] # "read" THEN 1 ELSE 0)
<1>1. X \ {r} \in SUBSET Requests /\ r \in Requests /\ r \notin X \ {r} /\ (X \ {r}) \cup {r} = X
  OBVIOUS
<1> DEFINE Y == X \ {r}
<1> HIDE DEF Y
<1>2. /\ Y \in SUBSET Requests /\ r \notin Y /\ Y \cup {r} = X /\ r \in Requests
  BY <1>1 DEF Y
<1>3. /\ Cardinality(Of(h, Y)) \in Nat /\ Cardinality(Registering(h, Y)) \in Nat
      /\ Cardinality(Of(h, X)) = Cardinality(Of(h, Y)) + (IF HandleOf(r) = h THEN 1 ELSE 0)
      /\ Cardinality(Registering(h, X))
            = Cardinality(Registering(h, Y)) + (IF HandleOf(r) = h /\ r[1] # "read" THEN 1 ELSE 0)
  BY <1>2, CountAdded
<1>4. Cardinality(Of(h, X)) \in Nat /\ Cardinality(Registering(h, X)) \in Nat
  BY CountAdded, <1>2
<1>5. QED BY <1>3, <1>4 DEF Y

-----------------------------------------------------------------------------
(* The inductive invariant.                                                *)

(* The requests that Windows or the loop has, and these with the one that  *)
(* is being processed.                                                     *)
Waiting == kernel \cup Queued
Existing == Waiting \cup InProcess

(* The counters are integers at first: that they are not negative follows  *)
(* from what they count.                                                   *)
HandleType == [flags : SUBSET Flags, reqs_pending : Int, activecnt : Int]

TypeInv ==
    /\ life \in {"unused", "live", "freed"}
    /\ tcp \in [Handles -> HandleType]
    /\ data \subseteq Handles /\ endgames \subseteq Handles
    /\ kernel \subseteq Requests /\ failed \subseteq Requests
    /\ pending \in Seq(Requests) /\ batch \in Seq(Requests)
    /\ phase \in {"reqs", "poll", "endgames"}
    /\ place \in {Idle, Connect} \cup ({"loop", "done"} \X Handles)
    /\ inbox \in [Handles -> Nat] /\ sent \in [Handles -> Nat]
    /\ passed \in [Handles -> Nat] /\ peer \in [Handles -> {"open", "ended", "reset"}]
    /\ closedTwice \in BOOLEAN

(* A request is in one place, and in a list once.                          *)
PlacesInv ==
    /\ Once(pending) /\ Once(batch)
    /\ Elements(pending) \cap Elements(batch) = {}
    /\ kernel \cap Queued = {}
    /\ Waiting \cap InProcess = {}
    /\ failed \subseteq Queued /\ \A r \in failed : r[1] # "write"
    /\ phase # "reqs" => batch = <<>> /\ place = Idle

(* Nothing is asked of the sockets before the connect request is answered, *)
(* and a write has a number that the next one does not.                    *)
RequestsInv ==
    /\ Connect \in Existing => Existing = {Connect}
    /\ \A h \in Handles : \A n \in Nat : Write(h, n) \in Waiting => n < passed[h]

(* The handles are closed together and read together; an open one can be   *)
(* read and written once it is connected.                                  *)
FlagsInv ==
    /\ Has("client", "CLOSING") <=> Has("server", "CLOSING")
    /\ Has("client", "READING") <=> Has("server", "READING")
    /\ \A h \in Handles :
          /\ Has(h, "CLOSING") =>
                ~Has(h, "READABLE") /\ ~Has(h, "WRITABLE") /\ ~Has(h, "READING")
          /\ Has(h, "CLOSED") => Ended(tcp[h])
          /\ Has(h, "READING") => Connect \notin Existing
    /\ life = "live" /\ ~Has("client", "CLOSING") =>
          /\ Has("client", "READABLE") /\ Has("client", "WRITABLE")
          /\ Connect \notin Waiting => Has("server", "READABLE") /\ Has("server", "WRITABLE")
          /\ Connect \notin Existing => data = Handles

(* activecnt without the reading.                                          *)
Surplus(t) == IF "READING" \in t.flags THEN t.activecnt - 1 ELSE t.activecnt

CountsInv ==
    \A h \in Handles :
       /\ tcp[h].reqs_pending = Cardinality(Of(h, Existing))
       /\ Surplus(tcp[h]) = Cardinality(Registering(h, Waiting))

EndsInv == \A h \in Handles : h \in endgames <=> Ended(tcp[h]) /\ ~Has(h, "CLOSED")

BytesInv ==
    \A h \in Handles : sent[h] - inbox[h] = passed[Other(h)] /\ sent[h] <= MaxBytes[h]

(* Nothing happens before the ConnectInfo is made or after it is deleted,  *)
(* and a data pointer is cleared only by the close callback of its handle. *)
LifeInv ==
    /\ life = "unused" => UvInit
    /\ life = "freed" => \A h \in Handles : Has(h, "CLOSED")
    /\ data # {} => \A h \in Handles \ data : Has(h, "CLOSED")

UvInv == /\ TypeInv /\ PlacesInv /\ RequestsInv /\ FlagsInv
         /\ CountsInv /\ EndsInv /\ BytesInv /\ LifeInv

LEMMA PlaceFacts ==
    /\ place = Idle => InProcess = {}
    /\ place = Connect => InProcess = {Connect}
    /\ \A h \in Handles : place \in {<<"loop", h>>, <<"done", h>>} => InProcess = {Read(h)}
    /\ place' = Idle => InProcess' = {}
    /\ place' = Connect => InProcess' = {Connect}
    /\ \A h \in Handles : place' \in {<<"loop", h>>, <<"done", h>>} => InProcess' = {Read(h)}
BY DEF InProcess, Idle, Connect

LEMMA WaitingTypes ==
    ASSUME TypeInv
    PROVE  /\ Waiting \in SUBSET Requests /\ Existing \in SUBSET Requests
           /\ Queued = Elements(pending) \cup Elements(batch)
<1>1. Queued = Elements(pending) \cup Elements(batch)
  BY DEF Queued, Elements
<1>2. Elements(pending) \subseteq Requests /\ Elements(batch) \subseteq Requests
  BY DEF TypeInv, Elements
<1>3. InProcess \subseteq Requests
  BY PlaceFacts, Kinds DEF TypeInv
<1>4. QED BY <1>1, <1>2, <1>3 DEF TypeInv, Waiting, Existing

-----------------------------------------------------------------------------
(* Where the requests go.                                                  *)

(* The next request of the batch is processed, by one step or more.        *)
LEMMA Taken ==
    ASSUME TypeInv, PlacesInv, NEW r, Process(r), kernel' = kernel, pending' = pending,
           phase' = phase, failed' \subseteq failed \ {r},
           InProcess' = {} \/ InProcess' = {r}
    PROVE  /\ r \in Waiting /\ InProcess = {} /\ Waiting' = Waiting \ {r}
           /\ batch' \in Seq(Requests) /\ PlacesInv'
<1>1. /\ r \in Elements(batch) /\ Elements(batch') = Elements(batch) \ {r} /\ Once(batch')
      /\ batch' \in Seq(Requests)
  BY ElementsTail DEF TypeInv, PlacesInv, Process
<1>2. InProcess = {} /\ phase = "reqs"
  BY PlaceFacts DEF Process
<1>3. /\ Queued = Elements(pending) \cup Elements(batch)
      /\ Queued' = Elements(pending) \cup Elements(batch')
  BY DEF Queued, Elements
<1>4. r \in Queued /\ r \notin kernel /\ Queued' = Queued \ {r}
  BY <1>1, <1>3 DEF PlacesInv
<1>5. r \in Waiting /\ Waiting' = Waiting \ {r}
  BY <1>4 DEF Waiting
<1>6. PlacesInv'
  BY <1>1, <1>2, <1>4, <1>5, <1>3 DEF PlacesInv
<1>7. QED BY <1>1, <1>2, <1>5, <1>6

(* A new request is given to Windows, or is done at once.                  *)
LEMMA Put ==
    ASSUME TypeInv, PlacesInv, NEW r \in Requests, r \notin Waiting,
           \/ kernel' = kernel \cup {r} /\ pending' = pending
           \/ pending' = Append(pending, r) /\ kernel' = kernel,
           batch' = batch, phase' = phase, failed' = failed,
           InProcess' \cap (Waiting \cup {r}) = {},
           phase # "reqs" => place' = Idle
    PROVE  /\ Waiting' = Waiting \cup {r} /\ PlacesInv'
           /\ kernel' \in SUBSET Requests /\ pending' \in Seq(Requests)
<1>1. /\ Queued = Elements(pending) \cup Elements(batch)
      /\ Queued' = Elements(pending') \cup Elements(batch)
  BY DEF Queued, Elements
<1>2. CASE kernel' = kernel \cup {r} /\ pending' = pending
  <2>1. Queued' = Queued
    BY <1>1, <1>2
  <2>2. Waiting' = Waiting \cup {r}
    BY <1>2, <2>1 DEF Waiting
  <2>3. PlacesInv'
    BY <1>2, <2>1, <2>2 DEF PlacesInv, Waiting
  <2>4. QED BY <1>2, <2>2, <2>3 DEF TypeInv
<1>3. CASE pending' = Append(pending, r) /\ kernel' = kernel
  <2>1. /\ Elements(pending') = Elements(pending) \cup {r}
        /\ r \notin Elements(pending) => Once(pending')
        /\ pending' \in Seq(Requests)
    BY <1>3, ElementsAppend DEF TypeInv, PlacesInv
  <2>2. Queued' = Queued \cup {r}
    BY <1>1, <2>1
  <2>3. Waiting' = Waiting \cup {r}
    BY <1>3, <2>2 DEF Waiting
  <2>4. PlacesInv'
    BY <1>1, <1>3, <2>1, <2>2, <2>3 DEF PlacesInv, Waiting
  <2>5. QED BY <1>3, <2>1, <2>3, <2>4 DEF TypeInv
<1>4. QED BY <1>2, <1>3

(* uv_tcp_queue_read, once or for both handles.                            *)
LEMMA ReadsPut ==
    ASSUME TypeInv, PlacesInv, NEW S \in SUBSET Handles, NEW way, QueueReads(S, way),
           \A h \in S : Read(h) \notin Waiting,
           batch' = batch, phase' = phase, place' = Idle
    PROVE  /\ Waiting' = Waiting \cup {Read(h) : h \in S} /\ InProcess' = {} /\ PlacesInv'
           /\ kernel' \in SUBSET Requests /\ failed' \in SUBSET Requests
           /\ pending' \in Seq(Requests)
<1> DEFINE now == {h \in S : way[h] # "kernel"}
           n == Cardinality(now)
           K == {Read(h) : h \in {g \in S : way[g] = "kernel"}}
<1>1. IsFiniteSet(now) /\ n \in Nat
  <2>1. IsFiniteSet({"client", "server"})
    <3>1. IsFiniteSet({"client"})
      BY FS_Singleton
    <3>2. IsFiniteSet({"client"} \cup {"server"})
      BY <3>1, FS_AddElement
    <3>3. {"client"} \cup {"server"} = {"client", "server"}
      OBVIOUS
    <3>4. QED BY <3>2, <3>3
  <2>2. now \in SUBSET Handles
    OBVIOUS
  <2>3. QED BY <2>1, <2>2, FS_Subset, FS_CardinalityType DEF Handles
<1>2. PICK order \in [1..n -> now] :
          /\ \A h \in now : \E i \in DOMAIN order : order[i] = h
          /\ pending' = pending \o [i \in DOMAIN order |-> Read(order[i])]
  BY DEF QueueReads
<1>3. /\ kernel' = kernel \cup K
      /\ failed' = failed \cup {Read(h) : h \in {g \in S : way[g] = "error"}}
  BY DEF QueueReads
<1> DEFINE more == [i \in 1..n |-> Read(order[i])]
<1>4. pending' = pending \o more
  BY <1>2
<1>5. \A i, j \in 1..n : order[i] = order[j] => i = j
  <2>1. order \in Surjection(1..n, now)
    BY <1>2 DEF Surjection
  <2>2. IsFiniteSet(1..n) /\ Cardinality(1..n) = n
    BY <1>1, FS_Interval
  <2> HIDE DEF now
  <2>3. order \in Injection(1..n, now)
    BY <2>1, <2>2, FS_Surjection
  <2>4. QED BY <2>3 DEF Injection, IsInjective
<1>6. now \subseteq Handles
  OBVIOUS
<1>7. S = now \cup {g \in S : way[g] = "kernel"} /\ now \cap {g \in S : way[g] = "kernel"} = {}
      /\ now \subseteq S
  OBVIOUS
<1>8. {Read(h) : h \in S} = K \cup {Read(h) : h \in now}
  OBVIOUS
<1>9. {Read(h) : h \in {g \in S : way[g] = "error"}} \subseteq {Read(h) : h \in now}
  OBVIOUS
<1>10. K \subseteq {Read(h) : h \in S} /\ {Read(h) : h \in S} \subseteq Requests
  BY Kinds
<1>11. K \cap {Read(h) : h \in now} = {}
  BY Kinds
<1> HIDE DEF now, K, n
<1>12. /\ more \in Seq(Requests) /\ Once(more) /\ Elements(more) = {Read(h) : h \in now}
  <2>1. \A i \in 1..n : order[i] \in Handles /\ Read(order[i]) \in Requests
    BY <1>2, <1>6, Kinds
  <2>2. more \in Seq(Requests) /\ DOMAIN more = 1..n
    BY <1>1, <2>1
  <2>3. Once(more)
    BY <1>5, <2>1, <2>2, Kinds DEF Once
  <2>4. Elements(more) = {Read(h) : h \in now}
    BY <1>2, <2>2 DEF Elements
  <2>5. QED BY <2>2, <2>3, <2>4
<1> HIDE DEF more
<1> DEFINE N == {Read(h) : h \in now}
           R == {Read(h) : h \in S}
           F == {Read(h) : h \in {g \in S : way[g] = "error"}}
<1>13. R \cap Waiting = {} /\ R = K \cup N /\ F \subseteq N /\ R \subseteq Requests
      /\ K \cap N = {} /\ Elements(more) = N /\ failed' = failed \cup F
  BY <1>3, <1>8, <1>9, <1>10, <1>11, <1>12
<1>14. \A r \in F : r[1] # "write"
  BY Kinds
<1> HIDE DEF N, R, F
<1>15. /\ Queued = Elements(pending) \cup Elements(batch)
       /\ Queued' = Elements(pending') \cup Elements(batch)
  BY DEF Queued, Elements
<1>16. Elements(pending) \cap N = {} /\ Elements(batch) \cap N = {}
  BY <1>13, <1>15 DEF Waiting
<1>17. /\ Elements(pending') = Elements(pending) \cup N /\ Once(pending')
       /\ pending' \in Seq(Requests)
  BY <1>4, <1>12, <1>13, <1>16, ElementsConcat DEF TypeInv, PlacesInv
<1>18. Queued' = Queued \cup N
  BY <1>15, <1>17
<1>19. Waiting' = Waiting \cup R
  BY <1>3, <1>13, <1>18 DEF Waiting
<1>20. InProcess' = {}
  BY PlaceFacts
<1>21. PlacesInv'
  <2>1. Elements(pending') \cap Elements(batch') = {}
    BY <1>16, <1>17 DEF PlacesInv
  <2>2. kernel' \cap Queued' = {}
    BY <1>3, <1>13, <1>18 DEF PlacesInv, Waiting
  <2>3. failed' \subseteq Queued' /\ \A r \in failed' : r[1] # "write"
    BY <1>13, <1>18, <1>14 DEF PlacesInv
  <2>4. QED BY <1>17, <1>20, <2>1, <2>2, <2>3 DEF PlacesInv
<1>22. kernel' \in SUBSET Requests /\ failed' \in SUBSET Requests
  BY <1>3, <1>13 DEF TypeInv
<1>23. QED BY <1>17, <1>19, <1>20, <1>21, <1>22 DEF R

(* Windows completes a request; the loop takes what it has completed.      *)
LEMMA Dequeued ==
    ASSUME TypeInv, PlacesInv, NEW r \in Requests, Dequeue(r)
    PROVE  /\ Waiting' = Waiting /\ InProcess' = InProcess /\ PlacesInv'
           /\ kernel' \in SUBSET Requests /\ failed' \in SUBSET Requests
           /\ pending' \in Seq(Requests)
<1>1. /\ r \in kernel /\ kernel' = kernel \ {r} /\ pending' = Append(pending, r)
      /\ batch' = batch /\ phase' = phase /\ place' = place
      /\ failed' = failed \/ (failed' = failed \cup {r} /\ r[1] # "write")
  BY DEF Dequeue, Fails
<1>2. /\ Queued = Elements(pending) \cup Elements(batch)
      /\ Queued' = Elements(pending') \cup Elements(batch)
  BY <1>1 DEF Queued, Elements
<1>3. /\ Elements(pending') = Elements(pending) \cup {r}
      /\ r \notin Elements(pending) => Once(pending')
      /\ pending' \in Seq(Requests)
  BY <1>1, ElementsAppend DEF TypeInv, PlacesInv
<1>4. Queued' = Queued \cup {r} /\ r \notin Queued
  BY <1>1, <1>2, <1>3 DEF PlacesInv
<1>5. Waiting' = Waiting
  BY <1>1, <1>4 DEF Waiting
<1>6. InProcess' = InProcess
  BY <1>1 DEF InProcess
<1>7. PlacesInv'
  BY <1>1, <1>2, <1>3, <1>4, <1>5, <1>6 DEF PlacesInv
<1>8. QED BY <1>1, <1>3, <1>5, <1>6, <1>7 DEF TypeInv

LEMMA PendingTaken ==
    ASSUME TypeInv, PlacesInv, TakePending
    PROVE  /\ Waiting' = Waiting /\ InProcess' = InProcess /\ PlacesInv'
           /\ pending' \in Seq(Requests) /\ batch' \in Seq(Requests)
<1>1. /\ phase = "endgames" /\ phase' = "reqs" /\ batch' = pending /\ pending' = <<>>
      /\ kernel' = kernel /\ failed' = failed /\ place' = place /\ batch = <<>>
  BY DEF TakePending, PlacesInv
<1>2. /\ Queued = Elements(pending) \cup Elements(batch)
      /\ Queued' = Elements(pending') \cup Elements(batch')
  BY DEF Queued, Elements
<1>3. Queued' = Queued /\ Elements(pending') = {} /\ Once(pending')
  BY <1>1, <1>2, ElementsEmpty
<1>4. Waiting' = Waiting /\ InProcess' = InProcess
  BY <1>1, <1>3 DEF Waiting, InProcess
<1>5. PlacesInv'
  BY <1>1, <1>3, <1>4 DEF PlacesInv
<1>6. QED BY <1>1, <1>4, <1>5 DEF TypeInv

(* The lists stay as they are.                                             *)
LEMMA ListsKept ==
    ASSUME TypeInv, PlacesInv, kernel' = kernel, pending' = pending, batch' = batch,
           failed' = failed, phase' = phase \/ (batch = <<>> /\ place' = Idle),
           InProcess' \subseteq InProcess, phase # "reqs" => place' = Idle
    PROVE  Waiting' = Waiting /\ PlacesInv'
<1>1. Waiting' = Waiting /\ Queued' = Queued
  BY DEF Waiting, Queued
<1>2. QED BY <1>1 DEF PlacesInv

-----------------------------------------------------------------------------
(* What the operations do to a handle.                                     *)

(* u has the counters of t but for i requests and j registered ones.       *)
Counted(t, u, i, j) ==
    /\ u \in HandleType
    /\ u.reqs_pending = t.reqs_pending + i /\ Surplus(u) = Surplus(t) + j

(* u has the flags of t that the invariant speaks of.                      *)
Kept(t, u) ==
    \A flag \in {"READABLE", "WRITABLE", "READING", "CLOSING", "CLOSED"} :
       flag \in u.flags <=> flag \in t.flags

(* u is t after uv_close.                                                  *)
Shut(t, u) ==
    /\ "CLOSING" \in u.flags
    /\ "READABLE" \notin u.flags /\ "WRITABLE" \notin u.flags /\ "READING" \notin u.flags
    /\ "CLOSED" \in u.flags <=> "CLOSED" \in t.flags

(* A closing handle is not read or written.                                *)
Quiet(t) ==
    "CLOSING" \in t.flags =>
        "READABLE" \notin t.flags /\ "WRITABLE" \notin t.flags /\ "READING" \notin t.flags

LEMMA Counting ==
    ASSUME NEW t \in HandleType
    PROVE  /\ Counted(t, t, 0, 0) /\ Kept(t, t)
           /\ Counted(t, Done(t), -1, 0) /\ Kept(t, Done(t))
           /\ Counted(t, Submitted(t), 1, 0) /\ Kept(t, Submitted(t))
           /\ Counted(t, Registered(t), 1, 1) /\ Kept(t, Registered(t))
           /\ Counted(t, [t EXCEPT !.activecnt = @ - 1], 0, -1)
           /\ Kept(t, [t EXCEPT !.activecnt = @ - 1])
<1>1. t.flags \in SUBSET Flags /\ t.reqs_pending \in Int /\ t.activecnt \in Int
  BY DEF HandleType
<1>2. Counted(t, t, 0, 0) /\ Kept(t, t)
  BY <1>1 DEF Counted, Kept, Surplus
<1>3. Counted(t, Done(t), -1, 0) /\ Kept(t, Done(t))
  BY <1>1 DEF Counted, Kept, Surplus, Done, HandleType
<1>4. Counted(t, Submitted(t), 1, 0) /\ Kept(t, Submitted(t))
  BY <1>1 DEF Counted, Kept, Surplus, Submitted, HandleType
<1>5. Counted(t, Registered(t), 1, 1) /\ Kept(t, Registered(t))
  <2>1. /\ Registered(t) \in HandleType /\ Registered(t).flags = t.flags
        /\ Registered(t).reqs_pending = t.reqs_pending + 1
        /\ Registered(t).activecnt = t.activecnt + 1
    <3>1. t.reqs_pending + 1 \in Int /\ t.activecnt + 1 \in Int
      BY <1>1
    <3> DEFINE i == t.reqs_pending + 1
               k == t.activecnt + 1
    <3>2. Registered(t) = [t EXCEPT !.reqs_pending = i, !.activecnt = k]
      BY DEF Registered, HandleType
    <3> HIDE DEF i, k
    <3>3. /\ [t EXCEPT !.reqs_pending = i, !.activecnt = k] \in HandleType
      BY <1>1, <3>1 DEF HandleType, i, k
    <3>4. QED BY <1>1, <3>2, <3>3 DEF HandleType, i, k
  <2>2. QED BY <1>1, <2>1 DEF Counted, Kept, Surplus
<1>6. /\ Counted(t, [t EXCEPT !.activecnt = @ - 1], 0, -1)
      /\ Kept(t, [t EXCEPT !.activecnt = @ - 1])
  BY <1>1 DEF Counted, Kept, Surplus, HandleType
<1>7. QED BY <1>2, <1>3, <1>4, <1>5, <1>6

LEMMA Chained ==
    ASSUME NEW t \in HandleType, NEW u \in HandleType, NEW v \in HandleType,
           NEW i \in Int, NEW j \in Int
    PROVE  /\ Counted(t, u, i, j) /\ Counted(u, v, 0, 0) => Counted(t, v, i, j)
           /\ Counted(t, u, 0, 0) /\ Counted(u, v, i, j) => Counted(t, v, i, j)
<1>1. t.reqs_pending \in Int /\ t.activecnt \in Int
  BY DEF HandleType
<1>2. Surplus(t) \in Int
  BY <1>1 DEF Surplus
<1>3. QED BY <1>1, <1>2 DEF Counted

LEMMA Stopping ==
    ASSUME NEW t \in HandleType
    PROVE  /\ Counted(t, Stopped(t), 0, 0)
           /\ Stopped(t).flags = t.flags \ {"READING"}
<1>1. t.flags \in SUBSET Flags /\ t.reqs_pending \in Int /\ t.activecnt \in Int
  BY DEF HandleType
<1>2. CASE "READING" \in t.flags
  <2>1. Stopped(t) = [t EXCEPT !.flags = @ \ {"READING"}, !.activecnt = @ - 1]
    BY <1>2 DEF Stopped
  <2>2. /\ Stopped(t) \in HandleType /\ Stopped(t).flags = t.flags \ {"READING"}
        /\ Stopped(t).reqs_pending = t.reqs_pending /\ Stopped(t).activecnt = t.activecnt - 1
    <3>1. t.flags \ {"READING"} \in SUBSET Flags /\ t.activecnt - 1 \in Int
      BY <1>1
    <3> DEFINE f == t.flags \ {"READING"}
               k == t.activecnt - 1
    <3>2. Stopped(t) = [t EXCEPT !.flags = f, !.activecnt = k]
      BY <2>1 DEF HandleType
    <3> HIDE DEF f, k
    <3>3. [t EXCEPT !.flags = f, !.activecnt = k] \in HandleType
      BY <1>1, <3>1 DEF HandleType, f, k
    <3>4. QED BY <1>1, <3>2, <3>3 DEF HandleType, f, k
  <2>3. QED BY <1>1, <1>2, <2>2 DEF Counted, Surplus
<1>3. CASE "READING" \notin t.flags
  BY <1>1, <1>3 DEF Counted, Stopped, Surplus
<1>4. QED BY <1>2, <1>3

LEMMA Shutting ==
    ASSUME NEW t \in HandleType, Quiet(t)
    PROVE  Counted(t, Closing(t), 0, 0) /\ Shut(t, Closing(t))
<1>1. CASE "CLOSING" \in t.flags
  BY <1>1, Counting DEF Closing, Quiet, Shut
<1>2. CASE "CLOSING" \notin t.flags
  <2> DEFINE s == Stopped(t)
  <2>1. s \in HandleType /\ Counted(t, s, 0, 0) /\ s.flags = t.flags \ {"READING"}
    BY Stopping DEF Counted
  <2> HIDE DEF s
  <2>2. Closing(t) = [s EXCEPT !.flags = (@ \ {"READABLE", "WRITABLE"}) \cup {"CLOSING"}]
    BY <1>2 DEF Closing, s
  <2>3. /\ s.flags \in SUBSET Flags /\ s.reqs_pending \in Int /\ s.activecnt \in Int
        /\ "CLOSING" \in Flags
    BY <2>1 DEF HandleType, Flags
  <2>4. /\ Closing(t) \in HandleType
        /\ Closing(t).flags = (s.flags \ {"READABLE", "WRITABLE"}) \cup {"CLOSING"}
        /\ Closing(t).reqs_pending = s.reqs_pending /\ Closing(t).activecnt = s.activecnt
    BY <2>1, <2>2, <2>3 DEF HandleType
  <2>5. Counted(t, Closing(t), 0, 0)
    BY <2>1, <2>3, <2>4 DEF Counted, Surplus
  <2>6. Shut(t, Closing(t))
    BY <2>1, <2>4 DEF Shut
  <2>7. QED BY <2>5, <2>6
<1>3. QED BY <1>1, <1>2


(* uv_close of both handles, after they were changed otherwise.            *)
LEMMA BothShut ==
    ASSUME NEW new \in [Handles -> HandleType],
           \A h \in Handles : /\ Quiet(new[h])
                              /\ "CLOSED" \in new[h].flags <=> "CLOSED" \in tcp[h].flags
    PROVE  /\ BothClosing(new) \in [Handles -> HandleType]
           /\ \A h \in Handles : /\ Counted(new[h], BothClosing(new)[h], 0, 0)
                                 /\ Shut(tcp[h], BothClosing(new)[h])
<1>1. ASSUME NEW h \in Handles
      PROVE  /\ Counted(new[h], Closing(new[h]), 0, 0) /\ Closing(new[h]) \in HandleType
             /\ Shut(tcp[h], Closing(new[h]))
  <2>1. new[h] \in HandleType
    OBVIOUS
  <2>2. Counted(new[h], Closing(new[h]), 0, 0) /\ Shut(new[h], Closing(new[h]))
    BY <2>1, Shutting
  <2>3. QED BY <2>2 DEF Counted, Shut
<1>2. QED BY <1>1 DEF BothClosing

(* What every handle is like before a step.                                *)
LEMMA HandleFacts ==
    ASSUME TypeInv, FlagsInv, NEW h \in Handles
    PROVE  /\ tcp[h] \in HandleType /\ Quiet(tcp[h]) /\ tcp[h].flags \in SUBSET Flags
           /\ tcp[h].reqs_pending \in Int /\ tcp[h].activecnt \in Int
BY DEF TypeInv, FlagsInv, Quiet, Has, HandleType

LEMMA RemoveShuts ==
    ASSUME TypeInv, FlagsInv, tcp' = BothClosing(tcp)
    PROVE  /\ tcp' \in [Handles -> HandleType]
           /\ \A h \in Handles : Shut(tcp[h], tcp'[h]) /\ Counted(tcp[h], tcp'[h], 0, 0)
<1>1. tcp \in [Handles -> HandleType] /\ \A h \in Handles : Quiet(tcp[h])
  BY HandleFacts DEF TypeInv
<1>2. QED BY <1>1, BothShut

LEMMA ConnectFailShuts ==
    ASSUME TypeInv, FlagsInv,
           tcp' = BothClosing([tcp EXCEPT !["server"].activecnt = @ - 1])
    PROVE  /\ tcp' \in [Handles -> HandleType]
           /\ \A h \in Handles :
                 /\ Shut(tcp[h], tcp'[h])
                 /\ Counted(tcp[h], tcp'[h], 0, IF h = "server" THEN -1 ELSE 0)
<1> DEFINE t == tcp["server"]
           u == [t EXCEPT !.activecnt = @ - 1]
           new == [tcp EXCEPT !["server"] = u]
<1>1. t \in HandleType /\ Quiet(t) /\ "server" \in Handles
  BY HandleFacts DEF Handles
<1>2. Counted(t, u, 0, -1) /\ Kept(t, u)
  BY <1>1, Counting
<1>3. tcp' = BothClosing(new)
  BY <1>1 DEF TypeInv
<1> HIDE DEF u
<1>4. u \in HandleType /\ Quiet(u) /\ ("CLOSED" \in u.flags <=> "CLOSED" \in t.flags)
  BY <1>1, <1>2 DEF Counted, Kept, Quiet
<1>5. /\ new \in [Handles -> HandleType]
      /\ \A h \in Handles : new[h] = IF h = "server" THEN u ELSE tcp[h]
  BY <1>4 DEF TypeInv
<1> HIDE DEF new
<1>6. /\ tcp' \in [Handles -> HandleType]
      /\ \A h \in Handles : Counted(new[h], tcp'[h], 0, 0) /\ Shut(tcp[h], tcp'[h])
  BY <1>3, <1>4, <1>5, HandleFacts, BothShut
<1>7. ASSUME NEW h \in Handles
      PROVE  Counted(tcp[h], tcp'[h], 0, IF h = "server" THEN -1 ELSE 0)
  <2>1. tcp[h] \in HandleType /\ new[h] \in HandleType /\ tcp'[h] \in HandleType
    BY <1>5, <1>6, HandleFacts
  <2>2. CASE h = "server"
    <3>1. Counted(tcp[h], new[h], 0, -1)
      BY <1>2, <1>5, <2>2
    <3>2. Counted(new[h], tcp'[h], 0, 0)
      BY <1>6
    <3>3. Counted(tcp[h], tcp'[h], 0, -1)
      <4> DEFINE a == tcp[h]
                 b == new[h]
                 c == tcp'[h]
      <4>1. /\ a \in HandleType /\ b \in HandleType /\ c \in HandleType
            /\ Counted(a, b, 0, -1) /\ Counted(b, c, 0, 0)
        BY <2>1, <3>1, <3>2
      <4> HIDE DEF a, b, c
      <4>2. Counted(a, c, 0, -1)
        BY <4>1, Chained
      <4>3. QED BY <4>2 DEF a, c
    <3>4. QED BY <2>2, <3>3
  <2>3. CASE h # "server"
    BY <1>5, <1>6, <2>3
  <2>4. QED BY <2>2, <2>3
<1>8. QED BY <1>6, <1>7

(* A handle is changed before both are closed, by a read that ends.        *)
LEMMA ReadShuts ==
    ASSUME TypeInv, FlagsInv, NEW h \in Handles, NEW u \in HandleType,
           Counted(tcp[h], u, 0, 0), Quiet(u),
           "CLOSED" \in u.flags <=> "CLOSED" \in tcp[h].flags,
           NEW new, new = BothClosing([tcp EXCEPT ![h] = u])
    PROVE  /\ new \in [Handles -> HandleType]
           /\ \A g \in Handles : Shut(tcp[g], new[g]) /\ Counted(tcp[g], new[g], 0, 0)
<1> DEFINE old == [tcp EXCEPT ![h] = u]
<1>1. /\ old \in [Handles -> HandleType]
      /\ \A g \in Handles : old[g] = IF g = h THEN u ELSE tcp[g]
  BY DEF TypeInv
<1>2. new = BothClosing(old)
  OBVIOUS
<1> HIDE DEF old
<1>3. /\ new \in [Handles -> HandleType]
      /\ \A g \in Handles : Counted(old[g], new[g], 0, 0) /\ Shut(tcp[g], new[g])
  BY <1>1, <1>2, HandleFacts, BothShut
<1>4. ASSUME NEW g \in Handles PROVE Counted(tcp[g], new[g], 0, 0)
  <2>1. tcp[g] \in HandleType /\ old[g] \in HandleType /\ new[g] \in HandleType
    BY <1>1, <1>3, HandleFacts
  <2>2. Counted(tcp[g], old[g], 0, 0)
    BY <1>1, <2>1, Counting
  <2>3. Counted(old[g], new[g], 0, 0)
    BY <1>3
  <2>4. QED BY <2>1, <2>2, <2>3, Chained
<1>5. QED BY <1>3, <1>4

LEMMA FlagRemoved ==
    ASSUME NEW t \in HandleType, NEW flag, flag # "READING"
    PROVE  /\ Counted(t, [t EXCEPT !.flags = @ \ {flag}], 0, 0)
           /\ [t EXCEPT !.flags = @ \ {flag}].flags = t.flags \ {flag}
<1> DEFINE u == [t EXCEPT !.flags = @ \ {flag}]
<1>1. t.flags \in SUBSET Flags /\ t.reqs_pending \in Int /\ t.activecnt \in Int
  BY DEF HandleType
<1>2. t.flags \ {flag} \in SUBSET Flags
  BY <1>1
<1>3. /\ u \in HandleType /\ u.flags = t.flags \ {flag} /\ u.reqs_pending = t.reqs_pending
      /\ u.activecnt = t.activecnt
  BY <1>1, <1>2 DEF HandleType
<1>4. QED BY <1>1, <1>3 DEF Counted, Surplus

(* NotPending changes no flag and no counter of the invariant.             *)
LEMMA NotPendingKeeps ==
    ASSUME TypeInv, FlagsInv, NEW h \in Handles
    PROVE  /\ NotPending(h) \in [Handles -> HandleType]
           /\ \A g \in Handles : /\ Counted(tcp[g], NotPending(h)[g], 0, 0)
                                 /\ Kept(tcp[g], NotPending(h)[g])
           /\ NotPending(h) = [tcp EXCEPT ![h] = NotPending(h)[h]]
<1> DEFINE t == tcp[h]
           u == [t EXCEPT !.flags = @ \ {"READ_PENDING"}]
<1>1. t \in HandleType
  BY HandleFacts
<1>2. Counted(t, u, 0, 0) /\ u.flags = t.flags \ {"READ_PENDING"}
  BY <1>1, FlagRemoved
<1>3. NotPending(h) = [tcp EXCEPT ![h] = u]
  BY DEF NotPending, TypeInv
<1> HIDE DEF u
<1>4. u \in HandleType /\ Kept(t, u)
  BY <1>2 DEF Counted, Kept
<1>5. /\ NotPending(h) \in [Handles -> HandleType]
      /\ \A g \in Handles : NotPending(h)[g] = IF g = h THEN u ELSE tcp[g]
  BY <1>3, <1>4 DEF TypeInv
<1>6. QED BY <1>2, <1>3, <1>4, <1>5, HandleFacts, Counting

LEMMA ReadFailShuts ==
    ASSUME TypeInv, FlagsInv, NEW h \in Handles,
           tcp' = [BothClosing([NotPending(h) EXCEPT ![h] = Stopped(@)]) EXCEPT ![h] = Done(@)]
    PROVE  /\ tcp' \in [Handles -> HandleType]
           /\ \A g \in Handles :
                 /\ Shut(tcp[g], tcp'[g])
                 /\ Counted(tcp[g], tcp'[g], IF g = h THEN -1 ELSE 0, 0)
<1> DEFINE t == NotPending(h)[h]
           u == Stopped(t)
           new == BothClosing([NotPending(h) EXCEPT ![h] = u])
<1>1. t \in HandleType /\ Counted(tcp[h], t, 0, 0) /\ Kept(tcp[h], t)
  BY NotPendingKeeps
<1>2. Counted(t, u, 0, 0) /\ u.flags = t.flags \ {"READING"}
  BY <1>1, Stopping
<1>3. tcp' = [new EXCEPT ![h] = Done(@)]
  BY NotPendingKeeps
<1>4. [NotPending(h) EXCEPT ![h] = u] = [tcp EXCEPT ![h] = u]
  BY NotPendingKeeps DEF TypeInv
<1>5. new = BothClosing([tcp EXCEPT ![h] = u])
  BY <1>4
<1> HIDE DEF new, u, t
<1>6. u \in HandleType /\ Quiet(u) /\ ("CLOSED" \in u.flags <=> "CLOSED" \in tcp[h].flags)
  BY <1>1, <1>2, HandleFacts DEF Counted, Kept, Quiet
<1>7. Counted(tcp[h], u, 0, 0)
  BY <1>1, <1>2, <1>6, HandleFacts, Chained
<1>8. /\ new \in [Handles -> HandleType]
      /\ \A g \in Handles : Shut(tcp[g], new[g]) /\ Counted(tcp[g], new[g], 0, 0)
  BY <1>5, <1>6, <1>7, ReadShuts
<1>9. ASSUME NEW g \in Handles
      PROVE  /\ Done(new[g]) \in HandleType /\ Shut(tcp[g], Done(new[g]))
             /\ Counted(tcp[g], Done(new[g]), -1, 0)
  <2>1. new[g] \in HandleType /\ tcp[g] \in HandleType
    BY <1>8, HandleFacts
  <2>2. Counted(new[g], Done(new[g]), -1, 0) /\ Kept(new[g], Done(new[g]))
    BY <2>1, Counting
  <2>3. Done(new[g]) \in HandleType
    BY <2>2 DEF Counted
  <2>4. Counted(tcp[g], Done(new[g]), -1, 0)
    BY <1>8, <2>1, <2>2, <2>3, Chained
  <2>5. Shut(tcp[g], Done(new[g]))
    BY <1>8, <2>2 DEF Shut, Kept
  <2>6. QED BY <2>3, <2>4, <2>5
<1>10. /\ tcp' \in [Handles -> HandleType]
       /\ \A g \in Handles : tcp'[g] = IF g = h THEN Done(new[g]) ELSE new[g]
  BY <1>3, <1>8, <1>9
<1>11. QED BY <1>8, <1>9, <1>10

LEMMA ReceiveShuts ==
    ASSUME TypeInv, FlagsInv, NEW h \in Handles,
           \/ tcp' = BothClosing(
                 [tcp EXCEPT ![h] = Stopped([tcp[h] EXCEPT !.flags = @ \ {"READABLE"}])])
           \/ tcp' = BothClosing([tcp EXCEPT ![h] = Stopped(@)])
    PROVE  /\ tcp' \in [Handles -> HandleType]
           /\ \A g \in Handles : Shut(tcp[g], tcp'[g]) /\ Counted(tcp[g], tcp'[g], 0, 0)
<1> DEFINE t == tcp[h]
           s == [t EXCEPT !.flags = @ \ {"READABLE"}]
<1>1. t \in HandleType /\ Quiet(t)
  BY HandleFacts
<1>2. s \in HandleType /\ Counted(t, s, 0, 0) /\ s.flags = t.flags \ {"READABLE"}
  BY <1>1, FlagRemoved DEF Counted
<1>3. PICK v \in {s, t} : tcp' = BothClosing([tcp EXCEPT ![h] = Stopped(v)])
  OBVIOUS
<1> HIDE DEF s
<1>4. v \in HandleType /\ Counted(t, v, 0, 0) /\ v.flags \subseteq t.flags
      /\ ("CLOSED" \in v.flags <=> "CLOSED" \in t.flags)
      /\ ("CLOSING" \in v.flags <=> "CLOSING" \in t.flags)
  BY <1>1, <1>2, <1>3, Counting
<1> DEFINE u == Stopped(v)
<1>5. u \in HandleType /\ Counted(v, u, 0, 0) /\ u.flags = v.flags \ {"READING"}
  BY <1>4, Stopping DEF Counted
<1> HIDE DEF u
<1>6. Counted(t, u, 0, 0)
  BY <1>1, <1>4, <1>5, Chained
<1>7. Quiet(u) /\ ("CLOSED" \in u.flags <=> "CLOSED" \in t.flags)
  BY <1>1, <1>4, <1>5 DEF Quiet
<1>8. tcp' = BothClosing([tcp EXCEPT ![h] = u])
  BY <1>3 DEF u
<1>9. QED BY <1>5, <1>6, <1>7, <1>8, ReadShuts

-----------------------------------------------------------------------------
(* What is left of the invariant, once the counters are right.             *)

(* uv_want_endgame was called for the handles whose last request is done.  *)
Updated ==
    endgames' = endgames \cup {h \in Handles : Ended(tcp'[h]) /\ ~Ended(tcp[h])}

LEMMA OfFinite ==
    ASSUME NEW h, NEW X \in SUBSET Requests
    PROVE  IsFiniteSet(Of(h, X)) /\ (Cardinality(Of(h, X)) = 0 <=> Of(h, X) = {})
<1>1. Of(h, X) \in SUBSET Requests
  BY DEF Of
<1>2. IsFiniteSet(Of(h, X))
  BY <1>1, RequestsFinite, FS_Subset
<1>3. QED BY <1>2, FS_EmptySet

(* A handle without requests gets none when none is added.                 *)
LEMMA EndedStays ==
    ASSUME TypeInv, TypeInv', CountsInv, CountsInv', Existing' \subseteq Existing,
           NEW h \in Handles, "CLOSING" \in tcp[h].flags => "CLOSING" \in tcp'[h].flags
    PROVE  Ended(tcp[h]) => Ended(tcp'[h])
<1> SUFFICES ASSUME Ended(tcp[h]) PROVE Ended(tcp'[h])
  OBVIOUS
<1>1. "CLOSING" \in tcp[h].flags /\ tcp[h].reqs_pending = 0
  BY DEF Ended
<1>2. Cardinality(Of(h, Existing)) = 0
  BY <1>1 DEF CountsInv
<1>3. Of(h, Existing) = {}
  BY <1>2, OfFinite, WaitingTypes
<1>4. Of(h, Existing') = {}
  BY <1>3 DEF Of
<1>5. Cardinality(Of(h, Existing')) = 0
  BY <1>4, FS_EmptySet
<1>6. tcp'[h].reqs_pending = 0
  BY <1>5 DEF CountsInv
<1>7. QED BY <1>1, <1>6 DEF Ended

LEMMA EndsUpdated ==
    ASSUME EndsInv, FlagsInv, Updated,
           \A h \in Handles : /\ Ended(tcp[h]) => Ended(tcp'[h])
                              /\ "CLOSED" \in tcp'[h].flags <=> "CLOSED" \in tcp[h].flags
    PROVE  EndsInv'
BY DEF EndsInv, FlagsInv, Updated, Has

(* What a step does for ConnectionLife.                                    *)
LifeKept == [Life!LifeNext]_(Life!lifeVars)

LEMMA LifeSame ==
    ASSUME life' = life, data' = data, Connect \in Existing <=> Connect \in Existing',
           \A h \in Handles : /\ Has(h, "CLOSING")' <=> Has(h, "CLOSING")
                              /\ Has(h, "CLOSED")' <=> Has(h, "CLOSED")
                              /\ Has(h, "READING")' <=> Has(h, "READING")
    PROVE  LifeKept
<1>1. \A h \in Handles : Socket(h)' = Socket(h)
  BY DEF Socket
<1>2. "client" \in Handles /\ "server" \in Handles
  BY DEF Handles
<1>3. QED BY <1>1, <1>2 DEF LifeKept, Life!lifeVars, Existing, Waiting

LEMMA LifeShut ==
    ASSUME life = "live", life' = life, data' = Handles,
           Connect \in Existing <=> Connect \in Existing',
           \A h \in Handles : Shut(tcp[h], tcp'[h])
    PROVE  LifeKept
<1>1. "client" \in Handles /\ "server" \in Handles
  BY DEF Handles
<1>2. ASSUME NEW h \in Handles
      PROVE  /\ Socket(h)' = (IF Socket(h) = "open" THEN "closing" ELSE Socket(h))
             /\ ~Has(h, "READING")'
  BY DEF Shut, Socket, Has
<1>3. Life!Removed
  BY <1>1, <1>2 DEF Life!Removed, Life!BothClosed, Life!ClosedOnce, Existing, Waiting
<1>4. QED BY <1>3 DEF LifeKept, Life!LifeNext

(* The connect request is answered: the reading starts, if it can.         *)
LEMMA LifeAnswered ==
    ASSUME life = "live", life' = life, data' = Handles,
           Connect \in Existing, Connect \notin Existing',
           \A h \in Handles : /\ Has(h, "CLOSING")' <=> Has(h, "CLOSING")
                              /\ Has(h, "CLOSED")' <=> Has(h, "CLOSED")
                              /\ Has(h, "READING")' <=> Socket(h) = "open"
    PROVE  LifeKept
<1>1. "client" \in Handles /\ "server" \in Handles
  BY DEF Handles
<1>2. \A h \in Handles : Socket(h)' = Socket(h)
  BY DEF Socket
<1>3. Life!StartedReading
  BY <1>1, <1>2 DEF Life!StartedReading, Existing, Waiting
<1>4. QED BY <1>3 DEF LifeKept, Life!LifeNext

(* A step that adds no request and moves none but reads, and either closes *)
(* both handles or keeps their flags.                                      *)
LEMMA Narrowing ==
    ASSUME UvInv, life = "live", life' = life, TypeInv', PlacesInv', CountsInv',
           Existing' \subseteq Existing, Waiting' \subseteq Waiting \cup {Read(h) : h \in Handles},
           Updated, BytesInv', passed' = passed,
           \/ /\ \A h \in Handles : Shut(tcp[h], tcp'[h])
              /\ Connect \in Existing <=> Connect \in Existing'
              /\ data' = Handles \/ (data' = data /\ Has("client", "READING"))
           \/ /\ \A h \in Handles : Kept(tcp[h], tcp'[h])
              /\ \/ /\ Has("client", "CLOSING") /\ data' = Handles
                    /\ Connect \in Existing /\ Connect \notin Existing'
                 \/ /\ Connect \in Waiting <=> Connect \in Waiting'
                    /\ Connect \in Existing <=> Connect \in Existing'
                    /\ data' = data
    PROVE  UvInv' /\ LifeKept
<1> USE DEF UvInv
<1>1. ASSUME NEW h \in Handles
      PROVE  /\ "CLOSING" \in tcp[h].flags => "CLOSING" \in tcp'[h].flags
             /\ "CLOSED" \in tcp'[h].flags <=> "CLOSED" \in tcp[h].flags
  BY DEF Shut, Kept
<1>2. \A h \in Handles : Ended(tcp[h]) => Ended(tcp'[h])
  BY <1>1, EndedStays
<1>3. EndsInv'
  BY <1>1, <1>2, EndsUpdated
<1>4. RequestsInv'
  <2>1. Connect \in Existing' => Existing' = {Connect}
    BY DEF RequestsInv
  <2>2. ASSUME NEW h \in Handles, NEW n \in Nat, Write(h, n) \in Waiting'
        PROVE  n < passed'[h]
    <3>1. Write(h, n) \in Waiting
      BY <2>2, Kinds
    <3>2. QED BY <3>1 DEF RequestsInv
  <2>3. QED BY <2>1, <2>2 DEF RequestsInv
<1>5. LifeInv'
  BY <1>1 DEF LifeInv, Has
<1>6. "client" \in Handles /\ "server" \in Handles
  BY DEF Handles
<1>7. CASE /\ \A h \in Handles : Shut(tcp[h], tcp'[h])
           /\ Connect \in Existing <=> Connect \in Existing'
           /\ data' = Handles \/ (data' = data /\ Has("client", "READING"))
  <2>1. FlagsInv'
    BY <1>1, <1>2, <1>6, <1>7 DEF FlagsInv, Has, Shut
  <2>2. data' = Handles
    BY <1>6, <1>7 DEF FlagsInv
  <2>3. LifeKept
    BY <1>7, <2>2, LifeShut
  <2>4. QED BY <1>3, <1>4, <1>5, <2>1, <2>3
<1>8. CASE /\ \A h \in Handles : Kept(tcp[h], tcp'[h])
           /\ \/ /\ Has("client", "CLOSING") /\ data' = Handles
                 /\ Connect \in Existing /\ Connect \notin Existing'
              \/ /\ Connect \in Waiting <=> Connect \in Waiting'
                 /\ Connect \in Existing <=> Connect \in Existing'
                 /\ data' = data
  <2>1. ASSUME NEW h \in Handles
        PROVE  /\ Has(h, "CLOSING")' <=> Has(h, "CLOSING")
               /\ Has(h, "CLOSED")' <=> Has(h, "CLOSED")
               /\ Has(h, "READING")' <=> Has(h, "READING")
               /\ Has(h, "READABLE")' <=> Has(h, "READABLE")
               /\ Has(h, "WRITABLE")' <=> Has(h, "WRITABLE")
    BY <1>8 DEF Kept, Has
  <2>2. Connect \in Existing' => Connect \in Existing
    OBVIOUS
  <2>3. FlagsInv'
    BY <1>2, <1>6, <1>8, <2>1, <2>2 DEF FlagsInv
  <2>4. LifeKept
    <3>1. \A h \in Handles : Has(h, "READING") => Connect \notin Existing
      BY DEF FlagsInv
    <3>2. CASE /\ Has("client", "CLOSING") /\ data' = Handles
               /\ Connect \in Existing /\ Connect \notin Existing'
      <4>1. \A h \in Handles : Socket(h) # "open" /\ ~Has(h, "READING")'
        BY <1>6, <2>1, <3>1, <3>2 DEF FlagsInv, Socket, Handles
      <4>2. QED BY <2>1, <3>2, <4>1, LifeAnswered
    <3>3. CASE (Connect \in Existing <=> Connect \in Existing') /\ data' = data
      BY <2>1, <3>3, LifeSame
    <3>4. QED BY <1>8, <3>2, <3>3
  <2>5. QED BY <1>3, <1>4, <1>5, <2>3, <2>4
<1>9. QED BY <1>7, <1>8

(* activecnt does not count reads.                                         *)
LEMMA ReadsNotRegistering ==
    ASSUME NEW h \in Handles, NEW g, NEW X
    PROVE  /\ Registering(g, X \ {Read(h)}) = Registering(g, X)
           /\ Registering(g, X \cup {Read(h)}) = Registering(g, X)
BY Kinds DEF Registering

(* The counters stay right: when no request ends, when a read ends, and    *)
(* when a connect or a write does.                                         *)
LEMMA CountsSame ==
    ASSUME TypeInv, CountsInv, Existing' = Existing,
           \A g \in Handles : /\ Counted(tcp[g], tcp'[g], 0, 0)
                              /\ Registering(g, Waiting') = Registering(g, Waiting)
    PROVE  CountsInv'
<1> SUFFICES ASSUME NEW g \in Handles
             PROVE  /\ tcp'[g].reqs_pending = Cardinality(Of(g, Existing'))
                    /\ Surplus(tcp'[g]) = Cardinality(Registering(g, Waiting'))
  BY DEF CountsInv
<1>1. /\ tcp[g].reqs_pending = Cardinality(Of(g, Existing))
      /\ Surplus(tcp[g]) = Cardinality(Registering(g, Waiting))
  BY DEF CountsInv
<1>2. Cardinality(Of(g, Existing)) \in Nat /\ Cardinality(Registering(g, Waiting)) \in Nat
  BY WaitingTypes, CountAdded, Kinds
<1>3. /\ tcp'[g].reqs_pending = tcp[g].reqs_pending + 0
      /\ Surplus(tcp'[g]) = Surplus(tcp[g]) + 0
  BY DEF Counted
<1>4. QED BY <1>1, <1>2, <1>3

LEMMA CountsLess ==
    ASSUME TypeInv, CountsInv, NEW r \in Existing, Existing' = Existing \ {r},
           \A g \in Handles : /\ Counted(tcp[g], tcp'[g], IF g = HandleOf(r) THEN -1 ELSE 0, 0)
                              /\ Registering(g, Waiting') = Registering(g, Waiting)
    PROVE  CountsInv'
<1> SUFFICES ASSUME NEW g \in Handles
             PROVE  /\ tcp'[g].reqs_pending = Cardinality(Of(g, Existing'))
                    /\ Surplus(tcp'[g]) = Cardinality(Registering(g, Waiting'))
  BY DEF CountsInv
<1>1. /\ tcp[g].reqs_pending = Cardinality(Of(g, Existing))
      /\ Surplus(tcp[g]) = Cardinality(Registering(g, Waiting))
  BY DEF CountsInv
<1>2. /\ Cardinality(Of(g, Existing)) \in Nat
      /\ Cardinality(Of(g, Existing \ {r}))
            = Cardinality(Of(g, Existing)) - (IF HandleOf(r) = g THEN 1 ELSE 0)
  BY WaitingTypes, CountRemoved
<1>3. Cardinality(Registering(g, Waiting)) \in Nat
  BY WaitingTypes, CountAdded, Kinds
<1>4. /\ tcp'[g].reqs_pending = tcp[g].reqs_pending + (IF g = HandleOf(r) THEN -1 ELSE 0)
      /\ Surplus(tcp'[g]) = Surplus(tcp[g]) + 0
  BY DEF Counted
<1>5. QED BY <1>1, <1>2, <1>3, <1>4

LEMMA CountsDone ==
    ASSUME TypeInv, CountsInv, NEW r \in Waiting, r[1] # "read", Waiting' = Waiting \ {r},
           NEW i \in {0, 1}, Existing' = IF i = 1 THEN Existing \ {r} ELSE Existing,
           \A g \in Handles : Counted(tcp[g], tcp'[g], IF g = HandleOf(r) THEN -i ELSE 0,
                                      IF g = HandleOf(r) THEN -1 ELSE 0)
    PROVE  CountsInv'
<1> SUFFICES ASSUME NEW g \in Handles
             PROVE  /\ tcp'[g].reqs_pending = Cardinality(Of(g, Existing'))
                    /\ Surplus(tcp'[g]) = Cardinality(Registering(g, Waiting'))
  BY DEF CountsInv
<1>1. /\ tcp[g].reqs_pending = Cardinality(Of(g, Existing))
      /\ Surplus(tcp[g]) = Cardinality(Registering(g, Waiting))
  BY DEF CountsInv
<1>2. /\ Cardinality(Of(g, Existing)) \in Nat
      /\ Cardinality(Of(g, Existing \ {r}))
            = Cardinality(Of(g, Existing)) - (IF HandleOf(r) = g THEN 1 ELSE 0)
  <2>1. r \in Existing
    BY DEF Existing
  <2>2. QED BY <2>1, WaitingTypes, CountRemoved
<1>3. /\ Cardinality(Registering(g, Waiting)) \in Nat
      /\ Cardinality(Registering(g, Waiting \ {r}))
            = Cardinality(Registering(g, Waiting)) - (IF HandleOf(r) = g THEN 1 ELSE 0)
  BY WaitingTypes, CountRemoved
<1>4. /\ tcp'[g].reqs_pending = tcp[g].reqs_pending + (IF g = HandleOf(r) THEN -i ELSE 0)
      /\ Surplus(tcp'[g]) = Surplus(tcp[g]) + (IF g = HandleOf(r) THEN -1 ELSE 0)
  BY DEF Counted
<1>5. QED BY <1>1, <1>2, <1>3, <1>4

-----------------------------------------------------------------------------
(* Each action keeps the invariant.                                        *)
LEMMA UpdateIs ==
    ASSUME NEW new, Update(new)
    PROVE  tcp' = new /\ Updated
BY DEF Update, Updated

LEMMA NoneUpdated ==
    ASSUME endgames' = endgames, \A h \in Handles : Ended(tcp'[h]) => Ended(tcp[h])
    PROVE  Updated
BY DEF Updated

LEMMA BytesKept ==
    ASSUME BytesInv, UNCHANGED peerVars
    PROVE  BytesInv' /\ passed' = passed
BY DEF BytesInv, peerVars

LEMMA NotedClose ==
    ASSUME TypeInv, closedTwice' = closedTwice \/ NoteClose
    PROVE  closedTwice' \in BOOLEAN
<1>1. CASE closedTwice' = closedTwice
  BY <1>1 DEF TypeInv
<1>2. CASE NoteClose
  BY <1>2 DEF NoteClose
<1>3. QED BY <1>1, <1>2

LEMMA RemoveKeeps ==
    ASSUME UvInv, life = "live", Remove
    PROVE  UvInv' /\ LifeKept
<1> USE DEF UvInv
<1>1. tcp' = BothClosing(tcp) /\ Updated /\ UNCHANGED <<life, loopVars, peerVars>> /\ NoteClose
      /\ data' = Handles
  BY UpdateIs DEF Remove
<1>2. /\ tcp' \in [Handles -> HandleType]
      /\ \A h \in Handles : Shut(tcp[h], tcp'[h]) /\ Counted(tcp[h], tcp'[h], 0, 0)
  BY <1>1, RemoveShuts
<1>3. Waiting' = Waiting /\ Existing' = Existing /\ PlacesInv'
  BY <1>1 DEF loopVars, Waiting, Queued, InProcess, Existing, PlacesInv
<1>4. TypeInv'
  <2>1. endgames' \subseteq Handles
    BY <1>1 DEF Updated, TypeInv
  <2>2. closedTwice' \in BOOLEAN
    BY <1>1, NotedClose
  <2>3. QED BY <1>1, <1>2, <2>1, <2>2 DEF TypeInv, loopVars, peerVars
<1>5. CountsInv'
  BY <1>2, <1>3, CountsSame
<1>6. QED BY <1>1, <1>2, <1>3, <1>4, <1>5, BytesKept, Narrowing

(* The requests move, the handles do not.                                  *)
LEMMA MovesKeep ==
    ASSUME UvInv, life = "live", TypeInv', PlacesInv', Waiting' = Waiting, InProcess' = InProcess,
           UNCHANGED <<life, tcp, data, endgames, peerVars>>
    PROVE  UvInv' /\ LifeKept
<1> USE DEF UvInv
<1>1. Existing' = Existing
  BY DEF Existing
<1>2. \A h \in Handles : Kept(tcp[h], tcp'[h]) /\ Counted(tcp[h], tcp'[h], 0, 0)
  BY HandleFacts, Counting
<1>3. CountsInv'
  BY <1>1, <1>2, CountsSame
<1>4. Updated
  BY NoneUpdated
<1>5. QED BY <1>1, <1>2, <1>3, <1>4, BytesKept, Narrowing

LEMMA LoopKeeps ==
    ASSUME UvInv, life = "live",
           StartPoll \/ EndPoll \/ TakePending \/ \E r \in Requests : Dequeue(r)
    PROVE  UvInv' /\ LifeKept
<1> USE DEF UvInv
<1>1. CASE StartPoll \/ EndPoll
  <2>1. /\ Waiting' = Waiting /\ InProcess' = InProcess
        /\ UNCHANGED <<life, tcp, data, endgames, peerVars>>
    BY <1>1 DEF StartPoll, EndPoll, Waiting, Queued, InProcess
  <2>2. TypeInv'
    BY <1>1 DEF StartPoll, EndPoll, TypeInv, peerVars
  <2>3. PlacesInv'
    BY <1>1, <2>1 DEF StartPoll, EndPoll, PlacesInv, Queued
  <2>4. QED BY <2>1, <2>2, <2>3, MovesKeep
<1>2. CASE TakePending
  <2>1. /\ Waiting' = Waiting /\ InProcess' = InProcess /\ PlacesInv'
        /\ pending' \in Seq(Requests) /\ batch' \in Seq(Requests)
    BY <1>2, PendingTaken
  <2>2. TypeInv' /\ UNCHANGED <<life, tcp, data, endgames, peerVars>>
    BY <1>2, <2>1 DEF TakePending, TypeInv, peerVars
  <2>3. QED BY <2>1, <2>2, MovesKeep
<1>3. ASSUME NEW r \in Requests, Dequeue(r) PROVE UvInv' /\ LifeKept
  <2>1. /\ Waiting' = Waiting /\ InProcess' = InProcess /\ PlacesInv'
        /\ kernel' \in SUBSET Requests /\ failed' \in SUBSET Requests
        /\ pending' \in Seq(Requests)
    BY <1>3, Dequeued
  <2>2. TypeInv' /\ UNCHANGED <<life, tcp, data, endgames, peerVars>>
    BY <1>3, <2>1 DEF Dequeue, TypeInv, peerVars
  <2>3. QED BY <2>1, <2>2, MovesKeep
<1>4. QED BY <1>1, <1>2, <1>3

LEMMA PeerKeeps ==
    ASSUME UvInv, life = "live", NEW h \in Handles, PeerSends(h) \/ PeerLeaves(h)
    PROVE  UvInv' /\ LifeKept
<1> USE DEF UvInv
<1>1. /\ UNCHANGED <<life, tcp, data, endgames, closedTwice, loopVars, passed>>
      /\ Waiting' = Waiting /\ Existing' = Existing
  BY DEF PeerSends, PeerLeaves, loopVars, Waiting, Queued, InProcess, Existing
<1>2. TypeInv'
  <2>1. /\ inbox' \in [Handles -> Nat] /\ sent' \in [Handles -> Nat]
        /\ peer' \in [Handles -> {"open", "ended", "reset"}]
    <3>1. CASE PeerSends(h)
      <4>1. inbox[h] + 1 \in Nat /\ sent[h] + 1 \in Nat
        BY DEF TypeInv
      <4>2. QED BY <3>1, <4>1 DEF PeerSends, TypeInv
    <3>2. CASE PeerLeaves(h)
      BY <3>2 DEF PeerLeaves, TypeInv
    <3>3. QED BY <3>1, <3>2
  <2>2. QED BY <1>1, <2>1 DEF TypeInv, loopVars
<1>3. PlacesInv'
  BY <1>1 DEF PlacesInv, loopVars, Waiting, Queued, InProcess
<1>4. BytesInv'
  <2>1. CASE PeerLeaves(h)
    BY <1>1, <2>1 DEF PeerLeaves, BytesInv
  <2>2. CASE PeerSends(h)
    <3>1. ASSUME NEW g \in Handles
          PROVE  sent'[g] - inbox'[g] = passed'[Other(g)] /\ sent'[g] <= MaxBytes[g]
      <4>1. /\ inbox[g] \in Nat /\ sent[g] \in Nat /\ MaxBytes[g] \in Nat
            /\ sent[g] - inbox[g] = passed[Other(g)] /\ sent[g] <= MaxBytes[g]
        BY UvTcpAssumption DEF TypeInv, BytesInv
      <4>2. CASE g = h
        <5>1. inbox'[g] = inbox[g] + 1 /\ sent'[g] = sent[g] + 1 /\ sent[g] < MaxBytes[g]
              /\ passed' = passed
          BY <2>2, <4>2 DEF PeerSends, TypeInv
        <5>2. QED BY <4>1, <5>1
      <4>3. CASE g # h
        <5>1. inbox'[g] = inbox[g] /\ sent'[g] = sent[g] /\ passed' = passed
          BY <2>2, <4>3 DEF PeerSends, TypeInv
        <5>2. QED BY <4>1, <5>1
      <4>4. QED BY <4>2, <4>3
    <3>2. QED BY <3>1 DEF BytesInv
  <2>3. QED BY <2>1, <2>2
<1>5. \A g \in Handles : Kept(tcp[g], tcp'[g]) /\ Counted(tcp[g], tcp'[g], 0, 0)
  BY <1>1, HandleFacts, Counting
<1>6. CountsInv'
  BY <1>1, <1>5, CountsSame
<1>7. Updated
  BY <1>1, NoneUpdated
<1>8. QED BY <1>1, <1>2, <1>3, <1>4, <1>5, <1>6, <1>7, Narrowing

LEMMA ConnectFailKeeps ==
    ASSUME UvInv, life = "live", ConnectFails
    PROVE  UvInv' /\ LifeKept
<1> USE DEF UvInv
<1>1. /\ tcp' = BothClosing([tcp EXCEPT !["server"].activecnt = @ - 1]) /\ Updated
      /\ UNCHANGED <<life, kernel, pending, phase, peerVars>> /\ NoteClose
      /\ data' = Handles /\ failed' = failed \ {Connect} /\ place' = Connect /\ Process(Connect)
  BY UpdateIs DEF ConnectFails, Connect
<1>2. /\ tcp' \in [Handles -> HandleType]
      /\ \A h \in Handles :
            /\ Shut(tcp[h], tcp'[h])
            /\ Counted(tcp[h], tcp'[h], 0, IF h = "server" THEN -1 ELSE 0)
  BY <1>1, ConnectFailShuts
<1>3. InProcess' = {Connect}
  BY <1>1, PlaceFacts
<1>4. /\ Connect \in Waiting /\ InProcess = {} /\ Waiting' = Waiting \ {Connect}
      /\ batch' \in Seq(Requests) /\ PlacesInv'
  BY <1>1, <1>3, Taken
<1>5. Existing' = Existing
  BY <1>3, <1>4 DEF Existing
<1>6. TypeInv'
  <2>1. endgames' \subseteq Handles /\ failed' \subseteq Requests
    BY <1>1 DEF Updated, TypeInv
  <2>2. closedTwice' \in BOOLEAN
    BY <1>1, NotedClose
  <2>3. QED BY <1>1, <1>2, <1>4, <2>1, <2>2 DEF TypeInv, peerVars
<1>7. CountsInv'
  <2>1. Connect[1] # "read" /\ HandleOf(Connect) = "server"
    BY Kinds
  <2>2. \A g \in Handles : Counted(tcp[g], tcp'[g], IF g = HandleOf(Connect) THEN -0 ELSE 0,
                                   IF g = HandleOf(Connect) THEN -1 ELSE 0)
    BY <1>2, <2>1
  <2>3. QED BY <1>4, <1>5, <2>1, <2>2, CountsDone
<1>8. QED BY <1>1, <1>2, <1>4, <1>5, <1>6, <1>7, BytesKept, Narrowing

LEMMA ReadNoneKeeps ==
    ASSUME UvInv, life = "live", ReadNone
    PROVE  UvInv' /\ LifeKept
<1> USE DEF UvInv
<1> DEFINE u == Done(tcp["server"])
<1>1. /\ tcp' = [tcp EXCEPT !["server"] = u] /\ Updated
      /\ UNCHANGED <<life, closedTwice, kernel, pending, batch, failed, phase, peerVars>>
      /\ data' = Handles /\ place = Connect /\ place' = Idle
      /\ ~Has("client", "READABLE")
  BY UpdateIs DEF ReadNone, Connect
<1>2. "server" \in Handles /\ tcp["server"] \in HandleType
  BY HandleFacts DEF Handles
<1>3. Counted(tcp["server"], u, -1, 0) /\ Kept(tcp["server"], u)
  BY <1>2, Counting
<1> HIDE DEF u
<1>4. /\ tcp' \in [Handles -> HandleType]
      /\ \A h \in Handles : tcp'[h] = IF h = "server" THEN u ELSE tcp[h]
  BY <1>1, <1>3 DEF TypeInv, Counted
<1>5. \A h \in Handles : Kept(tcp[h], tcp'[h])
  BY <1>3, <1>4, HandleFacts, Counting
<1>6. \A h \in Handles : Counted(tcp[h], tcp'[h], IF h = "server" THEN -1 ELSE 0, 0)
  BY <1>3, <1>4, HandleFacts, Counting
<1>7. InProcess = {Connect} /\ InProcess' = {}
  BY <1>1, PlaceFacts
<1>8. Waiting' = Waiting /\ PlacesInv'
  BY <1>1, <1>7, ListsKept
<1>9. Existing' = Existing \ {Connect} /\ Connect \in Existing
  BY <1>7, <1>8 DEF Existing, PlacesInv
<1>10. TypeInv'
  <2>1. endgames' \subseteq Handles
    BY <1>1 DEF Updated, TypeInv
  <2>2. QED BY <1>1, <1>4, <2>1 DEF TypeInv, peerVars
<1>11. CountsInv'
  <2>1. HandleOf(Connect) = "server"
    BY Kinds
  <2>2. QED BY <1>6, <1>8, <1>9, <2>1, CountsLess
<1>12. Has("client", "CLOSING")
  BY <1>1 DEF FlagsInv
<1>13. QED BY <1>1, <1>5, <1>8, <1>9, <1>10, <1>11, <1>12, BytesKept, Narrowing

LEMMA ReadSucceedsKeeps ==
    ASSUME UvInv, life = "live", NEW h \in Handles, ReadSucceeds(h)
    PROVE  UvInv' /\ LifeKept
<1> USE DEF UvInv
<1>1. /\ tcp' = NotPending(h) /\ Process(Read(h))
      /\ UNCHANGED <<life, data, endgames, closedTwice, kernel, pending, failed, phase, peerVars>>
      /\ Read(h) \notin failed /\ place' = <<"loop", h>>
  BY DEF ReadSucceeds
<1>2. /\ tcp' \in [Handles -> HandleType]
      /\ \A g \in Handles : Counted(tcp[g], tcp'[g], 0, 0) /\ Kept(tcp[g], tcp'[g])
  BY <1>1, NotPendingKeeps
<1>3. InProcess' = {Read(h)}
  BY <1>1, PlaceFacts
<1>4. /\ Read(h) \in Waiting /\ InProcess = {} /\ Waiting' = Waiting \ {Read(h)}
      /\ batch' \in Seq(Requests) /\ PlacesInv'
  BY <1>1, <1>3, Taken
<1>5. Existing' = Existing
  BY <1>3, <1>4 DEF Existing
<1>6. TypeInv'
  BY <1>1, <1>2, <1>4 DEF TypeInv, peerVars
<1>7. CountsInv'
  BY <1>2, <1>4, <1>5, ReadsNotRegistering, CountsSame
<1>8. Updated
  <2>1. ASSUME NEW g \in Handles, Ended(tcp'[g]) PROVE Ended(tcp[g])
    <3>1. tcp'[g].reqs_pending = tcp[g].reqs_pending
      BY <1>5, <1>7 DEF CountsInv
    <3>2. QED BY <1>2, <2>1, <3>1 DEF Ended, Kept
  <2>2. QED BY <1>1, <2>1, NoneUpdated
<1>9. Connect \in Waiting <=> Connect \in Waiting'
  BY <1>4, Kinds
<1>10. QED BY <1>1, <1>2, <1>4, <1>5, <1>6, <1>7, <1>8, <1>9, BytesKept, Narrowing

(* A read ends without a callback, or with one that closes both handles.   *)
LEMMA ReadFailKeeps ==
    ASSUME UvInv, life = "live", NEW h \in Handles, ReadFails(h) \/ ReadCancelled(h)
    PROVE  UvInv' /\ LifeKept
<1> USE DEF UvInv
<1>1. /\ Process(Read(h)) /\ failed' = failed \ {Read(h)} /\ Updated
      /\ UNCHANGED <<life, data, kernel, pending, phase, place, peerVars>>
      /\ closedTwice' = closedTwice \/ NoteClose
  BY UpdateIs DEF ReadFails, ReadCancelled
<1>2. /\ tcp' \in [Handles -> HandleType]
      /\ \A g \in Handles : Counted(tcp[g], tcp'[g], IF g = h THEN -1 ELSE 0, 0)
      /\ \/ Has(h, "READING") /\ \A g \in Handles : Shut(tcp[g], tcp'[g])
         \/ \A g \in Handles : Kept(tcp[g], tcp'[g])
  <2>1. CASE ReadFails(h)
    <3>1. tcp' = [BothClosing([NotPending(h) EXCEPT ![h] = Stopped(@)]) EXCEPT ![h] = Done(@)]
      BY <2>1, UpdateIs DEF ReadFails
    <3>2. Has(h, "READING")
      BY <2>1 DEF ReadFails
    <3>3. QED BY <3>1, <3>2, ReadFailShuts
  <2>2. CASE ReadCancelled(h)
    <3> DEFINE t == NotPending(h)[h]
               u == Done(t)
    <3>1. tcp' = [NotPending(h) EXCEPT ![h] = u]
      BY <2>2, UpdateIs DEF ReadCancelled
    <3>2. t \in HandleType /\ Counted(tcp[h], t, 0, 0) /\ Kept(tcp[h], t)
      BY NotPendingKeeps
    <3>3. Counted(t, u, -1, 0) /\ Kept(t, u)
      BY <3>2, Counting
    <3> HIDE DEF t, u
    <3>4. u \in HandleType /\ Kept(tcp[h], u) /\ tcp[h] \in HandleType
      BY <3>2, <3>3, HandleFacts DEF Counted, Kept
    <3>5. Counted(tcp[h], u, -1, 0)
      BY <3>2, <3>3, <3>4, Chained
    <3>6. /\ tcp' \in [Handles -> HandleType]
          /\ \A g \in Handles : tcp'[g] = IF g = h THEN u ELSE NotPending(h)[g]
      BY <3>1, <3>4, NotPendingKeeps
    <3>7. QED BY <3>4, <3>5, <3>6, NotPendingKeeps
  <2>3. QED BY <2>1, <2>2
<1>3. InProcess' = InProcess /\ InProcess = {}
  BY <1>1, PlaceFacts DEF Process, InProcess
<1>4. /\ Read(h) \in Waiting /\ Waiting' = Waiting \ {Read(h)}
      /\ batch' \in Seq(Requests) /\ PlacesInv'
  BY <1>1, <1>3, Taken
<1>5. Existing' = Existing \ {Read(h)} /\ Read(h) \in Existing
  BY <1>3, <1>4 DEF Existing
<1>6. TypeInv'
  <2>1. endgames' \subseteq Handles /\ failed' \subseteq Requests
    BY <1>1 DEF Updated, TypeInv
  <2>2. closedTwice' \in BOOLEAN
    BY <1>1, NotedClose
  <2>3. QED BY <1>1, <1>2, <1>4, <2>1, <2>2 DEF TypeInv, peerVars
<1>7. CountsInv'
  <2>1. HandleOf(Read(h)) = h
    BY Kinds
  <2>2. \A g \in Handles : Registering(g, Waiting') = Registering(g, Waiting)
    BY <1>4, ReadsNotRegistering
  <2>3. QED BY <1>2, <1>5, <2>1, <2>2, CountsLess
<1>8. /\ Connect \in Waiting <=> Connect \in Waiting'
      /\ Connect \in Existing <=> Connect \in Existing'
  BY <1>4, <1>5, Kinds
<1>9. Has(h, "READING") => Has("client", "READING")
  BY DEF FlagsInv, Handles
<1>10. QED BY <1>1, <1>2, <1>4, <1>5, <1>6, <1>7, <1>8, <1>9, BytesKept, Narrowing

(* A read that is being processed finds the end of the connection.         *)
LEMMA ReceiveEndKeeps ==
    ASSUME UvInv, life = "live", NEW h \in Handles,
           ReceiveEnd(h) \/ ReceiveError(h) \/ ReceiveNothing(h)
    PROVE  UvInv' /\ LifeKept
<1> USE DEF UvInv
<1>1. /\ Looping(h) /\ place' = <<"done", h>> /\ Updated /\ NoteClose
      /\ UNCHANGED <<life, data, kernel, pending, batch, failed, phase, peerVars>>
  BY UpdateIs DEF ReceiveEnd, ReceiveError, ReceiveNothing
<1>2. /\ tcp' \in [Handles -> HandleType]
      /\ \A g \in Handles : Shut(tcp[g], tcp'[g]) /\ Counted(tcp[g], tcp'[g], 0, 0)
  <2>1. CASE ReceiveEnd(h)
    <3>1. tcp' = BothClosing(
              [tcp EXCEPT ![h] = Stopped([tcp[h] EXCEPT !.flags = @ \ {"READABLE"}])])
      BY <2>1, UpdateIs DEF ReceiveEnd
    <3>2. QED BY <3>1, ReceiveShuts
  <2>2. CASE ReceiveError(h)
    <3>1. tcp' = BothClosing([tcp EXCEPT ![h] = Stopped(@)])
      BY <2>2, UpdateIs DEF ReceiveError
    <3>2. QED BY <3>1, ReceiveShuts
  <2>3. CASE ReceiveNothing(h)
    <3>1. tcp' = BothClosing(tcp)
      BY <2>3, UpdateIs DEF ReceiveNothing
    <3>2. QED BY <3>1, RemoveShuts
  <2>4. QED BY <2>1, <2>2, <2>3
<1>3. InProcess = {Read(h)} /\ InProcess' = {Read(h)}
  BY <1>1, PlaceFacts DEF Looping
<1>4. phase = "reqs"
  BY <1>1 DEF Looping, PlacesInv, Idle
<1>5. Waiting' = Waiting /\ PlacesInv'
  BY <1>1, <1>3, <1>4, ListsKept
<1>6. Existing' = Existing
  BY <1>3, <1>5 DEF Existing
<1>7. TypeInv'
  <2>1. endgames' \subseteq Handles
    BY <1>1 DEF Updated, TypeInv
  <2>2. closedTwice' \in BOOLEAN
    BY <1>1, NotedClose
  <2>3. QED BY <1>1, <1>2, <2>1, <2>2 DEF TypeInv, peerVars
<1>8. CountsInv'
  BY <1>2, <1>5, <1>6, CountsSame
<1>9. Has("client", "READING")
  BY <1>1 DEF Looping, FlagsInv, Handles
<1>10. QED BY <1>1, <1>2, <1>5, <1>6, <1>7, <1>8, <1>9, BytesKept, Narrowing

LEMMA ReadNoMoreKeeps ==
    ASSUME UvInv, life = "live", NEW h \in Handles, ReadNoMore(h)
    PROVE  UvInv' /\ LifeKept
<1> USE DEF UvInv
<1> DEFINE u == Done(tcp[h])
<1>1. /\ tcp' = [tcp EXCEPT ![h] = u] /\ Updated
      /\ UNCHANGED <<life, data, closedTwice, kernel, pending, batch, failed, phase, peerVars>>
      /\ place \in {<<"loop", h>>, <<"done", h>>} /\ place' = Idle
  BY UpdateIs DEF ReadNoMore
<1>2. tcp[h] \in HandleType
  BY HandleFacts
<1>3. Counted(tcp[h], u, -1, 0) /\ Kept(tcp[h], u)
  BY <1>2, Counting
<1> HIDE DEF u
<1>4. /\ tcp' \in [Handles -> HandleType]
      /\ \A g \in Handles : tcp'[g] = IF g = h THEN u ELSE tcp[g]
  BY <1>1, <1>3 DEF TypeInv, Counted
<1>5. \A g \in Handles : Kept(tcp[g], tcp'[g])
  BY <1>3, <1>4, HandleFacts, Counting
<1>6. \A g \in Handles : Counted(tcp[g], tcp'[g], IF g = h THEN -1 ELSE 0, 0)
  BY <1>3, <1>4, HandleFacts, Counting
<1>7. InProcess = {Read(h)} /\ InProcess' = {}
  BY <1>1, PlaceFacts
<1>8. Waiting' = Waiting /\ PlacesInv'
  BY <1>1, <1>7, ListsKept
<1>9. Existing' = Existing \ {Read(h)} /\ Read(h) \in Existing
  BY <1>7, <1>8 DEF Existing, PlacesInv
<1>10. TypeInv'
  <2>1. endgames' \subseteq Handles
    BY <1>1 DEF Updated, TypeInv
  <2>2. QED BY <1>1, <1>4, <2>1 DEF TypeInv, peerVars
<1>11. CountsInv'
  <2>1. HandleOf(Read(h)) = h
    BY Kinds
  <2>2. QED BY <1>6, <1>8, <1>9, <2>1, CountsLess
<1>12. Connect \in Existing <=> Connect \in Existing'
  BY <1>9, Kinds
<1>13. QED BY <1>1, <1>5, <1>8, <1>9, <1>10, <1>11, <1>12, BytesKept, Narrowing

LEMMA WrittenKeeps ==
    ASSUME UvInv, life = "live", NEW h \in Handles, NEW n \in Nat, Written(h, n)
    PROVE  UvInv' /\ LifeKept
<1> USE DEF UvInv
<1> DEFINE r == Write(h, n)
           t == [tcp[h] EXCEPT !.activecnt = @ - 1]
           u == Done(t)
<1>1. /\ tcp' = [tcp EXCEPT ![h] = u] /\ Updated /\ Process(r)
      /\ UNCHANGED <<life, data, closedTwice, kernel, pending, failed, phase, place, peerVars>>
  BY UpdateIs DEF Written
<1>2. tcp[h] \in HandleType
  BY HandleFacts
<1>3. t \in HandleType /\ Counted(tcp[h], t, 0, -1) /\ Kept(tcp[h], t)
  BY <1>2, Counting DEF Counted
<1>4. Counted(t, u, -1, 0) /\ Kept(t, u)
  BY <1>3, Counting
<1> HIDE DEF t, u, r
<1>5. u \in HandleType /\ Counted(tcp[h], u, -1, -1) /\ Kept(tcp[h], u)
  <2>1. tcp[h].reqs_pending \in Int /\ Surplus(tcp[h]) \in Int
    BY <1>2 DEF HandleType, Surplus
  <2>2. QED BY <1>3, <1>4, <2>1 DEF Counted, Kept
<1>6. /\ tcp' \in [Handles -> HandleType]
      /\ \A g \in Handles : tcp'[g] = IF g = h THEN u ELSE tcp[g]
  BY <1>1, <1>5 DEF TypeInv
<1>7. \A g \in Handles : Kept(tcp[g], tcp'[g])
  BY <1>5, <1>6, HandleFacts, Counting
<1>8. \A g \in Handles : Counted(tcp[g], tcp'[g], IF g = h THEN -1 ELSE 0, IF g = h THEN -1 ELSE 0)
  BY <1>5, <1>6, HandleFacts, Counting
<1>9. InProcess' = InProcess /\ InProcess = {} /\ r \notin failed
  <2>1. InProcess' = InProcess /\ InProcess = {}
    BY <1>1, PlaceFacts DEF Process, InProcess
  <2>2. r[1] = "write"
    BY Kinds DEF r
  <2>3. QED BY <2>1, <2>2 DEF PlacesInv
<1>10. /\ r \in Waiting /\ Waiting' = Waiting \ {r} /\ batch' \in Seq(Requests) /\ PlacesInv'
  BY <1>1, <1>9, Taken
<1>11. Existing' = Existing \ {r}
  BY <1>9, <1>10 DEF Existing
<1>12. TypeInv'
  <2>1. endgames' \subseteq Handles
    BY <1>1 DEF Updated, TypeInv
  <2>2. QED BY <1>1, <1>6, <1>10, <2>1 DEF TypeInv, peerVars
<1>13. HandleOf(r) = h /\ r[1] # "read" /\ r # Connect
  BY Kinds DEF r
<1>14. CountsInv'
  <2>1. 1 \in {0, 1} /\ Existing' = IF 1 = 1 THEN Existing \ {r} ELSE Existing
    BY <1>11
  <2>2. \A g \in Handles : Counted(tcp[g], tcp'[g], IF g = HandleOf(r) THEN -1 ELSE 0,
                                   IF g = HandleOf(r) THEN -1 ELSE 0)
    BY <1>8, <1>13
  <2>3. QED BY <1>10, <1>13, <2>1, <2>2, CountsDone
<1>15. /\ Connect \in Waiting <=> Connect \in Waiting'
       /\ Connect \in Existing <=> Connect \in Existing'
  BY <1>10, <1>11, <1>13
<1>16. QED BY <1>1, <1>7, <1>10, <1>11, <1>12, <1>14, <1>15, BytesKept, Narrowing

(* A read request is submitted.                                            *)
LEMMA Queueing ==
    ASSUME NEW t \in HandleType, NEW way
    PROVE  Counted(t, QueuedRead(t, way), 1, 0) /\ Kept(t, QueuedRead(t, way))
<1> DEFINE s == Submitted(t)
<1>1. s \in HandleType /\ Counted(t, s, 1, 0) /\ Kept(t, s)
  BY Counting DEF Counted
<1>2. CASE way = "error"
  BY <1>1, <1>2 DEF QueuedRead
<1>3. CASE way # "error"
  <2> DEFINE u == [s EXCEPT !.flags = @ \cup {"READ_PENDING"}]
  <2>1. QueuedRead(t, way) = u
    BY <1>3 DEF QueuedRead
  <2> HIDE DEF s
  <2>2. s.flags \in SUBSET Flags /\ s.reqs_pending \in Int /\ s.activecnt \in Int
    BY <1>1 DEF HandleType
  <2>3. s.flags \cup {"READ_PENDING"} \in SUBSET Flags
    BY <2>2 DEF Flags
  <2>4. /\ u \in HandleType /\ u.flags = s.flags \cup {"READ_PENDING"}
        /\ u.reqs_pending = s.reqs_pending /\ u.activecnt = s.activecnt
    BY <1>1, <2>2, <2>3 DEF HandleType
  <2>5. QED BY <1>1, <2>1, <2>2, <2>4 DEF Counted, Kept, Surplus
<1>4. QED BY <1>2, <1>3

LEMMA DoneQueued ==
    ASSUME NEW t \in HandleType, NEW u \in HandleType, NEW i \in Int, Counted(t, u, i, 0)
    PROVE  Counted(t, Done(u), i - 1, 0) /\ Kept(u, Done(u))
<1>1. Counted(u, Done(u), -1, 0) /\ Kept(u, Done(u))
  BY Counting
<1>2. t.reqs_pending \in Int /\ Surplus(t) \in Int
  BY DEF HandleType, Surplus
<1>3. QED BY <1>1, <1>2 DEF Counted

LEMMA ReadAgainKeeps ==
    ASSUME UvInv, life = "live", NEW h \in Handles, ReadAgain(h)
    PROVE  UvInv' /\ LifeKept
<1> USE DEF UvInv
<1>1. PICK way : /\ QueueReads({h}, [g \in {h} |-> way])
                 /\ tcp' = [tcp EXCEPT ![h] = Done(QueuedRead(@, way))]
  BY DEF ReadAgain
<1>2. /\ UNCHANGED <<life, data, endgames, closedTwice, batch, phase, peerVars>>
      /\ place = <<"done", h>> /\ Has(h, "READING") /\ place' = Idle
  BY DEF ReadAgain
<1> DEFINE u == QueuedRead(tcp[h], way)
           v == Done(u)
<1>3. tcp' = [tcp EXCEPT ![h] = v] /\ tcp[h] \in HandleType
  BY <1>1, HandleFacts
<1>4. u \in HandleType /\ Counted(tcp[h], u, 1, 0) /\ Kept(tcp[h], u)
  BY <1>3, Queueing DEF Counted
<1> HIDE DEF u
<1>5. Counted(tcp[h], v, 1 - 1, 0) /\ Kept(u, v)
  BY <1>3, <1>4, DoneQueued
<1>6. Counted(tcp[h], v, 0, 0) /\ Kept(tcp[h], v) /\ v \in HandleType
  BY <1>4, <1>5 DEF Counted, Kept
<1> HIDE DEF v
<1>7. /\ tcp' \in [Handles -> HandleType]
      /\ \A g \in Handles : tcp'[g] = IF g = h THEN v ELSE tcp[g]
  BY <1>3, <1>6 DEF TypeInv
<1>8. \A g \in Handles : Kept(tcp[g], tcp'[g]) /\ Counted(tcp[g], tcp'[g], 0, 0)
  BY <1>6, <1>7, HandleFacts, Counting
<1>9. InProcess = {Read(h)}
  BY <1>2, PlaceFacts
<1>10. \A g \in {h} : Read(g) \notin Waiting
  BY <1>9 DEF PlacesInv
<1>11. /\ Waiting' = Waiting \cup {Read(g) : g \in {h}} /\ InProcess' = {} /\ PlacesInv'
       /\ kernel' \in SUBSET Requests /\ failed' \in SUBSET Requests
       /\ pending' \in Seq(Requests)
  <2>1. {h} \in SUBSET Handles /\ QueueReads({h}, [g \in {h} |-> way])
    BY <1>1
  <2>2. batch' = batch /\ phase' = phase /\ place' = Idle
    BY <1>2
  <2>3. QED BY <1>10, <2>1, <2>2, ReadsPut
<1>12. Waiting' = Waiting \cup {Read(h)} /\ Existing' = Existing
  BY <1>9, <1>11 DEF Existing
<1>13. TypeInv'
  BY <1>2, <1>7, <1>11 DEF TypeInv, peerVars
<1>14. CountsInv'
  BY <1>8, <1>12, ReadsNotRegistering, CountsSame
<1>15. Updated
  <2>1. \A g \in Handles : "CLOSING" \notin tcp[g].flags
    BY <1>2 DEF FlagsInv, Has, Handles
  <2>2. QED BY <1>2, <1>8, <2>1, NoneUpdated DEF Kept, Ended
<1>16. Connect \in Waiting <=> Connect \in Waiting'
  BY <1>12, Kinds
<1>17. QED BY <1>2, <1>8, <1>11, <1>12, <1>13, <1>14, <1>15, <1>16, BytesKept, Narrowing

(* The actions that open the handles, start reading, pass bytes on, or     *)
(* finish a handle.                                                        *)
LEMMA EndsOfOpen ==
    ASSUME EndsInv, FlagsInv, endgames' = endgames,
           \A h \in Handles : /\ Ended(tcp'[h]) <=> Ended(tcp[h])
                              /\ "CLOSED" \in tcp'[h].flags <=> "CLOSED" \in tcp[h].flags
    PROVE  EndsInv'
BY DEF EndsInv, Has

LEMMA AcceptKeeps ==
    ASSUME UvInv, Accept
    PROVE  UvInv' /\ LifeKept
<1> USE DEF UvInv
<1>1. /\ tcp = [h \in Handles |-> [flags |-> {}, reqs_pending |-> 0, activecnt |-> 0]]
      /\ data = {} /\ kernel = {} /\ pending = <<>> /\ batch = <<>> /\ failed = {}
      /\ endgames = {} /\ phase = "reqs" /\ place = Idle
  BY DEF Accept, LifeInv, UvInit
<1>2. /\ life' = "live"
      /\ tcp' = [tcp EXCEPT !["client"] = Accepted(@), !["server"] = Registered(@)]
      /\ UNCHANGED <<data, endgames, closedTwice, batch, failed, phase, place, peerVars>>
      /\ \/ kernel' = {Connect} /\ pending' = pending
         \/ pending' = <<Connect>> /\ kernel' = kernel
  BY DEF Accept
<1>3. /\ tcp'["client"] = [flags |-> {"CONNECTION", "READABLE", "WRITABLE"},
                           reqs_pending |-> 0, activecnt |-> 0]
      /\ tcp'["server"] = [flags |-> {}, reqs_pending |-> 1, activecnt |-> 1]
      /\ tcp' \in [Handles -> HandleType]
  <2> DEFINE zero == [flags |-> {}, reqs_pending |-> 0, activecnt |-> 0]
             c == Accepted(zero)
             s == Registered(zero)
  <2>1. c = [flags |-> {"CONNECTION", "READABLE", "WRITABLE"}, reqs_pending |-> 0, activecnt |-> 0]
    BY DEF Accepted
  <2>2. s = [flags |-> {}, reqs_pending |-> 1, activecnt |-> 1]
    <3>1. s = [zero EXCEPT !.reqs_pending = zero.reqs_pending + 1,
                           !.activecnt = zero.activecnt + 1]
      BY Zenon DEF Registered
    <3>2. zero.reqs_pending + 1 = 1 /\ zero.activecnt + 1 = 1
      OBVIOUS
    <3>3. s = [zero EXCEPT !.reqs_pending = 1, !.activecnt = 1]
      BY <3>1, <3>2, Zenon
    <3>4. QED BY <3>3
  <2>3. c \in HandleType /\ s \in HandleType
    BY <2>1, <2>2 DEF HandleType, Flags
  <2>4. tcp' = [h \in Handles |-> IF h = "client" THEN c ELSE s]
    BY <1>1, <1>2 DEF Handles
  <2> HIDE DEF c, s
  <2>5. tcp'["client"] = c /\ tcp'["server"] = s
    BY <2>4 DEF Handles
  <2>6. QED BY <2>1, <2>2, <2>3, <2>4, <2>5
<1>4. Waiting = {} /\ InProcess = {}
  BY <1>1, ElementsEmpty, WaitingTypes, PlaceFacts DEF Waiting
<1>5. InProcess' = {}
  BY <1>1, <1>2, PlaceFacts
<1>6. /\ Waiting' = Waiting \cup {Connect} /\ PlacesInv'
      /\ kernel' \in SUBSET Requests /\ pending' \in Seq(Requests)
  <2>1. Append(pending, Connect) = <<Connect>> /\ kernel \cup {Connect} = {Connect}
    BY <1>1
  <2>2. \/ kernel' = kernel \cup {Connect} /\ pending' = pending
        \/ pending' = Append(pending, Connect) /\ kernel' = kernel
    BY <1>2, <2>1
  <2>3. /\ Connect \in Requests /\ Connect \notin Waiting
        /\ InProcess' \cap (Waiting \cup {Connect}) = {}
    BY <1>4, <1>5, Kinds
  <2>4. batch' = batch /\ phase' = phase /\ failed' = failed /\ place' = Idle
    BY <1>1, <1>2
  <2>5. QED BY <2>2, <2>3, <2>4, Put
<1>7. Waiting' = {Connect} /\ Existing' = {Connect}
  BY <1>4, <1>5, <1>6 DEF Existing
<1>8. TypeInv'
  BY <1>2, <1>3, <1>6 DEF TypeInv, peerVars
<1>9. RequestsInv'
  BY <1>7, Kinds DEF RequestsInv
<1>10. FlagsInv'
  BY <1>2, <1>3, <1>7 DEF FlagsInv, Has, Handles
<1>11. CountsInv'
  <2>1. /\ Of("client", {Connect}) = {} /\ Of("server", {Connect}) = {Connect}
        /\ Registering("client", {Connect}) = {} /\ Registering("server", {Connect}) = {Connect}
    BY Kinds DEF Of, Registering
  <2>2. Cardinality({}) = 0 /\ Cardinality({Connect}) = 1
    BY FS_EmptySet, FS_Singleton
  <2>3. Surplus(tcp'["client"]) = 0 /\ Surplus(tcp'["server"]) = 1
    BY <1>3 DEF Surplus
  <2>4. QED BY <1>3, <1>7, <2>1, <2>2, <2>3 DEF CountsInv, Handles
<1>12. EndsInv'
  BY <1>1, <1>2, <1>3 DEF EndsInv, Ended, Has, Handles
<1>13. LifeInv'
  BY <1>1, <1>2 DEF LifeInv
<1>14. LifeKept
  <2>1. Socket("client")' = "open" /\ Socket("server")' = "open"
    BY <1>2, <1>3 DEF Socket, Has
  <2>2. Socket("client") = "none" /\ life = "unused"
    BY DEF Accept, Socket
  <2>3. /\ ~(Has("client", "READING") /\ Has("server", "READING"))
        /\ ~(Has("client", "READING")' /\ Has("server", "READING")')
    BY <1>1, <1>3 DEF Has, Handles
  <2>4. (life = "live" /\ Connect \in kernel \cup Queued \cup InProcess)'
    BY <1>2, <1>7 DEF Existing, Waiting
  <2>5. Life!Accepted
    BY <1>2, <2>1, <2>2, <2>3, <2>4 DEF Life!Accepted
  <2>6. QED BY <2>5 DEF LifeKept, Life!LifeNext
<1>15. QED BY <1>2, <1>6, <1>8, <1>9, <1>10, <1>11, <1>12, <1>13, <1>14, BytesKept

LEMMA ConnectedKeeps ==
    ASSUME UvInv, life = "live", Connected
    PROVE  UvInv' /\ LifeKept
<1> USE DEF UvInv
<1> DEFINE t == tcp["server"]
           s == [t EXCEPT !.flags = @ \cup {"CONNECTION", "READABLE", "WRITABLE"}]
           u == [s EXCEPT !.activecnt = @ - 1]
<1>1. /\ Process(Connect) /\ Connect \notin failed /\ ~Has("server", "CLOSING")
      /\ place' = Connect
      /\ UNCHANGED <<life, data, endgames, closedTwice, kernel, pending, failed, phase, peerVars>>
  BY DEF Connected, Connect
<1>2. t \in HandleType /\ Quiet(t)
  BY HandleFacts DEF Handles
<1>3. /\ s \in HandleType /\ s.flags = t.flags \cup {"CONNECTION", "READABLE", "WRITABLE"}
      /\ s.reqs_pending = t.reqs_pending /\ s.activecnt = t.activecnt
  <2>1. t.flags \cup {"CONNECTION", "READABLE", "WRITABLE"} \in SUBSET Flags
    BY <1>2 DEF HandleType, Flags
  <2>2. QED BY <1>2, <2>1 DEF HandleType
<1>4. tcp' = [tcp EXCEPT !["server"] = u]
  <2>1. tcp' = [tcp EXCEPT
            !["server"].flags = @ \cup {"CONNECTION", "READABLE", "WRITABLE"},
            !["server"].activecnt = @ - 1]
    BY DEF Connected
  <2>2. [tcp EXCEPT !["server"] = s] \in [Handles -> HandleType]
    BY <1>3 DEF TypeInv
  <2>3. tcp' = [[tcp EXCEPT !["server"] = s] EXCEPT !["server"].activecnt = @ - 1]
    BY <2>1
  <2> HIDE DEF s
  <2>4. QED BY <2>2, <2>3 DEF TypeInv, Handles
<1> HIDE DEF s
<1>5. Counted(s, u, 0, -1) /\ Kept(s, u)
  BY <1>3, Counting
<1> HIDE DEF u
<1>6. u \in HandleType /\ Counted(t, u, 0, -1)
  <2>1. t.reqs_pending \in Int /\ Surplus(t) \in Int /\ Surplus(s) = Surplus(t)
    BY <1>2, <1>3 DEF HandleType, Surplus
  <2>2. QED BY <1>3, <1>5, <2>1 DEF Counted
<1>7. /\ tcp' \in [Handles -> HandleType]
      /\ \A h \in Handles : tcp'[h] = IF h = "server" THEN u ELSE tcp[h]
  BY <1>4, <1>6 DEF TypeInv
<1>8. \A h \in Handles : Counted(tcp[h], tcp'[h], 0, IF h = "server" THEN -1 ELSE 0)
  BY <1>6, <1>7, HandleFacts, Counting
<1>9. InProcess' = {Connect}
  BY <1>1, PlaceFacts
<1>10. /\ Connect \in Waiting /\ InProcess = {} /\ Waiting' = Waiting \ {Connect}
       /\ batch' \in Seq(Requests) /\ PlacesInv'
  BY <1>1, <1>9, Taken
<1>11. Existing' = Existing /\ Connect \in Existing
  BY <1>9, <1>10 DEF Existing
<1>12. TypeInv'
  BY <1>1, <1>7, <1>10 DEF TypeInv, peerVars
<1>13. CountsInv'
  <2>1. Connect[1] # "read" /\ HandleOf(Connect) = "server"
    BY Kinds
  <2>2. \A g \in Handles : Counted(tcp[g], tcp'[g], IF g = HandleOf(Connect) THEN -0 ELSE 0,
                                   IF g = HandleOf(Connect) THEN -1 ELSE 0)
    BY <1>8, <2>1
  <2>3. QED BY <1>10, <1>11, <2>1, <2>2, CountsDone
<1>14. "client" \in Handles /\ "server" \in Handles /\ tcp'["client"] = tcp["client"]
       /\ tcp'["server"] = u
  BY <1>7 DEF Handles
<1>15. /\ "READABLE" \in u.flags /\ "WRITABLE" \in u.flags
       /\ "CLOSING" \notin u.flags /\ "CLOSING" \notin t.flags
       /\ "READING" \in u.flags <=> "READING" \in t.flags
       /\ "CLOSED" \in u.flags <=> "CLOSED" \in t.flags
  BY <1>1, <1>3, <1>5 DEF Kept, Has
<1>16. FlagsInv'
  <2>1. "CLOSED" \notin u.flags
    BY <1>15 DEF FlagsInv, Has, Ended, Handles
  <2>2. "READING" \notin u.flags /\ "READING" \notin tcp["client"].flags
    BY <1>11, <1>14, <1>15 DEF FlagsInv, Has
  <2>3. "CLOSED" \in tcp["client"].flags => Ended(tcp["client"])
    BY <1>14 DEF FlagsInv, Has
  <2>4. "CLOSING" \notin tcp["client"].flags
    BY <1>1 DEF FlagsInv, Has
  <2>5. Has("client", "READABLE") /\ Has("client", "WRITABLE")
    BY <2>4 DEF FlagsInv, Has
  <2>6. QED BY <1>11, <1>14, <1>15, <2>1, <2>2, <2>3, <2>4, <2>5 DEF FlagsInv, Has, Handles
<1>17. EndsInv'
  BY <1>1, <1>14, <1>15, EndsOfOpen DEF Ended, Handles
<1>18. RequestsInv'
  BY <1>1, <1>10, <1>11, BytesKept DEF RequestsInv
<1>19. LifeInv'
  BY <1>1, <1>14, <1>15 DEF LifeInv, Has, Handles
<1>20. LifeKept
  <2>1. \A h \in Handles : /\ Has(h, "CLOSING")' <=> Has(h, "CLOSING")
                           /\ Has(h, "CLOSED")' <=> Has(h, "CLOSED")
                           /\ Has(h, "READING")' <=> Has(h, "READING")
    BY <1>14, <1>15 DEF Has, Handles
  <2>2. QED BY <1>1, <1>11, <2>1, LifeSame
<1>21. QED BY <1>1, <1>10, <1>12, <1>13, <1>16, <1>17, <1>18, <1>19, <1>20, BytesKept

LEMMA EndgameKeeps ==
    ASSUME UvInv, life = "live", NEW h \in Handles, Endgame(h)
    PROVE  UvInv' /\ LifeKept
<1> USE DEF UvInv
<1> DEFINE t == tcp[h]
           u == [t EXCEPT !.flags = @ \cup {"CLOSED"}]
<1>1. /\ h \in endgames /\ endgames' = endgames \ {h} /\ data' = data \ {h}
      /\ life' = (IF h \in data /\ data' = {} THEN "freed" ELSE life)
      /\ UNCHANGED <<closedTwice, loopVars, peerVars>>
  BY DEF Endgame
<1>2. t \in HandleType
  BY HandleFacts
<1>3. /\ u \in HandleType /\ u.flags = t.flags \cup {"CLOSED"}
      /\ u.reqs_pending = t.reqs_pending /\ u.activecnt = t.activecnt
  <2>1. t.flags \cup {"CLOSED"} \in SUBSET Flags
    BY <1>2 DEF HandleType, Flags
  <2>2. QED BY <1>2, <2>1 DEF HandleType
<1>4. tcp' = [tcp EXCEPT ![h] = u]
  BY DEF Endgame, TypeInv
<1> HIDE DEF u
<1>5. /\ tcp' \in [Handles -> HandleType]
      /\ \A g \in Handles : tcp'[g] = IF g = h THEN u ELSE tcp[g]
  BY <1>3, <1>4 DEF TypeInv
<1>6. Counted(t, u, 0, 0)
  BY <1>2, <1>3 DEF Counted, Surplus, HandleType
<1>7. \A g \in Handles : Counted(tcp[g], tcp'[g], 0, 0)
  BY <1>5, <1>6, HandleFacts, Counting
<1>8. Waiting' = Waiting /\ Existing' = Existing /\ PlacesInv'
  BY <1>1 DEF loopVars, Waiting, Queued, InProcess, Existing, PlacesInv
<1>9. TypeInv'
  <2>1. life' \in {"unused", "live", "freed"}
    BY <1>1 DEF TypeInv
  <2>2. QED BY <1>1, <1>5, <2>1 DEF TypeInv, loopVars, peerVars
<1>10. CountsInv'
  BY <1>7, <1>8, CountsSame
<1>11. Ended(t) /\ Ended(u) /\ Has(h, "CLOSING")
  BY <1>1, <1>3 DEF EndsInv, Ended, Has
<1>12. ASSUME NEW g \in Handles
       PROVE  /\ Has(g, "CLOSING")' <=> Has(g, "CLOSING")
              /\ Has(g, "READING")' <=> Has(g, "READING")
              /\ Has(g, "READABLE")' <=> Has(g, "READABLE")
              /\ Has(g, "WRITABLE")' <=> Has(g, "WRITABLE")
              /\ Has(g, "CLOSED")' <=> (g = h \/ Has(g, "CLOSED"))
              /\ Ended(tcp'[g]) <=> Ended(tcp[g])
  <2>1. CASE g = h
    BY <1>3, <1>5, <1>11, <2>1 DEF Has
  <2>2. CASE g # h
    BY <1>5, <2>2 DEF Has
  <2>3. QED BY <2>1, <2>2
<1>13. "client" \in Handles /\ "server" \in Handles /\ Has("client", "CLOSING")
  BY <1>11 DEF FlagsInv, Handles
<1>14. FlagsInv'
  <2>1. /\ Has("client", "CLOSING")' /\ (Has("client", "CLOSING")' <=> Has("server", "CLOSING")')
        /\ Has("client", "READING")' <=> Has("server", "READING")'
    BY <1>12, <1>13 DEF FlagsInv
  <2>2. ASSUME NEW g \in Handles
        PROVE  /\ Has(g, "CLOSING")' =>
                     ~Has(g, "READABLE")' /\ ~Has(g, "WRITABLE")' /\ ~Has(g, "READING")'
               /\ Has(g, "CLOSED")' => Ended(tcp'[g])
               /\ Has(g, "READING")' => Connect \notin Existing'
    BY <1>8, <1>11, <1>12 DEF FlagsInv
  <2>3. QED BY <2>1, <2>2 DEF FlagsInv
<1>15. EndsInv'
  BY <1>1, <1>12 DEF EndsInv
<1>16. RequestsInv' /\ BytesInv'
  BY <1>1, <1>8, BytesKept DEF RequestsInv
<1>17. LifeInv'
  <2>1. ASSUME NEW g \in Handles, data' # {} \/ life' = "freed", g \notin data'
        PROVE  Has(g, "CLOSED")'
    BY <1>1, <1>12, <2>1 DEF LifeInv
  <2>2. life' # "unused" /\ (life' = "freed" => data' = {})
    BY <1>1
  <2>3. QED BY <2>1, <2>2 DEF LifeInv
<1>18. /\ Socket(h) = "closing" /\ ~Has("client", "READING") /\ ~Has("client", "READING")'
       /\ \A g \in Handles : Socket(g) \in {"closing", "closed"}
  BY <1>1, <1>12, <1>13 DEF EndsInv, FlagsInv, Socket, Handles
<1>19. Ended(tcp["server"]) => Connect \notin Existing
  <2>1. HandleOf(Connect) = "server" /\ Existing \in SUBSET Requests
    BY Kinds, WaitingTypes
  <2>2. ASSUME Ended(tcp["server"]) PROVE Of("server", Existing) = {}
    <3>1. Cardinality(Of("server", Existing)) = 0
      BY <1>13, <2>2 DEF Ended, CountsInv
    <3>2. QED BY <2>1, <3>1, OfFinite
  <2>3. QED BY <2>1, <2>2 DEF Of
<1>20. LifeKept
  <2>1. CASE life' = life
    <3>1. \A g \in Handles : Socket(g)' = IF g = h THEN "closed" ELSE Socket(g)
      BY <1>12, <2>1 DEF Socket
    <3>2. CASE h = "client"
      <4>1. /\ Socket("client")' = "closed" /\ Socket("server")' = Socket("server")
            /\ "client" \notin data' /\ ("server" \in data' <=> "server" \in data)
        BY <1>1, <1>13, <3>1, <3>2
      <4>2. Life!ClientClosed
        BY <1>8, <1>18, <2>1, <3>2, <4>1 DEF Life!ClientClosed, Existing, Waiting
      <4>3. QED BY <4>2 DEF LifeKept, Life!LifeNext
    <3>3. CASE h = "server"
      <4>1. /\ Socket("server")' = "closed" /\ Socket("client")' = Socket("client")
            /\ "server" \notin data' /\ ("client" \in data' <=> "client" \in data)
        BY <1>1, <1>13, <3>1, <3>3
      <4>2. Connect \notin Existing
        BY <1>11, <1>19, <3>3
      <4>3. Life!ServerClosed
        BY <1>8, <1>18, <2>1, <3>3, <4>1, <4>2 DEF Life!ServerClosed, Existing, Waiting
      <4>4. QED BY <4>3 DEF LifeKept, Life!LifeNext
    <3>4. QED BY <3>2, <3>3 DEF Handles
  <2>2. CASE life' # life
    <3>1. life' = "freed" /\ data = {h} /\ data' = {}
      BY <1>1, <2>2
    <3>2. ASSUME NEW g \in Handles, g # h PROVE Has(g, "CLOSED") /\ Ended(tcp[g])
      BY <3>1, <3>2 DEF LifeInv, FlagsInv
    <3>3. Connect \notin Existing
      BY <1>11, <1>13, <1>19, <3>2
    <3>4. \A g \in Handles : g # h => Socket(g) = "closed" /\ g \notin data
      BY <3>1, <3>2 DEF Socket
    <3>5. Life!Emptied
      BY <1>18, <3>1 DEF Life!Emptied, Socket
    <3>6. Life!Deleted
      <4>1. CASE h = "client"
        <5>1. Socket("client") = "closing" /\ Socket("server") = "closed" /\ "server" \notin data
          BY <1>13, <1>18, <3>4, <4>1
        <5>2. QED BY <3>3, <3>5, <5>1 DEF Life!Deleted, Existing, Waiting
      <4>2. CASE h = "server"
        <5>1. Socket("server") = "closing" /\ Socket("client") = "closed" /\ "client" \notin data
          BY <1>13, <1>18, <3>4, <4>2
        <5>2. QED BY <3>3, <3>5, <5>1 DEF Life!Deleted, Existing, Waiting
      <4>3. QED BY <4>1, <4>2 DEF Handles
    <3>7. QED BY <3>6 DEF LifeKept, Life!LifeNext
  <2>3. QED BY <2>1, <2>2
<1>21. QED BY <1>8, <1>9, <1>10, <1>14, <1>15, <1>16, <1>17, <1>20

LEMMA Started ==
    ASSUME NEW t \in HandleType, "READING" \notin t.flags, NEW way
    PROVE  LET u == QueuedRead([t EXCEPT !.flags = @ \cup {"READING"},
                                         !.activecnt = @ + 1], way)
           IN  /\ Counted(t, u, 1, 0) /\ "READING" \in u.flags
               /\ \A flag \in {"READABLE", "WRITABLE", "CLOSING", "CLOSED"} :
                     flag \in u.flags <=> flag \in t.flags
<1> DEFINE f == t.flags \cup {"READING"}
           k == t.activecnt + 1
           s == [t EXCEPT !.flags = f, !.activecnt = k]
           u == QueuedRead(s, way)
<1>1. t.flags \in SUBSET Flags /\ t.reqs_pending \in Int /\ t.activecnt \in Int
  BY DEF HandleType
<1>2. [t EXCEPT !.flags = @ \cup {"READING"}, !.activecnt = @ + 1] = s
  BY DEF HandleType
<1>3. f \in SUBSET Flags /\ k \in Int
  BY <1>1 DEF Flags
<1> HIDE DEF f, k
<1>4. s \in HandleType /\ s.flags = f /\ s.reqs_pending = t.reqs_pending /\ s.activecnt = k
  BY <1>1, <1>3 DEF HandleType
<1> HIDE DEF s
<1>5. Surplus(s) = Surplus(t) /\ Surplus(t) \in Int
  BY <1>1, <1>4 DEF Surplus, f, k
<1>6. Counted(s, u, 1, 0) /\ Kept(s, u)
  BY <1>4, Queueing
<1> HIDE DEF u
<1>7. Counted(t, u, 1, 0)
  BY <1>1, <1>4, <1>5, <1>6 DEF Counted
<1>8. /\ "READING" \in u.flags
      /\ \A flag \in {"READABLE", "WRITABLE", "CLOSING", "CLOSED"} :
            flag \in u.flags <=> flag \in t.flags
  BY <1>4, <1>6 DEF Kept, f
<1>9. QED BY <1>2, <1>7, <1>8 DEF u

LEMMA ReadBothKeeps ==
    ASSUME UvInv, life = "live", ReadBoth
    PROVE  UvInv' /\ LifeKept
<1> USE DEF UvInv
<1>1. PICK way \in [Handles -> {"kernel", "now", "error"}] :
          /\ QueueReads(Handles, way)
          /\ tcp' = [h \in Handles |->
                IF h = "server" THEN Done(StartReading(h, way[h])) ELSE StartReading(h, way[h])]
  BY DEF ReadBoth
<1>2. /\ place = Connect /\ place' = Idle /\ data' = Handles
      /\ \A h \in Handles : Has(h, "READABLE")
      /\ UNCHANGED <<life, endgames, closedTwice, batch, phase, peerVars>>
  BY DEF ReadBoth, Connect
<1>3. /\ InProcess = {Connect} /\ Existing = {Connect} /\ Waiting = {}
  <2>1. InProcess = {Connect}
    BY <1>2, PlaceFacts
  <2>2. Existing = {Connect}
    BY <2>1 DEF RequestsInv, Existing
  <2>3. QED BY <2>1, <2>2 DEF PlacesInv, Existing
<1>4. \A h \in Handles : ~Has(h, "READING") /\ ~Has(h, "CLOSING")
  BY <1>2, <1>3 DEF FlagsInv
<1>5. ASSUME NEW h \in Handles
      PROVE  /\ Counted(tcp[h], tcp'[h], IF h = "server" THEN 0 ELSE 1, 0)
             /\ "READING" \in tcp'[h].flags
             /\ \A flag \in {"READABLE", "WRITABLE", "CLOSING", "CLOSED"} :
                   flag \in tcp'[h].flags <=> flag \in tcp[h].flags
  <2> DEFINE t == tcp[h]
             u == StartReading(h, way[h])
  <2>1. t \in HandleType /\ "READING" \notin t.flags
    BY <1>4, HandleFacts DEF Has
  <2>2. u = QueuedRead([t EXCEPT !.flags = @ \cup {"READING"}, !.activecnt = @ + 1], way[h])
    BY DEF StartReading
  <2>3. tcp'[h] = IF h = "server" THEN Done(u) ELSE u
    BY <1>1
  <2> HIDE DEF t, u
  <2>4. /\ Counted(t, u, 1, 0) /\ "READING" \in u.flags
        /\ \A flag \in {"READABLE", "WRITABLE", "CLOSING", "CLOSED"} :
              flag \in u.flags <=> flag \in t.flags
    BY <2>1, <2>2, Started
  <2>5. u \in HandleType
    BY <2>4 DEF Counted
  <2>6. Counted(t, Done(u), 1 - 1, 0) /\ Kept(u, Done(u))
    BY <2>1, <2>4, <2>5, DoneQueued
  <2>7. CASE h = "server"
    BY <2>3, <2>4, <2>6, <2>7 DEF Kept, t
  <2>8. CASE h # "server"
    BY <2>3, <2>4, <2>8 DEF t
  <2>9. QED BY <2>7, <2>8
<1>6. tcp' \in [Handles -> HandleType]
  <2>1. \A h \in Handles : tcp'[h] \in HandleType
    BY <1>5 DEF Counted
  <2>2. QED BY <1>1, <2>1
<1>7. /\ Waiting' = {Read(h) : h \in Handles} /\ InProcess' = {} /\ PlacesInv'
      /\ kernel' \in SUBSET Requests /\ failed' \in SUBSET Requests
      /\ pending' \in Seq(Requests)
  <2>1. \A h \in Handles : Read(h) \notin Waiting
    BY <1>3
  <2>2. /\ Waiting' = Waiting \cup {Read(h) : h \in Handles} /\ InProcess' = {} /\ PlacesInv'
        /\ kernel' \in SUBSET Requests /\ failed' \in SUBSET Requests
        /\ pending' \in Seq(Requests)
    BY <1>1, <1>2, <2>1, ReadsPut
  <2>3. QED BY <1>3, <2>2
<1>8. Existing' = {Read(h) : h \in Handles}
  BY <1>7 DEF Existing
<1>9. Connect \notin Existing' /\ Connect \notin Waiting'
  BY <1>7, <1>8, Kinds
<1>10. TypeInv'
  BY <1>2, <1>6, <1>7 DEF TypeInv, peerVars
<1>11. CountsInv'
  <2>1. ASSUME NEW h \in Handles
        PROVE  /\ tcp'[h].reqs_pending = Cardinality(Of(h, Existing'))
               /\ Surplus(tcp'[h]) = Cardinality(Registering(h, Waiting'))
    <3>1. /\ Of(h, Existing') = {Read(h)} /\ Registering(h, Waiting') = {}
          /\ Of(h, Existing) = IF h = "server" THEN {Connect} ELSE {}
          /\ Registering(h, Waiting) = {}
      BY <1>3, <1>7, <1>8, Kinds DEF Of, Registering
    <3>2. Cardinality({}) = 0 /\ Cardinality({Connect}) = 1 /\ Cardinality({Read(h)}) = 1
      BY FS_EmptySet, FS_Singleton
    <3>3. tcp[h].reqs_pending = (IF h = "server" THEN 1 ELSE 0) /\ Surplus(tcp[h]) = 0
      BY <3>1, <3>2 DEF CountsInv
    <3>4. /\ tcp'[h].reqs_pending = tcp[h].reqs_pending + (IF h = "server" THEN 0 ELSE 1)
          /\ Surplus(tcp'[h]) = Surplus(tcp[h]) + 0
      BY <1>5 DEF Counted
    <3>5. QED BY <3>1, <3>2, <3>3, <3>4
  <2>2. QED BY <2>1 DEF CountsInv
<1>12. \A h \in Handles : ~Has(h, "CLOSED")
  BY <1>4 DEF FlagsInv, Ended, Has
<1>13. ASSUME NEW h \in Handles
       PROVE  /\ Has(h, "READING")' /\ ~Has(h, "CLOSING")' /\ ~Has(h, "CLOSED")'
              /\ Has(h, "READABLE")' /\ (Has(h, "WRITABLE")' <=> Has(h, "WRITABLE"))
  BY <1>2, <1>4, <1>5, <1>12 DEF Has
<1>14. "client" \in Handles /\ "server" \in Handles
  BY DEF Handles
<1>15. FlagsInv'
  <2>1. Has("client", "WRITABLE") /\ Has("server", "WRITABLE")
    BY <1>3, <1>4, <1>14 DEF FlagsInv
  <2>2. QED BY <1>2, <1>9, <1>13, <1>14, <2>1 DEF FlagsInv
<1>16. EndsInv'
  <2>1. \A h \in Handles : ~Ended(tcp'[h]) /\ ~Ended(tcp[h])
    BY <1>4, <1>13 DEF Ended, Has
  <2>2. QED BY <1>2, <1>12, <1>13, <2>1, EndsOfOpen DEF Has
<1>17. RequestsInv'
  BY <1>7, <1>9, Kinds DEF RequestsInv
<1>18. LifeInv'
  BY <1>2 DEF LifeInv
<1>19. LifeKept
  <2>1. \A h \in Handles : Socket(h) = "open"
    BY <1>4, <1>12 DEF Socket
  <2>2. \A h \in Handles : /\ Has(h, "CLOSING")' <=> Has(h, "CLOSING")
                           /\ Has(h, "CLOSED")' <=> Has(h, "CLOSED")
                           /\ Has(h, "READING")' <=> Socket(h) = "open"
    BY <1>4, <1>12, <1>13, <2>1
  <2>3. QED BY <1>2, <1>3, <1>9, <2>2, LifeAnswered
<1>20. QED BY <1>2, <1>7, <1>10, <1>11, <1>15, <1>16, <1>17, <1>18, <1>19, BytesKept

LEMMA ReceiveDataKeeps ==
    ASSUME UvInv, life = "live", NEW h \in Handles, ReceiveData(h)
    PROVE  UvInv' /\ LifeKept
<1> USE DEF UvInv
<1> DEFINE o == Other(h)
           n == IF inbox[h] < BufLen THEN inbox[h] ELSE BufLen
           r == Write(o, passed[o])
<1>1. /\ place = <<"loop", h>> /\ Has(h, "READING")
      /\ inbox' = [inbox EXCEPT ![h] = inbox[h] - n] /\ inbox[h] > 0
      /\ place' \in {<<"loop", h>>, <<"done", h>>}
      /\ PassOn(o, n)
      /\ UNCHANGED <<life, data, endgames, closedTwice, batch, failed, phase, sent, peer>>
  BY DEF ReceiveData, Looping
<1>2. o \in Handles /\ Other(o) = h /\ o # h /\ \A g \in Handles : g = h \/ g = o
  BY DEF Other, Handles
<1>3. n \in Nat /\ n > 0 /\ n <= inbox[h] /\ inbox[h] \in Nat
  BY <1>1, UvTcpAssumption DEF TypeInv
<1>4. \A g \in Handles : ~Has(g, "CLOSING") /\ Has(g, "READING") /\ Connect \notin Existing
  BY <1>1, <1>2 DEF FlagsInv, Handles
<1>5. Has(o, "WRITABLE") /\ Has(h, "WRITABLE")
  BY <1>2, <1>4 DEF FlagsInv, Existing, Handles
<1>6. /\ passed[o] \in Nat /\ sent[h] \in Nat /\ MaxBytes[h] \in Nat
      /\ sent[h] - inbox[h] = passed[o] /\ sent[h] <= MaxBytes[h]
  <2>1. passed \in [Handles -> Nat] /\ sent \in [Handles -> Nat] /\ MaxBytes \in [Handles -> Nat]
    BY UvTcpAssumption DEF TypeInv
  <2>2. sent[h] - inbox[h] = passed[o] /\ sent[h] <= MaxBytes[h]
    BY DEF BytesInv
  <2> HIDE DEF o
  <2>3. QED BY <1>2, <2>1, <2>2
<1> HIDE DEF o, n
<1>7. r \in Requests
  <2>1. passed[o] \in 0..MaxBytes[Other(o)]
    BY <1>2, <1>3, <1>6
  <2>2. QED BY <1>2, <2>1, Kinds
<1>8. r \notin Waiting
  BY <1>2, <1>6 DEF RequestsInv
<1>9. /\ tcp' = [tcp EXCEPT ![o] = Registered(@)]
      /\ passed' = [passed EXCEPT ![o] = @ + n]
      /\ \/ kernel' = kernel \cup {r} /\ pending' = pending
         \/ pending' = Append(pending, r) /\ kernel' = kernel
  BY <1>1, <1>5 DEF PassOn
<1>10. HandleOf(r) = o /\ r[1] = "write" /\ r # Connect /\ r # Read(h)
  BY <1>2, Kinds
<1>11. InProcess = {Read(h)} /\ InProcess' = {Read(h)} /\ Read(h) \notin Waiting
  <2>1. InProcess = {Read(h)} /\ InProcess' = {Read(h)}
    BY <1>1, PlaceFacts
  <2>2. QED BY <2>1 DEF PlacesInv
<1>12. phase = "reqs"
  <2>1. place # Idle
    BY <1>1 DEF Idle
  <2>2. QED BY <2>1 DEF PlacesInv
<1> HIDE DEF r
<1>13. /\ Waiting' = Waiting \cup {r} /\ PlacesInv'
       /\ kernel' \in SUBSET Requests /\ pending' \in Seq(Requests)
  <2>1. InProcess' \cap (Waiting \cup {r}) = {}
    BY <1>10, <1>11
  <2>2. batch' = batch /\ phase' = phase /\ failed' = failed
    BY <1>1
  <2>3. QED BY <1>7, <1>8, <1>9, <1>12, <2>1, <2>2, Put
<1>14. Existing' = Existing \cup {r} /\ r \notin Existing
  BY <1>8, <1>10, <1>11, <1>13 DEF Existing
<1> DEFINE t == tcp[o]
           u == Registered(t)
<1>15. t \in HandleType /\ Counted(t, u, 1, 1) /\ Kept(t, u) /\ tcp' = [tcp EXCEPT ![o] = u]
  BY <1>2, <1>9, HandleFacts, Counting
<1> HIDE DEF u
<1>16. /\ tcp' \in [Handles -> HandleType]
       /\ \A g \in Handles : tcp'[g] = IF g = o THEN u ELSE tcp[g]
  BY <1>15 DEF TypeInv, Counted
<1>17. \A g \in Handles :
          /\ Kept(tcp[g], tcp'[g])
          /\ Counted(tcp[g], tcp'[g], IF g = o THEN 1 ELSE 0, IF g = o THEN 1 ELSE 0)
  BY <1>15, <1>16, HandleFacts, Counting
<1>18. /\ passed' \in [Handles -> Nat] /\ inbox' \in [Handles -> Nat]
       /\ passed'[o] = passed[o] + n /\ passed'[h] = passed[h]
       /\ inbox'[h] = inbox[h] - n /\ inbox'[o] = inbox[o]
  <2>1. passed[o] + n \in Nat /\ inbox[h] - n \in Nat
    BY <1>3, <1>6
  <2>2. QED BY <1>1, <1>2, <1>9, <2>1 DEF TypeInv
<1>19. TypeInv'
  <2>1. place' \in {Idle, Connect} \cup ({"loop", "done"} \X Handles)
    BY <1>1
  <2>2. QED BY <1>1, <1>13, <1>16, <1>18, <2>1 DEF TypeInv
<1>20. CountsInv'
  <2>1. ASSUME NEW g \in Handles
        PROVE  /\ tcp'[g].reqs_pending = Cardinality(Of(g, Existing'))
               /\ Surplus(tcp'[g]) = Cardinality(Registering(g, Waiting'))
    <3>1. /\ Cardinality(Of(g, Existing)) \in Nat
          /\ Cardinality(Of(g, Existing \cup {r}))
                = Cardinality(Of(g, Existing)) + (IF o = g THEN 1 ELSE 0)
      BY <1>7, <1>10, <1>14, WaitingTypes, CountAdded
    <3>2. /\ Cardinality(Registering(g, Waiting)) \in Nat
          /\ Cardinality(Registering(g, Waiting \cup {r}))
                = Cardinality(Registering(g, Waiting)) + (IF o = g THEN 1 ELSE 0)
      BY <1>7, <1>8, <1>10, WaitingTypes, CountAdded
    <3>3. /\ tcp[g].reqs_pending = Cardinality(Of(g, Existing))
          /\ Surplus(tcp[g]) = Cardinality(Registering(g, Waiting))
      BY DEF CountsInv
    <3>4. /\ tcp'[g].reqs_pending = tcp[g].reqs_pending + (IF g = o THEN 1 ELSE 0)
          /\ Surplus(tcp'[g]) = Surplus(tcp[g]) + (IF g = o THEN 1 ELSE 0)
      BY <1>17 DEF Counted
    <3>5. QED BY <1>13, <1>14, <3>1, <3>2, <3>3, <3>4
  <2>2. QED BY <2>1 DEF CountsInv
<1>21. ASSUME NEW g \in Handles
       PROVE  /\ Has(g, "CLOSING")' <=> Has(g, "CLOSING")
              /\ Has(g, "CLOSED")' <=> Has(g, "CLOSED")
              /\ Has(g, "READING")' <=> Has(g, "READING")
              /\ Has(g, "READABLE")' <=> Has(g, "READABLE")
              /\ Has(g, "WRITABLE")' <=> Has(g, "WRITABLE")
  BY <1>17 DEF Kept, Has
<1>22. \A g \in Handles : ~Has(g, "CLOSED") /\ ~Ended(tcp[g]) /\ ~Ended(tcp'[g])
  BY <1>4, <1>21 DEF FlagsInv, Ended, Has
<1>23. FlagsInv'
  <2>1. "client" \in Handles /\ "server" \in Handles
    BY DEF Handles
  <2>2. Connect \notin Existing' /\ Connect \notin Waiting' /\ Connect \notin Waiting
    BY <1>4, <1>10, <1>13, <1>14, <2>1 DEF Existing
  <2>3. QED BY <1>1, <1>4, <1>21, <1>22, <2>1, <2>2 DEF FlagsInv
<1>24. EndsInv'
  BY <1>1, <1>21, <1>22, EndsOfOpen DEF Has
<1>25. RequestsInv'
  <2>1. ASSUME NEW g \in Handles, NEW m \in Nat, Write(g, m) \in Waiting'
        PROVE  m < passed'[g]
    <3>1. CASE Write(g, m) \in Waiting
      <4>1. m < passed[g] /\ passed[g] \in Nat
        BY <3>1 DEF RequestsInv, TypeInv
      <4>2. QED BY <1>2, <1>3, <1>18, <4>1
    <3>2. CASE Write(g, m) = r
      <4>1. g = o /\ m = passed[o]
        BY <1>2, <3>2, Kinds DEF r
      <4>2. QED BY <1>3, <1>6, <1>18, <4>1
    <3>3. QED BY <1>13, <2>1, <3>1, <3>2
  <2>2. Connect \notin Existing'
    BY <1>4, <1>10, <1>14
  <2>3. QED BY <2>1, <2>2 DEF RequestsInv
<1>26. BytesInv'
  <2>1. sent[h] - inbox'[h] = passed'[o]
    BY <1>3, <1>6, <1>18
  <2>2. sent[o] - inbox'[o] = passed'[h] /\ Other(h) = o
    BY <1>2, <1>18 DEF BytesInv, o
  <2>3. QED BY <1>1, <1>2, <2>1, <2>2 DEF BytesInv
<1>27. LifeInv'
  BY <1>1, <1>21 DEF LifeInv
<1>28. LifeKept
  <2>1. Connect \in Existing <=> Connect \in Existing'
    BY <1>10, <1>14
  <2>2. QED BY <1>1, <1>21, <2>1, LifeSame
<1>29. QED BY <1>13, <1>19, <1>20, <1>23, <1>24, <1>25, <1>26, <1>27, <1>28

-----------------------------------------------------------------------------
(* The theorems.                                                           *)
LEMMA InitInvariant == UvInit => UvInv
<1> SUFFICES ASSUME UvInit PROVE UvInv
  OBVIOUS
<1>1. /\ tcp = [h \in Handles |-> [flags |-> {}, reqs_pending |-> 0, activecnt |-> 0]]
      /\ life = "unused" /\ data = {} /\ kernel = {} /\ pending = <<>> /\ batch = <<>>
      /\ failed = {} /\ endgames = {} /\ phase = "reqs" /\ place = Idle
  BY DEF UvInit
<1>2. /\ tcp \in [Handles -> HandleType]
      /\ \A h \in Handles : tcp[h].flags = {} /\ tcp[h].reqs_pending = 0 /\ tcp[h].activecnt = 0
  BY <1>1 DEF HandleType
<1>3. TypeInv
  <2>1. /\ inbox \in [Handles -> Nat] /\ sent \in [Handles -> Nat]
        /\ passed \in [Handles -> Nat] /\ peer \in [Handles -> {"open", "ended", "reset"}]
    BY DEF UvInit
  <2>2. closedTwice \in BOOLEAN
    BY DEF UvInit
  <2>3. QED BY <1>1, <1>2, <2>1, <2>2 DEF TypeInv
<1>4. Queued = {} /\ InProcess = {} /\ Waiting = {} /\ Existing = {}
  BY <1>1, PlaceFacts DEF Queued, Waiting, Existing
<1>5. PlacesInv
  BY <1>1, <1>4, ElementsEmpty DEF PlacesInv
<1>6. RequestsInv /\ FlagsInv /\ EndsInv
  BY <1>1, <1>2, <1>4 DEF RequestsInv, FlagsInv, EndsInv, Has, Ended, Handles
<1>7. CountsInv
  <2>1. \A h \in Handles : Of(h, {}) = {} /\ Registering(h, {}) = {}
    BY DEF Of, Registering
  <2>2. QED BY <1>2, <1>4, <2>1, FS_EmptySet DEF CountsInv, Surplus
<1>8. BytesInv
  BY UvTcpAssumption DEF UvInit, BytesInv, Other, Handles
<1>9. LifeInv
  BY <1>1 DEF LifeInv
<1>10. QED BY <1>3, <1>5, <1>6, <1>7, <1>8, <1>9 DEF UvInv

LEMMA StepKeeps == UvInv /\ [UvNext]_uvVars => UvInv' /\ LifeKept
<1> SUFFICES ASSUME UvInv, [UvNext]_uvVars PROVE UvInv' /\ LifeKept
  OBVIOUS
<1>1. CASE UNCHANGED uvVars
  <2>1. /\ UNCHANGED <<life, tcp, data, endgames, closedTwice>>
        /\ UNCHANGED <<kernel, pending, batch, failed, phase, place>>
        /\ UNCHANGED <<inbox, sent, passed, peer>>
    BY <1>1 DEF uvVars, loopVars, peerVars
  <2>2. /\ Queued' = Queued /\ Waiting' = Waiting /\ InProcess' = InProcess
        /\ Existing' = Existing
    BY <2>1 DEF Queued, Waiting, InProcess, Existing
  <2>3. TypeInv' /\ PlacesInv'
    BY <2>1, <2>2 DEF UvInv, TypeInv, PlacesInv
  <2>4. RequestsInv' /\ FlagsInv' /\ CountsInv' /\ EndsInv' /\ BytesInv'
    BY <2>1, <2>2 DEF UvInv, RequestsInv, FlagsInv, CountsInv, EndsInv, BytesInv, Has
  <2>5. LifeInv'
    BY <2>1 DEF UvInv, LifeInv, UvInit, Has
  <2>6. LifeKept
    BY <2>1, <2>2, LifeSame DEF Has
  <2>7. QED BY <2>3, <2>4, <2>5, <2>6 DEF UvInv
<1>2. CASE Accept
  BY <1>2, AcceptKeeps
<1>3. ASSUME life = "live", LoopSteps \/ Remove \/ (\E r \in Requests : Dequeue(r))
                            \/ (\E h \in Handles : PeerSends(h) \/ PeerLeaves(h))
      PROVE  UvInv' /\ LifeKept
  <2>1. CASE Remove
    BY <1>3, <2>1, RemoveKeeps
  <2>2. CASE StartPoll \/ EndPoll \/ TakePending \/ \E r \in Requests : Dequeue(r)
    BY <1>3, <2>2, LoopKeeps
  <2>3. ASSUME NEW h \in Handles, PeerSends(h) \/ PeerLeaves(h) PROVE UvInv' /\ LifeKept
    BY <1>3, <2>3, PeerKeeps
  <2>4. ASSUME NEW h \in Handles, Endgame(h) PROVE UvInv' /\ LifeKept
    BY <1>3, <2>4, EndgameKeeps
  <2>5. CASE RequestSteps
    <3>1. CASE Connected
      BY <1>3, <3>1, ConnectedKeeps
    <3>2. CASE ConnectFails
      BY <1>3, <3>2, ConnectFailKeeps
    <3>3. CASE ReadBoth
      BY <1>3, <3>3, ReadBothKeeps
    <3>4. CASE ReadNone
      BY <1>3, <3>4, ReadNoneKeeps
    <3>5. ASSUME NEW h \in Handles, ReadSucceeds(h) PROVE UvInv' /\ LifeKept
      BY <1>3, <3>5, ReadSucceedsKeeps
    <3>6. ASSUME NEW h \in Handles, ReadFails(h) \/ ReadCancelled(h) PROVE UvInv' /\ LifeKept
      BY <1>3, <3>6, ReadFailKeeps
    <3>7. ASSUME NEW h \in Handles, ReceiveData(h) PROVE UvInv' /\ LifeKept
      BY <1>3, <3>7, ReceiveDataKeeps
    <3>8. ASSUME NEW h \in Handles, ReceiveEnd(h) \/ ReceiveError(h) \/ ReceiveNothing(h)
          PROVE  UvInv' /\ LifeKept
      BY <1>3, <3>8, ReceiveEndKeeps
    <3>9. ASSUME NEW h \in Handles, ReadAgain(h) PROVE UvInv' /\ LifeKept
      BY <1>3, <3>9, ReadAgainKeeps
    <3>10. ASSUME NEW h \in Handles, ReadNoMore(h) PROVE UvInv' /\ LifeKept
      BY <1>3, <3>10, ReadNoMoreKeeps
    <3>11. ASSUME NEW h \in Handles, NEW n \in 0..MaxBytes[Other(h)], Written(h, n)
           PROVE  UvInv' /\ LifeKept
      BY <1>3, <3>11, WrittenKeeps
    <3>12. QED
      BY <2>5, <3>1, <3>2, <3>3, <3>4, <3>5, <3>6, <3>7, <3>8, <3>9, <3>10, <3>11 DEF RequestSteps
  <2>6. QED BY <1>3, <2>1, <2>2, <2>3, <2>4, <2>5 DEF LoopSteps
<1>4. QED BY <1>1, <1>2, <1>3 DEF UvNext

(* Every part of the invariant holds in every state.                       *)
THEOREM UvInvariant == UvSpec => []UvInv
<1>1. UvInv /\ [UvNext]_uvVars => UvInv'
  BY StepKeeps
<1>2. QED BY <1>1, InitInvariant, PTL DEF UvSpec

(* Every variable keeps its type; no counter of a handle is ever negative. *)
THEOREM UvTypes == UvSpec => []UvTypeOK
<1>1. ASSUME UvInv PROVE UvTypeOK
  <2>1. TypeInv /\ failed \subseteq Queued
    BY <1>1 DEF UvInv, PlacesInv
  <2>2. \A h \in Handles : tcp[h] \in [flags : SUBSET Flags, reqs_pending : Nat, activecnt : Nat]
    <3>1. SUFFICES ASSUME NEW h \in Handles
                   PROVE  tcp[h].reqs_pending \in Nat /\ tcp[h].activecnt \in Nat
      BY <2>1 DEF TypeInv, HandleType
    <3>2. /\ tcp[h].reqs_pending = Cardinality(Of(h, Existing))
          /\ Surplus(tcp[h]) = Cardinality(Registering(h, Waiting))
      BY <1>1 DEF UvInv, CountsInv
    <3>3. Cardinality(Of(h, Existing)) \in Nat /\ Cardinality(Registering(h, Waiting)) \in Nat
      BY <2>1, WaitingTypes, CountAdded, Kinds
    <3>4. tcp[h].activecnt \in Int
      BY <2>1 DEF TypeInv, HandleType
    <3>5. QED BY <3>2, <3>3, <3>4 DEF Surplus
  <2>3. tcp \in [Handles -> [flags : SUBSET Flags, reqs_pending : Nat, activecnt : Nat]]
    BY <2>1, <2>2 DEF TypeInv
  <2>4. QED BY <2>1, <2>3 DEF TypeInv, UvTypeOK
<1>2. QED BY <1>1, UvInvariant, PTL

(* The requests of a handle, and those that activecnt counts.              *)
LEMMA OutstandingIs ==
    ASSUME PlacesInv, NEW h \in Handles
    PROVE  /\ Outstanding(h) = Of(h, Existing)
           /\ {r \in Outstanding(h) : r[1] # "read" /\ r \notin InProcess}
                 = Registering(h, Waiting)
BY DEF Outstanding, Of, Registering, Existing, Waiting, PlacesInv

LEMMA DisjointCount ==
    ASSUME NEW S, NEW T, IsFiniteSet(S), IsFiniteSet(T), S \cap T = {}
    PROVE  IsFiniteSet(S \cup T) /\ Cardinality(S \cup T) = Cardinality(S) + Cardinality(T)
<1>1. Cardinality(S) \in Nat /\ Cardinality(T) \in Nat
  BY FS_CardinalityType
<1>2. /\ IsFiniteSet(S \cup T)
      /\ Cardinality(S \cup T) = Cardinality(S) + Cardinality(T) - Cardinality(S \cap T)
  BY FS_Union
<1>3. Cardinality(S \cap T) = 0
  BY FS_EmptySet
<1>4. QED BY <1>1, <1>2, <1>3

(* The counters that libuv decides by are exact in every state, however    *)
(* requests, completions and removals interleave: no request is lost or in *)
(* two places, and no byte that was read is lost.                          *)
THEOREM CountsAreExact == UvSpec => []CountsExact
<1>1. ASSUME UvInv PROVE CountsExact
  <2>1. /\ TypeInv /\ PlacesInv /\ CountsInv /\ EndsInv /\ BytesInv
    BY <1>1 DEF UvInv
  <2>2. ASSUME NEW h \in Handles
        PROVE  /\ tcp[h].reqs_pending = Cardinality(Outstanding(h))
               /\ tcp[h].activecnt =
                     Cardinality({r \in Outstanding(h) : r[1] # "read" /\ r \notin InProcess})
                     + (IF Has(h, "READING") THEN 1 ELSE 0)
    <3>1. /\ tcp[h].reqs_pending = Cardinality(Of(h, Existing))
          /\ Surplus(tcp[h]) = Cardinality(Registering(h, Waiting))
      BY <2>1 DEF CountsInv
    <3>2. tcp[h].activecnt \in Int
      BY <2>1 DEF TypeInv, HandleType
    <3>3. tcp[h].activecnt = Cardinality(Registering(h, Waiting))
                             + (IF Has(h, "READING") THEN 1 ELSE 0)
      BY <3>1, <3>2 DEF Surplus, Has
    <3>4. QED BY <2>1, <3>1, <3>3, OutstandingIs
  <2>3. Cardinality(kernel \cup Queued) = Cardinality(kernel) + Len(pending) + Len(batch)
    <3>1. /\ IsFiniteSet(kernel) /\ Cardinality(kernel) \in Nat
      <4>1. kernel \in SUBSET Requests
        BY <2>1 DEF TypeInv
      <4>2. QED BY <4>1, RequestsFinite, FS_Subset, FS_CardinalityType
    <3> DEFINE p == Elements(pending)
               b == Elements(batch)
    <3>2. /\ IsFiniteSet(p) /\ Cardinality(p) = Len(pending)
          /\ IsFiniteSet(b) /\ Cardinality(b) = Len(batch)
          /\ Len(pending) \in Nat /\ Len(batch) \in Nat
      BY <2>1, ElementsCount DEF TypeInv, PlacesInv
    <3>3. Queued = p \cup b /\ p \cap b = {} /\ kernel \cap (p \cup b) = {}
      BY <2>1, WaitingTypes DEF PlacesInv
    <3> HIDE DEF p, b
    <3>4. IsFiniteSet(p \cup b) /\ Cardinality(p \cup b) = Len(pending) + Len(batch)
      <4>1. IsFiniteSet(p \cup b) /\ Cardinality(p \cup b) = Cardinality(p) + Cardinality(b)
        BY <3>2, <3>3, DisjointCount
      <4>2. QED BY <3>2, <4>1
    <3>5. Cardinality(kernel \cup (p \cup b)) = Cardinality(kernel) + Cardinality(p \cup b)
      BY <3>1, <3>3, <3>4, DisjointCount
    <3>6. QED BY <3>1, <3>2, <3>3, <3>4, <3>5
  <2>4. QED BY <2>1, <2>2, <2>3 DEF CountsExact, EndsInv, BytesInv
<1>2. QED BY <1>1, UvInvariant, PTL

(* When the ConnectInfo is deleted, no request and no close callback can   *)
(* still call the adapter with it.                                         *)
THEOREM NothingIsOutlived == UvSpec => []NothingOutlives
<1>1. ASSUME UvInv PROVE NothingOutlives
  <2>1. /\ TypeInv /\ PlacesInv /\ FlagsInv /\ CountsInv /\ EndsInv /\ LifeInv
    BY <1>1 DEF UvInv
  <2>2. SUFFICES ASSUME life = "freed", NEW h \in Handles
                 PROVE  Has(h, "CLOSED") /\ Outstanding(h) = {} /\ h \notin endgames
    BY DEF NothingOutlives
  <2>3. Has(h, "CLOSED") /\ Ended(tcp[h])
    BY <2>1, <2>2 DEF LifeInv, FlagsInv
  <2>4. Cardinality(Of(h, Existing)) = 0
    BY <2>1, <2>3 DEF Ended, CountsInv
  <2>5. Of(h, Existing) = {}
    BY <2>1, <2>4, OfFinite, WaitingTypes
  <2>6. QED BY <2>1, <2>3, <2>5, OutstandingIs DEF EndsInv
<1>2. QED BY <1>1, UvInvariant, PTL

(* tcp_read_cb is never called for a handle that is closing.               *)
THEOREM ReadsCloseOnce == UvSpec => ReadClosesOnce
<1> DEFINE Rightly == closedTwice' = closedTwice \/ Remove \/ ConnectFails
<1>1. ASSUME UvInv, [UvNext]_uvVars PROVE [Rightly]_uvVars
  <2>1. ASSUME NoteClose, NEW h \in Handles, Has(h, "READING") PROVE closedTwice' = closedTwice
    <3>1. \A g \in Handles : ~Has(g, "CLOSING")
      BY <1>1, <2>1 DEF UvInv, FlagsInv, Handles
    <3>2. closedTwice \in BOOLEAN
      BY <1>1 DEF UvInv, TypeInv
    <3>3. closedTwice' = (closedTwice \/ FALSE)
      BY <2>1, <3>1 DEF NoteClose
    <3>4. QED BY <3>2, <3>3
  <2>2. ASSUME NEW h \in Handles,
               ReadFails(h) \/ ReceiveEnd(h) \/ ReceiveError(h) \/ ReceiveNothing(h)
        PROVE  closedTwice' = closedTwice
    <3>1. NoteClose /\ Has(h, "READING")
      BY <2>2 DEF ReadFails, ReceiveEnd, ReceiveError, ReceiveNothing, Looping
    <3>2. QED BY <2>1, <3>1
  <2>3. ASSUME NEW h \in Handles,
               \/ ReadSucceeds(h) \/ ReadCancelled(h) \/ ReceiveData(h) \/ ReadAgain(h)
               \/ ReadNoMore(h) \/ Endgame(h) \/ PeerSends(h) \/ PeerLeaves(h)
               \/ \E n \in 0..MaxBytes[Other(h)] : Written(h, n)
        PROVE  closedTwice' = closedTwice
    BY <2>3 DEF ReadSucceeds, ReadCancelled, ReceiveData, ReadAgain, ReadNoMore, Endgame,
                PeerSends, PeerLeaves, Written
  <2>4. ASSUME \/ Accept \/ Connected \/ ReadBoth \/ ReadNone \/ StartPoll \/ EndPoll
               \/ TakePending \/ \E r \in Requests : Dequeue(r)
        PROVE  closedTwice' = closedTwice
    BY <2>4 DEF Accept, Connected, ReadBoth, ReadNone, StartPoll, EndPoll, TakePending, Dequeue
  <2>5. QED BY <1>1, <2>2, <2>3, <2>4 DEF UvNext, LoopSteps, RequestSteps
<1>2. QED BY <1>1, UvInvariant, PTL DEF UvSpec, ReadClosesOnce

(* libuv and the callbacks keep to ConnectionLife: whatever holds of every *)
(* such life holds of the two sockets, of their requests and flags.        *)
THEOREM UvImplementsLife == UvSpec => ImplementsLife
<1>1. ASSUME UvInit PROVE Life!LifeInit
  <2>1. /\ life = "unused" /\ data = {}
        /\ tcp = [h \in Handles |-> [flags |-> {}, reqs_pending |-> 0, activecnt |-> 0]]
    BY <1>1 DEF UvInit
  <2>2. tcp["client"].flags = {}
    BY <2>1 DEF Handles
  <2>3. Socket("client") = "none" /\ Socket("server") = "none" /\ ~Has("client", "READING")
    BY <2>1, <2>2 DEF Socket, Has
  <2>4. QED BY <2>1, <2>3 DEF Life!LifeInit
<1>2. UvInv /\ [UvNext]_uvVars => [Life!LifeNext]_(Life!lifeVars)
  BY StepKeeps DEF LifeKept
<1>3. QED BY <1>1, <1>2, UvInvariant, PTL DEF UvSpec, ImplementsLife, Life!LifeSpec
=============================================================================
