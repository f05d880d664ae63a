---------------------------- MODULE TrafficProofs -----------------------------
(***************************************************************************)
(* Proofs about Traffic, for any connections, any size of a kilobyte and   *)
(* any read that fits into a megabyte: the types, that the counters of a   *)
(* connection are exact between two callbacks, or whole megabytes short    *)
(* where they are carried from the other direction, that what the window   *)
(* reads of them in two loads is near what was carried, and by how much    *)
(* the counters of a mapping fall short.                                   *)
(***************************************************************************)
EXTENDS Traffic, FiniteSetTheorems, TLAPS

-----------------------------------------------------------------------------
(* Arithmetic of a counter split at the radix r.                           *)

LEMMA DivMod ==
    ASSUME NEW b \in Nat, NEW r \in Nat, r > 0
    PROVE  /\ b \div r \in Nat /\ b % r \in Nat /\ b % r < r /\ b % r <= b
           /\ b = (b \div r) * r + (b % r)
<1>1. b = r * (b \div r) + (b % r)
  OBVIOUS
<1>2. b \div r \in Nat /\ b % r \in 0..(r - 1)
  OBVIOUS
<1>3. r * (b \div r) = (b \div r) * r /\ (b \div r) * r \in Nat
  BY <1>2
<1>4. QED BY <1>1, <1>2, <1>3

LEMMA Distributes ==
    ASSUME NEW a \in Nat, NEW b \in Nat, NEW r \in Nat
    PROVE  /\ (a + b) * r = a * r + b * r
           /\ a * r \in Nat /\ b * r \in Nat
OBVIOUS

(* Carrying what a counter of bytes holds beyond the radix, and masking it *)
(* afterwards, does not change what the two counters add up to.            *)
LEMMA CarryKeepsValue ==
    ASSUME NEW m \in Nat, NEW b \in Nat, NEW r \in Nat, r > 0
    PROVE  (m + b \div r) * r + (b % r) = m * r + b
<1>1. (m + b \div r) * r = m * r + (b \div r) * r /\ (b \div r) * r \in Nat
  BY DivMod, Distributes
<1>2. QED BY <1>1, DivMod, Distributes

LEMMA MaskSmall ==
    ASSUME NEW b \in Nat, NEW r \in Nat, r > 0, b < r
    PROVE  b % r = b
OBVIOUS

LEMMA MaskMask ==
    ASSUME NEW b \in Nat, NEW r \in Nat, r > 0
    PROVE  (b % r) % r = b % r
BY DivMod, MaskSmall

LEMMA RadixPositive == Radix \in Nat /\ Radix > 0 /\ Kilo \in Nat /\ Kilo > 0
<1>1. \A k \in Nat \ {0, 1} : k * k \in Nat /\ k * k > 0
  OBVIOUS
<1>2. QED BY <1>1, TrafficAssumption DEF Radix

LEMMA ModOf ==
    ASSUME NEW q \in Nat, NEW s \in Nat, NEW r \in Nat, r > 0, s < r
    PROVE  (q * r + s) % r = s
<1> DEFINE x == q * r + s
           k == x \div r
           m == x % r
<1>1. q * r \in Nat /\ x \in Nat
  BY Distributes
<1>2. k \in Nat /\ m \in Nat /\ m < r /\ x = k * r + m
  BY <1>1, DivMod
<1>3. x = q * r + s
  OBVIOUS
<1> HIDE DEF x, k, m
<1>4. ASSUME k < q PROVE FALSE
  <2>1. PICK i \in Nat : q = k + 1 + i
    <3>1. q = k + 1 + (q - k - 1) /\ q - k - 1 \in Nat
      BY <1>2, <1>4
    <3>2. QED BY <3>1
  <2>2. q * r = (k + 1) * r + i * r /\ (k + 1) * r = k * r + 1 * r
        /\ i * r \in Nat /\ k * r \in Nat /\ 1 * r = r
    BY <1>2, <2>1, Distributes
  <2>3. QED BY <1>2, <1>3, <2>2
<1>5. ASSUME q < k PROVE FALSE
  <2>1. PICK i \in Nat : k = q + 1 + i
    <3>1. k = q + 1 + (k - q - 1) /\ k - q - 1 \in Nat
      BY <1>2, <1>5
    <3>2. QED BY <3>1
  <2>2. k * r = (q + 1) * r + i * r /\ (q + 1) * r = q * r + 1 * r
        /\ i * r \in Nat /\ q * r \in Nat /\ 1 * r = r
    BY <1>2, <2>1, Distributes
  <2>3. QED BY <1>2, <1>3, <2>2
<1>6. k = q
  BY <1>2, <1>4, <1>5
<1>7. m = s
  BY <1>1, <1>2, <1>3, <1>6
<1>8. QED BY <1>7 DEF m, x

(* What is added to a number is added to its remainder.                    *)
LEMMA ModAdds ==
    ASSUME NEW y \in Nat, NEW n \in Nat, NEW r \in Nat, r > 0
    PROVE  (y + n) % r = ((y % r) + n) % r
<1> DEFINE p == y \div r
           t == (y % r) + n
           u == t \div r
           v == t % r
<1>1. p \in Nat /\ y % r \in Nat /\ y = p * r + (y % r) /\ p * r \in Nat
  BY DivMod, Distributes
<1>2. t \in Nat
  BY <1>1
<1>3. u \in Nat /\ v \in Nat /\ v < r /\ t = u * r + v /\ u * r \in Nat
  BY <1>2, DivMod, Distributes
<1>4. y + n = p * r + t
  BY <1>1
<1> HIDE DEF p, t, u, v
<1>5. y + n = (p + u) * r + v /\ p + u \in Nat
  <2>1. (p + u) * r = p * r + u * r
    BY <1>1, <1>3, Distributes
  <2>2. QED BY <1>1, <1>2, <1>3, <1>4, <2>1
<1>6. (y + n) % r = v
  <2>1. ((p + u) * r + v) % r = v
    BY <1>3, <1>5, ModOf
  <2>2. QED BY <1>5, <2>1
<1>7. QED BY <1>6 DEF v, t

(* Whole megabytes do not change a remainder.                              *)
LEMMA ModDrops ==
    ASSUME NEW m \in Nat, NEW s \in Nat, NEW r \in Nat, r > 0
    PROVE  (m * r + s) % r = s % r
<1> DEFINE q == s \div r
           v == s % r
<1>1. q \in Nat /\ v \in Nat /\ v < r /\ s = q * r + v
  BY DivMod
<1> HIDE DEF q, v
<1>2. (m + q) * r = m * r + q * r /\ m * r \in Nat /\ q * r \in Nat
  BY <1>1, Distributes
<1>3. m * r + s = (m + q) * r + v /\ m + q \in Nat
  BY <1>1, <1>2
<1>4. ((m + q) * r + v) % r = v
  BY <1>1, <1>3, ModOf
<1>5. QED BY <1>3, <1>4 DEF v

(* The same of the megabyte: equal remainders stay equal when as much is   *)
(* added, or whole megabytes.                                              *)
LEMMA RadixAdds ==
    \A a, b, n \in Nat : a % Radix = b % Radix => (a + n) % Radix = (b + n) % Radix
<1> SUFFICES ASSUME Radix \in Nat, Radix > 0
             PROVE  \A a, b, n \in Nat : a % Radix = b % Radix
                                         => (a + n) % Radix = (b + n) % Radix
  BY RadixPositive
<1> TAKE a, b, n \in Nat
<1> HAVE a % Radix = b % Radix
<1>1. (a + n) % Radix = ((a % Radix) + n) % Radix
  BY ModAdds
<1>2. (b + n) % Radix = ((b % Radix) + n) % Radix
  BY ModAdds
<1>3. QED BY <1>1, <1>2, Zenon

LEMMA RadixDrops == \A m, s \in Nat : (m * Radix + s) % Radix = s % Radix
<1> SUFFICES ASSUME Radix \in Nat, Radix > 0
             PROVE  \A m, s \in Nat : (m * Radix + s) % Radix = s % Radix
  BY RadixPositive
<1> TAKE m, s \in Nat
<1> QED BY ModDrops

(* Numbers with the same remainder are whole megabytes apart.              *)
LEMMA SameRemainder ==
    ASSUME NEW a \in Nat, NEW b \in Nat, NEW r \in Nat, r > 0, b <= a, a % r = b % r
    PROVE  a - b >= 0 /\ (a - b) % r = 0
<1> DEFINE k == a \div r
           j == b \div r
           v == a % r
<1>1. k \in Nat /\ j \in Nat /\ v \in Nat /\ a = k * r + v /\ b = j * r + v
  BY DivMod
<1> HIDE DEF k, j, v
<1>2. k * r \in Nat /\ j * r \in Nat
  BY <1>1, Distributes
<1>3. ASSUME j > k PROVE FALSE
  <2>1. PICK i \in Nat : j = k + 1 + i
    <3>1. j = k + 1 + (j - k - 1) /\ j - k - 1 \in Nat
      BY <1>1, <1>3
    <3>2. QED BY <3>1
  <2>2. j * r = (k + 1) * r + i * r /\ (k + 1) * r = k * r + 1 * r
        /\ i * r \in Nat /\ 1 * r = r
    BY <1>1, <2>1, Distributes
  <2>3. QED BY <1>1, <1>2, <2>2
<1>4. PICK i \in Nat : k = j + i
  <2>1. k = j + (k - j) /\ k - j \in Nat
    BY <1>1, <1>3
  <2>2. QED BY <2>1
<1>5. k * r = j * r + i * r /\ i * r \in Nat
  BY <1>1, <1>4, Distributes
<1>6. a - b = i * r + 0
  BY <1>1, <1>2, <1>5
<1>7. (i * r + 0) % r = 0
  BY ModOf
<1>8. QED BY <1>6, <1>7

-----------------------------------------------------------------------------
(* Counters and registers keep their types.                                *)
THEOREM TypeCorrect == Spec => []TrafficTypeOK
<1> USE TrafficAssumption DEF Dirs, Flows, NoLook, NoJob, Steps
<1>1. Init => TrafficTypeOK
  <2> SUFFICES ASSUME Init PROVE TrafficTypeOK
    OBVIOUS
  <2>1. Cardinality(Conns) \in Nat
    BY FS_CardinalityType
  <2>2. QED BY <2>1 DEF Init, TrafficTypeOK
<1>2. TrafficTypeOK /\ [Next]_vars => TrafficTypeOK'
  <2> SUFFICES ASSUME TrafficTypeOK, [Next]_vars PROVE TrafficTypeOK'
    OBVIOUS
  <2>1. ASSUME NEW c \in Conns, NEW d \in Dirs, NEW n \in 1..MaxRead, Read(c, d, n)
        PROVE  TrafficTypeOK'
    <3>1. carried' \in [Flows -> Nat]
      BY <2>1 DEF Read, TrafficTypeOK
    <3>2. job' \in [conn : Conns \cup {None}, dir : Dirs, n : 0..MaxRead] /\ job'.conn \in Conns
      BY <2>1 DEF Read
    <3>3. QED BY <2>1, <3>1, <3>2 DEF Read, TrafficTypeOK
  <2>2. ASSUME step # "idle"
        PROVE  Cur \in Flows /\ All \in Flows /\ Source \in Flows
    BY <2>2 DEF TrafficTypeOK, Cur, All, Source
  <2>3. ASSUME NEW here \in Steps, NEW next \in Steps, here # "idle", At(here, next),
               bytes' \in [Flows -> Nat], mega' \in [Flows -> Nat]
        PROVE  TrafficTypeOK'
    BY <2>3 DEF At, TrafficTypeOK
  <2>4. ASSUME NEW f \in Flows, Add(f)
        PROVE  bytes' \in [Flows -> Nat] /\ mega' \in [Flows -> Nat]
    BY <2>4 DEF Add, TrafficTypeOK
  <2>5. ASSUME NEW f \in Flows, Mask(f)
        PROVE  bytes' \in [Flows -> Nat] /\ mega' \in [Flows -> Nat]
    <3>1. bytes[f] % Radix \in Nat
      BY DivMod, RadixPositive DEF TrafficTypeOK
    <3>2. QED BY <2>5, <3>1 DEF Mask, TrafficTypeOK
  <2>6. ASSUME NEW f \in Flows, Carry(f), Source \in Flows
        PROVE  bytes' \in [Flows -> Nat] /\ mega' \in [Flows -> Nat]
    <3>1. bytes[Source] \div Radix \in Nat
      BY <2>6, DivMod, RadixPositive DEF TrafficTypeOK
    <3>2. QED BY <2>6, <3>1 DEF Carry, TrafficTypeOK
  <2>7. CASE AddCur \/ AddTotal
    BY <2>2, <2>3, <2>4, <2>7 DEF AddCur, AddTotal, At
  <2>8. CASE CarryCur \/ CarryTotal
    BY <2>2, <2>3, <2>6, <2>8 DEF CarryCur, CarryTotal, At
  <2>9. CASE MaskCur \/ MaskTotal
    BY <2>2, <2>3, <2>5, <2>9 DEF MaskCur, MaskTotal, At
  <2>10. ASSUME NEW c \in Conns, Reopen(c) PROVE TrafficTypeOK'
    BY <2>10 DEF Reopen, TrafficTypeOK
  <2>11. ASSUME NEW who \in Conns \cup {Total}, NEW d \in Dirs, NEW firstM \in BOOLEAN,
                Refresh(who, d, firstM)
         PROVE  TrafficTypeOK'
    BY <2>11 DEF Refresh, TrafficTypeOK
  <2>12. CASE ReadOther
    BY <2>12 DEF ReadOther, Complete, TrafficTypeOK
  <2>13. CASE Show
    BY <2>13 DEF Show, TrafficTypeOK
  <2>14. CASE UNCHANGED vars
    BY <2>14 DEF vars, TrafficTypeOK
  <2>15. QED
    BY <2>1, <2>7, <2>8, <2>9, <2>10, <2>11, <2>12, <2>13, <2>14 DEF Next, LoopNext, UiNext
<1>3. QED BY <1>1, <1>2, PTL DEF Spec

(* A mapping keeps its protocol, and with it the directions that are       *)
(* counted.                                                                *)
LEMMA ProtocolStays ==
    ASSUME [Next]_vars
    PROVE  bTCP' = bTCP /\ CountedDirs' = CountedDirs /\ Counted' = Counted
<1>1. bTCP' = bTCP
  BY DEF Next, LoopNext, UiNext, Read, AddCur, AddTotal, CarryCur, CarryTotal, MaskCur,
         MaskTotal, At, Reopen, Refresh, ReadOther, Show, vars
<1>2. QED BY <1>1 DEF CountedDirs, Counted

-----------------------------------------------------------------------------
(* How far the counting of flow f has come, at each statement.             *)
Counting(f) == step # "idle" /\ f = Cur

CountOf(f) ==
    /\ ~Counting(f) \/ step = "maskTotal" =>
           Value(f) = carried[f] /\ bytes[f] < Radix
    /\ Counting(f) /\ step = "add" =>
           Value(f) + job.n = carried[f] /\ bytes[f] < Radix
    /\ Counting(f) /\ step \in {"addTotal", "carry"} =>
           Value(f) = carried[f] /\ bytes[f] < Radix + MaxRead
    /\ Counting(f) /\ step \in {"carryTotal", "mask"} =>
           mega[f] * Radix + (bytes[f] % Radix) = carried[f] /\ bytes[f] < Radix + MaxRead

CountInv == \A f \in Counted : CountOf(f)

LEMMA FlowTypes ==
    ASSUME TrafficTypeOK, NEW f \in Counted
    PROVE  /\ f \in Flows /\ f # All /\ f = <<f[1], f[2]>> /\ f[1] \in Conns
           /\ bytes[f] \in Nat /\ mega[f] \in Nat /\ carried[f] \in Nat
           /\ mega[f] * Radix \in Nat /\ Value(f) \in Nat
           /\ job.n \in 0..MaxRead /\ MaxRead \in Nat
           /\ f = Cur => Source = f
<1> USE DEF CountedDirs
<1>1. f \in Flows /\ f # All /\ f = <<f[1], f[2]>> /\ f[1] \in Conns
  BY TrafficAssumption DEF Counted, Flows, Dirs, All
<1>2. bytes[f] \in Nat /\ mega[f] \in Nat /\ carried[f] \in Nat /\ job.n \in 0..MaxRead
  BY <1>1 DEF TrafficTypeOK
<1>3. mega[f] * Radix \in Nat
  BY <1>2, RadixPositive, Distributes
<1>4. f = Cur => Source = f
  BY <1>1 DEF Counted, Cur, Source
<1>5. QED BY <1>1, <1>2, <1>3, <1>4, TrafficAssumption DEF Value

(* A step that leaves the counters of f and the part of the callback that  *)
(* concerns f as they are keeps the count.                                 *)
LEMMA CountFrame ==
    ASSUME TrafficTypeOK, NEW f \in Counted, CountOf(f),
           bytes'[f] = bytes[f], mega'[f] = mega[f], carried'[f] = carried[f],
           \/ ~Counting(f) /\ ~Counting(f)'
           \/ Counting(f) /\ Counting(f)' /\ step' = step /\ job' = job
           \/ Counting(f) /\ Counting(f)' /\ step = "addTotal" /\ step' = "carry"
           \/ Counting(f) /\ Counting(f)' /\ step = "carryTotal" /\ step' = "mask"
           \/ Counting(f) /\ ~Counting(f)' /\ step = "maskTotal"
    PROVE  CountOf(f)'
BY DEF CountOf, Value

LEMMA CountStep == TrafficTypeOK /\ CountInv /\ [Next]_vars => CountInv'
<1> SUFFICES ASSUME TrafficTypeOK, CountInv, [Next]_vars, NEW f \in Counted
             PROVE  CountOf(f)'
  BY ProtocolStays DEF CountInv
<1>0. CountOf(f)
  BY DEF CountInv
<1>1. ASSUME NEW c \in Conns, NEW d \in Dirs, NEW n \in 1..MaxRead, Read(c, d, n)
      PROVE  CountOf(f)'
  <2>1. ~Counting(f) /\ Cur' = <<c, d>> /\ step' = "add" /\ job'.n = n
    BY <1>1 DEF Read, Counting, Cur
  <2>2. bytes'[f] = bytes[f] /\ mega'[f] = mega[f]
    BY <1>1 DEF Read
  <2>3. CASE f # <<c, d>>
    <3>1. carried'[f] = carried[f]
      BY <1>1, <2>3, FlowTypes, TrafficAssumption DEF Read, TrafficTypeOK
    <3>2. QED BY <1>0, <2>1, <2>2, <2>3, <3>1, CountFrame DEF Counting
  <2>4. CASE f = <<c, d>>
    <3>1. carried'[f] = carried[f] + n
      BY <1>1, <2>4, FlowTypes, TrafficAssumption DEF Read, TrafficTypeOK, Flows
    <3>2. QED BY <1>0, <2>1, <2>2, <2>4, <3>1, FlowTypes DEF CountOf, Counting, Value
  <2>5. QED BY <2>3, <2>4
<1>2. ASSUME NEW here \in Steps, NEW next \in Steps, At(here, next), here # "idle", next # "idle"
      PROVE  /\ Counting(f)' <=> Counting(f)
             /\ carried' = carried /\ job' = job /\ Cur' = Cur /\ step = here /\ step' = next
  BY <1>2 DEF At, Counting, Cur
<1>3. CASE AddCur
  <2>1. Add(Cur) /\ At("add", "addTotal") /\ Cur \in Flows
    BY <1>3 DEF AddCur, At, TrafficTypeOK, Cur, Flows, Dirs
  <2>2. CASE ~Counting(f)
    <3>1. bytes'[f] = bytes[f] /\ mega'[f] = mega[f]
      BY <2>1, <2>2, FlowTypes DEF Add, TrafficTypeOK, At, Counting
    <3>2. QED BY <1>0, <1>2, <2>1, <2>2, <3>1, CountFrame DEF Steps
  <2>3. CASE Counting(f)
    <3>1. bytes'[f] = bytes[f] + job.n /\ mega'[f] = mega[f]
      BY <2>1, <2>3, FlowTypes DEF Add, TrafficTypeOK, Counting
    <3>2. Value(f) + job.n = carried[f] /\ bytes[f] < Radix
      BY <1>0, <2>1, <2>3 DEF CountOf, At
    <3>3. mega'[f] * Radix + bytes'[f] = carried[f] /\ bytes'[f] < Radix + MaxRead
      BY <3>1, <3>2, FlowTypes, RadixPositive DEF Value
    <3>4. QED BY <1>2, <2>1, <2>3, <3>3 DEF CountOf, Value, Steps
  <2>4. QED BY <2>2, <2>3
<1>4. CASE AddTotal
  <2>1. bytes'[f] = bytes[f] /\ mega'[f] = mega[f]
    BY <1>4, FlowTypes DEF AddTotal, Add, TrafficTypeOK
  <2>2. QED BY <1>0, <1>2, <1>4, <2>1, CountFrame DEF AddTotal, Steps
<1>5. CASE CarryCur
  <2>1. Carry(Cur) /\ At("carry", "carryTotal") /\ Cur \in Flows
    BY <1>5 DEF CarryCur, At, TrafficTypeOK, Cur, Flows, Dirs
  <2>2. CASE ~Counting(f)
    <3>1. bytes'[f] = bytes[f] /\ mega'[f] = mega[f]
      BY <2>1, <2>2, FlowTypes DEF Carry, TrafficTypeOK, At, Counting
    <3>2. QED BY <1>0, <1>2, <2>1, <2>2, <3>1, CountFrame DEF Steps
  <2>3. CASE Counting(f)
    <3>1. bytes'[f] = bytes[f] /\ mega'[f] = mega[f] + bytes[f] \div Radix
      BY <2>1, <2>3, FlowTypes DEF Carry, TrafficTypeOK, Counting
    <3>2. mega'[f] * Radix + (bytes[f] % Radix) = mega[f] * Radix + bytes[f]
      BY <3>1, CarryKeepsValue, FlowTypes, RadixPositive
    <3>3. mega[f] * Radix + bytes[f] = carried[f] /\ bytes[f] < Radix + MaxRead
      BY <1>0, <2>1, <2>3 DEF CountOf, Value, At
    <3>4. QED BY <1>2, <2>1, <2>3, <3>1, <3>2, <3>3 DEF CountOf, Steps
  <2>4. QED BY <2>2, <2>3
<1>6. CASE CarryTotal
  <2>1. bytes'[f] = bytes[f] /\ mega'[f] = mega[f]
    BY <1>6, FlowTypes DEF CarryTotal, Carry, TrafficTypeOK
  <2>2. QED BY <1>0, <1>2, <1>6, <2>1, CountFrame DEF CarryTotal, Steps
<1>7. CASE MaskCur
  <2>1. Mask(Cur) /\ At("mask", "maskTotal") /\ Cur \in Flows
    BY <1>7 DEF MaskCur, At, TrafficTypeOK, Cur, Flows, Dirs
  <2>2. CASE ~Counting(f)
    <3>1. bytes'[f] = bytes[f] /\ mega'[f] = mega[f]
      BY <2>1, <2>2, FlowTypes DEF Mask, TrafficTypeOK, At, Counting
    <3>2. QED BY <1>0, <1>2, <2>1, <2>2, <3>1, CountFrame DEF Steps
  <2>3. CASE Counting(f)
    <3>1. bytes'[f] = bytes[f] % Radix /\ mega'[f] = mega[f]
      BY <2>1, <2>3, FlowTypes DEF Mask, TrafficTypeOK, Counting
    <3>2. bytes[f] % Radix < Radix
      BY DivMod, FlowTypes, RadixPositive
    <3>3. mega[f] * Radix + (bytes[f] % Radix) = carried[f]
      BY <1>0, <2>1, <2>3 DEF CountOf, At
    <3>4. QED BY <1>2, <2>1, <2>3, <3>1, <3>2, <3>3 DEF CountOf, Value, Steps
  <2>4. QED BY <2>2, <2>3
<1>8. CASE MaskTotal
  <2>1. bytes'[f] = bytes[f] /\ mega'[f] = mega[f] /\ carried' = carried
    BY <1>8, FlowTypes DEF MaskTotal, Mask, At, TrafficTypeOK
  <2>2. step = "maskTotal" /\ ~Counting(f)'
    BY <1>8 DEF MaskTotal, At, Counting
  <2>3. QED BY <1>0, <2>1, <2>2, CountFrame
<1>9. ASSUME NEW c \in Conns, Reopen(c) PROVE CountOf(f)'
  <2>1. ~Counting(f) /\ ~Counting(f)'
    BY <1>9 DEF Reopen, Counting
  <2>2. CASE f[1] # c
    <3>1. bytes'[f] = bytes[f] /\ mega'[f] = mega[f] /\ carried'[f] = carried[f]
      BY <1>9, <2>2, FlowTypes DEF Reopen, TrafficTypeOK
    <3>2. QED BY <1>0, <2>1, <3>1, CountFrame
  <2>3. CASE f[1] = c
    <3>1. bytes'[f] = 0 /\ mega'[f] = 0 /\ carried'[f] = 0
      BY <1>9, <2>3, FlowTypes DEF Reopen
    <3>2. mega'[f] * Radix + bytes'[f] = carried'[f] /\ bytes'[f] < Radix
      BY <3>1, RadixPositive
    <3>3. QED BY <2>1, <3>2 DEF CountOf, Value, Counting
  <2>4. QED BY <2>2, <2>3
<1>10. ASSUME NEW who \in Conns \cup {Total}, NEW d \in Dirs, NEW firstM \in BOOLEAN,
              Refresh(who, d, firstM)
       PROVE  CountOf(f)'
  BY <1>0, <1>10 DEF Refresh, CountOf, Counting, Cur, Value
<1>11. CASE ReadOther \/ Show \/ UNCHANGED vars
  BY <1>0, <1>11 DEF ReadOther, Show, vars, CountOf, Counting, Cur, Value
<1>12. QED
  BY <1>1, <1>3, <1>4, <1>5, <1>6, <1>7, <1>8, <1>9, <1>10, <1>11
     DEF Next, LoopNext, UiNext

LEMMA CountInit == Init => CountInv
<1> SUFFICES ASSUME Init, NEW f \in Counted PROVE CountOf(f)
  BY DEF CountInv
<1>1. bytes[f] = 0 /\ mega[f] = 0 /\ carried[f] = 0 /\ ~Counting(f)
  BY DEF Init, Counted, CountedDirs, Flows, Dirs, Counting
<1>2. QED BY <1>1, RadixPositive DEF CountOf, Value

-----------------------------------------------------------------------------
(* The flows whose megabytes are taken from the other direction, which was *)
(* masked when its own callback ended: they have none, and their bytes are *)
(* a remainder of what was carried.                                        *)
LateFlows == IF bTCP THEN (Conns \cup {Total}) \X {"server"} ELSE {}

(* What the present callback will still add to flow f, and whether it has  *)
(* yet to mask it.                                                         *)
Due(f) ==
    IF \/ step = "add" /\ f \in {Cur, All}
       \/ step = "addTotal" /\ f = All
    THEN job.n ELSE 0

Unmasked(f) ==
    \/ f = Cur /\ step \in {"addTotal", "carry", "carryTotal", "mask"}
    \/ f = All /\ step \in {"carry", "carryTotal", "mask", "maskTotal"}

LateOf(f) ==
    /\ mega[f] = 0
    /\ bytes[f] + Due(f) <= carried[f]
    /\ (bytes[f] + Due(f)) % Radix = carried[f] % Radix
    /\ bytes[f] < Radix \/ Unmasked(f)

LateInv == \A f \in LateFlows : LateOf(f)

LEMMA LateTypes ==
    ASSUME TrafficTypeOK, NEW f \in LateFlows
    PROVE  /\ f \in Flows /\ f = <<f[1], "server">> /\ bTCP
           /\ bytes[f] \in Nat /\ mega[f] \in Nat /\ carried[f] \in Nat
           /\ job.n \in Nat /\ Due(f) \in Nat
<1>1. f \in Flows /\ f = <<f[1], "server">> /\ bTCP
  BY DEF LateFlows, Flows, Dirs
<1>2. job.n \in Nat
  BY TrafficAssumption DEF TrafficTypeOK
<1>3. QED BY <1>1, <1>2 DEF TrafficTypeOK, Due

LEMMA LateFrame ==
    ASSUME NEW f \in LateFlows, LateOf(f), bytes'[f] = bytes[f], mega'[f] = mega[f],
           carried'[f] = carried[f], Due(f)' = Due(f), Unmasked(f) => Unmasked(f)'
    PROVE  LateOf(f)'
BY DEF LateOf

(* What tcp_read_cb carries of the server's bytes are the client's, and of *)
(* these there is less than a megabyte.                                    *)
LEMMA NothingCarried ==
    ASSUME TrafficTypeOK, CountInv, NEW f \in LateFlows, f \in {Cur, All}, step # "idle"
    PROVE  bytes[Source] \div Radix = 0
<1>1. job.conn \in Conns /\ job.dir = "server" /\ bTCP
  BY LateTypes DEF Cur, All, TrafficTypeOK
<1>2. Source = <<job.conn, "client">> /\ Source \in Counted /\ ~Counting(Source)
  BY <1>1 DEF Source, Counted, CountedDirs, Counting, Cur
<1>3. bytes[Source] \in Nat /\ bytes[Source] < Radix
  BY <1>2, FlowTypes DEF CountInv, CountOf
<1>4. \A b, q \in Nat : b < q => b \div q = 0
  OBVIOUS
<1>5. QED BY <1>3, <1>4, RadixPositive

LEMMA LateStep == TrafficTypeOK /\ CountInv /\ LateInv /\ [Next]_vars => LateInv'
<1> SUFFICES ASSUME TrafficTypeOK, CountInv, LateInv, [Next]_vars, NEW f \in LateFlows
             PROVE  LateOf(f)'
  BY ProtocolStays DEF LateInv, LateFlows
<1>0. /\ LateOf(f) /\ f \in Flows /\ bytes[f] \in Nat /\ mega[f] \in Nat
      /\ carried[f] \in Nat /\ job.n \in Nat /\ Due(f) \in Nat
  BY LateTypes DEF LateInv
<1>1. ASSUME NEW c \in Conns, NEW d \in Dirs, NEW n \in 1..MaxRead, Read(c, d, n)
      PROVE  LateOf(f)'
  <2>1. /\ bytes' = bytes /\ mega' = mega /\ step = "idle" /\ step' = "add"
        /\ Cur' = <<c, d>> /\ All' = <<Total, d>> /\ job'.n = n /\ n \in Nat
    BY <1>1, TrafficAssumption DEF Read, Cur, All
  <2>2. Due(f) = 0 /\ ~Unmasked(f)
    BY <2>1 DEF Due, Unmasked
  <2>3. CASE f \in {<<c, d>>, <<Total, d>>}
    <3>1. carried'[f] = carried[f] + n
      BY <1>0, <1>1, <2>3, TrafficAssumption DEF Read, TrafficTypeOK
    <3>2. Due(f)' = n
      <4>1. f = Cur' \/ f = All'
        BY <2>1, <2>3
      <4>2. QED BY <2>1, <4>1 DEF Due
    <3>3. bytes[f] <= carried[f] /\ bytes[f] % Radix = carried[f] % Radix /\ bytes[f] < Radix
      <4>1. bytes[f] + 0 = bytes[f]
        BY <1>0
      <4>2. QED BY <1>0, <2>2, <4>1 DEF LateOf
    <3>4. (bytes[f] + n) % Radix = (carried[f] + n) % Radix
      BY <1>0, <2>1, <3>3, RadixAdds, Zenon
    <3>5. bytes[f] + n <= carried[f] + n
      BY <1>0, <2>1, <3>3
    <3>6. QED BY <1>0, <2>1, <3>1, <3>2, <3>3, <3>4, <3>5 DEF LateOf
  <2>4. CASE f \notin {<<c, d>>, <<Total, d>>}
    <3>1. carried'[f] = carried[f]
      BY <1>0, <1>1, <2>4, TrafficAssumption DEF Read, TrafficTypeOK
    <3>2. Due(f)' = 0
      BY <2>1, <2>4 DEF Due
    <3>3. QED BY <1>0, <2>1, <2>2, <3>1, <3>2, LateFrame
  <2>5. QED BY <2>3, <2>4
<1>2. ASSUME NEW here \in Steps, NEW next \in Steps \ {"idle"}, At(here, next)
      PROVE  /\ carried' = carried /\ job' = job /\ Cur' = Cur /\ All' = All
             /\ step = here /\ step' = next
  BY <1>2 DEF At, Cur, All
<1>3. CASE AddCur
  <2>1. At("add", "addTotal") /\ Add(Cur)
    BY <1>3 DEF AddCur
  <2>2. /\ carried' = carried /\ job' = job /\ Cur' = Cur /\ All' = All /\ mega' = mega
        /\ step = "add" /\ step' = "addTotal"
    BY <1>2, <2>1 DEF Steps, Add
  <2>3. Cur # All
    BY <2>2, TrafficAssumption DEF Cur, All, TrafficTypeOK
  <2>4. CASE f # Cur
    <3>1. bytes'[f] = bytes[f]
      BY <1>0, <2>1, <2>4 DEF Add, TrafficTypeOK
    <3>2. Due(f)' = Due(f) /\ (Unmasked(f) => Unmasked(f)')
      BY <2>2, <2>4 DEF Due, Unmasked
    <3>3. QED BY <1>0, <2>2, <3>1, <3>2, LateFrame
  <2>5. CASE f = Cur
    <3>1. bytes'[f] = bytes[f] + job.n
      BY <1>0, <2>1, <2>5 DEF Add, TrafficTypeOK
    <3>2. Due(f) = job.n
      BY <2>2, <2>5 DEF Due
    <3>3. f = Cur' /\ f # All'
      BY <2>2, <2>3, <2>5
    <3>4. Due(f)' = 0 /\ Unmasked(f)'
      BY <2>2, <3>3 DEF Due, Unmasked
    <3>5. bytes'[f] + 0 = bytes[f] + job.n
      BY <1>0, <3>1
    <3>6. QED BY <1>0, <2>2, <3>2, <3>4, <3>5 DEF LateOf
  <2>6. QED BY <2>4, <2>5
<1>4. CASE AddTotal
  <2>1. At("addTotal", "carry") /\ Add(All)
    BY <1>4 DEF AddTotal
  <2>2. /\ carried' = carried /\ job' = job /\ Cur' = Cur /\ All' = All /\ mega' = mega
        /\ step = "addTotal" /\ step' = "carry"
    BY <1>2, <2>1 DEF Steps, Add
  <2>3. CASE f # All
    <3>1. bytes'[f] = bytes[f]
      BY <1>0, <2>1, <2>3 DEF Add, TrafficTypeOK
    <3>2. Due(f)' = Due(f) /\ (Unmasked(f) => Unmasked(f)')
      BY <2>2, <2>3 DEF Due, Unmasked
    <3>3. QED BY <1>0, <2>2, <3>1, <3>2, LateFrame
  <2>4. CASE f = All
    <3>1. bytes'[f] = bytes[f] + job.n
      BY <1>0, <2>1, <2>4 DEF Add, TrafficTypeOK
    <3>2. Due(f) = job.n /\ Due(f)' = 0 /\ Unmasked(f)'
      BY <2>2, <2>4 DEF Due, Unmasked
    <3>3. bytes'[f] + 0 = bytes[f] + job.n
      BY <1>0, <3>1
    <3>4. QED BY <1>0, <2>2, <3>2, <3>3 DEF LateOf
  <2>5. QED BY <2>3, <2>4
<1>5. ASSUME NEW g \in {Cur, All}, Carry(g), step # "idle",
             At("carry", "carryTotal") \/ At("carryTotal", "mask")
      PROVE  LateOf(f)'
  <2>1. /\ carried' = carried /\ job' = job /\ Cur' = Cur /\ All' = All /\ bytes' = bytes
        /\ \/ step = "carry" /\ step' = "carryTotal"
           \/ step = "carryTotal" /\ step' = "mask"
    <3>1. CASE At("carry", "carryTotal")
      BY <1>2, <1>5, <3>1 DEF Steps, Carry
    <3>2. CASE At("carryTotal", "mask")
      BY <1>2, <1>5, <3>2 DEF Steps, Carry
    <3>3. QED BY <1>5, <3>1, <3>2
  <2>2. mega'[f] = mega[f]
    <3>1. CASE f # g
      BY <1>0, <1>5, <3>1 DEF Carry, TrafficTypeOK
    <3>2. CASE f = g
      <4>1. bytes[Source] \div Radix = 0
        BY <1>5, <3>2, NothingCarried
      <4>2. mega'[f] = mega[f] + bytes[Source] \div Radix
        BY <1>0, <1>5, <3>2 DEF Carry, TrafficTypeOK
      <4>3. QED BY <1>0, <4>1, <4>2
    <3>3. QED BY <3>1, <3>2
  <2>3. Due(f)' = Due(f) /\ (Unmasked(f) => Unmasked(f)')
    BY <2>1 DEF Due, Unmasked
  <2>4. QED BY <1>0, <2>1, <2>2, <2>3, LateFrame
<1>6. CASE CarryCur \/ CarryTotal
  BY <1>5, <1>6 DEF CarryCur, CarryTotal, At
<1>7. CASE MaskCur \/ MaskTotal
  <2>1. /\ carried' = carried /\ mega' = mega
        /\ \/ step = "mask" /\ step' = "maskTotal" /\ Cur' = Cur /\ All' = All
           \/ step = "maskTotal" /\ step' = "idle"
    BY <1>7 DEF MaskCur, MaskTotal, At, Mask, Cur, All
  <2>2. Due(f) = 0 /\ Due(f)' = 0 /\ bytes[f] + 0 = bytes[f]
    BY <1>0, <2>1 DEF Due
  <2>3. \/ bytes'[f] = bytes[f] /\ (Unmasked(f) => Unmasked(f)')
        \/ bytes'[f] = bytes[f] % Radix
    <3>1. CASE MaskCur
      BY <1>0, <2>1, <3>1 DEF MaskCur, At, Mask, TrafficTypeOK, Unmasked
    <3>2. CASE MaskTotal
      BY <1>0, <2>1, <3>2 DEF MaskTotal, At, Mask, TrafficTypeOK, Unmasked
    <3>3. QED BY <1>7, <3>1, <3>2
  <2>4. CASE bytes'[f] = bytes[f] /\ (Unmasked(f) => Unmasked(f)')
    BY <1>0, <2>1, <2>2, <2>4, LateFrame
  <2>5. CASE bytes'[f] = bytes[f] % Radix
    <3>1. /\ bytes[f] % Radix \in Nat /\ bytes[f] % Radix < Radix /\ bytes[f] % Radix <= bytes[f]
          /\ (bytes[f] % Radix) % Radix = bytes[f] % Radix
      BY <1>0, DivMod, MaskMask, RadixPositive
    <3>2. bytes[f] <= carried[f] /\ bytes[f] % Radix = carried[f] % Radix
      BY <1>0, <2>2 DEF LateOf
    <3>3. bytes'[f] + 0 = bytes[f] % Radix /\ bytes'[f] + 0 <= carried[f]
      BY <1>0, <2>5, <3>1, <3>2
    <3>4. QED BY <1>0, <2>1, <2>2, <2>5, <3>1, <3>2, <3>3 DEF LateOf
  <2>6. QED BY <2>3, <2>4, <2>5
<1>8. ASSUME NEW c \in Conns, Reopen(c) PROVE LateOf(f)'
  <2>1. /\ step = "idle" /\ step' = "idle" /\ Due(f) = 0 /\ Due(f)' = 0
        /\ ~Unmasked(f) /\ ~Unmasked(f)'
    BY <1>8 DEF Reopen, Due, Unmasked
  <2>2. CASE f[1] # c
    <3>1. bytes'[f] = bytes[f] /\ mega'[f] = mega[f] /\ carried'[f] = carried[f]
      BY <1>0, <1>8, <2>2 DEF Reopen
    <3>2. QED BY <1>0, <2>1, <3>1, LateFrame
  <2>3. CASE f[1] = c
    <3>1. bytes'[f] = 0 /\ mega'[f] = 0 /\ carried'[f] = 0
      BY <1>0, <1>8, <2>3 DEF Reopen
    <3>2. 0 + 0 = 0 /\ 0 < Radix
      BY RadixPositive
    <3>3. QED BY <2>1, <3>1, <3>2 DEF LateOf
  <2>4. QED BY <2>2, <2>3
<1>9. ASSUME UNCHANGED <<bytes, mega, step, job, carried>> PROVE LateOf(f)'
  BY <1>0, <1>9 DEF LateOf, Due, Unmasked, Cur, All
<1>10. CASE UiNext \/ UNCHANGED vars
  BY <1>9, <1>10 DEF UiNext, Refresh, ReadOther, Show, vars
<1>11. QED BY <1>1, <1>3, <1>4, <1>6, <1>7, <1>8, <1>10 DEF Next, LoopNext

LEMMA LateInit == Init => LateInv
<1> SUFFICES ASSUME Init, NEW f \in LateFlows PROVE LateOf(f)
  BY DEF LateInv
<1>1. bytes[f] = 0 /\ mega[f] = 0 /\ carried[f] = 0 /\ Due(f) = 0
  BY DEF Init, LateFlows, Flows, Dirs, Due
<1>2. 0 + 0 = 0 /\ 0 < Radix
  BY RadixPositive
<1>3. QED BY <1>1, <1>2 DEF LateOf

LEMMA LateIsShort ==
    ASSUME TrafficTypeOK, LateInv, NEW f \in LateFlows, step = "idle"
    PROVE  bytes[f] < Radix /\ Short(f) >= 0 /\ Short(f) % Radix = 0
<1>1. /\ bytes[f] \in Nat /\ carried[f] \in Nat /\ mega[f] = 0 /\ bytes[f] + 0 = bytes[f]
      /\ Due(f) = 0 /\ ~Unmasked(f)
  BY LateTypes DEF LateInv, LateOf, Due, Unmasked
<1>2. bytes[f] < Radix /\ bytes[f] <= carried[f] /\ bytes[f] % Radix = carried[f] % Radix
  BY <1>1 DEF LateInv, LateOf
<1>3. Short(f) = carried[f] - bytes[f]
  BY <1>1, RadixPositive DEF Short, Value
<1>4. carried[f] - bytes[f] >= 0 /\ (carried[f] - bytes[f]) % Radix = 0
  BY <1>1, <1>2, SameRemainder, RadixPositive
<1>5. QED BY <1>2, <1>3, <1>4

(* Between two callbacks the counters of a connection are exact, or whole  *)
(* megabytes short over TCP for what its server sent, for any number of    *)
(* connections and any size of a megabyte.                                 *)
THEOREM CountersAreExact == Spec => []CountersExact
<1>1. ASSUME TrafficTypeOK, CountInv, LateInv PROVE CountersExact
  <2> SUFFICES ASSUME step = "idle", NEW f \in Conns \X Dirs
               PROVE  /\ bytes[f] < Radix /\ Short(f) >= 0 /\ Short(f) % Radix = 0
                      /\ f \in Counted => Short(f) = 0
    BY DEF CountersExact
  <2>1. CASE f \in Counted
    <3>1. Value(f) = carried[f] /\ bytes[f] < Radix
      BY <1>1, <2>1 DEF CountInv, CountOf, Counting
    <3>2. Short(f) = 0
      BY <1>1, <2>1, <3>1, FlowTypes DEF Short
    <3>3. 0 % Radix = 0
      BY RadixPositive, MaskSmall
    <3>4. QED BY <3>1, <3>2, <3>3
  <2>2. CASE f \notin Counted
    <3>1. f \in LateFlows
      BY <2>2 DEF Counted, CountedDirs, LateFlows, Dirs
    <3>2. QED BY <1>1, <2>2, <3>1, LateIsShort
  <2>3. QED BY <2>1, <2>2
<1>2. QED BY <1>1, TypeCorrect, CountInit, CountStep, LateInit, LateStep, PTL DEF Spec

-----------------------------------------------------------------------------
(* What the window may read of a counted flow at any moment.               *)
LEMMA ReadBounds ==
    ASSUME TrafficTypeOK, NEW f \in Counted, CountOf(f)
    PROVE  /\ mega[f] * Radix <= carried[f]
           /\ mega[f] * Radix > carried[f] - (Radix + MaxRead)
           /\ bytes[f] < Radix + MaxRead
<1>1. bytes[f] % Radix \in Nat /\ bytes[f] % Radix < Radix
  BY DivMod, FlowTypes, RadixPositive
<1>2. MaxRead \in Nat /\ MaxRead > 0
  BY TrafficAssumption
<1>3. CASE ~Counting(f) \/ step = "maskTotal"
  BY <1>2, <1>3, FlowTypes, RadixPositive DEF CountOf, Value
<1>4. CASE Counting(f) /\ step = "add"
  BY <1>2, <1>4, FlowTypes, RadixPositive DEF CountOf, Value
<1>5. CASE Counting(f) /\ step \in {"addTotal", "carry"}
  BY <1>2, <1>5, FlowTypes, RadixPositive DEF CountOf, Value
<1>6. CASE Counting(f) /\ step \in {"carryTotal", "mask"}
  BY <1>1, <1>2, <1>6, FlowTypes, RadixPositive DEF CountOf
<1>7. QED BY <1>3, <1>4, <1>5, <1>6 DEF TrafficTypeOK, Steps, Counting

(* The text GetFlowString makes of two counters is their value, without the *)
(* bytes below a kilobyte when there are gigabytes.                        *)
LEMMA TextIsNear ==
    ASSUME NEW m \in Nat, NEW b \in Nat
    PROVE  /\ TextValue(GetFlowString(m, b)) <= m * Radix + b
           /\ TextValue(GetFlowString(m, b)) > m * Radix + b - Kilo
<1> DEFINE q == b \div Kilo
           rest == IF m \div Kilo > 0 THEN 0 ELSE b % Kilo
<1>1. /\ m = (m \div Kilo) * Kilo + (m % Kilo)
      /\ m \div Kilo \in Nat /\ m % Kilo \in Nat
  BY DivMod, RadixPositive
<1>2. q \in Nat /\ b % Kilo \in Nat /\ b % Kilo < Kilo /\ b = q * Kilo + (b % Kilo)
  BY DivMod, RadixPositive
<1>3. TextValue(GetFlowString(m, b)) = (m * Kilo + q) * Kilo + rest
  BY <1>1 DEF TextValue, GetFlowString
<1>4. rest \in Nat /\ rest <= b % Kilo
  BY <1>2
<1> HIDE DEF q, rest
<1>5. (m * Kilo + q) * Kilo = (m * Kilo) * Kilo + q * Kilo
  BY <1>2, Distributes, RadixPositive
<1>6. (m * Kilo) * Kilo = m * Radix /\ m * Radix \in Nat /\ q * Kilo \in Nat
  <2>1. \A x, k \in Nat : (x * k) * k = x * (k * k) /\ x * k \in Nat
    OBVIOUS
  <2>2. QED BY <1>2, <2>1, RadixPositive DEF Radix
<1>7. QED BY <1>2, <1>3, <1>4, <1>5, <1>6, RadixPositive

(* What the window has read of a connection, half a refresh or a whole one. *)
Watched == <<look.who, look.dir>>

SeenInv ==
    look # NoLook /\ Watched \in Counted =>
        /\ look.since <= carried[Watched]
        /\ look.M >= 0 => /\ look.M * Radix <= carried[Watched]
                          /\ look.M * Radix > look.since - (Radix + MaxRead)
        /\ look.B >= 0 => look.B < Radix + MaxRead

LEMMA LookTypes ==
    ASSUME TrafficTypeOK, look # NoLook
    PROVE  /\ look.who \in Conns \cup {Total} /\ look.dir \in Dirs
           /\ look.since \in Nat /\ look.M \in Nat \cup {-1} /\ look.B \in Nat \cup {-1}
           /\ look = [who |-> look.who, dir |-> look.dir, since |-> look.since,
                      M |-> look.M, B |-> look.B]
BY DEF TrafficTypeOK

LEMMA SeenStep ==
    TrafficTypeOK /\ CountInv /\ SeenInv /\ [Next]_vars => SeenInv'
<1> SUFFICES ASSUME TrafficTypeOK, CountInv, SeenInv, [Next]_vars,
                    look' # NoLook, Watched' \in Counted
             PROVE  /\ look'.since <= carried'[Watched']
                    /\ look'.M >= 0 => /\ look'.M * Radix <= carried'[Watched']
                                       /\ look'.M * Radix > look'.since - (Radix + MaxRead)
                    /\ look'.B >= 0 => look'.B < Radix + MaxRead
  BY ProtocolStays DEF SeenInv, NoLook
<1> PICK f \in Counted : f = Watched'
  OBVIOUS
<1>1. /\ f \in Flows /\ carried[f] \in Nat /\ mega[f] \in Nat /\ bytes[f] \in Nat
      /\ mega[f] * Radix \in Nat
  BY FlowTypes
<1>2. /\ mega[f] * Radix <= carried[f] /\ mega[f] * Radix > carried[f] - (Radix + MaxRead)
      /\ bytes[f] < Radix + MaxRead
  BY ReadBounds DEF CountInv
<1>3. ASSUME look' = look, carried'[f] \in Nat, carried'[f] >= carried[f]
      PROVE  /\ look'.since <= carried'[f]
             /\ look'.M >= 0 => /\ look'.M * Radix <= carried'[f]
                                /\ look'.M * Radix > look'.since - (Radix + MaxRead)
             /\ look'.B >= 0 => look'.B < Radix + MaxRead
  <2>1. look # NoLook /\ Watched = f
    BY <1>3 DEF Watched
  <2>2. look.M >= 0 => look.M * Radix \in Nat
    BY <2>1, LookTypes, RadixPositive, Distributes
  <2>3. QED BY <1>1, <1>3, <2>1, <2>2, LookTypes DEF SeenInv
<1>4. ASSUME NEW c \in Conns, NEW d \in Dirs, NEW n \in 1..MaxRead, Read(c, d, n)
      PROVE  look' = look /\ carried'[f] \in Nat /\ carried'[f] >= carried[f]
  <2>1. carried'[f] = carried[f] \/ carried'[f] = carried[f] + n
    BY <1>4, FlowTypes DEF Read, TrafficTypeOK, Flows
  <2>2. QED BY <1>1, <1>4, <2>1, TrafficAssumption DEF Read
<1>5. ASSUME NEW c \in Conns, Reopen(c)
      PROVE  look' = look /\ carried'[f] \in Nat /\ carried'[f] >= carried[f]
  <2>1. f[1] # c
    BY <1>5 DEF Reopen, Watched
  <2>2. QED BY <1>1, <1>5, <2>1 DEF Reopen
<1>6. ASSUME AddCur \/ AddTotal \/ CarryCur \/ CarryTotal \/ MaskCur \/ MaskTotal \/ UNCHANGED vars
      PROVE  look' = look /\ carried'[f] \in Nat /\ carried'[f] >= carried[f]
  BY <1>1, <1>6 DEF AddCur, AddTotal, CarryCur, CarryTotal, MaskCur, MaskTotal, At, vars
<1>7. ASSUME NEW who \in Conns \cup {Total}, NEW d \in Dirs, NEW firstM \in BOOLEAN,
             Refresh(who, d, firstM)
      PROVE  /\ look'.since <= carried'[f]
             /\ look'.M >= 0 => /\ look'.M * Radix <= carried'[f]
                                /\ look'.M * Radix > look'.since - (Radix + MaxRead)
             /\ look'.B >= 0 => look'.B < Radix + MaxRead
  <2>1. f = <<who, d>> /\ carried' = carried /\ look'.since = carried[f]
    BY <1>7 DEF Refresh, Watched
  <2>2. look'.M = (IF firstM THEN mega[f] ELSE -1) /\ look'.B = (IF firstM THEN -1 ELSE bytes[f])
    BY <1>7, <2>1 DEF Refresh
  <2>3. QED BY <1>1, <1>2, <2>1, <2>2
<1>8. ASSUME ReadOther
      PROVE  /\ look'.since <= carried'[f]
             /\ look'.M >= 0 => /\ look'.M * Radix <= carried'[f]
                                /\ look'.M * Radix > look'.since - (Radix + MaxRead)
             /\ look'.B >= 0 => look'.B < Radix + MaxRead
  <2>1. look # NoLook /\ carried' = carried
    BY <1>8 DEF ReadOther
  <2>2. /\ look'.who = look.who /\ look'.dir = look.dir /\ look'.since = look.since
        /\ \/ look'.M = mega[<<look.who, look.dir>>] /\ look'.B = look.B
           \/ look'.M = look.M /\ look'.B = bytes[<<look.who, look.dir>>]
    BY <1>8, <2>1, LookTypes DEF ReadOther
  <2>3. Watched = f
    BY <2>2 DEF Watched
  <2>4. /\ look.since <= carried[f] /\ look.since \in Nat
        /\ look.M >= 0 => /\ look.M * Radix <= carried[f]
                          /\ look.M * Radix > look.since - (Radix + MaxRead)
        /\ look.B >= 0 => look.B < Radix + MaxRead
    BY <2>1, <2>3, LookTypes DEF SeenInv
  <2>5. MaxRead \in Nat /\ <<look.who, look.dir>> = f
    BY <2>3, FlowTypes DEF Watched
  <2>6. CASE look'.M = look.M /\ look'.B = bytes[f]
    BY <1>2, <2>1, <2>2, <2>4, <2>6
  <2>7. CASE look'.M = mega[f] /\ look'.B = look.B
    BY <1>1, <1>2, <2>1, <2>2, <2>4, <2>5, <2>7, RadixPositive
  <2>8. QED BY <2>2, <2>5, <2>6, <2>7
<1>9. ~Show
  BY DEF Show
<1>10. QED
  BY <1>3, <1>4, <1>5, <1>6, <1>7, <1>8, <1>9 DEF Next, LoopNext, UiNext

(* What a refresh shows of a connection is near what was carried, whatever *)
(* the loop thread does between the two loads.                             *)
THEOREM RefreshesAreNear == Spec => []RefreshIsNear
<1>1. Init => SeenInv
  BY DEF Init, SeenInv, NoLook
<1>2. ASSUME TrafficTypeOK, SeenInv PROVE RefreshIsNear
  <2> SUFFICES ASSUME Complete, Watched \in Counted
               PROVE  LET shown == TextValue(GetFlowString(look.M, look.B))
                      IN /\ shown > look.since - (Radix + MaxRead + Kilo)
                         /\ shown < carried[Watched] + Radix + MaxRead
    BY DEF RefreshIsNear, Watched
  <2> DEFINE shown == TextValue(GetFlowString(look.M, look.B))
  <2>1. look # NoLook /\ look.M \in Nat /\ look.B \in Nat /\ look.since \in Nat
    BY <1>2, LookTypes DEF Complete
  <2>2. carried[Watched] \in Nat /\ MaxRead \in Nat
    BY <1>2, FlowTypes
  <2>3. shown <= look.M * Radix + look.B /\ shown > look.M * Radix + look.B - Kilo
    BY <2>1, TextIsNear
  <2>4. look.M * Radix \in Nat
    BY <2>1, RadixPositive, Distributes
  <2>5. shown \in Int
    BY <2>1, RadixPositive, DivMod DEF TextValue, GetFlowString
  <2> HIDE DEF shown
  <2>6. shown > look.since - (Radix + MaxRead + Kilo) /\ shown < carried[Watched] + Radix + MaxRead
    BY <1>2, <2>1, <2>2, <2>3, <2>4, <2>5, RadixPositive DEF SeenInv, Complete
  <2>7. QED BY <2>6 DEF shown
<1>3. QED BY <1>1, <1>2, TypeCorrect, CountInit, CountStep, CountersAreExact, SeenStep, PTL DEF Spec

-----------------------------------------------------------------------------
(* How far the counters of the mapping fall short of what was carried.     *)

(* What the connections have below the radix, and what the present         *)
(* callback has not yet carried to the mapping.                            *)
Rests(d) == [c \in Conns |-> bytes[<<c, d>>] % Radix]

Owed(d) ==
    IF job.dir # d \/ step \in {"idle", "mask", "maskTotal"} THEN 0
    ELSE IF step = "add" THEN job.n ELSE (bytes[Cur] \div Radix) * Radix

(* f is the sum of the remainders rest of any set of connections.          *)
Sums(f, rest) ==
    /\ f \in [SUBSET Conns -> Int]
    /\ \A T \in SUBSET Conns :
          /\ f[T] >= 0 /\ f[T] <= Cardinality(T) * (Radix - 1)
          /\ \A c \in T : f[T] = f[T \ {c}] + rest[c]

(* What the mapping lacks: the remainders of its connections, and those of *)
(* the connections that ended (lost).                                      *)
SumOf(d) ==
    \E f, lost :
        /\ Sums(f, Rests(d))
        /\ lost \in Nat /\ lost <= (opened - Cardinality(Conns)) * (Radix - 1)
        /\ carried[<<Total, d>>] = mega[<<Total, d>>] * Radix + lost + f[Conns] + Owed(d)

(* Each mask leaves the remainder of what was carried.                     *)
Uncounted(d) == IF job.dir = d /\ step \in {"add", "addTotal"} THEN job.n ELSE 0

RemainderOf(d) ==
    /\ (bytes[<<Total, d>>] + Uncounted(d)) % Radix = carried[<<Total, d>>] % Radix
    /\ step \in {"idle", "add", "addTotal"} \/ job.dir # d => bytes[<<Total, d>>] < Radix

SumInv == /\ opened >= Cardinality(Conns)
          /\ \A d \in CountedDirs : SumOf(d) /\ RemainderOf(d)

LEMMA RestTypes ==
    ASSUME TrafficTypeOK, NEW d \in Dirs
    PROVE  /\ Rests(d) \in [Conns -> 0..(Radix - 1)]
           /\ \A c \in Conns : <<c, d>> \in Flows /\ <<c, d>> # <<Total, d>>
                                /\ bytes[<<c, d>>] \in Nat
<1>1. ASSUME NEW c \in Conns
      PROVE  /\ <<c, d>> \in Flows /\ <<c, d>> # <<Total, d>> /\ bytes[<<c, d>>] \in Nat
             /\ bytes[<<c, d>>] % Radix \in 0..(Radix - 1)
  <2>1. <<c, d>> \in Flows /\ <<c, d>> # <<Total, d>>
    BY TrafficAssumption DEF Flows
  <2>2. bytes[<<c, d>>] \in Nat
    BY <2>1 DEF TrafficTypeOK
  <2>3. bytes[<<c, d>>] % Radix \in Nat /\ bytes[<<c, d>>] % Radix < Radix
    BY <2>2, DivMod, RadixPositive
  <2>4. QED BY <2>1, <2>2, <2>3, RadixPositive
<1>2. QED BY <1>1 DEF Rests

LEMMA TotalTypes ==
    ASSUME TrafficTypeOK, NEW d \in Dirs
    PROVE  /\ <<Total, d>> \in Flows
           /\ bytes[<<Total, d>>] \in Nat /\ mega[<<Total, d>>] \in Nat
           /\ carried[<<Total, d>>] \in Nat /\ mega[<<Total, d>>] * Radix \in Nat
           /\ job.n \in Nat /\ opened \in Nat /\ Cardinality(Conns) \in Nat
<1>1. <<Total, d>> \in Flows
  BY DEF Flows
<1>2. /\ bytes[<<Total, d>>] \in Nat /\ mega[<<Total, d>>] \in Nat
      /\ carried[<<Total, d>>] \in Nat /\ opened \in Nat
  BY <1>1 DEF TrafficTypeOK
<1>3. job.n \in Nat
  <2>1. job.n \in 0..MaxRead /\ MaxRead \in Nat
    BY TrafficAssumption DEF TrafficTypeOK
  <2>2. QED BY <2>1
<1>4. mega[<<Total, d>>] * Radix \in Nat
  BY <1>2, RadixPositive, Distributes
<1>5. Cardinality(Conns) \in Nat
  BY TrafficAssumption, FS_CardinalityType
<1>6. QED BY <1>1, <1>2, <1>3, <1>4, <1>5

(* The sums stay sums when the remainder of one connection changes.        *)
LEMMA SumsFollow ==
    ASSUME NEW rest \in [Conns -> 0..(Radix - 1)], NEW c \in Conns,
           NEW new \in 0..(Radix - 1), NEW f, Sums(f, rest)
    PROVE  \E g : Sums(g, [rest EXCEPT ![c] = new]) /\ g[Conns] = f[Conns] + new - rest[c]
<1> DEFINE old == rest[c]
           now == [rest EXCEPT ![c] = new]
           g == [T \in SUBSET Conns |-> IF c \in T THEN f[T] + new - old ELSE f[T]]
<1>1. old \in Nat /\ new \in Nat /\ new <= Radix - 1 /\ Radix \in Nat /\ Radix > 0
  BY RadixPositive
<1>2. /\ now[c] = new /\ \A x \in Conns \ {c} : now[x] = rest[x] /\ rest[x] \in Int
      /\ rest[c] = old
  BY RadixPositive
<1> HIDE DEF old, now
<1>3. \A T \in SUBSET Conns :
         /\ f[T] \in Int /\ f[T] >= 0 /\ f[T] <= Cardinality(T) * (Radix - 1)
         /\ \A x \in T : f[T] = f[T \ {x}] + rest[x]
  BY DEF Sums
<1>4. ASSUME NEW T \in SUBSET Conns
      PROVE  /\ g[T] \in Int
             /\ c \in T => g[T] = f[T \ {c}] + new
             /\ c \notin T => g[T] = f[T]
  <2>1. f[T] \in Int /\ (c \in T => f[T] = f[T \ {c}] + old /\ f[T \ {c}] \in Int)
    BY <1>2, <1>3
  <2>2. QED BY <1>1, <2>1
<1>5. g \in [SUBSET Conns -> Int]
  BY <1>4
<1>6. ASSUME NEW T \in SUBSET Conns
      PROVE  g[T] >= 0 /\ g[T] <= Cardinality(T) * (Radix - 1)
  <2>1. CASE c \notin T
    BY <1>3, <1>4, <2>1
  <2>2. CASE c \in T
    <3> DEFINE U == T \ {c}
               n == Cardinality(U)
               r == Radix - 1
    <3>1. IsFiniteSet(U)
      BY TrafficAssumption, FS_Subset
    <3>2. Cardinality(T) = n + 1 /\ n \in Nat
      <4>1. U \cup {c} = T /\ c \notin U
        BY <2>2
      <4> HIDE DEF U
      <4>2. QED BY <3>1, <4>1, FS_AddElement, FS_CardinalityType
    <3>3. f[U] \in Int /\ f[U] >= 0 /\ f[U] <= n * r
      BY <1>3
    <3>4. g[T] = f[U] + new
      BY <1>4, <2>2
    <3>5. r \in Nat /\ new <= r
      BY <1>1
    <3> HIDE DEF U, n, r
    <3>6. (n + 1) * r = n * r + 1 * r /\ n * r \in Nat /\ 1 * r = r
      BY <3>2, <3>5, Distributes
    <3>7. g[T] >= 0 /\ g[T] <= (n + 1) * r
      BY <1>1, <3>3, <3>4, <3>5, <3>6
    <3>8. QED BY <3>2, <3>7 DEF r
  <2>3. QED BY <2>1, <2>2
<1>7. ASSUME NEW T \in SUBSET Conns, NEW x \in T
      PROVE  g[T] = g[T \ {x}] + now[x]
  <2>1. CASE x = c
    <3>1. g[T] = f[T \ {c}] + new /\ g[T \ {c}] = f[T \ {c}]
      BY <1>4, <2>1
    <3>2. QED BY <1>2, <2>1, <3>1
  <2>2. CASE x # c
    <3> DEFINE a == f[T]
               b == f[T \ {x}]
    <3>1. a = b + rest[x] /\ a \in Int /\ b \in Int /\ now[x] = rest[x]
      BY <1>2, <1>3, <2>2
    <3>2. rest[x] \in Int
      BY <1>2, <2>2
    <3>3. g[T] = (IF c \in T THEN a + new - old ELSE a)
          /\ g[T \ {x}] = (IF c \in T THEN b + new - old ELSE b)
      BY <2>2
    <3> HIDE DEF g, a, b
    <3>4. QED BY <1>1, <3>1, <3>2, <3>3
  <2>3. QED BY <2>1, <2>2
<1>8. Sums(g, now)
  <2> HIDE DEF g
  <2>1. QED BY <1>5, <1>6, <1>7 DEF Sums
<1>9. g[Conns] = f[Conns] + new - old
  OBVIOUS
<1> HIDE DEF g
<1>10. QED BY <1>8, <1>9 DEF old, now

(* A step that concerns neither the totals of direction d, nor the         *)
(* remainders, nor what is owed.                                           *)
LEMMA SumFrame ==
    ASSUME NEW d \in Dirs, SumOf(d), Rests(d)' = Rests(d), opened' = opened,
           carried'[<<Total, d>>] = carried[<<Total, d>>],
           mega'[<<Total, d>>] = mega[<<Total, d>>], Owed(d)' = Owed(d)
    PROVE  SumOf(d)'
BY DEF SumOf

LEMMA SumInit == Init => SumInv
<1> SUFFICES ASSUME Init PROVE SumInv
  OBVIOUS
<1>1. Cardinality(Conns) \in Nat /\ opened = Cardinality(Conns)
  BY TrafficAssumption, FS_CardinalityType DEF Init
<1>2. ASSUME NEW d \in CountedDirs PROVE SumOf(d) /\ RemainderOf(d)
  <2>1. d \in Dirs /\ step = "idle" /\ Owed(d) = 0 /\ Uncounted(d) = 0
    BY DEF Init, CountedDirs, Dirs, Owed, Uncounted
  <2>2. /\ bytes[<<Total, d>>] = 0 /\ mega[<<Total, d>>] = 0 /\ carried[<<Total, d>>] = 0
        /\ \A c \in Conns : bytes[<<c, d>>] = 0
    BY <2>1 DEF Init, Flows
  <2>3. 0 % Radix = 0
    BY RadixPositive, MaskSmall
  <2> DEFINE f == [T \in SUBSET Conns |-> 0]
  <2>4. \A c \in Conns : Rests(d)[c] = 0
    BY <2>2, <2>3 DEF Rests
  <2>5. ASSUME NEW T \in SUBSET Conns PROVE 0 <= Cardinality(T) * (Radix - 1)
    <3>1. Cardinality(T) \in Nat /\ Radix - 1 \in Nat
      BY TrafficAssumption, FS_Subset, FS_CardinalityType, RadixPositive
    <3>2. QED BY <3>1, Distributes
  <2>6. Sums(f, Rests(d))
    <3>1. f \in [SUBSET Conns -> Int] /\ \A T \in SUBSET Conns : f[T] = 0
      OBVIOUS
    <3> HIDE DEF f
    <3>2. ASSUME NEW T \in SUBSET Conns, NEW c \in T PROVE f[T] = f[T \ {c}] + Rests(d)[c]
      BY <2>4, <3>1
    <3>3. QED BY <2>5, <3>1, <3>2 DEF Sums
  <2>7. f[Conns] = 0
    OBVIOUS
  <2> HIDE DEF f
  <2>8. 0 <= (opened - Cardinality(Conns)) * (Radix - 1)
    <3>1. opened - Cardinality(Conns) = 0 /\ Radix - 1 \in Nat
      BY <1>1, RadixPositive
    <3>2. QED BY <3>1, Distributes
  <2>9. carried[<<Total, d>>] = mega[<<Total, d>>] * Radix + 0 + f[Conns] + Owed(d)
    BY <2>1, <2>2, <2>7, RadixPositive
  <2>10. SumOf(d)
    BY <2>6, <2>8, <2>9 DEF SumOf
  <2>11. RemainderOf(d)
    BY <2>1, <2>2, RadixPositive DEF RemainderOf
  <2>12. QED BY <2>10, <2>11
<1>3. QED BY <1>1, <1>2 DEF SumInv

(* The callback of the other direction.                                    *)
LEMMA OtherDirection ==
    ASSUME TrafficTypeOK, NEW d \in CountedDirs, SumOf(d), RemainderOf(d), job.dir # d,
           AddCur \/ AddTotal \/ CarryCur \/ CarryTotal \/ MaskCur \/ MaskTotal
    PROVE  SumOf(d)' /\ RemainderOf(d)'
<1>1. d \in Dirs
  BY DEF CountedDirs, Dirs
<1>2. /\ carried' = carried /\ opened' = opened
      /\ job' = job \/ step' = "idle"
  BY DEF AddCur, AddTotal, CarryCur, CarryTotal, MaskCur, MaskTotal, At
<1>3. \A c \in Conns \cup {Total} : /\ bytes'[<<c, d>>] = bytes[<<c, d>>]
                                    /\ mega'[<<c, d>>] = mega[<<c, d>>]
  <2>1. ASSUME NEW c \in Conns \cup {Total}
        PROVE  <<c, d>> \in Flows /\ <<c, d>> # Cur /\ <<c, d>> # All
    BY <1>1 DEF Flows, Cur, All
  <2>2. QED BY <2>1 DEF AddCur, AddTotal, CarryCur, CarryTotal, MaskCur, MaskTotal,
                        Add, Carry, Mask, TrafficTypeOK
<1>4. Owed(d)' = Owed(d) /\ Uncounted(d)' = Uncounted(d)
  BY <1>2 DEF Owed, Uncounted
<1>5. Rests(d)' = Rests(d)
  BY <1>3 DEF Rests
<1>6. SumOf(d)'
  BY <1>1, <1>2, <1>3, <1>4, <1>5, SumFrame
<1>7. RemainderOf(d)'
  BY <1>2, <1>3, <1>4 DEF RemainderOf
<1>8. QED BY <1>6, <1>7

(* The flows of the callback that is running.                              *)
LEMMA CurFacts ==
    ASSUME TrafficTypeOK, CountInv, step # "idle", job.dir \in CountedDirs
    PROVE  /\ job.conn \in Conns /\ job.dir \in Dirs /\ Cur = <<job.conn, job.dir>>
           /\ All = <<Total, job.dir>> /\ Cur \in Counted /\ Source = Cur
           /\ Cur \in Flows /\ All \in Flows /\ Cur # All
           /\ bytes[Cur] \in Nat
           /\ step = "add" => bytes[Cur] < Radix
<1>1. job.conn \in Conns /\ job.dir \in Dirs /\ Cur = <<job.conn, job.dir>>
      /\ All = <<Total, job.dir>>
  BY DEF TrafficTypeOK, CountedDirs, Cur, All
<1>2. Cur \in Counted
  BY <1>1 DEF Counted, CountedDirs
<1>3. CountOf(Cur)
  BY <1>2 DEF CountInv
<1>4. Source = Cur /\ Cur \in Flows /\ All \in Flows /\ Cur # All /\ bytes[Cur] \in Nat
  <2>1. Cur \in Flows /\ Cur # All /\ bytes[Cur] \in Nat /\ Source = Cur
    BY <1>2, FlowTypes
  <2>2. QED BY <1>1, <2>1 DEF Flows
<1>5. step = "add" => bytes[Cur] < Radix
  BY <1>3 DEF CountOf, Counting
<1>6. QED BY <1>1, <1>2, <1>4, <1>5

(* The statements of a callback of direction d, one after the other.       *)
LEMMA SumRead ==
    ASSUME TrafficTypeOK, NEW d \in CountedDirs, SumOf(d), RemainderOf(d),
           NEW c \in Conns, NEW e \in Dirs, NEW n \in 1..MaxRead, Read(c, e, n)
    PROVE  SumOf(d)' /\ RemainderOf(d)'
<1>1. d \in Dirs /\ n \in Nat
  BY TrafficAssumption DEF CountedDirs, Dirs
<1>2. /\ bytes' = bytes /\ mega' = mega /\ opened' = opened
      /\ step = "idle" /\ step' = "add" /\ job'.dir = e /\ job'.n = n
  BY DEF Read
<1>3. Owed(d) = 0 /\ Uncounted(d) = 0 /\ bytes[<<Total, d>>] < Radix
  BY <1>2 DEF Owed, Uncounted, RemainderOf
<1>4. Rests(d)' = Rests(d)
  BY <1>2 DEF Rests
<1>5. CASE e # d
  <2>1. carried'[<<Total, d>>] = carried[<<Total, d>>]
    BY <1>1, <1>5, TrafficAssumption DEF Read, TrafficTypeOK, Flows
  <2>2. Owed(d)' = 0 /\ Uncounted(d)' = 0
    BY <1>2, <1>5 DEF Owed, Uncounted
  <2>3. SumOf(d)'
    BY <1>1, <1>2, <1>3, <1>4, <2>1, <2>2, SumFrame
  <2>4. QED BY <1>2, <1>3, <2>1, <2>2, <2>3 DEF RemainderOf
<1>6. CASE e = d
  <2>1. carried'[<<Total, d>>] = carried[<<Total, d>>] + n
    BY <1>1, <1>6, TrafficAssumption DEF Read, TrafficTypeOK, Flows
  <2>2. Owed(d)' = n /\ Uncounted(d)' = n
    BY <1>2, <1>6 DEF Owed, Uncounted
  <2>3. PICK f, lost :
           /\ Sums(f, Rests(d))
           /\ lost \in Nat /\ lost <= (opened - Cardinality(Conns)) * (Radix - 1)
           /\ carried[<<Total, d>>] = mega[<<Total, d>>] * Radix + lost + f[Conns] + Owed(d)
    BY DEF SumOf
  <2>4. f[Conns] \in Int
    BY <2>3 DEF Sums
  <2>5. carried'[<<Total, d>>] = mega'[<<Total, d>>] * Radix + lost + f[Conns] + Owed(d)'
    BY <1>1, <1>2, <1>3, <2>1, <2>2, <2>3, <2>4, TotalTypes
  <2>6. SumOf(d)'
    BY <1>2, <1>4, <2>3, <2>5 DEF SumOf
  <2>7. (bytes[<<Total, d>>] + n) % Radix = (carried[<<Total, d>>] + n) % Radix
    <3>1. bytes[<<Total, d>>] % Radix = carried[<<Total, d>>] % Radix
      BY <1>1, <1>3, TotalTypes DEF RemainderOf
    <3>2. bytes[<<Total, d>>] \in Nat /\ carried[<<Total, d>>] \in Nat
      BY <1>1, TotalTypes
    <3>3. QED BY <1>1, <3>1, <3>2, RadixAdds, Zenon
  <2>8. QED BY <1>2, <1>3, <2>1, <2>2, <2>6, <2>7 DEF RemainderOf
<1>7. QED BY <1>5, <1>6

LEMMA SumAddCur ==
    ASSUME TrafficTypeOK, CountInv, NEW d \in CountedDirs, SumOf(d), RemainderOf(d),
           job.dir = d, AddCur
    PROVE  SumOf(d)' /\ RemainderOf(d)'
<1> DEFINE c == job.conn
           b == bytes[<<c, d>>]
           n == job.n
<1>1. /\ carried' = carried /\ opened' = opened /\ job' = job /\ mega' = mega
      /\ step = "add" /\ step' = "addTotal" /\ bytes' = [bytes EXCEPT ![Cur] = @ + n]
  BY DEF AddCur, At, Add
<1>2. /\ d \in Dirs /\ c \in Conns /\ Cur = <<c, d>> /\ Cur \in Flows
      /\ b \in Nat /\ b < Radix /\ n \in Nat /\ Source = Cur
  BY <1>1, CurFacts, TotalTypes
<1>3. bytes'[<<c, d>>] = b + n /\ b + n \in Nat
  BY <1>1, <1>2 DEF TrafficTypeOK
<1>4. bytes'[<<Total, d>>] = bytes[<<Total, d>>]
  BY <1>1, <1>2, TotalTypes, RestTypes DEF TrafficTypeOK
<1>5. \A x \in Conns \ {c} : bytes'[<<x, d>>] = bytes[<<x, d>>]
  BY <1>1, <1>2, RestTypes DEF TrafficTypeOK
<1> DEFINE new == (b + n) % Radix
           q == (b + n) \div Radix
<1>6. new \in Nat /\ new < Radix /\ q \in Nat /\ q * Radix \in Nat /\ b + n = q * Radix + new
  BY <1>2, <1>3, RadixPositive, DivMod, Distributes
<1>7. Rests(d)[c] = b
  BY <1>2, RadixPositive, MaskSmall DEF Rests
<1>8. Rests(d)' = [Rests(d) EXCEPT ![c] = new]
  <2>1. Rests(d)' = [x \in Conns |-> bytes'[<<x, d>>] % Radix]
    BY DEF Rests
  <2>2. [Rests(d) EXCEPT ![c] = new]
           = [x \in Conns |-> IF x = c THEN new ELSE bytes[<<x, d>>] % Radix]
    BY DEF Rests
  <2>3. ASSUME NEW x \in Conns
        PROVE  bytes'[<<x, d>>] % Radix = IF x = c THEN new ELSE bytes[<<x, d>>] % Radix
    BY <1>2, <1>3, <1>5
  <2> HIDE DEF c, new
  <2>4. QED BY <2>1, <2>2, <2>3
<1>9. Owed(d) = n /\ Uncounted(d) = n /\ Uncounted(d)' = n
  BY <1>1 DEF Owed, Uncounted
<1>10. Owed(d)' = q * Radix
  <2>1. Cur' = Cur
    BY <1>1 DEF Cur
  <2>2. bytes'[Cur'] = b + n
    BY <1>2, <1>3, <2>1
  <2>3. Owed(d)' = (bytes'[Cur'] \div Radix) * Radix
    BY <1>1 DEF Owed
  <2>4. QED BY <2>2, <2>3
<1>11. PICK f, lost :
          /\ Sums(f, Rests(d))
          /\ lost \in Nat /\ lost <= (opened - Cardinality(Conns)) * (Radix - 1)
          /\ carried[<<Total, d>>] = mega[<<Total, d>>] * Radix + lost + f[Conns] + Owed(d)
  BY DEF SumOf
<1> HIDE DEF new, q, b, c, n
<1>12. PICK g : Sums(g, [Rests(d) EXCEPT ![c] = new])
                /\ g[Conns] = f[Conns] + new - Rests(d)[c]
  <2>1. Rests(d) \in [Conns -> 0..(Radix - 1)] /\ new \in 0..(Radix - 1)
    BY <1>2, <1>6, RestTypes, RadixPositive
  <2>2. QED BY <1>2, <1>11, <2>1, SumsFollow
<1>13. f[Conns] \in Int /\ g[Conns] \in Int
  BY <1>11, <1>12 DEF Sums
<1>14. carried[<<Total, d>>] = mega[<<Total, d>>] * Radix + lost + g[Conns] + q * Radix
  BY <1>2, <1>6, <1>7, <1>9, <1>11, <1>12, <1>13, TotalTypes
<1>15. SumOf(d)'
  BY <1>1, <1>8, <1>10, <1>11, <1>12, <1>14 DEF SumOf
<1>16. QED BY <1>1, <1>4, <1>9, <1>15 DEF RemainderOf

LEMMA SumAddTotal ==
    ASSUME TrafficTypeOK, CountInv, NEW d \in CountedDirs, SumOf(d), RemainderOf(d),
           job.dir = d, AddTotal
    PROVE  SumOf(d)' /\ RemainderOf(d)'
<1>1. /\ carried' = carried /\ opened' = opened /\ job' = job /\ mega' = mega
      /\ step = "addTotal" /\ step' = "carry"
      /\ bytes' = [bytes EXCEPT ![All] = @ + job.n]
  BY DEF AddTotal, At, Add
<1>2. d \in Dirs /\ All = <<Total, d>> /\ Cur \in Flows /\ Cur # All
  BY <1>1, CurFacts
<1>3. bytes'[<<Total, d>>] = bytes[<<Total, d>>] + job.n
  BY <1>1, <1>2, TotalTypes DEF TrafficTypeOK
<1>4. bytes'[Cur] = bytes[Cur] /\ Cur' = Cur
  BY <1>1, <1>2 DEF TrafficTypeOK, Cur
<1>5. \A c \in Conns : bytes'[<<c, d>>] = bytes[<<c, d>>]
  BY <1>1, <1>2, RestTypes DEF TrafficTypeOK
<1>6. Rests(d)' = Rests(d)
  BY <1>5 DEF Rests
<1>7. Owed(d)' = Owed(d) /\ Uncounted(d) = job.n /\ Uncounted(d)' = 0
  BY <1>1, <1>4 DEF Owed, Uncounted
<1>8. SumOf(d)'
  BY <1>1, <1>2, <1>6, <1>7, SumFrame
<1>9. bytes'[<<Total, d>>] + 0 = bytes'[<<Total, d>>]
  BY <1>2, <1>3, TotalTypes
<1>10. QED BY <1>1, <1>3, <1>7, <1>8, <1>9 DEF RemainderOf

LEMMA SumCarryCur ==
    ASSUME TrafficTypeOK, CountInv, NEW d \in CountedDirs, SumOf(d), RemainderOf(d),
           job.dir = d, CarryCur
    PROVE  SumOf(d)' /\ RemainderOf(d)'
<1>1. /\ carried' = carried /\ opened' = opened /\ job' = job /\ bytes' = bytes
      /\ step = "carry" /\ step' = "carryTotal"
      /\ mega' = [mega EXCEPT ![Cur] = @ + bytes[Source] \div Radix]
  BY DEF CarryCur, At, Carry
<1>2. d \in Dirs /\ All = <<Total, d>> /\ Cur # All
  BY <1>1, CurFacts
<1>3. mega'[<<Total, d>>] = mega[<<Total, d>>]
  BY <1>1, <1>2, TotalTypes DEF TrafficTypeOK
<1>4. Rests(d)' = Rests(d) /\ Owed(d)' = Owed(d) /\ Uncounted(d)' = Uncounted(d)
  BY <1>1 DEF Rests, Owed, Uncounted, Cur
<1>5. SumOf(d)'
  BY <1>1, <1>2, <1>3, <1>4, SumFrame
<1>6. QED BY <1>1, <1>4, <1>5 DEF RemainderOf

LEMMA SumCarryTotal ==
    ASSUME TrafficTypeOK, CountInv, NEW d \in CountedDirs, SumOf(d), RemainderOf(d),
           job.dir = d, CarryTotal
    PROVE  SumOf(d)' /\ RemainderOf(d)'
<1> DEFINE q == bytes[Cur] \div Radix
           m == mega[<<Total, d>>]
<1>1. /\ carried' = carried /\ opened' = opened /\ job' = job /\ bytes' = bytes
      /\ step = "carryTotal" /\ step' = "mask"
      /\ mega' = [mega EXCEPT ![All] = @ + bytes[Source] \div Radix]
  BY DEF CarryTotal, At, Carry
<1>2. d \in Dirs /\ All = <<Total, d>> /\ Source = Cur /\ bytes[Cur] \in Nat
  BY <1>1, CurFacts
<1>3. mega'[<<Total, d>>] = m + q
  BY <1>1, <1>2, TotalTypes DEF TrafficTypeOK
<1>4. q \in Nat /\ m \in Nat
  BY <1>2, DivMod, RadixPositive, TotalTypes
<1>5. Owed(d) = q * Radix /\ Owed(d)' = 0 /\ Uncounted(d)' = Uncounted(d)
  BY <1>1 DEF Owed, Uncounted
<1>6. Rests(d)' = Rests(d)
  BY <1>1 DEF Rests
<1>7. PICK f, lost :
         /\ Sums(f, Rests(d))
         /\ lost \in Nat /\ lost <= (opened - Cardinality(Conns)) * (Radix - 1)
         /\ carried[<<Total, d>>] = m * Radix + lost + f[Conns] + Owed(d)
  BY DEF SumOf
<1> HIDE DEF q, m
<1>8. f[Conns] \in Int
  BY <1>7 DEF Sums
<1>9. (m + q) * Radix = m * Radix + q * Radix /\ m * Radix \in Nat /\ q * Radix \in Nat
  BY <1>4, Distributes, RadixPositive
<1>10. carried[<<Total, d>>] = (m + q) * Radix + lost + f[Conns] + 0
  BY <1>5, <1>7, <1>8, <1>9
<1>11. SumOf(d)'
  BY <1>1, <1>3, <1>5, <1>6, <1>7, <1>10 DEF SumOf
<1>12. QED BY <1>1, <1>5, <1>11 DEF RemainderOf

LEMMA SumMaskCur ==
    ASSUME TrafficTypeOK, CountInv, NEW d \in CountedDirs, SumOf(d), RemainderOf(d),
           job.dir = d, MaskCur
    PROVE  SumOf(d)' /\ RemainderOf(d)'
<1>1. /\ carried' = carried /\ opened' = opened /\ job' = job /\ mega' = mega
      /\ step = "mask" /\ step' = "maskTotal"
      /\ bytes' = [bytes EXCEPT ![Cur] = @ % Radix]
  BY DEF MaskCur, At, Mask
<1>2. d \in Dirs /\ All = <<Total, d>> /\ Cur # All /\ bytes[Cur] \in Nat /\ Cur \in Flows
  BY <1>1, CurFacts
<1>3. bytes'[<<Total, d>>] = bytes[<<Total, d>>]
  BY <1>1, <1>2, TotalTypes DEF TrafficTypeOK
<1>4. ASSUME NEW c \in Conns PROVE bytes'[<<c, d>>] % Radix = bytes[<<c, d>>] % Radix
  <2>1. <<c, d>> \in Flows /\ bytes[<<c, d>>] \in Nat
    BY <1>2, RestTypes
  <2>2. \/ bytes'[<<c, d>>] = bytes[<<c, d>>]
        \/ bytes'[<<c, d>>] = bytes[<<c, d>>] % Radix
    BY <1>1, <1>2, <2>1 DEF TrafficTypeOK
  <2>3. QED BY <2>1, <2>2, MaskMask, RadixPositive
<1>5. Rests(d)' = Rests(d)
  BY <1>4 DEF Rests
<1>6. Owed(d)' = Owed(d) /\ Uncounted(d)' = Uncounted(d)
  BY <1>1 DEF Owed, Uncounted
<1>7. SumOf(d)'
  BY <1>1, <1>2, <1>5, <1>6, SumFrame
<1>8. QED BY <1>1, <1>3, <1>6, <1>7 DEF RemainderOf

LEMMA SumMaskTotal ==
    ASSUME TrafficTypeOK, CountInv, NEW d \in CountedDirs, SumOf(d), RemainderOf(d),
           job.dir = d, MaskTotal
    PROVE  SumOf(d)' /\ RemainderOf(d)'
<1> DEFINE b == bytes[<<Total, d>>]
<1>1. /\ carried' = carried /\ opened' = opened /\ job' = NoJob /\ mega' = mega
      /\ step = "maskTotal" /\ step' = "idle"
      /\ bytes' = [bytes EXCEPT ![All] = @ % Radix]
  BY DEF MaskTotal, At, Mask
<1>2. d \in Dirs /\ All = <<Total, d>>
  BY <1>1, CurFacts
<1>3. bytes'[<<Total, d>>] = b % Radix
  BY <1>1, <1>2, TotalTypes DEF TrafficTypeOK
<1>4. \A c \in Conns : bytes'[<<c, d>>] = bytes[<<c, d>>]
  BY <1>1, <1>2, RestTypes DEF TrafficTypeOK
<1>5. Rests(d)' = Rests(d)
  BY <1>4 DEF Rests
<1>6. Owed(d) = 0 /\ Owed(d)' = 0 /\ Uncounted(d) = 0 /\ Uncounted(d)' = 0
  BY <1>1 DEF Owed, Uncounted
<1>7. SumOf(d)'
  BY <1>1, <1>2, <1>5, <1>6, SumFrame
<1>8. b \in Nat /\ b % Radix \in Nat /\ b % Radix < Radix /\ (b % Radix) % Radix = b % Radix
  BY <1>2, TotalTypes, DivMod, MaskMask, RadixPositive
<1>9. b % Radix = carried[<<Total, d>>] % Radix
  <2>1. b + 0 = b
    BY <1>8
  <2>2. QED BY <1>6, <2>1 DEF RemainderOf
<1>10. (b % Radix) + 0 = b % Radix
  BY <1>8
<1>11. QED BY <1>1, <1>3, <1>6, <1>7, <1>8, <1>9, <1>10 DEF RemainderOf

(* A connection of the mapping makes room for the next one: what it had    *)
(* below the radix is lost to the total.                                   *)
LEMMA SumReopen ==
    ASSUME TrafficTypeOK, opened >= Cardinality(Conns), NEW d \in CountedDirs,
           SumOf(d), RemainderOf(d), NEW c \in Conns, Reopen(c)
    PROVE  SumOf(d)' /\ RemainderOf(d)'
<1> DEFINE old == Rests(d)[c]
           k == opened - Cardinality(Conns)
           r == Radix - 1
<1>1. /\ step = "idle" /\ step' = "idle" /\ opened' = opened + 1 /\ job' = job
      /\ bytes' = [x \in Flows |-> IF x[1] = c THEN 0 ELSE bytes[x]]
      /\ mega' = [x \in Flows |-> IF x[1] = c THEN 0 ELSE mega[x]]
      /\ carried' = [x \in Flows |-> IF x[1] = c THEN 0 ELSE carried[x]]
  BY DEF Reopen
<1>2. d \in Dirs /\ c # Total /\ <<Total, d>> \in Flows
  BY TrafficAssumption DEF CountedDirs, Dirs, Flows
<1>3. /\ bytes'[<<Total, d>>] = bytes[<<Total, d>>] /\ mega'[<<Total, d>>] = mega[<<Total, d>>]
      /\ carried'[<<Total, d>>] = carried[<<Total, d>>]
  BY <1>1, <1>2
<1>4. Owed(d) = 0 /\ Owed(d)' = 0 /\ Uncounted(d) = 0 /\ Uncounted(d)' = 0
  BY <1>1 DEF Owed, Uncounted
<1>5. Rests(d)' = [Rests(d) EXCEPT ![c] = 0]
  <2>1. Rests(d)' = [x \in Conns |-> bytes'[<<x, d>>] % Radix]
    BY DEF Rests
  <2>2. [Rests(d) EXCEPT ![c] = 0] = [x \in Conns |-> IF x = c THEN 0 ELSE bytes[<<x, d>>] % Radix]
    BY DEF Rests
  <2>3. 0 % Radix = 0
    BY RadixPositive, MaskSmall
  <2>4. ASSUME NEW x \in Conns
        PROVE  bytes'[<<x, d>>] % Radix = IF x = c THEN 0 ELSE bytes[<<x, d>>] % Radix
    BY <1>1, <1>2, <2>3, RestTypes
  <2>5. QED BY <2>1, <2>2, <2>4
<1>6. Rests(d) \in [Conns -> 0..r] /\ old \in Nat /\ old <= r /\ 0 \in 0..r /\ r \in Nat
  BY <1>2, RestTypes, RadixPositive
<1>7. k \in Nat /\ opened' - Cardinality(Conns) = k + 1
  BY <1>1, <1>2, TotalTypes
<1>8. PICK f, lost :
         /\ Sums(f, Rests(d))
         /\ lost \in Nat /\ lost <= k * r
         /\ carried[<<Total, d>>] = mega[<<Total, d>>] * Radix + lost + f[Conns] + Owed(d)
  BY DEF SumOf
<1>9. PICK g : Sums(g, [Rests(d) EXCEPT ![c] = 0]) /\ g[Conns] = f[Conns] + 0 - old
  BY <1>6, <1>8, SumsFollow
<1>10. f[Conns] \in Int /\ g[Conns] \in Int
  BY <1>8, <1>9 DEF Sums
<1> HIDE DEF old, k, r
<1>11. lost + old \in Nat /\ lost + old <= (k + 1) * r
  <2>1. (k + 1) * r = k * r + 1 * r /\ 1 * r = r /\ k * r \in Nat
    BY <1>6, <1>7, Distributes
  <2>2. QED BY <1>6, <1>8, <2>1
<1>12. carried[<<Total, d>>] = mega[<<Total, d>>] * Radix + (lost + old) + g[Conns] + 0
  BY <1>2, <1>4, <1>6, <1>8, <1>9, <1>10, TotalTypes
<1>13. lost + old <= (opened' - Cardinality(Conns)) * (Radix - 1)
  BY <1>7, <1>11 DEF r
<1>14. SumOf(d)'
  BY <1>3, <1>4, <1>5, <1>9, <1>11, <1>12, <1>13 DEF SumOf
<1>15. QED BY <1>1, <1>3, <1>4, <1>14 DEF RemainderOf

LEMMA SumStep ==
    TrafficTypeOK /\ CountInv /\ SumInv /\ [Next]_vars => SumInv'
<1> SUFFICES ASSUME TrafficTypeOK, CountInv, SumInv, [Next]_vars
             PROVE  SumInv'
  OBVIOUS
<1>1. opened \in Nat /\ Cardinality(Conns) \in Nat /\ opened >= Cardinality(Conns)
  BY TrafficAssumption, FS_CardinalityType DEF TrafficTypeOK, SumInv
<1>2. opened' >= Cardinality(Conns)
  <2>1. opened' = opened \/ opened' = opened + 1
    BY DEF Next, LoopNext, UiNext, Read, AddCur, AddTotal, CarryCur, CarryTotal, MaskCur,
           MaskTotal, At, Reopen, Refresh, ReadOther, Show, vars
  <2>2. QED BY <1>1, <2>1
<1>3. ASSUME NEW d \in CountedDirs PROVE SumOf(d)' /\ RemainderOf(d)'
  <2>1. SumOf(d) /\ RemainderOf(d)
    BY DEF SumInv
  <2>2. ASSUME NEW c \in Conns, NEW e \in Dirs, NEW n \in 1..MaxRead, Read(c, e, n)
        PROVE  SumOf(d)' /\ RemainderOf(d)'
    BY <2>1, <2>2, SumRead
  <2>3. CASE AddCur \/ AddTotal \/ CarryCur \/ CarryTotal \/ MaskCur \/ MaskTotal
    <3>1. CASE job.dir # d
      BY <2>1, <2>3, <3>1, OtherDirection
    <3>2. CASE job.dir = d
      BY <2>1, <2>3, <3>2, SumAddCur, SumAddTotal, SumCarryCur, SumCarryTotal,
         SumMaskCur, SumMaskTotal
    <3>3. QED BY <3>1, <3>2
  <2>4. ASSUME NEW c \in Conns, Reopen(c) PROVE SumOf(d)' /\ RemainderOf(d)'
    BY <1>1, <2>1, <2>4, SumReopen
  <2>5. ASSUME UNCHANGED <<bytes, mega, step, job, carried, opened>>
        PROVE  SumOf(d)' /\ RemainderOf(d)'
    <3>1. Rests(d)' = Rests(d) /\ Owed(d)' = Owed(d) /\ Uncounted(d)' = Uncounted(d)
      BY <2>5 DEF Rests, Owed, Uncounted, Cur
    <3>2. SumOf(d)'
      BY <2>1, <2>5, <3>1 DEF SumOf
    <3>3. QED BY <2>1, <2>5, <3>1, <3>2 DEF RemainderOf
  <2>6. CASE UiNext \/ UNCHANGED vars
    BY <2>5, <2>6 DEF UiNext, Refresh, ReadOther, Show, vars
  <2>7. QED BY <2>2, <2>3, <2>4, <2>6 DEF Next, LoopNext
<1>4. SumInv' <=> /\ opened' >= Cardinality(Conns)
                  /\ \A d \in CountedDirs : SumOf(d)' /\ RemainderOf(d)'
  BY ProtocolStays DEF SumInv
<1>5. QED BY <1>2, <1>3, <1>4

(* What is left of the sum of o remainders without its own remainder:      *)
(* whole megabytes, fewer than o.                                          *)
LEMMA WholeMegabytes ==
    ASSUME NEW s \in Nat, NEW o \in Nat \ {0}, NEW r \in Nat, r > 0, s <= o * (r - 1)
    PROVE  (s - (s % r)) % r = 0 /\ s - (s % r) \in 0..((o - 1) * r)
<1> DEFINE k == s \div r
           v == s % r
<1>1. k \in Nat /\ v \in Nat /\ s = k * r + v /\ k * r \in Nat
  BY DivMod, Distributes
<1> HIDE DEF k, v
<1>2. s - v = k * r
  BY <1>1
<1>3. (k * r) % r = 0
  <2>1. (k * r + 0) % r = 0
    BY <1>1, ModOf
  <2>2. k * r + 0 = k * r
    BY <1>1
  <2>3. QED BY <2>1, <2>2
<1>4. k < o
  <2>1. SUFFICES ASSUME k >= o PROVE FALSE
    BY <1>1
  <2>2. PICK i \in Nat : k = o + i
    <3>1. k = o + (k - o) /\ k - o \in Nat
      BY <1>1, <2>1
    <3>2. QED BY <3>1
  <2>3. k * r = o * r + i * r /\ o * r \in Nat /\ i * r \in Nat
    BY <2>2, Distributes
  <2>4. o * r = o * (r - 1) + o /\ o * (r - 1) \in Int
    <3>1. \A x, y \in Nat : x * y = x * (y - 1) + x
      OBVIOUS
    <3>2. QED BY <3>1
  <2>5. QED BY <1>1, <2>3, <2>4
<1>5. k * r \in 0..((o - 1) * r)
  <2>1. PICK i \in Nat : o - 1 = k + i
    <3>1. o - 1 = k + (o - 1 - k) /\ o - 1 - k \in Nat
      BY <1>1, <1>4
    <3>2. QED BY <3>1
  <2>2. (o - 1) * r = k * r + i * r /\ i * r \in Nat
    BY <1>1, <2>1, Distributes
  <2>3. QED BY <1>1, <2>2
<1>6. QED BY <1>2, <1>3, <1>5 DEF v

(* The totals of the directions that are counted fall short by what the    *)
(* masks cut off the sum of the remainders.                                *)
LEMMA SumIsShort ==
    ASSUME Conns # {}, TrafficTypeOK, SumInv, NEW d \in CountedDirs, step = "idle"
    PROVE  Short(<<Total, d>>) % Radix = 0 /\ Short(<<Total, d>>) \in 0..((opened - 1) * Radix)
<1> DEFINE total == carried[<<Total, d>>]
           m == mega[<<Total, d>>]
           b == bytes[<<Total, d>>]
           n == Cardinality(Conns)
           k == opened - n
           r == Radix - 1
<1>1. d \in Dirs /\ SumOf(d) /\ RemainderOf(d) /\ opened >= Cardinality(Conns)
  BY DEF SumInv, CountedDirs, Dirs
<1>2. total \in Nat /\ m \in Nat /\ b \in Nat /\ n \in Nat /\ opened \in Nat
      /\ m * Radix \in Nat /\ r \in Nat
  BY <1>1, TotalTypes, RadixPositive
<1>3. opened # 0 /\ k \in Nat /\ opened = k + n
  <2>1. n # 0
    BY TrafficAssumption, FS_EmptySet
  <2>2. QED BY <1>1, <1>2, <2>1
<1>4. Owed(d) = 0 /\ Uncounted(d) = 0
  BY DEF Owed, Uncounted
<1>5. b < Radix /\ b % Radix = total % Radix
  <2>1. b + 0 = b
    BY <1>2
  <2>2. QED BY <1>1, <1>4, <2>1 DEF RemainderOf
<1>6. PICK f, lost :
         /\ Sums(f, Rests(d))
         /\ lost \in Nat /\ lost <= k * r
         /\ total = m * Radix + lost + f[Conns] + Owed(d)
  BY <1>1 DEF SumOf
<1>7. f[Conns] \in Int /\ f[Conns] >= 0 /\ f[Conns] <= n * r
  BY <1>6 DEF Sums
<1> HIDE DEF total, m, b, n, k, r
<1> DEFINE s == lost + f[Conns]
<1>8. s \in Nat /\ s <= opened * r /\ total = m * Radix + s
  <2>1. opened * r = k * r + n * r /\ k * r \in Nat /\ n * r \in Nat
    BY <1>2, <1>3, Distributes
  <2>2. QED BY <1>2, <1>4, <1>6, <1>7, <2>1
<1> HIDE DEF s
<1>9. s <= opened * (Radix - 1)
  BY <1>8 DEF r
<1>10. SUFFICES ASSUME total \in Nat, m \in Nat, b \in Nat, s \in Nat,
                       opened \in Nat \ {0}, Radix \in Nat, Radix > 0,
                       total = m * Radix + s, s <= opened * (Radix - 1),
                       b < Radix, b % Radix = total % Radix
                PROVE  /\ (total - (m * Radix + b)) % Radix = 0
                       /\ total - (m * Radix + b) \in 0..((opened - 1) * Radix)
  BY <1>2, <1>3, <1>5, <1>8, <1>9, RadixPositive DEF Short, Value, total, m, b
<1>11. b = s % Radix
  <2>1. (m * Radix + s) % Radix = s % Radix
    BY <1>10, RadixDrops, Zenon
  <2>2. b % Radix = b
    BY <1>10, MaskSmall
  <2>3. QED BY <1>10, <2>1, <2>2
<1>12. total - (m * Radix + b) = s - b
  BY <1>2, <1>10
<1>13. (s - (s % Radix)) % Radix = 0 /\ s - (s % Radix) \in 0..((opened - 1) * Radix)
  BY <1>10, WholeMegabytes
<1>14. (s - b) % Radix = 0 /\ s - b \in 0..((opened - 1) * Radix)
  BY <1>11, <1>13
<1>15. QED BY <1>12, <1>14

(* A mapping's total falls short by whole megabytes, in the directions that *)
(* are counted by fewer than the connections it had, for any number of     *)
(* connections and any size of a megabyte.  (A mapping without any         *)
(* connection counts nothing.)                                             *)
THEOREM TotalIsShort ==
    ASSUME Conns # {}
    PROVE  Spec => []TotalFallsShort
<1>1. ASSUME TrafficTypeOK, SumInv, LateInv PROVE TotalFallsShort
  <2> SUFFICES ASSUME step = "idle", NEW d \in Dirs
               PROVE  LET short == Short(<<Total, d>>)
                      IN /\ short >= 0 /\ short % Radix = 0
                         /\ d \in CountedDirs => short <= (opened - 1) * Radix
    BY DEF TotalFallsShort
  <2>1. CASE d \in CountedDirs
    BY <1>1, <2>1, SumIsShort
  <2>2. CASE d \notin CountedDirs
    <3>1. <<Total, d>> \in LateFlows
      BY <2>2 DEF CountedDirs, LateFlows, Dirs
    <3>2. QED BY <1>1, <2>2, <3>1, LateIsShort
  <2>3. QED BY <2>1, <2>2
<1>2. QED
  BY <1>1, TypeCorrect, CountInit, CountStep, LateInit, LateStep, SumInit, SumStep, PTL DEF Spec
=============================================================================
