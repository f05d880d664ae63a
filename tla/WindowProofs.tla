----------------------------- MODULE WindowProofs -----------------------------
(***************************************************************************)
(* Window, for any mappings, connections, items and number of questions    *)
(* under way: what the window may trust, what it may miss and when an item *)
(* leaves, from what ConnectFeed promises of the loop thread.              *)
(*                                                                         *)
(* Every invariant here is kept by the steps of the feed (FeedInv), or     *)
(* depends on it: an item points to a connection that the loop thread has  *)
(* told of, and such a connection exists.                                  *)
(***************************************************************************)
EXTENDS Window, TLAPS

(* The types of the feed.                                                  *)
FeedTypeOK ==
    /\ alloc \in [Mappings -> {"unused", "live", "erased"}]
    /\ life \in [Conns -> {"unused", "live", "freed"}]
    /\ owner \in [Conns -> Mappings \cup {None}]
    /\ told \in [Conns -> {"nothing", "added", "connected", "gone"}]

(* A connection the window knows exists, and a connection whose end was    *)
(* not told has a mapping that exists.                                     *)
FeedInv ==
    /\ FeedTypeOK
    /\ \A c \in Conns : told[c] \in {"added", "connected"} => life[c] = "live"
    /\ \A c \in Conns : life[c] = "live" /\ told[c] # "gone" =>
           owner[c] \in Mappings /\ alloc[owner[c]] = "live"

-----------------------------------------------------------------------------
(* The feed                                                                *)

LEMMA FeedInitially == FeedInit => FeedInv
  BY DEF FeedInit, FeedInv, FeedTypeOK

LEMMA FeedStep == FeedInv /\ [FeedNext]_feedVars => FeedInv'
<1> SUFFICES ASSUME FeedInv, [FeedNext]_feedVars PROVE FeedInv'
    OBVIOUS
<1>1. ASSUME NEW m \in Mappings, MappingAdded(m) PROVE FeedInv'
  BY <1>1 DEF FeedInv, FeedTypeOK, MappingAdded
<1>2. ASSUME NEW m \in Mappings, MappingErased(m) PROVE FeedInv'
  BY <1>2 DEF FeedInv, FeedTypeOK, MappingErased
<1>3. ASSUME NEW m \in Mappings, TellCleared(m) PROVE FeedInv'
  BY <1>3 DEF FeedInv, FeedTypeOK, TellCleared
<1>4. ASSUME NEW c \in Conns, TellAdded(c) PROVE FeedInv'
  BY <1>4 DEF FeedInv, FeedTypeOK, TellAdded, Tell
<1>5. ASSUME NEW c \in Conns, TellConnected(c) PROVE FeedInv'
  BY <1>5 DEF FeedInv, FeedTypeOK, TellConnected, Tell
<1>6. ASSUME NEW c \in Conns, TellGone(c) PROVE FeedInv'
  BY <1>6 DEF FeedInv, FeedTypeOK, TellGone, Tell
<1>7. ASSUME NEW c \in Conns, Deleted(c) PROVE FeedInv'
  BY <1>7 DEF FeedInv, FeedTypeOK, Deleted
<1>8. ASSUME NEW c \in Conns, NEW m \in Mappings, Accepted(c, m) PROVE FeedInv'
  BY <1>8 DEF FeedInv, FeedTypeOK, Accepted
<1>9. CASE UNCHANGED feedVars
  BY <1>9 DEF FeedInv, FeedTypeOK, feedVars
<1> QED BY <1>1, <1>2, <1>3, <1>4, <1>5, <1>6, <1>7, <1>8, <1>9 DEF FeedNext

(* What the loop thread promises keeps its own word: a connection that the *)
(* window was told of, and not told the end of, exists with its mapping.   *)
THEOREM KnownLive == FeedSpec => []KnownAreLive
<1>1. FeedInv => KnownAreLive
  BY DEF FeedInv, KnownAreLive
<1> QED BY <1>1, FeedInitially, FeedStep, PTL DEF FeedSpec

(* Each step of the window is one of the feed, or is not seen by it.       *)
LEMMA WindowFeeds == [WindowNext]_winVars => [FeedNext]_feedVars
<1> SUFFICES ASSUME [WindowNext]_winVars PROVE [FeedNext]_feedVars
    OBVIOUS
<1>1. CASE UserSteps
  BY <1>1 DEF UserSteps, AddMapping, SelectNotStarted, SelectDeleting,
              SelectStarted, Select, Refresh, DestroyItems, FeedNext, feedVars
<1>2. ASSUME NEW c \in Conns, \E m \in Mappings : Accept(c, m)
      PROVE  [FeedNext]_feedVars
  BY <1>2 DEF Accept, FeedNext
<1>3. ASSUME NEW c \in Conns,
             \/ Delete(c) \/ HandleAdd(c) \/ HandleChange(c)
             \/ HandleDeleteOther(c) \/ HandleDelete(c) \/ HandleDeleteFaults(c)
      PROVE  [FeedNext]_feedVars
  BY <1>3 DEF Delete, HandleAdd, HandleChange, HandleDeleteOther, HandleDelete,
              HandleDeleteFaults, FeedNext
<1>4. ASSUME NEW m \in Mappings,
             \/ Erase(m) \/ HandleListenFail(m) \/ HandleClear(m)
             \/ HandleStop(m) \/ HandleRemove(m) \/ HandleAnswer(m)
      PROVE  [FeedNext]_feedVars
  BY <1>4 DEF Erase, HandleListenFail, HandleClear, HandleStop, HandleRemove,
              HandleAnswer, FeedNext, feedVars
<1>5. CASE UNCHANGED winVars
  BY <1>5 DEF winVars, feedVars
<1> QED BY <1>1, <1>2, <1>3, <1>4, <1>5 DEF WindowNext, LoopSteps

(* The composition of the window and the loop thread is one of the feed,   *)
(* so that TcpConnect, which implements the feed too, may take its place.  *)
THEOREM WindowKeepsFeed == WindowSpec => FeedSpec
<1>1. WindowInit => FeedInit
  BY DEF WindowInit
<1> QED BY <1>1, WindowFeeds, PTL DEF WindowSpec, FeedSpec

-----------------------------------------------------------------------------
(* The operations on the list                                              *)

(* New items do not touch the old ones; each connection shown points to    *)
(* its new item.                                                           *)
LEMMA ShowFacts ==
    ASSUME WindowTypeOK, NEW S \in SUBSET Conns, Show(S)
    PROVE  /\ of' \in [Items -> Conns \cup {None}]
           /\ place' \in [Items -> {"unused", "listed", "removed", "destroyed"}]
           /\ userData' \in [Conns -> Items \cup {None}]
           /\ \A i \in Items : place[i] # "unused" =>
                  place'[i] = place[i] /\ of'[i] = of[i]
           /\ \A i \in Items : place[i] = "unused" /\ place'[i] # "unused" =>
                  place'[i] = "listed" /\ of'[i] \in S /\ userData'[of'[i]] = i
           /\ \A c \in S : /\ userData'[c] \in Items
                           /\ place[userData'[c]] = "unused"
                           /\ place'[userData'[c]] = "listed"
                           /\ of'[userData'[c]] = c
           /\ \A c \in Conns \ S : userData'[c] = userData[c]
           /\ stray' = stray \cup (Listed \cap {userData[c] : c \in S})
<1>1. PICK new \in [S -> {i \in Items : place[i] = "unused"}] :
        /\ \A c, d \in S : new[c] = new[d] => c = d
        /\ of' = [i \in Items |-> IF \E c \in S : new[c] = i
                                  THEN CHOOSE c \in S : new[c] = i ELSE of[i]]
        /\ place' = [i \in Items |-> IF \E c \in S : new[c] = i
                                     THEN "listed" ELSE place[i]]
        /\ userData' = [c \in Conns |-> IF c \in S THEN new[c] ELSE userData[c]]
        /\ stray' = stray \cup (Listed \cap {userData[c] : c \in S})
  BY DEF Show
<1>2. \A c \in S : new[c] \in Items /\ place[new[c]] = "unused"
  OBVIOUS
<1>3. ASSUME NEW c \in S PROVE (CHOOSE d \in S : new[d] = new[c]) = c
  BY <1>1
<1>4. \A c \in S : of'[new[c]] = c /\ place'[new[c]] = "listed" /\ userData'[c] = new[c]
  BY <1>1, <1>2, <1>3
<1>5. ASSUME NEW i \in Items, ~ \E c \in S : new[c] = i
      PROVE  of'[i] = of[i] /\ place'[i] = place[i]
  BY <1>1, <1>5
<1>6. of' \in [Items -> Conns \cup {None}]
  BY ZenonT(40), <1>1, <1>4, <1>5 DEF WindowTypeOK
<1>7. place' \in [Items -> {"unused", "listed", "removed", "destroyed"}]
  BY <1>1 DEF WindowTypeOK
<1>8. userData' \in [Conns -> Items \cup {None}]
  BY <1>1, <1>2 DEF WindowTypeOK
<1>9. \A i \in Items : place[i] # "unused" => place'[i] = place[i] /\ of'[i] = of[i]
  BY <1>2, <1>5
<1>10. \A i \in Items : place[i] = "unused" /\ place'[i] # "unused" =>
                  place'[i] = "listed" /\ of'[i] \in S /\ userData'[of'[i]] = i
  BY <1>4, <1>5
<1>11. \A c \in Conns \ S : userData'[c] = userData[c]
  BY <1>1
<1> QED BY <1>1, <1>2, <1>4, <1>6, <1>7, <1>8, <1>9, <1>10, <1>11

(* What an answer shows has reached its server.                            *)
LEMMA ShownReached == ASSUME NEW m PROVE Shown(m) \subseteq Reached(m)
<1>1. \A c \in Conns : Key[c] <= Key[c]
  BY WindowAssumption
<1> QED BY <1>1 DEF Shown, Reached, Known

-----------------------------------------------------------------------------
(* The types                                                               *)

(* None of these touches an item of a list.                                *)
Aside == UNCHANGED <<of, place, userData, stray>>

LEMMA TypeStep == WindowTypeOK /\ [WindowNext]_winVars => WindowTypeOK'
<1> SUFFICES ASSUME WindowTypeOK, [WindowNext]_winVars PROVE WindowTypeOK'
    OBVIOUS
<1> DEFINE Others == /\ mapItems' \subseteq Mappings
                     /\ current' \in Mappings \cup {None}
                     /\ asked' \in [Mappings -> Nat]
                     /\ closing' \in Mappings \cup {None}
                     /\ wfault' \in {"none", "freed connection", "remove of no item",
                                     "remove of destroyed item"}
                     /\ answerDue' \in BOOLEAN /\ skipped' \subseteq Conns
<1>a. ASSUME Others, Aside PROVE WindowTypeOK'
  BY <1>a DEF WindowTypeOK, Aside, Listed
<1>b. ASSUME Others, UNCHANGED <<of, userData>>, NEW S \in SUBSET Listed, TakeOff(S)
      PROVE  WindowTypeOK'
  BY <1>b DEF WindowTypeOK, TakeOff, Listed
<1>c. ASSUME Others, NEW S \in SUBSET Conns, Show(S) PROVE WindowTypeOK'
  <2>1. Show(S) BY <1>c
  <2>2. /\ of' \in [Items -> Conns \cup {None}]
        /\ place' \in [Items -> {"unused", "listed", "removed", "destroyed"}]
        /\ userData' \in [Conns -> Items \cup {None}]
    BY <2>1, ShowFacts
  <2>3. stray' \subseteq Listed'
    <3>1. Listed \subseteq Listed'
      BY <2>1, ShowFacts DEF Listed
    <3>2. stray' \subseteq Listed
      <4>1. stray' = stray \cup (Listed \cap {userData[c] : c \in S})
        BY <2>1, ShowFacts
      <4>2. stray \subseteq Listed
        BY DEF WindowTypeOK
      <4> QED BY <4>1, <4>2
    <3> QED BY <3>1, <3>2
  <2>4. \A i \in Items : place'[i] # "unused" => of'[i] \in Conns
    BY <2>1, ShowFacts DEF WindowTypeOK
  <2>5. \A c \in Conns : userData'[c] # None =>
            place'[userData'[c]] # "unused" /\ of'[userData'[c]] = c
    <3> SUFFICES ASSUME NEW c \in Conns, userData'[c] # None
                 PROVE  place'[userData'[c]] # "unused" /\ of'[userData'[c]] = c
        OBVIOUS
    <3>1. CASE c \in S
      <4>1. place'[userData'[c]] = "listed" /\ of'[userData'[c]] = c
        BY <2>1, <3>1, ShowFacts
      <4> QED BY <4>1
    <3>2. CASE c \notin S
      <4>a. userData'[c] = userData[c]
        BY <2>1, <3>2, ShowFacts
      <4>1. userData'[c] = userData[c] /\ userData[c] \in Items
        BY <4>a DEF WindowTypeOK
      <4>2. place[userData[c]] # "unused" /\ of[userData[c]] = c
        BY <4>1 DEF WindowTypeOK
      <4>3. place'[userData[c]] = place[userData[c]] /\ of'[userData[c]] = of[userData[c]]
        BY <2>1, <4>1, <4>2, ShowFacts
      <4> QED BY <4>1, <4>2, <4>3
    <3> QED BY <3>1, <3>2
  <2> QED BY <1>c, <2>2, <2>3, <2>4, <2>5 DEF WindowTypeOK
<1>1. ASSUME NEW m \in Mappings, AddMapping(m) PROVE WindowTypeOK'
  BY <1>1, <1>a DEF AddMapping, WindowTypeOK, Aside, listVars, historyVars
<1>2. ASSUME NEW m \in Mappings, SelectNotStarted(m) PROVE WindowTypeOK'
  BY <1>2 DEF SelectNotStarted, Select, WindowTypeOK, Listed
<1>3. ASSUME NEW m \in Mappings, SelectDeleting(m) PROVE WindowTypeOK'
  BY <1>3, <1>b DEF SelectDeleting, Select, WindowTypeOK
<1>4. ASSUME NEW m \in Mappings, SelectStarted(m) PROVE WindowTypeOK'
  <2>1. asked' \in [Mappings -> Nat]
    <3>1. asked' = [asked EXCEPT ![m] = asked[m] + 1] /\ asked[m] \in Nat
      BY <1>4 DEF SelectStarted, WindowTypeOK
    <3>2. asked[m] + 1 \in Nat
      BY <3>1
    <3> QED BY <3>1, <3>2 DEF WindowTypeOK
  <2>2. Others
    BY <1>4, <2>1 DEF SelectStarted, Select, WindowTypeOK
  <2> QED BY <2>2, <1>4, <1>b DEF SelectStarted, Select
<1>5. CASE Refresh
  BY <1>5, <1>a DEF Refresh, WindowTypeOK, Aside, listVars, historyVars
<1>6. CASE DestroyItems
  BY <1>6 DEF DestroyItems, WindowTypeOK, Listed, historyVars
<1>7. ASSUME NEW c \in Conns,
             \/ \E m \in Mappings : Accept(c, m)
             \/ Delete(c) \/ HandleAdd(c) \/ HandleDeleteOther(c)
      PROVE  WindowTypeOK'
  <2>1. UNCHANGED windowVars
    BY <1>7 DEF Accept, Delete, HandleAdd, HandleDeleteOther
  <2> QED BY <2>1, <1>a DEF WindowTypeOK, Aside, windowVars, listVars, historyVars
<1>8. ASSUME NEW c \in Conns, HandleChange(c) PROVE WindowTypeOK'
  <2>1. Others BY <1>8 DEF HandleChange, WindowTypeOK
  <2>2. CASE owner[c] = current
    BY <2>1, <2>2, <1>8, <1>c DEF HandleChange
  <2>3. CASE owner[c] # current
    BY <2>1, <2>3, <1>8, <1>a DEF HandleChange, Aside, listVars
  <2> QED BY <2>2, <2>3
<1>9. ASSUME NEW c \in Conns, HandleDelete(c) PROVE WindowTypeOK'
  BY ZenonT(40), <1>9 DEF HandleDelete, TakeOff, WindowTypeOK, Listed
<1>10. ASSUME NEW c \in Conns, HandleDeleteFaults(c) PROVE WindowTypeOK'
  BY <1>10, <1>a DEF HandleDeleteFaults, WindowTypeOK, Aside, listVars, historyVars
<1>11. ASSUME NEW m \in Mappings,
              Erase(m) \/ HandleListenFail(m) \/ HandleClear(m) \/ HandleStop(m)
                \/ HandleRemove(m)
       PROVE  WindowTypeOK'
  <2>1. Others
    BY <1>11 DEF Erase, HandleListenFail, HandleClear, HandleStop, HandleRemove,
                 WindowTypeOK, historyVars
  <2>2. Aside \/ (UNCHANGED <<of, userData>> /\ TakeOff(Listed))
    BY <1>11 DEF Erase, HandleListenFail, HandleClear, HandleStop, HandleRemove,
                 ClearIfCurrent, Aside, listVars, historyVars
  <2> QED BY <2>1, <2>2, <1>a, <1>b
<1>12. ASSUME NEW m \in Mappings, HandleAnswer(m) PROVE WindowTypeOK'
  <2>1. asked' \in [Mappings -> Nat]
    <3>1. /\ asked' = [asked EXCEPT ![m] = asked[m] - 1]
          /\ asked[m] \in Nat /\ asked[m] > 0
      BY <1>12 DEF HandleAnswer, WindowTypeOK
    <3>2. asked[m] - 1 \in Nat
      BY <3>1
    <3> QED BY <3>1, <3>2 DEF WindowTypeOK
  <2>2. Others
    BY <1>12, <2>1 DEF HandleAnswer, WindowTypeOK, Reached, Known
  <2>3. CASE m = current
    <3>1. Shown(m) \in SUBSET Conns BY DEF Shown, Known
    <3> QED BY <2>2, <2>3, <3>1, <1>12, <1>c DEF HandleAnswer
  <2>4. CASE m # current
    BY <2>2, <2>4, <1>12, <1>a DEF HandleAnswer, Aside, listVars
  <2> QED BY <2>3, <2>4
<1>13. CASE UNCHANGED winVars
  BY <1>13, <1>a DEF WindowTypeOK, Aside, winVars, windowVars, listVars, historyVars
<1> QED BY <1>1, <1>2, <1>3, <1>4, <1>5, <1>6, <1>7, <1>8, <1>9, <1>10, <1>11,
           <1>12, <1>13 DEF WindowNext, UserSteps, LoopSteps

(* Every variable of the window keeps its type, and an item never points   *)
(* to another connection than the one that points back to it.              *)
THEOREM WindowTypeCorrect == WindowSpec => []WindowTypeOK
<1>1. WindowInit => WindowTypeOK
  <2> SUFFICES ASSUME WindowInit PROVE WindowTypeOK
      OBVIOUS
  <2>1. /\ of \in [Items -> Conns \cup {None}]
        /\ place \in [Items -> {"unused", "listed", "removed", "destroyed"}]
        /\ userData \in [Conns -> Items \cup {None}]
        /\ asked \in [Mappings -> Nat]
    BY DEF WindowInit
  <2>2. answerDue \in BOOLEAN /\ skipped \subseteq Conns /\ stray \subseteq Listed
    BY DEF WindowInit
  <2>3. /\ \A i \in Items : place[i] = "unused"
        /\ \A c \in Conns : userData[c] = None
    BY DEF WindowInit
  <2> QED BY <2>1, <2>2, <2>3 DEF WindowInit, WindowTypeOK
<1> QED BY <1>1, TypeStep, PTL DEF WindowSpec

-----------------------------------------------------------------------------
(* What may be trusted                                                     *)

WindowOK == FeedInv /\ WindowTypeOK

(* An item that can be trusted.                                            *)
Trusted(i) ==
    /\ i \in Listed \ stray
    /\ life[of[i]] = "live" /\ told[of[i]] = "connected"
    /\ owner[of[i]] = current
    /\ userData[of[i]] = i

LEMMA SelectedStep ==
    WindowOK /\ SelectedIsLive /\ [WindowNext]_winVars => SelectedIsLive'
<1> SUFFICES ASSUME WindowOK, SelectedIsLive, [WindowNext]_winVars
             PROVE  SelectedIsLive'
    OBVIOUS
<1> USE DEF SelectedIsLive
<1>1. ASSUME NEW m \in Mappings, AddMapping(m) PROVE SelectedIsLive'
  BY <1>1 DEF AddMapping, MappingAdded, WindowOK, FeedInv, FeedTypeOK
<1>2. ASSUME NEW m \in Mappings,
             SelectNotStarted(m) \/ SelectDeleting(m) \/ SelectStarted(m)
      PROVE  SelectedIsLive'
  BY <1>2 DEF SelectNotStarted, SelectDeleting, SelectStarted, Select, feedVars
<1>3. CASE Refresh \/ DestroyItems
  BY <1>3 DEF Refresh, DestroyItems, feedVars
<1>4. ASSUME NEW c \in Conns,
             \/ \E m \in Mappings : Accept(c, m)
             \/ Delete(c) \/ HandleAdd(c) \/ HandleChange(c)
             \/ HandleDeleteOther(c) \/ HandleDelete(c) \/ HandleDeleteFaults(c)
      PROVE  SelectedIsLive'
  <2>1. UNCHANGED <<alloc, mapItems, current>>
    BY <1>4 DEF Accept, Delete, HandleAdd, HandleChange, HandleDeleteOther,
                HandleDelete, HandleDeleteFaults, Accepted, Deleted, TellAdded,
                TellConnected, TellGone, Tell, windowVars
  <2> QED BY <2>1
<1>5. ASSUME NEW m \in Mappings, Erase(m) PROVE SelectedIsLive'
  BY <1>5 DEF Erase, MappingErased, WindowOK, FeedInv, FeedTypeOK
<1>6. ASSUME NEW m \in Mappings,
             \/ HandleListenFail(m) \/ HandleClear(m) \/ HandleStop(m)
             \/ HandleRemove(m) \/ HandleAnswer(m)
      PROVE  SelectedIsLive'
  BY <1>6 DEF HandleListenFail, HandleClear, HandleStop, HandleRemove,
              HandleAnswer, TellCleared, feedVars, WindowOK, WindowTypeOK
<1>7. CASE UNCHANGED winVars
  BY <1>7 DEF winVars, feedVars, windowVars
<1> QED BY <1>1, <1>2, <1>3, <1>4, <1>5, <1>6, <1>7
        DEF WindowNext, UserSteps, LoopSteps

LEMMA ListedStep ==
    WindowOK /\ WindowTypeOK' /\ ListedAreConnected /\ [WindowNext]_winVars
        => ListedAreConnected'
<1> SUFFICES ASSUME WindowOK, WindowTypeOK', ListedAreConnected,
                    [WindowNext]_winVars,
                    NEW i \in Items, i \in Listed' \ stray'
             PROVE  Trusted(i)'
  BY SelectedStep DEF ListedAreConnected, Trusted, Listed
<1> DEFINE c == of[i]
<1>a. ASSUME i \in Listed \ stray
      PROVE  c \in Conns /\ Trusted(i)
  <2>1. i \in Items /\ place[i] = "listed"
    BY <1>a DEF Listed
  <2>2. c \in Conns
    BY <2>1 DEF WindowOK, WindowTypeOK
  <2> QED BY <1>a, <2>2 DEF ListedAreConnected, Trusted
<1>b. ASSUME i \in Listed \ stray, of'[i] = c, userData'[c] = userData[c],
             current' = current, life'[c] = life[c], told'[c] = told[c],
             owner'[c] = owner[c]
      PROVE  Trusted(i)'
  BY <1>a, <1>b DEF Trusted
<1>c. ASSUME TRUE PROVE i \in Items /\ place'[i] = "listed" /\ i \notin stray'
  BY DEF Listed
<1>d. ASSUME NEW S \in SUBSET Conns, Show(S), current' = current, S \subseteq Reached(current)',
             \A d \in Conns \ S : told'[d] = told[d], UNCHANGED <<life, owner>>
      PROVE  Trusted(i)'
  <2>0. Show(S) BY <1>d
  <2>1. CASE place[i] = "unused"
    <3>1. of'[i] \in S /\ userData'[of'[i]] = i
      BY <2>0, <2>1, <1>c, ShowFacts DEF WindowOK
    <3>2. told'[of'[i]] = "connected" /\ owner'[of'[i]] = current'
      BY <3>1, <1>d DEF Reached, Known
    <3>3. life'[of'[i]] = "live"
      BY <3>1, <3>2, WindowFeeds, FeedStep DEF WindowOK, FeedInv
    <3> QED BY <3>1, <3>2, <3>3 DEF Trusted
  <2>2. CASE place[i] # "unused"
    <3>1. place'[i] = place[i] /\ of'[i] = of[i]
      BY <2>0, <2>2, ShowFacts DEF WindowOK
    <3>2. stray' = stray \cup (Listed \cap {userData[d] : d \in S})
      BY <2>0, ShowFacts DEF WindowOK
    <3>3. i \in Listed \ stray
      BY <3>1, <3>2, <1>c DEF Listed
    <3>4. c \in Conns /\ userData[c] = i
      BY <3>3, <1>a DEF Trusted
    <3>5. c \notin S
      BY <3>2, <3>3, <3>4, <1>c
    <3>6. userData'[c] = userData[c]
      BY <2>0, <3>4, <3>5, ShowFacts DEF WindowOK
    <3> QED BY <1>b, <1>d, <3>1, <3>3, <3>4, <3>5, <3>6
  <2> QED BY <2>1, <2>2
<1>1. ASSUME NEW m \in Mappings, AddMapping(m) PROVE Trusted(i)'
  BY <1>1, <1>b DEF AddMapping, MappingAdded, listVars, historyVars, Listed
<1>2. ASSUME NEW m \in Mappings,
             SelectNotStarted(m) \/ SelectDeleting(m) \/ SelectStarted(m)
      PROVE  Trusted(i)'
  BY <1>2, <1>c DEF SelectNotStarted, SelectDeleting, SelectStarted, TakeOff, Listed
<1>3. CASE Refresh
  BY <1>3, <1>b DEF Refresh, listVars, historyVars, feedVars, Listed
<1>4. CASE DestroyItems
  <2>1. i \in Listed \ stray
    BY <1>4, <1>c DEF DestroyItems, Listed, historyVars
  <2> QED BY <1>4, <1>b, <2>1 DEF DestroyItems, feedVars, historyVars
<1>5. ASSUME NEW d \in Conns,
             \/ \E m \in Mappings : Accept(d, m)
             \/ Delete(d) \/ HandleAdd(d) \/ HandleDeleteOther(d)
      PROVE  Trusted(i)'
  <2>1. UNCHANGED windowVars
    BY <1>5 DEF Accept, Delete, HandleAdd, HandleDeleteOther
  <2>2. i \in Listed \ stray
    BY <2>1 DEF windowVars, listVars, historyVars, Listed
  <2>3. c \in Conns /\ life[c] = "live" /\ told[c] = "connected" /\ owner[c] = current
    BY <2>2, <1>a DEF Trusted
  <2>4. c # d
    BY <1>5, <2>3 DEF Accept, Accepted, Delete, Deleted, HandleAdd, TellAdded,
                      Tell, HandleDeleteOther
  <2>5. life'[c] = life[c] /\ told'[c] = told[c] /\ owner'[c] = owner[c]
    BY <1>5, <2>3, <2>4
       DEF Accept, Accepted, Delete, Deleted, HandleAdd, TellAdded, Tell,
           HandleDeleteOther, TellGone, WindowOK, FeedInv, FeedTypeOK
  <2> QED BY <1>b, <2>1, <2>2, <2>5 DEF windowVars, listVars
<1>6. ASSUME NEW d \in Conns, HandleChange(d) PROVE Trusted(i)'
  <2>1. /\ UNCHANGED <<life, owner, current>>
        /\ \A e \in Conns \ {d} : told'[e] = told[e]
        /\ told[d] = "added" /\ told'[d] = "connected"
    BY <1>6 DEF HandleChange, TellConnected, Tell, WindowOK, FeedInv, FeedTypeOK
  <2>2. CASE owner[d] = current
    <3>1. Show({d}) BY <1>6, <2>2 DEF HandleChange
    <3>2. {d} \subseteq Reached(current)'
      BY <2>1, <2>2 DEF Reached, Known
    <3> QED BY <1>d, <2>1, <3>1, <3>2
  <2>3. CASE owner[d] # current
    <3>1. UNCHANGED <<of, place, userData, stray>>
      BY <1>6, <2>3 DEF HandleChange, listVars
    <3>2. i \in Listed \ stray
      BY <3>1 DEF Listed
    <3>3. c \in Conns \ {d}
      BY <3>2, <1>a, <2>1 DEF Trusted
    <3> QED BY <1>b, <2>1, <3>1, <3>2, <3>3
  <2> QED BY <2>2, <2>3
<1>7. ASSUME NEW d \in Conns, HandleDelete(d) PROVE Trusted(i)'
  <2>1. /\ UNCHANGED <<life, owner, current, of>>
        /\ \A e \in Conns \ {d} : told'[e] = told[e] /\ userData'[e] = userData[e]
    <3>1. /\ told' = [told EXCEPT ![d] = "gone"] /\ UNCHANGED <<life, owner>>
          /\ userData' = [userData EXCEPT ![d] = None] /\ UNCHANGED <<current, of>>
      BY <1>7 DEF HandleDelete, TellGone, Tell
    <3>2. \A e \in Conns \ {d} : told'[e] = told[e]
      BY <3>1 DEF WindowOK, FeedInv, FeedTypeOK
    <3>3. \A e \in Conns \ {d} : userData'[e] = userData[e]
      <4>1. userData \in [Conns -> Items \cup {None}]
        BY DEF WindowOK, WindowTypeOK
      <4> QED BY <3>1, <4>1
    <3> QED BY <3>1, <3>2, <3>3
  <2>2. i \in Listed \ stray /\ i # userData[d]
    BY <1>7, <1>c DEF HandleDelete, TakeOff, Listed
  <2>3. c \in Conns \ {d}
    BY <2>2, <1>a DEF Trusted
  <2> QED BY <1>b, <2>1, <2>2, <2>3
<1>8. ASSUME NEW d \in Conns, HandleDeleteFaults(d) PROVE Trusted(i)'
  <2>1. /\ UNCHANGED <<life, owner, current, of, place, userData, stray>>
        /\ \A e \in Conns \ {d} : told'[e] = told[e]
    BY <1>8 DEF HandleDeleteFaults, TellGone, Tell, listVars, historyVars,
                WindowOK, FeedInv, FeedTypeOK
  <2>2. i \in Listed \ stray
    BY <2>1 DEF Listed
  <2>3. userData[d] # i
    BY <1>8, <2>2 DEF HandleDeleteFaults, HasItem, Listed
  <2>4. c \in Conns \ {d}
    BY <2>2, <2>3, <1>a DEF Trusted
  <2> QED BY <1>b, <2>1, <2>2, <2>4
<1>9. ASSUME NEW m \in Mappings, Erase(m) PROVE Trusted(i)'
  BY <1>9, <1>b DEF Erase, MappingErased, listVars, historyVars, Listed
<1>10. ASSUME NEW m \in Mappings,
              \/ HandleListenFail(m) \/ HandleClear(m)
              \/ HandleStop(m) \/ HandleRemove(m)
       PROVE  Trusted(i)'
  <2>1. m # current /\ UNCHANGED <<of, place, userData, stray, current, life, owner>>
    BY <1>10, <1>c DEF HandleListenFail, HandleClear, HandleStop, HandleRemove,
                 ClearIfCurrent, TakeOff, Listed, feedVars, TellCleared
  <2>2. i \in Listed \ stray
    BY <2>1 DEF Listed
  <2>3. c \in Conns /\ owner[c] = current
    BY <2>2, <1>a DEF Trusted
  <2>4. told'[c] = told[c]
    BY <1>10, <2>1, <2>3
       DEF HandleListenFail, HandleClear, HandleStop, HandleRemove, feedVars,
           TellCleared, Known
  <2> QED BY <1>b, <2>1, <2>2, <2>4
<1>11. ASSUME NEW m \in Mappings, HandleAnswer(m) PROVE Trusted(i)'
  <2>1. UNCHANGED <<current, life, owner, told>>
    BY <1>11 DEF HandleAnswer, feedVars
  <2>2. CASE m = current
    <3>1. Show(Shown(m)) BY <1>11, <2>2 DEF HandleAnswer
    <3>2. Shown(m) \in SUBSET Conns BY DEF Shown, Known
    <3>3. Shown(m) \subseteq Reached(current)'
      BY <2>1, <2>2, ShownReached DEF Reached, Known
    <3> QED BY <1>d, <2>1, <3>1, <3>2, <3>3
  <2>3. CASE m # current
    <3>1. UNCHANGED <<of, place, userData, stray>>
      BY <1>11, <2>3 DEF HandleAnswer, listVars
    <3> QED BY <1>b, <2>1, <3>1 DEF Listed
  <2> QED BY <2>2, <2>3
<1>12. CASE UNCHANGED winVars
  BY <1>12, <1>b DEF winVars, feedVars, windowVars, listVars, historyVars, Listed
<1> QED BY <1>1, <1>2, <1>3, <1>4, <1>5, <1>6, <1>7, <1>8, <1>9, <1>10, <1>11,
           <1>12 DEF WindowNext, UserSteps, LoopSteps

(* Whatever the user clicks while the loop thread works: the pointers of   *)
(* the items of the selected mapping can be followed, and its mapping is   *)
(* still in the list.                                                      *)
THEOREM ListedCorrect == WindowSpec => []ListedAreConnected
<1>1. WindowInit => FeedInv /\ ListedAreConnected
  BY FeedInitially DEF WindowInit, ListedAreConnected, SelectedIsLive, Listed
<1>2. FeedInv /\ [WindowNext]_winVars => FeedInv'
  BY WindowFeeds, FeedStep
<1>3. FeedInv /\ WindowTypeOK /\ WindowTypeOK' /\ ListedAreConnected
        /\ [WindowNext]_winVars => ListedAreConnected'
  BY ListedStep DEF WindowOK
<1> QED BY <1>1, <1>2, <1>3, WindowTypeCorrect, PTL DEF WindowSpec

-----------------------------------------------------------------------------
(* What is missing                                                         *)

(* A connection is shown or its absence is accounted for.                  *)
Accounted(c) == userData[c] \in Listed \/ asked[current] > 0 \/ c \in skipped

(* Before is the case of a step that leaves the selection, and c reached;  *)
(* what accounted for c must then still do so, or something else does.     *)
LEMMA ConnectedStep ==
    WindowOK /\ WindowTypeOK' /\ SelectedIsLive /\ ConnectedAreListed
        /\ [WindowNext]_winVars => ConnectedAreListed'
<1> SUFFICES ASSUME WindowOK, WindowTypeOK', SelectedIsLive, ConnectedAreListed,
                    [WindowNext]_winVars,
                    answerDue', current' # None, closing' # current',
                    NEW c \in Conns, c \in Reached(current)'
             PROVE  Accounted(c)'
  BY DEF ConnectedAreListed, Accounted, Reached, Known
<1> DEFINE Before == answerDue /\ closing # current /\ current' = current
                     /\ c \in Reached(current)
<1>a. ASSUME Before PROVE Accounted(c)
  BY <1>a DEF ConnectedAreListed, Accounted
<1>b. ASSUME Before, UNCHANGED asked, UNCHANGED skipped, userData'[c] = userData[c],
             \A i \in Listed : i = userData[c] => i \in Listed'
      PROVE  Accounted(c)'
  BY <1>a, <1>b DEF Accounted
<1>c. ASSUME UNCHANGED <<feedVars, current, answerDue, closing>> PROVE Before
  BY <1>c DEF Reached, Known, feedVars
<1>d. ASSUME NEW S \in SUBSET Conns, Show(S), Before, c \notin S,
             UNCHANGED asked, skipped \subseteq skipped'
      PROVE  Accounted(c)'
  <2>0. Show(S) BY <1>d
  <2>1. userData'[c] = userData[c]
    BY <2>0, <1>d, ShowFacts DEF WindowOK
  <2>2. Listed \subseteq Listed'
    BY <2>0, ShowFacts DEF WindowOK, Listed
  <2> QED BY <1>a, <1>d, <2>1, <2>2 DEF Accounted
<1>e. ASSUME NEW S \in SUBSET Conns, Show(S), c \in S PROVE Accounted(c)'
  <2>0. Show(S) BY <1>e
  <2>1. userData'[c] \in Items /\ place'[userData'[c]] = "listed"
    BY <2>0, <1>e, ShowFacts DEF WindowOK
  <2> QED BY <2>1 DEF Accounted, Listed
<1>1. ASSUME NEW m \in Mappings, AddMapping(m) PROVE Accounted(c)'
  <2>1. Before
    BY <1>1 DEF AddMapping, MappingAdded, historyVars, Reached, Known
  <2> QED BY <2>1, <1>b, <1>1 DEF AddMapping, listVars, historyVars, Listed
<1>2. ASSUME NEW m \in Mappings, SelectNotStarted(m) \/ SelectDeleting(m)
      PROVE  Accounted(c)'
  BY <1>2 DEF SelectNotStarted, SelectDeleting
<1>3. ASSUME NEW m \in Mappings, SelectStarted(m) PROVE Accounted(c)'
  <2>1. /\ asked' = [asked EXCEPT ![m] = asked[m] + 1] /\ asked[m] \in Nat
        /\ current' = m
    BY <1>3 DEF SelectStarted, Select, WindowOK, WindowTypeOK
  <2>2. asked'[m] = asked[m] + 1
    BY <2>1 DEF WindowOK, WindowTypeOK
  <2> QED BY <2>1, <2>2 DEF Accounted
<1>4. CASE Refresh
  BY <1>4, <1>b, <1>c DEF Refresh, listVars, historyVars, Listed
<1>5. CASE DestroyItems
  <2>1. Listed \subseteq Listed'
    BY <1>5 DEF DestroyItems, Listed, WindowOK, WindowTypeOK
  <2>2. Before
    BY <1>5, <1>c DEF DestroyItems, historyVars
  <2> QED BY <1>5, <1>b, <2>1, <2>2 DEF DestroyItems, historyVars
<1>6. ASSUME NEW d \in Conns,
             \/ \E m \in Mappings : Accept(d, m)
             \/ Delete(d) \/ HandleAdd(d) \/ HandleDeleteOther(d)
      PROVE  Accounted(c)'
  <2>1. UNCHANGED windowVars
    BY <1>6 DEF Accept, Delete, HandleAdd, HandleDeleteOther
  <2>2. told'[c] = "connected" /\ owner'[c] = current'
    BY DEF Reached, Known
  <2>3. told[c] = "connected"
    BY <1>6, <2>2
       DEF Accept, Accepted, Delete, Deleted, HandleAdd, TellAdded, Tell,
           HandleDeleteOther, TellGone, WindowOK, FeedInv, FeedTypeOK
  <2>4. owner[c] = current
    BY <1>6, <2>1, <2>2, <2>3
       DEF Accept, Accepted, Delete, Deleted, HandleAdd, TellAdded, Tell, windowVars,
           HandleDeleteOther, TellGone, WindowOK, FeedInv, FeedTypeOK
  <2>5. Before
    BY <2>1, <2>3, <2>4 DEF Reached, Known, windowVars, historyVars
  <2> QED BY <1>b, <2>1, <2>5 DEF windowVars, listVars, historyVars, Listed
<1>7. ASSUME NEW d \in Conns, HandleChange(d) PROVE Accounted(c)'
  <2>1. /\ UNCHANGED <<owner, current, asked, closing, answerDue, skipped>>
        /\ \A e \in Conns \ {d} : told'[e] = told[e]
    BY <1>7 DEF HandleChange, TellConnected, Tell, WindowOK, FeedInv, FeedTypeOK
  <2>2. owner[c] = current
    BY <2>1 DEF Reached, Known
  <2>3. CASE c = d
    BY <2>2, <2>3, <1>7, <1>e DEF HandleChange
  <2>4. CASE c # d
    <3>1. Before
      BY <2>1, <2>4 DEF Reached, Known
    <3>2. CASE owner[d] = current
      <4>1. Show({d}) BY <1>7, <3>2 DEF HandleChange
      <4>2. c \notin {d} BY <2>4
      <4> QED BY <4>1, <4>2, <3>1, <2>1, <1>d
    <3>3. CASE owner[d] # current
      <4>1. UNCHANGED listVars BY <1>7, <3>3 DEF HandleChange
      <4> QED BY <4>1, <3>1, <2>1, <1>b DEF listVars, Listed
    <3> QED BY <3>2, <3>3
  <2> QED BY <2>3, <2>4
<1>8. ASSUME NEW d \in Conns, HandleDelete(d) PROVE Accounted(c)'
  <2>1. /\ told' = [told EXCEPT ![d] = "gone"]
        /\ userData' = [userData EXCEPT ![d] = None]
        /\ UNCHANGED <<owner, current, asked, closing, answerDue, skipped, of>>
        /\ TakeOff(Listed \cap {userData[d]})
    BY <1>8 DEF HandleDelete, TellGone, Tell
  <2>2. told'[c] = "connected" /\ owner'[c] = current'
    BY DEF Reached, Known
  <2>3. c # d
    BY <2>1, <2>2 DEF WindowOK, FeedInv, FeedTypeOK
  <2>4. told[c] = "connected"
    BY <2>1, <2>2, <2>3 DEF WindowOK, FeedInv, FeedTypeOK
  <2>5. userData'[c] = userData[c]
    BY <2>1, <2>3 DEF WindowOK, WindowTypeOK
  <2>6. Before
    BY <2>1, <2>2, <2>4 DEF Reached, Known
  <2>7. ASSUME NEW i \in Listed, i = userData[c] PROVE i \in Listed'
    <3>1. i \in Items /\ place[i] = "listed" /\ i # None
      BY WindowAssumption DEF Listed
    <3>2. of[i] = c
      BY <2>7, <3>1 DEF WindowOK, WindowTypeOK
    <3>3. userData[d] # i
      BY <2>3, <3>1, <3>2 DEF WindowOK, WindowTypeOK
    <3> QED BY <2>1, <3>1, <3>3 DEF TakeOff, Listed
  <2> QED BY <1>b, <2>1, <2>5, <2>6, <2>7
<1>9. ASSUME NEW d \in Conns, HandleDeleteFaults(d) PROVE Accounted(c)'
  <2>1. /\ told' = [told EXCEPT ![d] = "gone"]
        /\ UNCHANGED <<owner, current, asked, closing, answerDue, skipped,
                       of, place, userData>>
    BY <1>9 DEF HandleDeleteFaults, TellGone, Tell, listVars, historyVars
  <2>2. told[c] = "connected"
    BY <2>1 DEF Reached, Known, WindowOK, FeedInv, FeedTypeOK
  <2>3. Before
    BY <2>1, <2>2 DEF Reached, Known
  <2> QED BY <1>b, <2>1, <2>3 DEF Listed
<1>10. ASSUME NEW m \in Mappings, Erase(m) PROVE Accounted(c)'
  <2>1. /\ UNCHANGED <<life, owner, told, current, asked, answerDue, skipped,
                       of, place, userData>>
        /\ closing = m /\ m \notin mapItems
    BY <1>10 DEF Erase, MappingErased, listVars, historyVars
  <2>2. Before
    BY <2>1 DEF SelectedIsLive, Reached, Known
  <2> QED BY <1>b, <2>1, <2>2 DEF Listed
<1>11. ASSUME NEW m \in Mappings, HandleListenFail(m) \/ HandleRemove(m)
       PROVE  Accounted(c)'
  <2>1. /\ UNCHANGED <<feedVars, asked, answerDue, skipped, of, userData>>
        /\ m # current /\ current' = current /\ UNCHANGED place
        /\ closing \in {None, m}
    BY <1>11 DEF HandleListenFail, HandleRemove, ClearIfCurrent, LoopFree
  <2>2. Before
    BY <2>1 DEF feedVars, Reached, Known
  <2> QED BY <1>b, <2>1, <2>2 DEF Listed
<1>12. ASSUME NEW m \in Mappings, HandleClear(m) PROVE Accounted(c)'
  <2>1. /\ UNCHANGED <<owner, asked, answerDue, skipped, of, userData, current,
                       closing>>
        /\ m # current /\ UNCHANGED place
        /\ told' = [d \in Conns |-> IF d \in Known(m) THEN "gone" ELSE told[d]]
    BY <1>12 DEF HandleClear, ClearIfCurrent, TellCleared
  <2>2. told[c] = "connected"
    BY <2>1 DEF Reached, Known
  <2>3. Before
    BY <2>1, <2>2 DEF Reached, Known
  <2> QED BY <1>b, <2>1, <2>3 DEF Listed
<1>13. ASSUME NEW m \in Mappings, HandleStop(m) PROVE Accounted(c)'
  <2>1. /\ UNCHANGED <<feedVars, asked, answerDue, skipped, of, userData, current>>
        /\ closing = m /\ Known(m) = {}
    BY <1>13 DEF HandleStop
  <2>2. c \in Reached(current)
    BY <2>1 DEF feedVars, Reached, Known
  <2>3. m # current
    BY <2>1, <2>2 DEF Reached
  <2>4. UNCHANGED place
    BY <1>13, <2>3 DEF HandleStop, ClearIfCurrent
  <2>5. Before
    BY <2>1, <2>2, <2>3
  <2> QED BY <1>b, <2>1, <2>4, <2>5 DEF Listed
<1>14. ASSUME NEW m \in Mappings, HandleAnswer(m) PROVE Accounted(c)'
  <2>1. /\ UNCHANGED <<feedVars, current, closing, answerDue>>
        /\ asked' = [asked EXCEPT ![m] = asked[m] - 1]
    BY <1>14 DEF HandleAnswer
  <2>2. Before
    BY <2>1, <1>c
  <2>3. CASE m = current
    <3>1. /\ Show(Shown(m)) /\ Shown(m) \in SUBSET Conns
          /\ skipped' = skipped \cup (Reached(m) \ Shown(m))
      BY <1>14, <2>3 DEF HandleAnswer, Shown, Known
    <3>2. CASE c \in Shown(m)
      BY <1>e, <3>1, <3>2
    <3>3. CASE c \notin Shown(m)
      BY <2>2, <2>3, <3>1, <3>3 DEF Accounted
    <3> QED BY <3>2, <3>3
  <2>4. CASE m # current
    <3>1. UNCHANGED <<listVars, skipped>>
      BY <1>14, <2>4 DEF HandleAnswer
    <3>2. asked'[current] = asked[current]
      BY <2>1, <2>4, <2>2 DEF WindowOK, WindowTypeOK
    <3> QED BY <1>a, <2>2, <3>1, <3>2 DEF listVars, Accounted, Listed
  <2> QED BY <2>3, <2>4
<1>15. CASE UNCHANGED winVars
  BY <1>15, <1>b, <1>c DEF winVars, windowVars, listVars, historyVars, Listed
<1> QED BY <1>1, <1>2, <1>3, <1>4, <1>5, <1>6, <1>7, <1>8, <1>9, <1>10, <1>11,
           <1>12, <1>13, <1>14, <1>15 DEF WindowNext, UserSteps, LoopSteps

(* For any number of connections, and whatever happens between a click and *)
(* its answer: a connection of the selected mapping that is not in the     *)
(* list is missing for one of the three reasons.                           *)
THEOREM ConnectedCorrect == WindowSpec => []ConnectedAreListed
<1>1. WindowInit => FeedInv /\ ConnectedAreListed
  BY FeedInitially DEF WindowInit, ConnectedAreListed
<1>2. FeedInv /\ [WindowNext]_winVars => FeedInv'
  BY WindowFeeds, FeedStep
<1>3. FeedInv /\ WindowTypeOK /\ WindowTypeOK' /\ ListedAreConnected
        /\ ConnectedAreListed /\ [WindowNext]_winVars => ConnectedAreListed'
  BY ConnectedStep DEF WindowOK, ListedAreConnected
<1> QED BY <1>1, <1>2, <1>3, WindowTypeCorrect, ListedCorrect, PTL DEF WindowSpec

-----------------------------------------------------------------------------
(* An item leaves the list for one of the three reasons only.              *)
THEOREM LeavesCorrect == WindowSpec => LeavesForAReason
<1> DEFINE Stays == \A i \in Items : place[i] = "listed" /\ place'[i] # "listed" =>
                       \/ told'[of[i]] = "gone"
                       \/ current' # current
                       \/ current \in {closing, closing'}
<1>1. FeedInv /\ WindowTypeOK /\ [WindowNext]_winVars => [Stays]_winVars
  <2> SUFFICES ASSUME FeedInv, WindowTypeOK, [WindowNext]_winVars,
                      NEW i \in Items, place[i] = "listed", place'[i] # "listed"
               PROVE  \/ told'[of[i]] = "gone"
                      \/ current' # current
                      \/ current \in {closing, closing'}
      OBVIOUS
  <2>1. ASSUME NEW S \in SUBSET Conns, Show(S) PROVE FALSE
    BY <2>1, ShowFacts
  <2>2. ASSUME UNCHANGED place PROVE FALSE
    BY <2>2
  <2>3. ASSUME NEW m \in Mappings, AddMapping(m) PROVE FALSE
    BY <2>3, <2>2 DEF AddMapping, listVars
  <2>4. ASSUME NEW m \in Mappings,
               SelectNotStarted(m) \/ SelectDeleting(m) \/ SelectStarted(m)
        PROVE  current' # current
    BY <2>4 DEF SelectNotStarted, SelectDeleting, SelectStarted, Select
  <2>5. CASE Refresh
    BY <2>5, <2>2 DEF Refresh, listVars
  <2>6. ASSUME DestroyItems PROVE FALSE
    BY <2>6 DEF DestroyItems
  <2>7. ASSUME NEW c \in Conns,
               \/ \E m \in Mappings : Accept(c, m)
               \/ Delete(c) \/ HandleAdd(c) \/ HandleDeleteOther(c)
               \/ HandleDeleteFaults(c)
        PROVE  FALSE
    BY <2>7, <2>2 DEF Accept, Delete, HandleAdd, HandleDeleteOther,
                      HandleDeleteFaults, windowVars, listVars
  <2>8. ASSUME NEW c \in Conns, HandleChange(c) PROVE FALSE
    BY <2>8, <2>1, <2>2 DEF HandleChange, listVars
  <2>9. ASSUME NEW c \in Conns, HandleDelete(c) PROVE told'[of[i]] = "gone"
    <3>1. told'[c] = "gone"
      BY <2>9 DEF HandleDelete, TellGone, Tell, FeedInv, FeedTypeOK
    <3>2. i = userData[c] /\ i # None
      BY <2>9, WindowAssumption DEF HandleDelete, TakeOff
    <3>3. of[i] = c
      BY <3>2 DEF WindowTypeOK
    <3> QED BY <3>1, <3>3
  <2>10. ASSUME NEW m \in Mappings,
                \/ HandleListenFail(m) \/ HandleClear(m) \/ HandleStop(m)
                \/ HandleRemove(m)
         PROVE  current \in {closing, closing'}
    BY <2>10, <2>2 DEF HandleListenFail, HandleClear, HandleStop, HandleRemove,
                       ClearIfCurrent
  <2>11. ASSUME NEW m \in Mappings, Erase(m) \/ HandleAnswer(m) PROVE FALSE
    <3>1. Shown(m) \in SUBSET Conns BY DEF Shown, Known
    <3> QED BY <2>11, <2>1, <2>2, <3>1 DEF Erase, HandleAnswer, listVars
  <2>12. ASSUME UNCHANGED winVars PROVE FALSE
    BY <2>12, <2>2 DEF winVars, windowVars, listVars
  <2> QED BY <2>3, <2>4, <2>5, <2>6, <2>7, <2>8, <2>9, <2>10, <2>11, <2>12
          DEF WindowNext, UserSteps, LoopSteps
<1>2. WindowInit => FeedInv
  BY FeedInitially DEF WindowInit
<1>3. FeedInv /\ [WindowNext]_winVars => FeedInv'
  BY WindowFeeds, FeedStep
<1> QED BY <1>1, <1>2, <1>3, WindowTypeCorrect, PTL
        DEF WindowSpec, LeavesForAReason
=============================================================================
