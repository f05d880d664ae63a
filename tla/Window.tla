------------------------------- MODULE Window -------------------------------
(***************************************************************************)
(* The main window's list of connections (CMainDlg), as the messages of    *)
(* the loop thread and the clicks of the user reach it.                    *)
(*                                                                         *)
(* The window shows the connections of one mapping, m_pCur_mapping.  When  *)
(* the user selects a mapping it asks the loop thread for its connections; *)
(* from then on it adds and removes items as it is told.  An item points   *)
(* to its ConnectInfo and the ConnectInfo to its newest item (pUserData).  *)
(* An item taken off the list is destroyed later, by a message DuiLib      *)
(* posts to itself.                                                        *)
(*                                                                         *)
(* The loop thread waits in SendMessage, so a message and what the loop    *)
(* thread has done before it are one step; ConnectFeed is what it promises *)
(* about the connections.  wfault tells how the window left defined        *)
(* behaviour; nothing is said of what it does afterwards.                  *)
(***************************************************************************)
EXTENDS ConnectFeed, Naturals

CONSTANTS
    Items,      \* the CConnectListItems that may be created
    Key,        \* the order of the connections in m_mapConnect
    MaxAsked    \* bound: questions that wait for the loop thread

ASSUME WindowAssumption ==
    /\ None \notin Mappings /\ None \notin Conns /\ None \notin Items
    /\ Key \in [Conns -> Nat]
    /\ MaxAsked \in Nat

VARIABLES
    mapItems,  \* mappings that have an item in m_pMapping_List
    current,   \* the mapping of m_pCur_mapping
    of,        \* m_pInfo of each item of m_pConnect_List
    place,     \* whether it is listed, taken off, or destroyed
    userData,  \* pUserData of each ConnectInfo
    asked,     \* questions posted for each mapping (GetAllConnect)
    closing,   \* the mapping that the loop thread is closing or removing
    wfault,
    stray,     \* history: items that outlived a selection, or that a newer
               \* item of the same connection has replaced
    answerDue, \* history: the selection of current posted a question
    skipped    \* history: connections that an answer for current left out

listVars  == <<of, place, userData>>
historyVars == <<stray, answerDue, skipped>>
windowVars == <<mapItems, current, listVars, asked, closing, wfault, historyVars>>
winVars == <<feedVars, windowVars>>

WindowInit ==
    /\ FeedInit
    /\ mapItems = {} /\ current = None
    /\ of = [i \in Items |-> None]
    /\ place = [i \in Items |-> "unused"]
    /\ userData = [c \in Conns |-> None]
    /\ asked = [m \in Mappings |-> 0]
    /\ closing = None
    /\ wfault = "none"
    /\ stray = {} /\ answerDue = FALSE /\ skipped = {}

-----------------------------------------------------------------------------
Listed == {i \in Items : place[i] = "listed"}

(* CListUI::Remove and RemoveAll.                                          *)
TakeOff(S) ==
    /\ place' = [i \in Items |-> IF i \in S THEN "removed" ELSE place[i]]
    /\ stray' = stray \ S

(* One new CConnectListItem for each connection of S: the constructor sets *)
(* pUserData.                                                              *)
Show(S) ==
    \E new \in [S -> {i \in Items : place[i] = "unused"}] :
        /\ \A c, d \in S : new[c] = new[d] => c = d
        /\ of' = [i \in Items |-> IF \E c \in S : new[c] = i
                                  THEN CHOOSE c \in S : new[c] = i ELSE of[i]]
        /\ place' = [i \in Items |-> IF \E c \in S : new[c] = i
                                     THEN "listed" ELSE place[i]]
        /\ userData' = [c \in Conns |-> IF c \in S THEN new[c] ELSE userData[c]]
        /\ stray' = stray \cup (Listed \cap {userData[c] : c \in S})

LoopFree == closing = None

-----------------------------------------------------------------------------
(* OnAddClick.                                                             *)
AddMapping(m) ==
    /\ MappingAdded(m)
    /\ mapItems' = mapItems \cup {m}
    /\ UNCHANGED <<current, listVars, asked, closing, wfault, historyVars>>

(* ListItemNotify and UpDataConnectList: a click on another mapping.  The  *)
(* flags MAPPING_START and MAPPING_DELETING decide what follows.           *)
Select(m) ==
    /\ m \in mapItems /\ current # m
    /\ current' = m /\ skipped' = {}
    /\ UNCHANGED <<feedVars, mapItems, of, userData, closing, wfault>>

SelectNotStarted(m) ==
    /\ Select(m)
    /\ stray' = stray \cup Listed
    /\ answerDue' = FALSE
    /\ UNCHANGED <<place, asked>>

SelectDeleting(m) ==
    /\ Select(m)
    /\ TakeOff(Listed)
    /\ answerDue' = FALSE
    /\ UNCHANGED asked

SelectStarted(m) ==
    /\ Select(m)
    /\ TakeOff(Listed)
    /\ asked[m] < MaxAsked
    /\ asked' = [asked EXCEPT ![m] = @ + 1]
    /\ answerDue' = TRUE

(* The 600 ms timer, UpDataList: every item reads its ConnectInfo.         *)
Refresh ==
    /\ \E i \in Listed : life[of[i]] # "live"
    /\ wfault' = "freed connection"
    /\ UNCHANGED <<feedVars, mapItems, current, listVars, asked, closing, historyVars>>

(* Mutant: the list is deleted with them.                                  *)
DestroyItemsAll ==
    /\ \E i \in Items : place[i] = "removed"
    /\ place' = [i \in Items |-> IF place[i] = "unused" THEN "unused" ELSE "destroyed"]
    /\ UNCHANGED <<feedVars, mapItems, current, of, userData, asked, closing,
                   wfault, historyVars>>

(* DuiLib's WM_APP+1: the items taken off the list are deleted.            *)
DestroyItems ==
    /\ \E i \in Items : place[i] = "removed"
    /\ place' = [i \in Items |-> IF place[i] = "removed" THEN "destroyed" ELSE place[i]]
    /\ UNCHANGED <<feedVars, mapItems, current, of, userData, asked, closing,
                   wfault, historyVars>>

-----------------------------------------------------------------------------
(* What the loop thread does without the window.                           *)
Accept(c, m) ==
    /\ LoopFree /\ m \in mapItems
    /\ Accepted(c, m)
    /\ UNCHANGED windowVars

Delete(c) ==
    /\ LoopFree
    /\ Deleted(c)
    /\ UNCHANGED windowVars

Erase(m) ==
    /\ closing = m /\ m \notin mapItems
    /\ MappingErased(m)
    /\ closing' = None
    /\ UNCHANGED <<mapItems, current, listVars, asked, wfault, historyVars>>

(* DealWithConnectMsg.  A connection is shown when its server has been     *)
(* reached, so MSG_ADD_CONNECT shows nothing.                              *)
HandleAdd(c) ==
    /\ LoopFree
    /\ TellAdded(c)
    /\ UNCHANGED windowVars

(* Mutant: only connections of a running answer are shown.                 *)
HandleChangeUnasked(c) ==
    /\ LoopFree
    /\ TellConnected(c)
    /\ IF owner[c] = current /\ asked[current] > 0
       THEN Show({c}) ELSE UNCHANGED <<listVars, stray>>
    /\ UNCHANGED <<mapItems, current, asked, closing, wfault, answerDue, skipped>>

HandleChange(c) ==
    /\ LoopFree
    /\ TellConnected(c)
    /\ IF owner[c] = current THEN Show({c}) ELSE UNCHANGED <<listVars, stray>>
    /\ UNCHANGED <<mapItems, current, asked, closing, wfault, answerDue, skipped>>

HandleDeleteOther(c) ==
    /\ LoopFree
    /\ owner[c] # current
    /\ TellGone(c)
    /\ UNCHANGED windowVars

(* MSG_DELETE_CONNECT hands pUserData to CListUI::Remove, which looks at   *)
(* the item, and does nothing when it is not in the list.                  *)
HasItem(c) == userData[c] \in {i \in Items : place[i] # "destroyed"}

(* Mutant: pUserData is cleared, the item stays.                           *)
HandleDeleteKept(c) ==
    /\ LoopFree
    /\ owner[c] = current
    /\ HasItem(c)
    /\ TellGone(c)
    /\ userData' = [userData EXCEPT ![c] = None]
    /\ UNCHANGED <<of, place, mapItems, current, asked, closing, wfault, historyVars>>

HandleDelete(c) ==
    /\ LoopFree
    /\ owner[c] = current
    /\ HasItem(c)
    /\ TellGone(c)
    /\ TakeOff(Listed \cap {userData[c]})
    /\ userData' = [userData EXCEPT ![c] = None]
    /\ UNCHANGED <<of, mapItems, current, asked, closing, wfault, answerDue, skipped>>

HandleDeleteFaults(c) ==
    /\ LoopFree
    /\ owner[c] = current
    /\ ~HasItem(c)
    /\ TellGone(c)
    /\ wfault' = IF userData[c] = None THEN "remove of no item"
                                       ELSE "remove of destroyed item"
    /\ UNCHANGED <<mapItems, current, listVars, asked, closing, historyVars>>

-----------------------------------------------------------------------------
(* DealWithMappingMsg.  listen_close_cb sends MSG_LISTEN_FAIL, then        *)
(* MSG_CLEAR_CONNECT if the port has records, then MSG_MAPPING_STOP or     *)
(* MSG_REMOVE_MAPPING; a mapping that is stopped already gets the last     *)
(* one only.                                                               *)
ClearIfCurrent(m) ==
    IF m = current THEN TakeOff(Listed) ELSE UNCHANGED <<place, stray>>

HandleListenFail(m) ==
    /\ LoopFree /\ m \in mapItems
    /\ ClearIfCurrent(m)
    /\ closing' = m
    /\ UNCHANGED <<feedVars, mapItems, current, of, userData, asked, wfault,
                   answerDue, skipped>>

(* Mutant: the list is cleared whatever mapping is shown.                  *)
HandleClearAlways(m) ==
    /\ closing = m /\ m \in mapItems
    /\ TellCleared(m)
    /\ TakeOff(Listed)
    /\ UNCHANGED <<mapItems, current, of, userData, asked, closing, wfault,
                   answerDue, skipped>>

HandleClear(m) ==
    /\ closing = m /\ m \in mapItems
    /\ TellCleared(m)
    /\ ClearIfCurrent(m)
    /\ UNCHANGED <<mapItems, current, of, userData, asked, closing, wfault,
                   answerDue, skipped>>

HandleStop(m) ==
    /\ closing = m /\ m \in mapItems /\ Known(m) = {}
    /\ ClearIfCurrent(m)
    /\ closing' = None
    /\ UNCHANGED <<feedVars, mapItems, current, of, userData, asked, wfault,
                   answerDue, skipped>>

HandleRemove(m) ==
    /\ (closing = m /\ Known(m) = {}) \/ LoopFree
    /\ m \in mapItems
    /\ mapItems' = mapItems \ {m}
    /\ ClearIfCurrent(m)
    /\ current' = IF m = current THEN None ELSE current
    /\ closing' = m
    /\ UNCHANGED <<feedVars, of, userData, asked, wfault, answerDue, skipped>>

(* USER_ALLCONNECT_MSG, the answer to a question: the records in the order *)
(* of their keys.  The loop over them stays at the first one whose server  *)
(* has not been reached.                                                   *)
Shown(m) ==
    {c \in Known(m) :
        \A d \in Known(m) : Key[d] <= Key[c] => told[d] = "connected"}

Reached(m) == {c \in Known(m) : told[c] = "connected"}

HandleAnswer(m) ==
    /\ LoopFree /\ m \in mapItems
    /\ asked[m] > 0
    /\ asked' = [asked EXCEPT ![m] = @ - 1]
    /\ IF m = current
       THEN Show(Shown(m)) /\ skipped' = skipped \cup (Reached(m) \ Shown(m))
       ELSE UNCHANGED <<listVars, stray, skipped>>
    /\ UNCHANGED <<feedVars, mapItems, current, closing, wfault, answerDue>>

-----------------------------------------------------------------------------
UserSteps ==
    \/ \E m \in Mappings : \/ AddMapping(m) \/ SelectNotStarted(m)
                           \/ SelectDeleting(m) \/ SelectStarted(m)
    \/ Refresh \/ DestroyItems

LoopSteps ==
    \/ \E c \in Conns :
           \/ \E m \in Mappings : Accept(c, m)
           \/ Delete(c)
           \/ HandleAdd(c) \/ HandleChange(c)
           \/ HandleDeleteOther(c) \/ HandleDelete(c) \/ HandleDeleteFaults(c)
    \/ \E m \in Mappings :
           \/ Erase(m)
           \/ HandleListenFail(m) \/ HandleClear(m) \/ HandleStop(m)
           \/ HandleRemove(m) \/ HandleAnswer(m)

WindowNext == wfault = "none" /\ (UserSteps \/ LoopSteps)

WindowSpec == WindowInit /\ [][WindowNext]_winVars

-----------------------------------------------------------------------------
(* Properties                                                              *)

(* Types of the variables; an item that was created has a connection, a    *)
(* pUserData points to an item of its own connection.                      *)
WindowTypeOK ==
    /\ mapItems \subseteq Mappings /\ current \in Mappings \cup {None}
    /\ of \in [Items -> Conns \cup {None}]
    /\ place \in [Items -> {"unused", "listed", "removed", "destroyed"}]
    /\ userData \in [Conns -> Items \cup {None}]
    /\ asked \in [Mappings -> Nat]
    /\ closing \in Mappings \cup {None}
    /\ wfault \in {"none", "freed connection", "remove of no item",
                   "remove of destroyed item"}
    /\ stray \subseteq Listed /\ answerDue \in BOOLEAN /\ skipped \subseteq Conns
    /\ \A i \in Items : place[i] # "unused" => of[i] \in Conns
    /\ \A c \in Conns : userData[c] # None =>
           place[userData[c]] # "unused" /\ of[userData[c]] = c

(* m_pCur_mapping and the items of the mapping list.                       *)
SelectedIsLive ==
    /\ current # None => current \in mapItems
    /\ \A m \in mapItems : alloc[m] = "live"

(* The pointers of the window can be trusted: m_pCur_mapping never         *)
(* outlives its item nor the MappingInfo behind it, and an item that is    *)
(* listed, and neither outlived a selection nor was replaced by another    *)
(* one of its connection, belongs to a connection of the selected mapping  *)
(* that exists and is connected, whose deletion will find it.              *)
ListedAreConnected ==
    /\ SelectedIsLive
    /\ \A i \in Listed \ stray :
           /\ life[of[i]] = "live" /\ told[of[i]] = "connected"
           /\ owner[of[i]] = current
           /\ userData[of[i]] = i

(* Nothing is missing: a connected connection of the selected mapping has  *)
(* an item, unless a question for the mapping is still to be answered, an  *)
(* answer left it out, the selection did not ask, or the mapping closes.   *)
ConnectedAreListed ==
    answerDue /\ current # None /\ closing # current =>
        \A c \in Reached(current) :
            \/ userData[c] \in Listed
            \/ asked[current] > 0
            \/ c \in skipped

(* An item leaves the list only with its connection, with the selection,   *)
(* or with the connections of its mapping.                                 *)
LeavesForAReason ==
    [][\A i \in Items : place[i] = "listed" /\ place'[i] # "listed" =>
          \/ told'[of[i]] = "gone"
          \/ current' # current
          \/ current \in {closing, closing'}]_winVars

-----------------------------------------------------------------------------
(* What the repository says of the program                                 *)

(* MainDlg.cpp: selecting a mapping gets all its connections, and of those *)
(* the ones that succeeded are shown.                                      *)
AnswerShowsAll ==
    [][\A m \in Mappings :
          m = current /\ asked'[m] < asked[m] =>
              \A c \in Reached(m) : userData'[c] \in Items /\ place'[userData'[c]] = "listed"]_winVars
=============================================================================
