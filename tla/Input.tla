------------------------------- MODULE Input --------------------------------
(***************************************************************************)
(* The fields of a new mapping in the window: two ports and the address of *)
(* the server, checked at every change of their text; the Add button,      *)
(* which the checks switch on and off; the tool tip the fields share; and  *)
(* what OnAddClick and AddMapping make of the texts.                       *)
(*                                                                         *)
(* CheckPort and CheckIP decide about the button before m_bOK of their own *)
(* field is updated, so CheckAllInfo sees its old value: the button is     *)
(* late by one change, never early.                                        *)
(*                                                                         *)
(* All of it runs on the UI thread.  A text is what its check and its      *)
(* conversion see of it: Wrong, a port, or an address and whether one of   *)
(* its numbers is written with a zero in front, which CheckIP accepts and  *)
(* uv_ip4_addr refuses, leaving 0.0.0.0 behind.                            *)
(***************************************************************************)
CONSTANTS
    Ports,       \* ports, 1 to 65535
    Addresses,   \* IPv4 addresses
    AnyAddress,  \* 0.0.0.0
    LocalIPs,    \* those of this machine that GetLocalIP may find
    Wrong,       \* a text that is no port, or no address
    None         \* no field, no mapping

ASSUME InputAssumption ==
    /\ AnyAddress \in Addresses /\ LocalIPs \subseteq Addresses
    /\ Wrong \notin Ports \cup [addr : Addresses, zeros : BOOLEAN]
    /\ None \notin {"local_port", "mapping_port", "mapping_ip"} \cup LocalIPs

PortFields == {"local_port", "mapping_port"}
Fields == PortFields \cup {"mapping_ip"}

AddressTexts == [addr : Addresses, zeros : BOOLEAN]
TextsOf(f) == {Wrong} \cup (IF f \in PortFields THEN Ports ELSE AddressTexts)
MappingInfos == [agent : Addresses, server : Addresses, port : Ports]

VARIABLES
    text,     \* m_sText of each field
    ok,       \* m_bOK of each field
    enabled,  \* whether m_pBtn_ADD is enabled
    edited,   \* the field that has an edit window, at most one
    tip,      \* m_plast: the field the shared tool tip stands at
    agent,    \* the text of the combo box, None if GetLocalIP found nothing
    mapping   \* m_mapMapping, as far as AddMapping fills it in

inputVars == <<text, ok, enabled, edited, tip, agent, mapping>>

(* After InitWindow: the skin's texts pass their checks.                   *)
InputInit ==
    /\ text \in [Fields -> Ports \cup AddressTexts]
    /\ \A f \in Fields : text[f] \in TextsOf(f)
    /\ ok = [f \in Fields |-> TRUE]
    /\ enabled = TRUE
    /\ edited = None /\ tip = None
    /\ agent \in LocalIPs \cup {None}
    /\ mapping = [p \in Ports |-> None]

-----------------------------------------------------------------------------
(* DuiLib moves the focus to the main window before it gives it to another *)
(* control: the edit window of the old field closes and takes the tool tip *)
(* along.                                                                  *)
KillFocus ==
    /\ edited # None
    /\ edited' = None /\ tip' = None
    /\ UNCHANGED <<text, ok, enabled, agent, mapping>>

(* A new edit window shows the tool tip if the text is still wrong.        *)
SetFocus(f) ==
    /\ edited # f
    /\ edited' = f
    /\ tip' = IF ok[f] THEN None ELSE f
    /\ UNCHANGED <<text, ok, enabled, agent, mapping>>

(* Mutant: the server's port is forgotten.                                 *)
CheckAllInfoNoPort == \A f \in Fields \ {"mapping_port"} : ok[f]

CheckAllInfo == \A f \in Fields : ok[f]

(* Mutant: a right text leaves the tool tip where it is.                   *)
OnEditChangedTipStays(f, t) ==
    /\ edited = f
    /\ text' = [text EXCEPT ![f] = t]
    /\ enabled' = (t # Wrong /\ CheckAllInfo)
    /\ ok' = [ok EXCEPT ![f] = t # Wrong]
    /\ tip' = IF t # Wrong THEN tip ELSE f
    /\ UNCHANGED <<edited, agent, mapping>>

(* OnEditChanged, CheckText, and CheckPort or CheckIP.                     *)
OnEditChanged(f, t) ==
    /\ edited = f
    /\ text' = [text EXCEPT ![f] = t]
    /\ enabled' = (t # Wrong /\ CheckAllInfo)
    /\ ok' = [ok EXCEPT ![f] = t # Wrong]
    /\ tip' = IF t # Wrong THEN None ELSE f
    /\ UNCHANGED <<edited, agent, mapping>>

SelectIP(a) ==
    /\ agent # None /\ agent' = a
    /\ edited' = None /\ tip' = None
    /\ UNCHANGED <<text, ok, enabled, mapping>>

-----------------------------------------------------------------------------
(* uv_ip4_addr; its result is ignored, as it is for an empty combo box.    *)
Ip4Addr(t) == IF t.zeros THEN AnyAddress ELSE t.addr

(* A port that is taken gives err = 1; a mapping onto itself gives err = 2 *)
(* and its node is erased again.                                           *)
AddMapping ==
    LET p == text["local_port"]
        info == [agent |-> IF agent = None THEN AnyAddress ELSE agent,
                 server |-> Ip4Addr(text["mapping_ip"]),
                 port |-> text["mapping_port"]]
        itself == info.agent = info.server /\ info.port = p IN
    mapping' = IF mapping[p] # None \/ itself THEN mapping
               ELSE [mapping EXCEPT ![p] = info]

(* The click takes the focus from the field.                               *)
OnAddClick ==
    /\ enabled
    /\ AddMapping
    /\ edited' = None /\ tip' = None
    /\ UNCHANGED <<text, ok, enabled, agent>>

(* _RemoveMapping on the loop thread (module Mapping).                     *)
RemoveMapping(p) ==
    /\ mapping[p] # None
    /\ mapping' = [mapping EXCEPT ![p] = None]
    /\ UNCHANGED <<text, ok, enabled, edited, tip, agent>>

InputNext ==
    \/ KillFocus \/ OnAddClick
    \/ \E f \in Fields :
           \/ SetFocus(f)
           \/ \E t \in TextsOf(f) : OnEditChanged(f, t)
    \/ \E a \in LocalIPs : SelectIP(a)
    \/ \E p \in Ports : RemoveMapping(p)

InputSpec == InputInit /\ [][InputNext]_inputVars

-----------------------------------------------------------------------------
(* Properties                                                              *)

(* Types of the variables: a text that failed its check never becomes a    *)
(* port or an address in m_mapMapping.                                     *)
InputTypeOK ==
    /\ text \in [Fields -> {Wrong} \cup Ports \cup AddressTexts]
    /\ \A f \in Fields : text[f] \in TextsOf(f)
    /\ ok \in [Fields -> BOOLEAN] /\ enabled \in BOOLEAN
    /\ edited \in Fields \cup {None} /\ tip \in Fields \cup {None}
    /\ agent \in LocalIPs \cup {None}
    /\ mapping \in [Ports -> MappingInfos \cup {None}]

(* Add can be clicked only while all three texts are right, although the   *)
(* check that enables it reads an m_bOK from before the last change.       *)
AddOnlyValid == enabled => \A f \in Fields : text[f] # Wrong

(* The tool tip, one window for three fields, stands at the field that is  *)
(* edited exactly while the text of that field is wrong.                   *)
TipIsTrue ==
    tip = IF edited # None /\ text[edited] = Wrong THEN edited ELSE None
=============================================================================
