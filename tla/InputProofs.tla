---------------------------- MODULE InputProofs -----------------------------
(***************************************************************************)
(* Proofs about Input, for any ports and addresses.                        *)
(*                                                                         *)
(* The three invariants need each other and one fact that CheckText keeps: *)
(* after a change m_bOK of a field says whether its text is right.  The    *)
(* button is decided with the m_bOK of before the change, but only where   *)
(* the new text is right as well.                                          *)
(***************************************************************************)
EXTENDS Input, TLAPS

OkIsTrue == \A f \in Fields : ok[f] <=> text[f] # Wrong

InputInv == InputTypeOK /\ OkIsTrue /\ AddOnlyValid /\ TipIsTrue

LEMMA InputInvInit == InputInit => InputInv
<1> SUFFICES ASSUME InputInit PROVE InputInv
  OBVIOUS
<1> USE InputAssumption
<1>1. \A f \in Fields : text[f] # Wrong
  BY DEF InputInit, AddressTexts
<1>2. InputTypeOK
  BY DEF InputInit, InputTypeOK
<1>3. QED BY <1>1, <1>2 DEF InputInit, InputInv, OkIsTrue, AddOnlyValid, TipIsTrue

(* What a click on Add puts into m_mapMapping.                             *)
LEMMA AddMappingType ==
    ASSUME InputInv, enabled, AddMapping
    PROVE  mapping' \in [Ports -> MappingInfos \cup {None}]
<1> DEFINE info == [agent |-> IF agent = None THEN AnyAddress ELSE agent,
                    server |-> Ip4Addr(text["mapping_ip"]),
                    port |-> text["mapping_port"]]
<1>1. /\ text["local_port"] \in Ports /\ text["mapping_port"] \in Ports
      /\ text["mapping_ip"] \in AddressTexts
  BY DEF InputInv, InputTypeOK, AddOnlyValid, TextsOf, Fields, PortFields
<1>2. Ip4Addr(text["mapping_ip"]) \in Addresses
  BY <1>1, InputAssumption DEF Ip4Addr, AddressTexts
<1>3. info \in MappingInfos
  BY <1>1, <1>2, InputAssumption DEF InputInv, InputTypeOK, MappingInfos
<1>4. \/ mapping' = mapping
      \/ mapping' = [mapping EXCEPT ![text["local_port"]] = info]
  BY DEF AddMapping
<1> HIDE DEF info
<1>5. QED BY <1>1, <1>3, <1>4 DEF InputInv, InputTypeOK

LEMMA InputInvStep == InputInv /\ [InputNext]_inputVars => InputInv'
<1> SUFFICES ASSUME InputInv, [InputNext]_inputVars PROVE InputInv'
  OBVIOUS
<1> USE DEF InputInv, OkIsTrue, AddOnlyValid, TipIsTrue
<1>1. CASE UNCHANGED inputVars
  BY <1>1 DEF inputVars, InputTypeOK
<1>2. CASE KillFocus
  BY <1>2 DEF KillFocus, InputTypeOK
<1>3. CASE OnAddClick
  BY <1>3, AddMappingType DEF OnAddClick, InputTypeOK
<1>4. ASSUME NEW f \in Fields, SetFocus(f) PROVE InputInv'
  BY <1>4, InputAssumption DEF SetFocus, InputTypeOK, Fields, PortFields
<1>5. ASSUME NEW f \in Fields, NEW t \in TextsOf(f), OnEditChanged(f, t)
      PROVE  InputInv'
  <2>1. /\ \A g \in Fields : text'[g] = IF g = f THEN t ELSE text[g]
        /\ \A g \in Fields : ok'[g] = IF g = f THEN t # Wrong ELSE ok[g]
    BY <1>5 DEF OnEditChanged, InputTypeOK
  <2>2. OkIsTrue'
    BY <2>1
  <2>3. AddOnlyValid'
    <3>1. enabled' <=> t # Wrong /\ \A g \in Fields : ok[g]
      BY <1>5 DEF OnEditChanged, CheckAllInfo
    <3>2. QED BY <2>1, <3>1
  <2>4. TipIsTrue'
    <3>1. edited' = f /\ tip' = IF t # Wrong THEN None ELSE f
      BY <1>5 DEF OnEditChanged
    <3>2. f # None
      BY InputAssumption DEF Fields, PortFields
    <3>3. QED BY <2>1, <3>1, <3>2
  <2>5. InputTypeOK'
    <3>1. t \in {Wrong} \cup Ports \cup AddressTexts
      BY DEF TextsOf
    <3>2. text' \in [Fields -> {Wrong} \cup Ports \cup AddressTexts]
      BY <1>5, <3>1 DEF OnEditChanged, InputTypeOK
    <3>3. \A g \in Fields : text'[g] \in TextsOf(g)
      BY <2>1 DEF InputTypeOK
    <3>4. ok' \in [Fields -> BOOLEAN] /\ enabled' \in BOOLEAN
      BY <1>5 DEF OnEditChanged, InputTypeOK, CheckAllInfo
    <3>5. /\ edited' \in Fields \cup {None} /\ tip' \in Fields \cup {None}
          /\ agent' \in LocalIPs \cup {None}
          /\ mapping' \in [Ports -> MappingInfos \cup {None}]
      BY <1>5 DEF OnEditChanged, InputTypeOK
    <3>6. QED BY <3>2, <3>3, <3>4, <3>5 DEF InputTypeOK
  <2>6. QED BY <2>2, <2>3, <2>4, <2>5
<1>6. ASSUME NEW a \in LocalIPs, SelectIP(a) PROVE InputInv'
  BY <1>6 DEF SelectIP, InputTypeOK
<1>7. ASSUME NEW p \in Ports, RemoveMapping(p) PROVE InputInv'
  BY <1>7 DEF RemoveMapping, InputTypeOK
<1>8. QED BY <1>1, <1>2, <1>3, <1>4, <1>5, <1>6, <1>7 DEF InputNext

LEMMA InputInvariant == InputSpec => []InputInv
  BY InputInvInit, InputInvStep, PTL DEF InputSpec

(* Every variable keeps its type; m_mapMapping is filled from texts that   *)
(* passed their checks (OnAddClick, AddMapping).                           *)
THEOREM InputTypeCorrect == InputSpec => []InputTypeOK
<1>1. InputInv => InputTypeOK
  BY DEF InputInv
<1>2. QED BY <1>1, InputInvariant, PTL

(* The Add button is never enabled while a text is wrong (CheckPort,       *)
(* CheckIP, CheckAllInfo).                                                 *)
THEOREM AddIsNeverEarly == InputSpec => []AddOnlyValid
<1>1. InputInv => AddOnlyValid
  BY DEF InputInv
<1>2. QED BY <1>1, InputInvariant, PTL

(* The shared tool tip stands at the edited field exactly while its text   *)
(* is wrong (ShowToolTip, HideToolTip, OnFinalMessage).                    *)
THEOREM TipIsAlwaysTrue == InputSpec => []TipIsTrue
<1>1. InputInv => TipIsTrue
  BY DEF InputInv
<1>2. QED BY <1>1, InputInvariant, PTL
=============================================================================
