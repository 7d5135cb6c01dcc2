--------------------------- MODULE RepeaterProofs ---------------------------
(***************************************************************************)
(* IndInv is an inductive invariant of Repeater, and Repeater keeps what   *)
(* RepeaterMode promises, for every set of networks.                       *)
(***************************************************************************)
EXTENDS Repeater, TLAPS

\* A table is not Null, and the two radios are each other's other.
LEMMA Basics ==
    /\ 0 \in Int
    /\ Null \notin Tables
    /\ \A n \in -1 .. MaxWait : n \in Int
    /\ \A r \in Radio : Other(r) \in Radio /\ Other(r) # r
    /\ \A r \in Radio : If(r) \in InterfaceNames
                      /\ If(r).radio = r /\ r # -1
<1>1. Null \notin Tables
  <2> SUFFICES ASSUME Null \in Tables PROVE FALSE
      OBVIOUS
  <2>1. DOMAIN Null = {0, 1}
      BY DEF Tables, Radio
  <2>2. DOMAIN Null = {}
      BY DEF Null
  <2> QED
      BY <2>1, <2>2
<1>2. \A n \in -1 .. MaxWait : n \in Int
  <2>1. MaxWait \in Nat
      BY NetworksAssumption
  <2> QED
      BY <2>1
<1>3. \A r \in Radio : Other(r) \in Radio /\ Other(r) # r
    BY DEF Radio, Other
<1>4. \A r \in Radio : /\ If(r) \in InterfaceNames
                       /\ If(r).radio = r /\ r # -1
    BY DEF Radio, If, InterfaceNames
<1>5. 0 \in Int
    OBVIOUS
<1> QED
    BY <1>1, <1>2, <1>3, <1>4, <1>5

\* At most one radio has heard a network.
LEMMA OneHears == \A r, q \in Radio : Heard(r) /\ Heard(q) => r = q
BY DEF Heard, Radio
-----------------------------------------------------------------------------
\* The invariant holds at the first start.
LEMMA InitHolds == Init => IndInv
<1> SUFFICES ASSUME Init PROVE IndInv
    OBVIOUS
<1>1. TypeOK
    BY NetworksAssumption, Basics DEF Init, TypeOK, Stages, NoIf, InterfaceNames, Switches, Names, Radio, Tables
<1>2. Places /\ Interface /\ StoredSoFar
    BY DEF Init, Places, Interface, StoredSoFar
<1>3. Radios /\ NoTwoServers /\ ShownIsUsed /\ WholeOrUndone
  <2>1. /\ srvPc = "idle" /\ deviceInfo = Null /\ shown = Null /\ harm = "none"
        /\ \A r \in Radio : REPEATER_ENABLED[r] = 0
      BY DEF Init
  <2>2. Radios
    <3>1. 0 \in Radio /\ REPEATER_ENABLED[0] = 0
        BY <2>1 DEF Radio
    <3>2. \A r \in Radio : REPEATER_ENABLED[r] # 1
        BY <2>1
    <3> QED
        BY <2>1, <3>1, <3>2 DEF Radios
  <2>3. NoTwoServers
      BY <2>1 DEF NoTwoServers
  <2>4. ShownIsUsed /\ WholeOrUndone
      BY <2>1 DEF ShownIsUsed, WholeOrUndone
  <2> QED
      BY <2>2, <2>3, <2>4
<1> QED
    BY <1>1, <1>2, <1>3 DEF IndInv

\* Nothing changes its type when nothing changes.
LEMMA TypeStutters == TypeOK /\ UNCHANGED vars => TypeOK'
<1> SUFFICES ASSUME TypeOK, UNCHANGED vars PROVE TypeOK'
    OBVIOUS
<1>1. UNCHANGED <<srvPc, cmd, network, radio, wait, WLAN_IF, deviceInfo, shown, harm, lost>>
    BY DEF vars, surveyVars
<1>2. UNCHANGED <<DHCP, REPEATER_ENABLED, REPEATER_SSID>>
    BY DEF vars, settings
<1>3. (srvPc \in Stages /\ cmd \in {"none", "search", "repeat", "leave"} /\ radio \in Radio)'
    BY <1>1 DEF TypeOK
<1>4. (wait \in Int /\ network \in Networks \cup {""} /\ WLAN_IF \in InterfaceNames)'
    BY <1>1 DEF TypeOK
<1>5. (deviceInfo \in Tables \cup {Null} /\ shown \in Tables \cup {Null})'
    BY <1>1 DEF TypeOK
<1>6. (DHCP \in {0, 2} /\ REPEATER_ENABLED \in Switches /\ REPEATER_SSID \in Names)'
    BY <1>2 DEF TypeOK
<1>7. (harm \in {"none", "past", "now"} /\ lost \in BOOLEAN)'
    BY <1>1 DEF TypeOK
<1> QED
    BY <1>3, <1>4, <1>5, <1>6, <1>7 DEF TypeOK

\* One step, action by action.
LEMMA StepHolds == IndInv /\ [Next]_vars => IndInv'
<1> SUFFICES ASSUME IndInv, [Next]_vars PROVE IndInv'
    OBVIOUS
<1> USE DEF IndInv, Goto, Finish, settings, surveyVars
<1>00. wait \in Int /\ radio \in Radio
    BY DEF TypeOK
<1>01. WLAN_IF \in InterfaceNames
    BY DEF TypeOK
<1>0. /\ wait \in Int /\ radio \in Radio
      /\ REPEATER_ENABLED \in [Radio -> {0, 1}]
      /\ REPEATER_SSID \in [Radio -> Networks \cup {""}]
    BY DEF TypeOK, Switches, Names
<1>1. CASE Search
  <2>1. TypeOK'
    <3>1. wait' \in Int
        BY <1>00, <1>1 DEF Search, Begin
    <3>2. radio' \in Radio
        BY <1>00, <1>1 DEF Search, Begin, Radio
    <3>3. WLAN_IF' \in InterfaceNames
        BY <1>1 DEF Search, Begin, TypeOK, Stages
    <3> QED
        BY <1>1, <3>1, <3>2, <3>3 DEF Search, Begin, TypeOK, Stages
  <2>2. Places'
      BY <1>1 DEF Search, Begin, Places
  <2>3. Interface'
      BY <1>1 DEF Search, Begin, Interface
  <2>4. StoredSoFar'
      BY <1>1 DEF Search, Begin, StoredSoFar
  <2>5. Radios'
      BY <1>1 DEF Search, Begin, Radios
  <2>6. NoTwoServers'
      BY <1>1 DEF Search, Begin, NoTwoServers
  <2>7. ShownIsUsed' /\ WholeOrUndone'
      BY <1>1 DEF Search, Begin, ShownIsUsed, WholeOrUndone
  <2> QED
      BY <2>1, <2>2, <2>3, <2>4, <2>5, <2>6, <2>7
<1>2. CASE Repeat
  <2>1. TypeOK'
      BY <1>2 DEF Repeat, Begin, TypeOK, Stages
  <2>2. Places'
      BY <1>2 DEF Repeat, Begin, Places
  <2>3. Interface'
      BY <1>2 DEF Repeat, Begin, Interface
  <2>4. StoredSoFar'
      BY <1>2 DEF Repeat, Begin, StoredSoFar
  <2>5. Radios'
      BY <1>2 DEF Repeat, Begin, Radios
  <2>6. NoTwoServers'
      BY <1>2 DEF Repeat, Begin, NoTwoServers
  <2>7. ShownIsUsed' /\ WholeOrUndone'
      BY <1>2 DEF Repeat, Begin, ShownIsUsed, WholeOrUndone
  <2> QED
      BY <2>1, <2>2, <2>3, <2>4, <2>5, <2>6, <2>7
<1>3. CASE StopRepeating
  <2>1. TypeOK'
      BY <1>3 DEF StopRepeating, Begin, TypeOK, Stages
  <2>2. Places'
      BY <1>3 DEF StopRepeating, Begin, Places
  <2>3. Interface'
      BY <1>3 DEF StopRepeating, Begin, Interface
  <2>4. StoredSoFar'
      BY <1>3 DEF StopRepeating, Begin, StoredSoFar
  <2>5. Radios'
      BY <1>3 DEF StopRepeating, Begin, Radios
  <2>6. NoTwoServers'
      BY <1>3 DEF StopRepeating, Begin, NoTwoServers
  <2>7. ShownIsUsed' /\ WholeOrUndone'
      BY <1>3 DEF StopRepeating, Begin, ShownIsUsed, WholeOrUndone
  <2> QED
      BY <2>1, <2>2, <2>3, <2>4, <2>5, <2>6, <2>7
<1>4. CASE Reset
  <2>1. TypeOK'
      BY <1>4 DEF Reset, NotStored, TypeOK, Stages, Switches, Names
  <2>2. Places'
      BY <1>4 DEF Reset, NotStored, Places
  <2>3. Interface'
      BY <1>4 DEF Reset, NotStored, Interface
  <2>4. StoredSoFar'
      BY <1>4 DEF Reset, NotStored, StoredSoFar
  <2>5. Radios'
      BY <1>4, Basics DEF Reset, NotStored, Radios, Radio
  <2>6. NoTwoServers'
      BY <1>4, Basics DEF Reset, NotStored, NoTwoServers, Radio
  <2>7. ShownIsUsed' /\ WholeOrUndone'
      BY <1>4 DEF Reset, NotStored, ShownIsUsed, WholeOrUndone
  <2> QED
      BY <2>1, <2>2, <2>3, <2>4, <2>5, <2>6, <2>7
<1>5. CASE Get
  <2>1. TypeOK'
    <3>1. wait' \in Int
        BY <1>00, <1>5 DEF Get
    <3>2. radio' \in Radio
        BY <1>00, <1>5 DEF Get, NextRadio, Radio
    <3>3. WLAN_IF' \in InterfaceNames
      <4>1. WLAN_IF' \in {WLAN_IF, If(radio)}
          BY <1>5 DEF Get
      <4> QED
          BY <1>00, <1>01, <4>1, Basics
    <3>4. srvPc' \in Stages /\ cmd' \in {"none", "search", "repeat", "leave"}
        BY <1>5 DEF Get, NextRadio, TypeOK, Stages
    <3>5. UNCHANGED <<network, deviceInfo, shown, DHCP, REPEATER_ENABLED, REPEATER_SSID, harm, lost>>
        BY <1>5 DEF Get
    <3> QED
        BY <3>1, <3>2, <3>3, <3>4, <3>5 DEF TypeOK
  <2>2. Places'
      BY <1>5 DEF Get, NextRadio, Places
  <2>3. Interface'
      BY <1>0, <1>5, Basics DEF Get, NextRadio, Interface
  <2>4. StoredSoFar'
      BY <1>5 DEF Get, NextRadio, StoredSoFar
  <2>5. Radios'
      BY <1>5 DEF Get, NextRadio, Radios
  <2>6. NoTwoServers'
      BY <1>5 DEF Get, NextRadio, NoTwoServers
  <2>7. ShownIsUsed' /\ WholeOrUndone'
      BY <1>5 DEF Get, NextRadio, ShownIsUsed, WholeOrUndone
  <2> QED
      BY <2>1, <2>2, <2>3, <2>4, <2>5, <2>6, <2>7
<1>6. CASE Request
  <2>1. TypeOK'
    <3>1. wait' \in Int
        BY <1>00, <1>6 DEF Request
    <3>2. radio' \in Radio
        BY <1>00, <1>6 DEF Request
    <3>3. WLAN_IF' \in InterfaceNames
        BY <1>6 DEF Request, TypeOK
    <3>4. srvPc' \in Stages /\ cmd' \in {"none", "search", "repeat", "leave"}
        BY <1>6 DEF Request, TypeOK, Stages
    <3>5. UNCHANGED <<network, deviceInfo, shown, DHCP, REPEATER_ENABLED, REPEATER_SSID, harm, lost>>
        BY <1>6 DEF Request
    <3> QED
        BY <3>1, <3>2, <3>3, <3>4, <3>5 DEF TypeOK
  <2>2. Places'
      BY <1>6 DEF Request, Places
  <2>3. Interface'
      BY <1>6 DEF Request, Interface
  <2>4. StoredSoFar'
      BY <1>6 DEF Request, StoredSoFar
  <2>5. Radios'
      BY <1>6 DEF Request, Radios
  <2>6. NoTwoServers'
      BY <1>6 DEF Request, NoTwoServers
  <2>7. ShownIsUsed' /\ WholeOrUndone'
      BY <1>6 DEF Request, ShownIsUsed, WholeOrUndone
  <2> QED
      BY <2>1, <2>2, <2>3, <2>4, <2>5, <2>6, <2>7
<1>7. CASE GetAgain
  <2>1. TypeOK'
    <3>1. wait' \in Int
        BY <1>00, <1>7 DEF GetAgain
    <3>2. radio' \in Radio
        BY <1>00, <1>7 DEF GetAgain, NextRadio, Radio
    <3>3. WLAN_IF' \in InterfaceNames
      <4>1. WLAN_IF' \in {WLAN_IF, If(radio)}
          BY <1>7 DEF GetAgain
      <4> QED
          BY <1>00, <1>01, <4>1, Basics
    <3>4. srvPc' \in Stages /\ cmd' \in {"none", "search", "repeat", "leave"}
        BY <1>7 DEF GetAgain, NextRadio, TypeOK, Stages
    <3>5. UNCHANGED <<network, deviceInfo, shown, DHCP, REPEATER_ENABLED, REPEATER_SSID, harm, lost>>
        BY <1>7 DEF GetAgain
    <3> QED
        BY <3>1, <3>2, <3>3, <3>4, <3>5 DEF TypeOK
  <2>2. Places'
      BY <1>7 DEF GetAgain, NextRadio, Places
  <2>3. Interface'
      BY <1>0, <1>7, Basics DEF GetAgain, NextRadio, Interface
  <2>4. StoredSoFar'
      BY <1>7 DEF GetAgain, NextRadio, StoredSoFar
  <2>5. Radios'
      BY <1>7 DEF GetAgain, NextRadio, Radios
  <2>6. NoTwoServers'
      BY <1>7 DEF GetAgain, NextRadio, NoTwoServers
  <2>7. ShownIsUsed' /\ WholeOrUndone'
      BY <1>7 DEF GetAgain, NextRadio, ShownIsUsed, WholeOrUndone
  <2> QED
      BY <2>1, <2>2, <2>3, <2>4, <2>5, <2>6, <2>7
<1>8. CASE Load
  <2>1. TypeOK'
    <3>1. deviceInfo' \in Tables \cup {Null} /\ srvPc' \in {"send", "dead"}
        BY <1>8 DEF Load, TypeOK, Stages
    <3>2. UNCHANGED <<cmd, network, radio, wait, WLAN_IF, shown, settings, harm, lost>>
        BY <1>8 DEF Load
    <3> QED
        BY <3>1, <3>2 DEF TypeOK, Stages
  <2>2. Places'
      BY <1>8 DEF Load, Places
  <2>3. Interface'
      BY <1>8 DEF Load, Interface
  <2>4. StoredSoFar'
      BY <1>8 DEF Load, StoredSoFar
  <2>5. Radios'
      BY <1>8 DEF Load, Radios
  <2>6. NoTwoServers'
      BY <1>8 DEF Load, NoTwoServers
  <2>7. ShownIsUsed' /\ WholeOrUndone'
      BY <1>8 DEF Load, ShownIsUsed, WholeOrUndone
  <2> QED
      BY <2>1, <2>2, <2>3, <2>4, <2>5, <2>6, <2>7
<1>9. CASE Send
  <2>1. TypeOK'
      BY <1>9 DEF Send, TypeOK, Stages
  <2>2. Places'
      BY <1>9 DEF Send, Places
  <2>3. Interface'
      BY <1>9 DEF Send, Interface
  <2>4. StoredSoFar'
      BY <1>9 DEF Send, StoredSoFar
  <2>5. Radios'
      BY <1>9 DEF Send, Radios
  <2>6. NoTwoServers'
      BY <1>9 DEF Send, NoTwoServers
  <2>7. ShownIsUsed' /\ WholeOrUndone'
      BY <1>9 DEF Send, ShownIsUsed, WholeOrUndone
  <2> QED
      BY <2>1, <2>2, <2>3, <2>4, <2>5, <2>6, <2>7
<1>10. CASE StopDhcp
  <2>1. TypeOK'
      BY <1>10 DEF StopDhcp, StoreDhcp, Store, Stored, NotStored, TypeOK, Stages
  <2>2. Places'
      BY <1>10 DEF StopDhcp, StoreDhcp, Store, NotStored, Places
  <2>3. Interface'
      BY <1>10 DEF StopDhcp, StoreDhcp, Store, NotStored, Interface
  <2>4. StoredSoFar'
      BY <1>10 DEF StopDhcp, StoreDhcp, Store, NotStored, StoredSoFar
  <2>5. Radios'
      BY <1>10 DEF StopDhcp, StoreDhcp, Store, Stored, NotStored, Radios
  <2>6. NoTwoServers'
    <3>1. DHCP' = 0 \/ harm' = "now"
        BY <1>10 DEF StopDhcp, StoreDhcp, NotStored
    <3> QED
        BY <3>1 DEF NoTwoServers
  <2>7. ShownIsUsed' /\ WholeOrUndone'
      BY <1>10 DEF StopDhcp, StoreDhcp, Store, NotStored, ShownIsUsed, WholeOrUndone
  <2> QED
      BY <2>1, <2>2, <2>3, <2>4, <2>5, <2>6, <2>7
<1>11. CASE Match
  <2>1. TypeOK'
    <3>1. wait' \in Int
        BY <1>00, <1>11 DEF Match
    <3>2. radio' \in Radio
        BY <1>00, <1>11 DEF Match
    <3>3. WLAN_IF' \in InterfaceNames
      <4>1. WLAN_IF' = WLAN_IF \/ \E r \in Radio : WLAN_IF' = If(r)
          BY <1>11 DEF Match
      <4> QED
          BY <1>01, <4>1, Basics
    <3>4. srvPc' \in Stages /\ cmd' \in {"none", "search", "repeat", "leave"}
        BY <1>11 DEF Match, TypeOK, Stages
    <3>5. UNCHANGED <<network, deviceInfo, shown, DHCP, REPEATER_ENABLED, REPEATER_SSID, harm, lost>>
        BY <1>11 DEF Match
    <3> QED
        BY <3>1, <3>2, <3>3, <3>4, <3>5 DEF TypeOK
  <2>2. Places'
      BY <1>11 DEF Match, Places, Heard
  <2>3. Interface'
      BY <1>11, Basics DEF Match, Interface, Heard
  <2>4. StoredSoFar'
      BY <1>11 DEF Match, StoredSoFar, Heard
  <2>5. Radios'
      BY <1>11 DEF Match, Radios
  <2>6. NoTwoServers'
      BY <1>11 DEF Match, NoTwoServers
  <2>7. ShownIsUsed' /\ WholeOrUndone'
      BY <1>11 DEF Match, ShownIsUsed, WholeOrUndone
  <2> QED
      BY <2>1, <2>2, <2>3, <2>4, <2>5, <2>6, <2>7
<1>12. CASE DisableOther
  <2>0. \/ harm' = "now" /\ lost' = TRUE /\ UNCHANGED settings
        \/ /\ harm' = harm /\ lost' = lost /\ UNCHANGED <<DHCP, REPEATER_SSID>>
           /\ \A q \in Radio : REPEATER_ENABLED'[q] = IF q = Other(radio) THEN 0 ELSE REPEATER_ENABLED[q]
      BY <1>0, <1>12 DEF DisableOther, StoreEnabled, Stored, NotStored
  <2>1. TypeOK'
      BY <1>12 DEF DisableOther, StoreEnabled, Store, Stored, NotStored, TypeOK, Stages, Switches
  <2>2. Places'
      BY <1>12 DEF DisableOther, StoreEnabled, Store, NotStored, Places, Heard
  <2>3. Interface'
      BY <1>12 DEF DisableOther, StoreEnabled, Store, NotStored, Interface
  <2>4. StoredSoFar'
      BY <1>12, <2>0
         DEF DisableOther, StoreEnabled, Store, NotStored, Places, StoredSoFar, Heard, Radio, Other
  <2>5. Radios'
      BY <1>12, <2>0 DEF DisableOther, StoreEnabled, Store, NotStored, Radios, Radio
  <2>6. NoTwoServers'
      BY <1>12 DEF DisableOther, StoreEnabled, Store, Stored, NotStored, NoTwoServers, StoredSoFar
  <2>7. ShownIsUsed' /\ WholeOrUndone'
      BY <1>12 DEF DisableOther, StoreEnabled, Store, NotStored, ShownIsUsed, WholeOrUndone
  <2> QED
      BY <2>1, <2>2, <2>3, <2>4, <2>5, <2>6, <2>7
<1>13. CASE Enable
  <2>0. \/ harm' = "now" /\ lost' = TRUE /\ UNCHANGED settings
        \/ /\ harm' = harm /\ lost' = lost /\ UNCHANGED <<DHCP, REPEATER_SSID>>
           /\ \A q \in Radio : REPEATER_ENABLED'[q] = IF q = radio THEN 1 ELSE REPEATER_ENABLED[q]
      BY <1>0, <1>13 DEF Enable, StoreEnabled, Stored, NotStored
  <2>1. TypeOK'
      BY <1>13 DEF Enable, StoreEnabled, Store, Stored, NotStored, TypeOK, Stages, Switches
  <2>2. Places'
      BY <1>13 DEF Enable, StoreEnabled, Store, NotStored, Places, Heard
  <2>3. Interface'
      BY <1>13 DEF Enable, StoreEnabled, Store, NotStored, Interface
  <2>4. StoredSoFar'
      BY <1>13, <2>0 DEF Enable, StoreEnabled, Store, NotStored, Places, StoredSoFar, Heard, Radio, Other
  <2>5. Radios'
      BY <1>13, <2>0, Basics DEF Enable, StoreEnabled, Store, NotStored, Radios, StoredSoFar
  <2>6. NoTwoServers'
    <3>1. harm' # "none" \/ (harm = "none" /\ DHCP' = DHCP)
        BY <2>0
    <3>2. harm = "none" => DHCP = 0
        BY <1>13 DEF Enable, StoreEnabled, Store, StoredSoFar
    <3> QED
        BY <3>1, <3>2 DEF NoTwoServers
  <2>7. ShownIsUsed' /\ WholeOrUndone'
      BY <1>13 DEF Enable, StoreEnabled, Store, NotStored, ShownIsUsed, WholeOrUndone
  <2> QED
      BY <2>1, <2>2, <2>3, <2>4, <2>5, <2>6, <2>7
<1>14. CASE StoreName
  <2>0. \/ harm' = "now" /\ lost' = TRUE /\ UNCHANGED settings
        \/ /\ (harm' = IF harm = "past" THEN "none" ELSE harm) /\ lost' = lost /\ UNCHANGED <<DHCP, REPEATER_ENABLED>>
           /\ \A q \in Radio : REPEATER_SSID'[q] = IF q = radio THEN network ELSE REPEATER_SSID[q]
      BY <1>0, <1>14 DEF StoreName, Whole, NotStored
  <2>1. TypeOK'
    <3>1. wait' \in Int
        BY <1>00, <1>14 DEF StoreName, Store, Whole, NotStored
    <3>2. radio' \in Radio
        BY <1>00, <1>14 DEF StoreName, Store, Whole, NotStored
    <3>3. WLAN_IF' \in InterfaceNames
        BY <1>14 DEF StoreName, Store, Whole, NotStored, TypeOK, Stages
    <3> QED
        BY <1>14, <3>1, <3>2, <3>3 DEF StoreName, Store, Whole, NotStored, TypeOK, Stages, Names
  <2>2. Places'
      BY <1>14 DEF StoreName, Store, Whole, NotStored, Places
  <2>3. Interface'
    <3>1. \A r \in Radio : Heard(r) => WLAN_IF.radio = r
        BY <1>00, <1>14, OneHears, Basics DEF StoreName, Store, Places
    <3>2. UNCHANGED <<WLAN_IF, deviceInfo, network>> /\ srvPc' = "up"
        BY <1>14 DEF StoreName, Store
    <3>3. deviceInfo # Null => WLAN_IF.radio # -1
        BY DEF Interface
    <3> QED
        BY <1>14, <3>1, <3>2, <3>3 DEF Interface, Heard
  <2>4. StoredSoFar'
      BY <1>14, <2>0 DEF StoreName, Store, Whole, NotStored, Places, StoredSoFar, Heard, Repeats
  <2>5. Radios'
    <3>2. UNCHANGED REPEATER_ENABLED /\ (lost' = lost \/ lost' = TRUE)
        BY <2>0
    <3>3. ~lost' => harm' # "now"
        BY <2>0 DEF Radios
    <3>4. harm' = "none" \/ ~lost' => \E r \in Radio : REPEATER_ENABLED'[r] = 0
      <4>1. harm' = "none" \/ ~lost' => harm # "now"
          BY <2>0 DEF Radios
      <4>2. harm # "now" => REPEATER_ENABLED[Other(radio)] = 0 /\ Other(radio) \in Radio
          BY <1>0, <1>14, Basics DEF StoreName, Store, StoredSoFar
      <4> QED
          BY <3>2, <4>1, <4>2
    <3> QED
        BY <3>3, <3>4 DEF Radios
  <2>6. NoTwoServers'
    <3>1. harm' # "none" \/ (harm # "now" /\ DHCP' = DHCP)
        BY <2>0
    <3>2. harm # "now" => DHCP = 0
        BY <1>14 DEF StoreName, Store, StoredSoFar
    <3> QED
        BY <3>1, <3>2 DEF NoTwoServers
  <2>7. ShownIsUsed' /\ WholeOrUndone'
      BY <1>14 DEF StoreName, Store, Whole, NotStored, ShownIsUsed, WholeOrUndone
  <2> QED
      BY <2>1, <2>2, <2>3, <2>4, <2>5, <2>6, <2>7
<1>15. CASE BringUp
  <2>1. TypeOK'
      BY <1>15, Basics DEF BringUp, TypeOK, Stages
  <2>2. Places'
      BY <1>15 DEF BringUp, Places
  <2>3. Interface'
      BY <1>15 DEF BringUp, Interface, Heard
  <2>4. StoredSoFar'
      BY <1>15 DEF BringUp, StoredSoFar, Heard, Repeats
  <2>5. Radios'
      BY <1>15 DEF BringUp, Radios
  <2>6. NoTwoServers'
      BY <1>15 DEF BringUp, NoTwoServers
  <2>7. ShownIsUsed' /\ WholeOrUndone'
      BY <1>15 DEF BringUp, ShownIsUsed, WholeOrUndone
  <2> QED
      BY <2>1, <2>2, <2>3, <2>4, <2>5, <2>6, <2>7
<1>16. CASE WaitForJoin
  <2>1. TypeOK'
    <3>1. wait' \in Int
        BY <1>00, <1>16 DEF WaitForJoin
    <3>2. radio' \in Radio
        BY <1>00, <1>16 DEF WaitForJoin
    <3>3. WLAN_IF' \in InterfaceNames
        BY <1>16 DEF WaitForJoin, TypeOK, InterfaceNames
    <3>4. srvPc' \in Stages /\ cmd' \in {"none", "search", "repeat", "leave"}
        BY <1>16 DEF WaitForJoin, TypeOK, Stages
    <3>5. UNCHANGED <<network, deviceInfo, shown, DHCP, REPEATER_ENABLED, REPEATER_SSID, harm, lost>>
        BY <1>16 DEF WaitForJoin
    <3> QED
        BY <3>1, <3>2, <3>3, <3>4, <3>5 DEF TypeOK
  <2>2. Places'
      BY <1>16 DEF WaitForJoin, Places
  <2>3. Interface'
    <3>1. WLAN_IF'.radio = WLAN_IF.radio
        BY <1>16 DEF WaitForJoin, TypeOK, InterfaceNames
    <3>2. UNCHANGED <<deviceInfo, network>> /\ srvPc' \in {"assoc", "join", "idle"}
        BY <1>16 DEF WaitForJoin
    <3>3. deviceInfo # Null /\ srvPc = "join"
        BY <1>16 DEF WaitForJoin, Places
    <3> QED
        BY <3>1, <3>2, <3>3 DEF Interface, Heard
  <2>4. StoredSoFar'
      BY <1>16 DEF WaitForJoin, StoredSoFar, Heard, Repeats
  <2>5. Radios'
      BY <1>16 DEF WaitForJoin, Radios
  <2>6. NoTwoServers'
      BY <1>16 DEF WaitForJoin, NoTwoServers
  <2>7. ShownIsUsed' /\ WholeOrUndone'
      BY <1>16 DEF WaitForJoin, ShownIsUsed, WholeOrUndone
  <2> QED
      BY <2>1, <2>2, <2>3, <2>4, <2>5, <2>6, <2>7
<1>17. CASE WaitForBss
  <2>1. TypeOK'
    <3>1. wait' \in Int
        BY <1>00, <1>17 DEF WaitForBss
    <3>2. radio' \in Radio
        BY <1>00, <1>17 DEF WaitForBss
    <3>3. WLAN_IF' \in InterfaceNames
        BY <1>17 DEF WaitForBss, TypeOK, InterfaceNames
    <3>4. srvPc' \in Stages /\ cmd' \in {"none", "search", "repeat", "leave"}
        BY <1>17 DEF WaitForBss, TypeOK, Stages
    <3>5. UNCHANGED <<network, deviceInfo, shown, DHCP, REPEATER_ENABLED, REPEATER_SSID, harm, lost>>
        BY <1>17 DEF WaitForBss
    <3> QED
        BY <3>1, <3>2, <3>3, <3>4, <3>5 DEF TypeOK
  <2>2. Places'
      BY <1>17 DEF WaitForBss, Places
  <2>3. Interface'
      BY <1>17 DEF WaitForBss, Interface, Heard
  <2>4. StoredSoFar'
      BY <1>17 DEF WaitForBss, StoredSoFar, Heard, Repeats
  <2>5. Radios'
      BY <1>17 DEF WaitForBss, Radios
  <2>6. NoTwoServers'
      BY <1>17 DEF WaitForBss, NoTwoServers
  <2>7. ShownIsUsed' /\ WholeOrUndone'
    <3>1. ShownIsUsed'
        BY <1>17 DEF WaitForBss, ShownIsUsed
    <3>2. ASSUME srvPc' = "free", harm' # "now", Offered'
          PROVE  (\E r \in Radio : network \in deviceInfo[r] /\ Repeats(r)) \/ Overlooked
      <4>1. srvPc = "assoc" /\ harm # "now" /\ Offered
          BY <1>17, <3>2 DEF WaitForBss, Offered
      <4>2. DHCP = 0 /\ deviceInfo # Null
          BY <4>1 DEF StoredSoFar, Places
      <4>3. \A r \in Radio : Heard(r) => network \in deviceInfo[r] /\ Repeats(r)
          BY <4>1 DEF StoredSoFar, Heard
      <4>4. Heard(0) \/ Heard(1) \/ deviceInfo[0] = {}
          BY <4>1, <4>2 DEF Offered, Heard
      <4> QED
          BY <4>2, <4>3, <4>4 DEF Overlooked, Radio
    <3> QED
        BY <1>17, <3>1, <3>2 DEF WaitForBss, WholeOrUndone, Repeats, Overlooked
  <2> QED
      BY <2>1, <2>2, <2>3, <2>4, <2>5, <2>6, <2>7
<1>18. CASE Free
  <2>1. TypeOK'
      BY <1>18 DEF Free, TypeOK, Stages
  <2>2. Places'
      BY <1>18 DEF Free, Places
  <2>3. Interface'
      BY <1>18 DEF Free, Interface
  <2>4. StoredSoFar'
      BY <1>18 DEF Free, StoredSoFar
  <2>5. Radios'
      BY <1>18 DEF Free, Radios
  <2>6. NoTwoServers'
      BY <1>18 DEF Free, NoTwoServers
  <2>7. ShownIsUsed' /\ WholeOrUndone'
      BY <1>18 DEF Free, ShownIsUsed, WholeOrUndone
  <2> QED
      BY <2>1, <2>2, <2>3, <2>4, <2>5, <2>6, <2>7
<1>19. CASE StartDhcp
  <2>1. TypeOK'
      BY <1>19 DEF StartDhcp, StoreDhcp, Store, Stored, NotStored, TypeOK, Stages
  <2>2. Places'
      BY <1>19 DEF StartDhcp, StoreDhcp, Store, NotStored, Places
  <2>3. Interface'
      BY <1>19 DEF StartDhcp, StoreDhcp, Store, NotStored, Interface
  <2>4. StoredSoFar'
      BY <1>19 DEF StartDhcp, StoreDhcp, Store, NotStored, StoredSoFar
  <2>5. Radios'
      BY <1>19 DEF StartDhcp, StoreDhcp, Store, Stored, NotStored, Radios
  <2>6. NoTwoServers'
      BY <1>19 DEF StartDhcp, StoreDhcp, Store, NotStored, NoTwoServers
  <2>7. ShownIsUsed' /\ WholeOrUndone'
      BY <1>19 DEF StartDhcp, StoreDhcp, Store, NotStored, ShownIsUsed, WholeOrUndone
  <2> QED
      BY <2>1, <2>2, <2>3, <2>4, <2>5, <2>6, <2>7
<1>20. CASE Disable0
  <2>0. \/ harm' = "now" /\ lost' = TRUE /\ UNCHANGED settings
        \/ /\ harm' = harm /\ lost' = lost /\ UNCHANGED <<DHCP, REPEATER_SSID>>
           /\ \A q \in Radio : REPEATER_ENABLED'[q] = IF q = 0 THEN 0 ELSE REPEATER_ENABLED[q]
      BY <1>0, <1>20 DEF Disable0, StoreEnabled, Stored, NotStored
  <2>1. TypeOK'
      BY <1>20 DEF Disable0, StoreEnabled, Store, Stored, NotStored, TypeOK, Stages, Switches
  <2>2. Places'
      BY <1>20 DEF Disable0, StoreEnabled, Store, NotStored, Places
  <2>3. Interface'
      BY <1>20 DEF Disable0, StoreEnabled, Store, NotStored, Interface
  <2>4. StoredSoFar'
      BY <1>20, <2>0 DEF Disable0, StoreEnabled, Store, NotStored, StoredSoFar, Radio
  <2>5. Radios'
      BY <1>20, <2>0 DEF Disable0, StoreEnabled, Store, NotStored, Radios, Radio
  <2>6. NoTwoServers'
      BY <1>20 DEF Disable0, StoreEnabled, Store, NotStored, NoTwoServers
  <2>7. ShownIsUsed' /\ WholeOrUndone'
      BY <1>20 DEF Disable0, StoreEnabled, Store, NotStored, ShownIsUsed, WholeOrUndone
  <2> QED
      BY <2>1, <2>2, <2>3, <2>4, <2>5, <2>6, <2>7
<1>21. CASE Disable1
  <2>0. \/ harm' = "now" /\ lost' = TRUE /\ UNCHANGED settings
        \/ /\ (harm' = IF harm = "past" THEN "none" ELSE harm) /\ lost' = lost /\ UNCHANGED <<DHCP, REPEATER_SSID>>
           /\ \A q \in Radio : REPEATER_ENABLED'[q] = IF q = 1 THEN 0 ELSE REPEATER_ENABLED[q]
      BY <1>0, <1>21 DEF Disable1, Whole, NotStored
  <2>1. TypeOK'
      BY <1>21 DEF Disable1, Whole, NotStored, TypeOK, Stages, Switches
  <2>2. Places'
      BY <1>21 DEF Disable1, Whole, NotStored, Places
  <2>3. Interface'
      BY <1>21 DEF Disable1, Whole, NotStored, Interface
  <2>4. StoredSoFar'
      BY <1>21 DEF Disable1, Whole, NotStored, StoredSoFar
  <2>5. Radios'
      BY <1>21, <2>0, Basics DEF Disable1, Whole, NotStored, Radios, StoredSoFar, Radio
  <2>6. NoTwoServers'
      BY <1>21, <2>0 DEF Disable1, Whole, NotStored, NoTwoServers, StoredSoFar, Radio
  <2>7. ShownIsUsed' /\ WholeOrUndone'
    <3>1. ShownIsUsed'
        BY <1>21 DEF Disable1, ShownIsUsed
    <3>2. harm' # "now" => Undone'
      <4>1. harm # "now" => DHCP = 2 /\ REPEATER_ENABLED[0] = 0
          BY <1>21 DEF Disable1, StoredSoFar
      <4>2. harm' # "now" => /\ harm # "now" /\ DHCP' = DHCP
                             /\ \A q \in Radio : REPEATER_ENABLED'[q]
                                    = IF q = 1 THEN 0 ELSE REPEATER_ENABLED[q]
          BY <2>0
      <4> QED
          BY <4>1, <4>2 DEF Undone, Radio
    <3> QED
        BY <3>1, <3>2 DEF WholeOrUndone
  <2> QED
      BY <2>1, <2>2, <2>3, <2>4, <2>5, <2>6, <2>7
<1>22. CASE Restart
  <2>1. TypeOK'
    <3>1. wait' \in Int
        BY <1>22, Basics DEF Restart
    <3>2. radio' \in Radio
        BY <1>00, <1>22 DEF Restart, NoIf, Radio
    <3>3. WLAN_IF' \in InterfaceNames
        BY <1>22 DEF Restart, NoIf, InterfaceNames, TypeOK, Stages
    <3> QED
        BY <1>22, <3>1, <3>2, <3>3 DEF Restart, NoIf, TypeOK, Stages
  <2>2. Places'
      BY <1>22 DEF Restart, NoIf, Places
  <2>3. Interface'
      BY <1>22 DEF Restart, NoIf, Interface
  <2>4. StoredSoFar'
      BY <1>22 DEF Restart, NoIf, StoredSoFar
  <2>5. Radios'
      BY <1>22 DEF Restart, NoIf, Radios
  <2>6. NoTwoServers'
      BY <1>22 DEF Restart, NoIf, NoTwoServers
  <2>7. ShownIsUsed' /\ WholeOrUndone'
      BY <1>22 DEF Restart, NoIf, ShownIsUsed, WholeOrUndone
  <2> QED
      BY <2>1, <2>2, <2>3, <2>4, <2>5, <2>6, <2>7
<1>23. CASE UNCHANGED vars
  <2>1. TypeOK'
      BY <1>23, TypeStutters
  <2>2. Places'
      BY <1>23 DEF vars, Places, Heard
  <2>3. Interface'
      BY <1>23 DEF vars, Interface, Heard
  <2>4. StoredSoFar'
      BY <1>23 DEF vars, StoredSoFar, Heard, Repeats
  <2>5. Radios'
      BY <1>23 DEF vars, Radios
  <2>6. NoTwoServers'
      BY <1>23 DEF vars, NoTwoServers
  <2>7. ShownIsUsed' /\ WholeOrUndone'
      BY <1>23 DEF vars, ShownIsUsed, WholeOrUndone, Offered, Overlooked, Repeats, Undone
  <2> QED
      BY <2>1, <2>2, <2>3, <2>4, <2>5, <2>6, <2>7
<1> QED
    BY <1>1, <1>2, <1>3, <1>4, <1>5, <1>6, <1>7, <1>8, <1>9, <1>10, <1>11,
       <1>12, <1>13, <1>14, <1>15, <1>16, <1>17, <1>18, <1>19, <1>20, <1>21, <1>22, <1>23
       DEF Next, Ask, Handler

\* IndInv holds in every reachable state of the commands that join another
\* network and leave it (router_dev.c:1098-1426).
THEOREM Invariance == Spec => []IndInv
BY InitHolds, StepHolds, PTL DEF Spec

\* No restart, failed store or order of commands leaves a radio repeating next
\* to the DHCP server unless a store failed or a sequence was cut short
\* (router_dev.c:1170, 1355, 1397).
THEOREM NeverTwoServers == Spec => []NoTwoServers
<1>1. IndInv => NoTwoServers
    BY DEF IndInv
<1> QED
    BY <1>1, Invariance, PTL

\* The table that a set_router_repeater works with is the one the client was
\* last shown (router_dev.c:1098, 1176).
THEOREM AlwaysShownIsUsed == Spec => []ShownIsUsed
<1>1. IndInv => ShownIsUsed
    BY DEF IndInv
<1> QED
    BY <1>1, Invariance, PTL

\* A set_router_repeater for any network of the survey whose own stores succeed
\* has stored all it was asked for, or taken all of it back, when it answers, or
\* has overlooked the network (router_dev.c:1237, 1335, 1382).
THEOREM AlwaysWholeOrUndone == Spec => []WholeOrUndone
<1>1. IndInv => WholeOrUndone
    BY DEF IndInv
<1> QED
    BY <1>1, Invariance, PTL

\* Only a set_router_repeater whose client was shown no survey reads through
\* NULL (router_dev.c:1177).
THEOREM OnlyWithoutSurvey == Spec => ConfiguringNeedsSurvey
<1>1. ASSUME IndInv, [Next]_vars
      PROVE  [srvPc = "match" /\ srvPc' = "dead" => shown = Null]_vars
  <2> SUFFICES ASSUME srvPc = "match", srvPc' = "dead" PROVE shown = Null
      OBVIOUS
  <2>1. ShownIsUsed
      BY <1>1 DEF IndInv
  <2>2. Match
      BY <1>1 DEF Next, Ask, Search, Repeat, StopRepeating, Begin, Reset, Handler, Get, Request,
                  GetAgain, NextRadio, Load, Send, StopDhcp, DisableOther, Enable, StoreDhcp,
                  StoreEnabled, Store, StoreName, BringUp, WaitForJoin, WaitForBss, Free,
                  StartDhcp, Disable0, Disable1, Restart, Goto, Finish, vars
  <2>3. deviceInfo = Null
      BY <2>2 DEF Match, Goto
  <2> QED
      BY <2>1, <2>3 DEF ShownIsUsed
<1> QED
    BY <1>1, Invariance, PTL DEF Spec, ConfiguringNeedsSurvey
-----------------------------------------------------------------------------
\* Turning one radio off, when at most one is on, is Leave or nothing.
LEMMA OffLeaves ==
    ASSUME NEW r \in Radio,
           REPEATER_ENABLED \in [Radio -> {0, 1}],
           \E q \in Radio : REPEATER_ENABLED[q] = 0,
           REPEATER_ENABLED' = [REPEATER_ENABLED EXCEPT ![r] = 0],
           lost = FALSE, lost' = FALSE
    PROVE  repeating' = {} \/ repeating' = repeating
<1>1. \A q \in Radio : REPEATER_ENABLED'[q] = IF q = r THEN 0 ELSE REPEATER_ENABLED[q]
    OBVIOUS
<1>2. CASE REPEATER_ENABLED[r] = 0
  <2>1. \A q \in Radio : REPEATER_ENABLED'[q] = REPEATER_ENABLED[q]
      BY <1>1, <1>2
  <2> QED
      BY <2>1 DEF repeating
<1>3. CASE REPEATER_ENABLED[r] # 0
  <2>1. \A q \in Radio : q = r \/ REPEATER_ENABLED[q] = 0
      BY <1>3 DEF Radio
  <2>2. \A q \in Radio : REPEATER_ENABLED'[q] = 0
      BY <1>1, <2>1
  <2> QED
      BY <2>2 DEF repeating
<1> QED
    BY <1>2, <1>3

\* What is lost stays lost.
LEMMA LostStays == [Next]_vars => UNCHANGED lost \/ lost' = TRUE
BY DEF Next, Ask, Search, Repeat, StopRepeating, Begin, Reset, Handler, Get, Request, GetAgain,
       NextRadio, Load, Send, StopDhcp, Match, DisableOther, Enable, StoreDhcp, StoreEnabled, Store,
       StoreName, BringUp, WaitForJoin, WaitForBss, Free, StartDhcp, Disable0, Disable1, Restart,
       Stored, NotStored, Whole, vars

\* Each step is one of RepeaterMode or changes nothing there.
LEMMA StepKeepsPromise ==
    ASSUME IndInv, [Next]_vars
    PROVE  [Promise!Next]_<<repeating, lost \/ DHCP = 2>>
<1> USE DEF Promise!Next
<1>0. CASE lost'
  <2>1. Promise!Default
      BY <1>0 DEF Promise!Default, repeating
  <2> QED
      BY <2>1
<1> SUFFICES ASSUME ~lost'
             PROVE  [Promise!Next]_<<repeating, lost \/ DHCP = 2>>
    BY <1>0
<1>l. lost = FALSE /\ lost' = FALSE
    BY LostStays DEF IndInv, TypeOK, Switches, Names
<1>1. REPEATER_ENABLED \in [Radio -> {0, 1}] /\ radio \in Radio /\ Other(radio) \in Radio
    BY Basics DEF IndInv, TypeOK, Switches, Names
<1>2. harm # "now" /\ \E q \in Radio : REPEATER_ENABLED[q] = 0
    BY <1>l DEF IndInv, Radios
<1>3. CASE UNCHANGED settings
    BY <1>l, <1>3 DEF settings, repeating
<1>4. CASE UNCHANGED REPEATER_ENABLED /\ DHCP' = 0
  <2>1. Promise!Hush
      BY <1>l, <1>4 DEF Promise!Hush, repeating
  <2> QED
      BY <2>1
<1>5. CASE UNCHANGED REPEATER_ENABLED /\ DHCP' = 2
  <2>1. Promise!Serve
      BY <1>l, <1>5 DEF Promise!Serve, repeating
  <2> QED
      BY <2>1
<1>6. ASSUME NEW r \in Radio, REPEATER_ENABLED' = [REPEATER_ENABLED EXCEPT ![r] = 0], UNCHANGED DHCP
      PROVE  [Promise!Next]_<<repeating, lost \/ DHCP = 2>>
  <2>1. repeating' = {} \/ repeating' = repeating
      BY <1>l, <1>1, <1>2, <1>6, OffLeaves
  <2> QED
      BY <1>l, <1>6, <2>1 DEF Promise!Leave
<1>7. CASE Reset
  <2>1. CASE REPEATER_ENABLED' = [q \in Radio |-> 0] /\ DHCP' = 2
    <3>1. repeating' = {}
        BY <1>l, <2>1 DEF repeating
    <3> QED
        BY <1>l, <2>1, <3>1 DEF Promise!Default
  <2> QED
      BY <1>l, <1>7, <2>1 DEF Reset, NotStored
<1>8. CASE Enable
  <2>1. DHCP = 0 /\ REPEATER_ENABLED[Other(radio)] = 0
      BY <1>l, <1>2, <1>8 DEF IndInv, StoredSoFar, Enable, StoreEnabled, Store, Goto
  <2>2. /\ UNCHANGED DHCP
        /\ REPEATER_ENABLED' = [REPEATER_ENABLED EXCEPT ![radio] = 1]
      BY <1>l, <1>8 DEF Enable, StoreEnabled, NotStored
  <2>3. \A q \in Radio : q = radio \/ (REPEATER_ENABLED[q] = 0 /\ REPEATER_ENABLED'[q] = 0)
    <3>1. \A q \in Radio : q = radio \/ q = Other(radio)
        BY <1>l, <1>1 DEF Radio, Other
    <3>2. \A q \in Radio : q # radio => REPEATER_ENABLED'[q] = REPEATER_ENABLED[q]
        BY <1>l, <1>1, <2>2
    <3> QED
        BY <2>1, <3>1, <3>2
  <2>4. repeating' = {radio}
      BY <1>l, <1>1, <2>2, <2>3 DEF repeating
  <2>5. repeating = {} \/ repeating = {radio}
      BY <1>l, <1>1, <2>3 DEF repeating
  <2> QED
      BY <1>l, <1>1, <2>1, <2>2, <2>4, <2>5 DEF Promise!Join
<1>9. CASE DisableOther
    BY <1>l, <1>1, <1>3, <1>6, <1>9 DEF DisableOther, StoreEnabled, NotStored
<1>10. CASE Disable0 \/ Disable1
    BY <1>l, <1>1, <1>3, <1>6, <1>10 DEF Disable0, Disable1, StoreEnabled, NotStored, Radio
<1>11. CASE StopDhcp
    BY <1>l, <1>3, <1>4, <1>11 DEF StopDhcp, StoreDhcp, NotStored
<1>12. CASE StartDhcp
    BY <1>l, <1>3, <1>5, <1>12 DEF StartDhcp, StoreDhcp, NotStored
<1>13. CASE StoreName
    BY <1>l, <1>13 DEF StoreName, NotStored, settings, repeating
<1>14. CASE Search \/ Repeat \/ StopRepeating \/ Restart \/ UNCHANGED vars
    BY <1>l, <1>3, <1>14 DEF Search, Repeat, StopRepeating, Begin, Restart, vars
<1>15. CASE Get \/ Request \/ GetAgain \/ Load \/ Send
    BY <1>l, <1>3, <1>15 DEF Get, Request, GetAgain, Load, Send
<1>16. CASE Match \/ BringUp \/ WaitForJoin \/ WaitForBss \/ Free
    BY <1>l, <1>3, <1>16 DEF Match, BringUp, WaitForJoin, WaitForBss, Free
<1> QED
    BY <1>l, <1>7, <1>8, <1>9, <1>10, <1>11, <1>12, <1>13, <1>14, <1>15, <1>16
       DEF Next, Ask, Handler

\* Until a `flash set` fails to store what it is given, the router never begins
\* to repeat while its DHCP server is on, and it leaves one network before it
\* joins another, wherever it is restarted (router_dev.c:1170, 1185, 1244).
THEOREM StoringKeepsPromise == Spec => KeepsPromise
<1>1. Init => Promise!Init
  <2> SUFFICES ASSUME Init PROVE Promise!Init
      OBVIOUS
  <2>1. repeating = {}
    <3>1. \A r \in Radio : REPEATER_ENABLED[r] = 0
        BY DEF Init
    <3> QED
        BY <3>1 DEF repeating
  <2>2. (lost \/ DHCP = 2) = TRUE
      BY DEF Init
  <2> QED
      BY <2>1, <2>2 DEF Promise!Init
<1>2. IndInv /\ [Next]_vars => [Promise!Next]_<<repeating, lost \/ DHCP = 2>>
    BY StepKeepsPromise
<1> QED
    BY <1>1, <1>2, Invariance, PTL DEF Spec, KeepsPromise, Promise!Spec, Promise!modeVars
=============================================================================
