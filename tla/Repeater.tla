------------------------------ MODULE Repeater ------------------------------
(***************************************************************************)
(* Joining another network (router_dev.c): set_router_wifiSearch surveys   *)
(* both radios, set_router_repeater picks the radio that has heard the     *)
(* network, stores the settings one `flash set` after the other, restarts  *)
(* that radio and waits; set_router_enrepeater goes back.  The commands    *)
(* communicate through static data (deviceInfo, WLAN_IF) and the settings, *)
(* which alone survive a restart; one thread runs them, one at a time.     *)
(*                                                                         *)
(* Radio 0 is wlan0 (5 GHz) with the settings REPEATER_ENABLED1 and        *)
(* REPEATER_SSID1, radio 1 is wlan1 with ..2.  Channel and keys are stored *)
(* behind the name and like it; pStatus never outlives its use.            *)
(***************************************************************************)
EXTENDS Integers

CONSTANTS
    Networks,  \* SSIDs in the air
    Spaced,    \* those with a blank, which strtok cuts off
    MaxWait    \* bound: turns of a waiting loop (15 to 30 in the code)

ASSUME NetworksAssumption ==
    /\ Spaced \subseteq Networks /\ "" \notin Networks
    /\ MaxWait \in Nat

Radio == {0, 1}
Other(r) == 1 - r

VARIABLES
    srvPc,      \* where the server thread is
    cmd,        \* the command it executes
    network,    \* config->name
    radio,      \* the radio whose copy of the code it is in
    wait,       \* wait_time, 0 outside the loops
    WLAN_IF,    \* which radio it names, and whether "-vxd" is appended
    deviceInfo, \* survey: radio -> names heard
    shown,      \* history: the survey that the clients have seen and no
                \* completed set_router_repeater has used up
    DHCP, REPEATER_ENABLED, REPEATER_SSID,  \* settings; two radio -> ...
    harm,       \* history: `flash set` has failed in this command ("now"), or
                \* has failed or was cut short in one before, and no full
                \* sequence of settings was stored since ("past")
    lost        \* history: `flash set` has ever failed

surveyVars == <<deviceInfo, shown>>
settings == <<DHCP, REPEATER_ENABLED, REPEATER_SSID>>
vars == <<srvPc, cmd, network, radio, wait, WLAN_IF, surveyVars, settings, harm, lost>>

Null == [r \in {} |-> {}]
Tables == [Radio -> SUBSET (Networks \ Spaced)]
Stages == {"idle", "get", "request", "again", "load", "send", "dead", "dhcp0", "match",
           "other", "on", "ssid", "up", "join", "assoc", "free", "dhcp2", "off0", "off1"}
Switches == [Radio -> {0, 1}]
Names == [Radio -> Networks \cup {""}]
InterfaceNames == [radio : Radio \cup {-1}, vxd : BOOLEAN]
NoIf == [radio |-> -1, vxd |-> FALSE]
If(r) == [radio |-> r, vxd |-> FALSE]

\* Every variable has its type.
TypeOK ==
    /\ srvPc \in Stages
    /\ cmd \in {"none", "search", "repeat", "leave"}
    /\ network \in Networks \cup {""}
    /\ radio \in Radio
    /\ wait \in Int
    /\ WLAN_IF \in InterfaceNames
    /\ deviceInfo \in Tables \cup {Null} /\ shown \in Tables \cup {Null}
    /\ DHCP \in {0, 2}
    /\ REPEATER_ENABLED \in Switches
    /\ REPEATER_SSID \in Names
    /\ harm \in {"none", "past", "now"}
    /\ lost \in BOOLEAN

\* A process that has just started.
Init ==
    /\ srvPc = "idle" /\ cmd = "none" /\ network = "" /\ radio = 0 /\ wait = 0
    /\ WLAN_IF = NoIf /\ deviceInfo = Null /\ shown = Null
    /\ DHCP = 2 /\ REPEATER_ENABLED = [r \in Radio |-> 0]
    /\ REPEATER_SSID = [r \in Radio |-> ""]
    /\ harm = "none" /\ lost = FALSE

Goto(from, to) == srvPc = from /\ srvPc' = to
\* A setting is stored or not: when `flash set` fails, system() still returns >= 0.
Stored == UNCHANGED <<harm, lost>>
NotStored == harm' = "now" /\ lost' = TRUE /\ UNCHANGED settings

\* The last one of a sequence that stores everything.
Whole == UNCHANGED lost /\ harm' = IF harm = "past" THEN "none" ELSE harm
-----------------------------------------------------------------------------
\* The commands, each with the first place in its handler.
Begin(c, place) ==
    /\ Goto("idle", place)
    /\ cmd' = c
    /\ harm' = IF harm = "now" THEN "past" ELSE harm
    /\ UNCHANGED <<wait, WLAN_IF, surveyVars, settings, lost>>

Search == Begin("search", "get") /\ radio' = 0 /\ UNCHANGED network
Repeat == Begin("repeat", "dhcp0") /\ network' \in Networks /\ UNCHANGED radio
StopRepeating == Begin("leave", "dhcp2") /\ UNCHANGED <<network, radio>>

\* set_router_reset: "flash default" is one process.
Reset ==
    /\ srvPc = "idle"
    /\ \/ /\ DHCP' = 2 /\ REPEATER_ENABLED' = [r \in Radio |-> 0]
          /\ REPEATER_SSID' = [r \in Radio |-> ""]
          /\ harm' = "none" /\ UNCHANGED lost
       \/ NotStored
    /\ UNCHANGED <<srvPc, cmd, network, radio, wait, WLAN_IF, surveyVars>>

Ask == Search \/ Repeat \/ StopRepeating \/ Reset

\* The handler returns.
Finish(from) == Goto(from, "idle") /\ cmd' = "none"
-----------------------------------------------------------------------------
\* router_scanf.

\* After the radio r comes the other one, then the table.
NextRadio(from) ==
    \/ radio = 0 /\ Goto(from, "get") /\ radio' = 1
    \/ radio = 1 /\ Goto(from, "load") /\ UNCHANGED radio

\* Mutant: a survey that fails frees the old table.
GetForgetting ==
    /\ \/ Finish("get") /\ WLAN_IF' \in {WLAN_IF, If(radio)} /\ UNCHANGED <<radio, wait>>
       \/ WLAN_IF' = If(radio) /\ NextRadio("get") /\ UNCHANGED <<cmd, wait>>
    /\ deviceInfo' = IF srvPc' = "idle" THEN Null ELSE deviceInfo
    /\ UNCHANGED <<network, shown, settings, harm, lost>>

\* wlSiteSurveyTblGetRepeater0 and ..1: -1 ends the command without a reply, -2
\* (no result yet) asks for a survey, 0 goes on.  Without memory WLAN_IF stays.
Get ==
    /\ \/ Finish("get") /\ WLAN_IF' \in {WLAN_IF, If(radio)} /\ UNCHANGED <<radio, wait>>
       \/ WLAN_IF' = If(radio) /\ NextRadio("get") /\ UNCHANGED <<cmd, wait>>
       \/ /\ WLAN_IF' = If(radio) /\ Goto("get", "request")
          /\ wait' \in -1 .. MaxWait   \* wait_time is not initialised
          /\ UNCHANGED <<cmd, radio>>
    /\ UNCHANGED <<network, surveyVars, settings, harm, lost>>

\* wlSiteSurveyTblRequest: turns until there is a result, an error or no
\* patience.
Request ==
    /\ \/ wait < MaxWait /\ Goto("request", "request") /\ wait' = wait + 1
       \/ Goto("request", "again") /\ wait' = 0
    /\ UNCHANGED <<cmd, network, radio, WLAN_IF, surveyVars, settings, harm, lost>>

\* The second wlSiteSurveyTblGetRepeater, whose result is not looked at.
GetAgain ==
    /\ NextRadio("again")
    /\ WLAN_IF' \in {WLAN_IF, If(radio)}
    /\ UNCHANGED <<cmd, network, wait, surveyVars, settings, harm, lost>>

\* wlSiteSurveyTblLoad: names are cut at the first blank, so that those with one
\* are not in the table; without memory or /proc entries there is no table; an
\* empty name is strdup(NULL).
Load ==
    /\ \/ Goto("load", "send") /\ deviceInfo' \in Tables \cup {Null}
       \/ Goto("load", "dead") /\ UNCHANGED deviceInfo
    /\ UNCHANGED <<cmd, network, radio, wait, WLAN_IF, shown, settings, harm, lost>>

\* whatWillSend.
Send ==
    /\ \/ deviceInfo # Null /\ Finish("send") /\ shown' = deviceInfo
       \/ deviceInfo = Null /\ Goto("send", "dead") /\ UNCHANGED <<cmd, shown>>
    /\ UNCHANGED <<network, radio, wait, WLAN_IF, deviceInfo, settings, harm, lost>>
-----------------------------------------------------------------------------
\* One `flash set`.
Store(from, to) ==
    /\ Goto(from, to)
    /\ UNCHANGED <<cmd, network, radio, wait, WLAN_IF, surveyVars>>

StoreDhcp(from, to, value) ==
    /\ Store(from, to)
    /\ \/ DHCP' = value /\ Stored /\ UNCHANGED <<REPEATER_ENABLED, REPEATER_SSID>>
       \/ NotStored

StoreEnabled(from, to, r, value) ==
    /\ Store(from, to)
    /\ \/ /\ REPEATER_ENABLED' = [REPEATER_ENABLED EXCEPT ![r] = value]
          /\ Stored /\ UNCHANGED <<DHCP, REPEATER_SSID>>
       \/ NotStored

\* Mutant: the DHCP server stays on.
StopDhcpForgotten ==
    /\ Store("dhcp0", "match")
    /\ UNCHANGED <<settings, harm, lost>>

\* router_repeater_config begins with this, whatever comes of it.
StopDhcp == StoreDhcp("dhcp0", "match", 0)

\* The radio whose table has the name.  The second table is only looked at when
\* the first has an entry (checkFlag).
Heard(r) ==
    /\ deviceInfo # Null
    /\ \/ r = 0 /\ network \in deviceInfo[0]
       \/ r = 1 /\ network \notin deviceInfo[0] /\ deviceInfo[0] # {}
                /\ network \in deviceInfo[1]

\* Without a survey the handler reads through NULL; with an unknown name it goes
\* on with whatever WLAN_IF names.
Match ==
    /\ \/ deviceInfo = Null /\ Goto("match", "dead") /\ UNCHANGED <<radio, WLAN_IF>>
       \/ \E r \in Radio :
             Heard(r) /\ Goto("match", "other") /\ radio' = r /\ WLAN_IF' = If(r)
       \/ /\ deviceInfo # Null /\ \A r \in Radio : ~Heard(r)
          /\ Goto("match", "up") /\ UNCHANGED <<radio, WLAN_IF>>
    /\ UNCHANGED <<cmd, network, wait, surveyVars, settings, harm, lost>>

\* Mutant: the radio is enabled before the other one is disabled.
DisableOtherLate == StoreEnabled("other", "on", radio, 1)

DisableOther == StoreEnabled("other", "on", Other(radio), 0)
Enable == StoreEnabled("on", "ssid", radio, 1)

StoreName ==
    /\ Store("ssid", "up")
    /\ \/ /\ REPEATER_SSID' = [REPEATER_SSID EXCEPT ![radio] = network]
          /\ Whole /\ UNCHANGED <<DHCP, REPEATER_ENABLED>>
       \/ NotStored

\* The interface is taken down and up again with the new settings.
BringUp ==
    /\ Goto("up", "join")
    /\ wait' = 0
    /\ UNCHANGED <<cmd, network, radio, WLAN_IF, surveyVars, settings, harm, lost>>

\* getWlJoinResultForRepeater: joined; not yet; an error or no patience, where
\* the handler returns at once and leaves everything as it is.
WaitForJoin ==
    /\ WLAN_IF' = [WLAN_IF EXCEPT !.vxd = TRUE]
    /\ \/ Goto("join", "assoc") /\ wait' = 0 /\ UNCHANGED cmd
       \/ wait < MaxWait /\ Goto("join", "join") /\ wait' = wait + 1 /\ UNCHANGED cmd
       \/ Finish("join") /\ wait' = 0
    /\ UNCHANGED <<network, radio, surveyVars, settings, harm, lost>>

\* Mutant: without a connection it joins again.
WaitForBssRejoining ==
    /\ \/ Goto("assoc", "free")
       \/ Goto("assoc", "join")
    /\ wait' = 0
    /\ UNCHANGED <<cmd, network, radio, WLAN_IF, surveyVars, settings, harm, lost>>

\* getWlBssInfoForRepeater: connected; not yet; never.
WaitForBss ==
    /\ \/ wait < MaxWait /\ Goto("assoc", "free") /\ wait' = 0
       \/ wait < MaxWait /\ Goto("assoc", "assoc") /\ wait' = wait + 1
       \/ wait = MaxWait /\ Goto("assoc", "dhcp2") /\ wait' = 0
    /\ UNCHANGED <<cmd, network, radio, WLAN_IF, surveyVars, settings, harm, lost>>

\* The table has been used; the reply is sent.
Free ==
    /\ Finish("free")
    /\ deviceInfo' = Null /\ shown' = Null
    /\ UNCHANGED <<network, radio, wait, WLAN_IF, settings, harm, lost>>

\* router_enrepeater_config, and router_repeater_config when it takes back what
\* it has stored: the same three settings.
StartDhcp == StoreDhcp("dhcp2", "off0", 2)
Disable0 == StoreEnabled("off0", "off1", 0, 0)

\* Mutant: only the first radio is disabled.
Disable1Forgotten ==
    /\ Goto("off1", IF cmd = "repeat" THEN "free" ELSE "idle")
    /\ cmd' = IF cmd = "repeat" THEN cmd ELSE "none"
    /\ Whole
    /\ UNCHANGED <<network, radio, wait, WLAN_IF, surveyVars, settings>>

Disable1 ==
    /\ Goto("off1", IF cmd = "repeat" THEN "free" ELSE "idle")
    /\ cmd' = IF cmd = "repeat" THEN cmd ELSE "none"
    /\ \/ /\ REPEATER_ENABLED' = [REPEATER_ENABLED EXCEPT ![1] = 0]
          /\ Whole /\ UNCHANGED <<DHCP, REPEATER_SSID>>
       \/ NotStored
    /\ UNCHANGED <<network, radio, wait, WLAN_IF, surveyVars>>
-----------------------------------------------------------------------------
Handler ==
    \/ Get \/ Request \/ GetAgain \/ Load \/ Send
    \/ StopDhcp \/ Match \/ DisableOther \/ Enable \/ StoreName
    \/ BringUp \/ WaitForJoin \/ WaitForBss \/ Free
    \/ StartDhcp \/ Disable0 \/ Disable1

\* A reboot, a power cut, or the restart of a process that has died.
Restart ==
    /\ srvPc' = "idle" /\ cmd' = "none" /\ network' = "" /\ radio' = 0 /\ wait' = 0
    /\ WLAN_IF' = NoIf /\ deviceInfo' = Null /\ shown' = Null
    /\ harm' = IF srvPc \in {"ssid", "off0", "off1"} \/ harm # "none" THEN "past" ELSE harm
    /\ UNCHANGED <<settings, lost>>

Next == Ask \/ Handler \/ Restart

Spec == Init /\ [][Next]_vars

\* The thread runs; nobody has to send commands.
FairSpec == Spec /\ WF_vars(Handler)
-----------------------------------------------------------------------------
\* A radio repeats while the DHCP server is on only between the settings of a
\* sequence that takes repeating back (router_dev.c:1355, 1397), or after one of
\* them was not stored: two servers would answer in the joined network.
NoTwoServers ==
    (\E r \in Radio : REPEATER_ENABLED[r] = 1) /\ DHCP = 2
        => harm # "none" \/ srvPc \in {"off0", "off1"}

\* A set_router_repeater (router_dev.c:1176) works with the table the client was
\* last shown, whatever commands came in between.
ShownIsUsed == shown # Null => deviceInfo = shown \/ srvPc \in {"send", "dead"}

\* The handler reads through NULL (router_dev.c:1177) only if the client was
\* shown no survey since the start or the last completed set_router_repeater.
ConfiguringNeedsSurvey == [][srvPc = "match" /\ srvPc' = "dead" => shown = Null]_vars

\* When a set_router_repeater whose own stores have all succeeded answers for any
\* network of the survey (router_dev.c:1382), everything is as it asked for, or as
\* if nobody repeated, whatever failed stores and restarts inside earlier commands
\* have left behind.  Except that a network heard by the second radio only, when
\* the first has heard none, is overlooked (checkFlag, 1176-1238): it is shown to
\* the clients and answered like the others, but the DHCP server is off and no
\* radio has been told to join.
Repeats(r) ==
    /\ REPEATER_ENABLED[r] = 1 /\ REPEATER_ENABLED[Other(r)] = 0
    /\ REPEATER_SSID[r] = network /\ DHCP = 0
Undone == (\A r \in Radio : REPEATER_ENABLED[r] = 0) /\ DHCP = 2
Offered == network \in deviceInfo[0] \cup deviceInfo[1]
Overlooked == deviceInfo[0] = {} /\ DHCP = 0
WholeOrUndone ==
    srvPc = "free" /\ harm # "now" /\ Offered =>
        \/ \E r \in Radio : network \in deviceInfo[r] /\ Repeats(r)
        \/ Undone
        \/ Overlooked

\* Until a store fails, the settings keep what RepeaterMode promises, across
\* restarts at any place (router_dev.c:1170, 1185, 1244).
repeating == IF lost THEN {} ELSE {r \in Radio : REPEATER_ENABLED[r] = 1}
Promise == INSTANCE RepeaterMode WITH serving <- lost \/ DHCP = 2
KeepsPromise == Promise!Spec

\* Every command comes to an end (router_dev.c:957, 1318, 1343).
CommandsEnd == cmd # "none" ~> cmd = "none" \/ srvPc = "dead"

\* At most one radio repeats.
Radios ==
    /\ ~lost => harm # "now"
    /\ harm = "none" \/ ~lost => \E r \in Radio : REPEATER_ENABLED[r] = 0

\* The command at each place, and the radio it is about.
Places ==
    /\ srvPc = "idle" => cmd = "none"
    /\ srvPc \in {"get", "request", "again", "load", "send"} => cmd = "search"
    /\ srvPc \in {"dhcp0", "match"} => cmd = "repeat" /\ network \in Networks
    /\ srvPc \in {"other", "on", "ssid", "up", "join", "assoc", "free"}
          => cmd = "repeat" /\ network \in Networks /\ deviceInfo # Null
    /\ srvPc \in {"dhcp2", "off0", "off1"}
          => cmd = "leave" \/ (cmd = "repeat" /\ network \in Networks /\ deviceInfo # Null)
    /\ srvPc \in {"other", "on", "ssid"} => Heard(radio) /\ WLAN_IF = If(radio)

\* WLAN_IF names a radio when the interface is restarted, and the one that has
\* heard the network if there is one.
Interface ==
    /\ deviceInfo # Null \/ srvPc \in {"request", "again", "load", "send"} => WLAN_IF.radio # -1
    /\ srvPc = "get" => radio = 0 \/ WLAN_IF.radio # -1
    /\ \A r \in Radio : srvPc \in {"up", "join", "assoc"} /\ Heard(r) => WLAN_IF.radio = r

\* What the handler has stored so far.
StoredSoFar ==
    harm # "now" =>
        /\ srvPc \in {"match", "other", "on", "ssid", "up", "join", "assoc"} => DHCP = 0
        /\ srvPc \in {"on", "ssid"} => REPEATER_ENABLED[Other(radio)] = 0
        /\ srvPc = "ssid" => REPEATER_ENABLED[radio] = 1
        /\ srvPc \in {"off0", "off1"} => DHCP = 2
        /\ srvPc = "off1" => REPEATER_ENABLED[0] = 0
        /\ \A r \in Radio : srvPc \in {"up", "join", "assoc"} /\ Heard(r) => Repeats(r)

IndInv ==
    /\ TypeOK /\ Places /\ Interface /\ StoredSoFar /\ Radios
    /\ NoTwoServers /\ ShownIsUsed /\ WholeOrUndone
=============================================================================
