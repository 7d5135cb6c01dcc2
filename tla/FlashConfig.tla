----------------------------- MODULE FlashConfig -----------------------------
(***************************************************************************)
(* The configuration commands (parser.c, router_dev.c): WAN, Wi-Fi, MAC    *)
(* address, repeater, reset, reboot, and the query set_router_search.  A   *)
(* handler writes some command lines into buffers on its stack and has a   *)
(* shell execute them; each line is a sequence of `flash set`, any of      *)
(* which may store nothing without anybody noticing.  The init script puts *)
(* the stored settings in force, and only a restart of the device the      *)
(* interfaces' stored addresses.                                           *)
(*                                                                         *)
(* The buffers are never initialised: a line that is not written in this   *)
(* call is what earlier calls left there, and is executed all the same.    *)
(* A set_router_wanIP line is longer than its buffer (121 characters and   *)
(* four addresses in cmd[128]); the other lines are taken to fit, and a    *)
(* command to have all of its fields.  Of set_router_repeater this module  *)
(* has the stores and the ways it ends, Repeater all the rest (the restart *)
(* of one radio in the middle of it puts nothing in force here).           *)
(* ServerThread has the script's effect on descriptors.                    *)
(***************************************************************************)
EXTENDS MacAddress

CONSTANTS
    Tags,      \* what clients send: a name and a key, a user, or addresses
    Open,      \* those whose key_type is "None"
    Bases,     \* addresses clients send
    Junk,      \* addresses that memory happens to hold
    Factory,   \* the addresses the interfaces have at first
    Sent,      \* the commands clients send
    MaxEvents  \* bound: commands, lost stores, failed forks and power cuts

Bands == {"5GHz", "2.4GHz"}
Wan == {"pppoe", "ip", "dhcp"}
Configs == Wan \cup {"wifi", "mac", "repeater", "enrepeater", "reset", "reboot"}
\* "search" stands for the queries, which clear router_init, and "check" for get_
\* and set_router_update, which leave it alone.
Commands == [dev : {"box", "phone"}, op : Configs \cup {"search", "check"},
             bands : SUBSET Bands, tag : Tags]
NoCommand == [dev |-> "none", op |-> "boot", bands |-> {}, tag |-> "default"]

WanKeys == {"WAN_DHCP", "PPP_USER_NAME", "PPP_PASSWORD", "WAN_IP_ADDR",
            "WAN_SUBNET_MASK", "WAN_DEFAULT_GATEWAY", "DNS1"}
WifiKeys == {"WLAN0_SSID", "WLAN0_ENCRYPT", "WLAN0_WPA_PSK",
             "WLAN1_SSID", "WLAN1_ENCRYPT", "WLAN1_WPA_PSK"}
\* REPEATER1 stands for REPEATER_ENABLED1, REPEATER_SSID1 and what is stored with
\* them, REPEATER2 likewise.
RepeaterKeys == {"DHCP", "REPEATER1", "REPEATER2"}
Keys == WanKeys \cup WifiKeys \cup RepeaterKeys
Values == Tags \cup {"default", "cut", "0", "1", "2", "3"}

ASSUME ConfigAssumption ==
    /\ Open \subseteq Tags
    /\ Tags \cap {"default", "cut", "0", "1", "2", "3"} = {}
    /\ Bases \subseteq Address /\ Junk \subseteq Address /\ Factory \in [Nics -> Address]
    /\ Sent \subseteq Commands
    /\ MaxEvents \in Nat

\* What one command of a line does.
Set(k, v) == [kind |-> "set", key |-> k, value |-> v]
SetMac(n, m) == [kind |-> "mac", nic |-> n, addr |-> m]
Default == [kind |-> "default"]   \* flash default
Reboot == [kind |-> "reboot"]
Stores ==
    [kind : {"set"}, key : Keys, value : Values]
        \cup [kind : {"mac"}, nic : Nics, addr : Address] \cup {Default, Reboot}
Lines == Seq(Stores)

VARIABLES
    srvPc,        \* where the server thread is
    cmd,          \* the command it executes or has executed last
    todo,         \* what the handler has still to give to a shell: for each line
                  \* the set of what may be in its buffer
    shell,        \* what the shell has still to execute of its line
    outcome,      \* how its handler ends
    stack,        \* lines that may lie in the handlers' part of the stack
    router_init,  \* the flag that decides on the script after a phone's reply
    result,       \* what the last cmd_set has written for the reply's STATUS
    flash, hw,    \* the stored settings; the interfaces' stored addresses
    inForce,      \* the settings the router runs with
    hwInForce,    \* the addresses its interfaces have
    rebooting,    \* `reboot` has been started
    before,       \* history: flash when the command began
    spoiled,      \* history: a store of this command was lost, or the copies of
                  \* an address went wrong
    setter,       \* history: the last command that assigned router_init
    unapplied,    \* history: "repeater" if a Box's set_router_repeater has given up
                  \* since the last script, "reboot" if a `reboot` was lost since
                  \* the start
    events        \* bound

storage == <<flash, hw>>
applied == <<inForce, hwInForce, unapplied>>
server == <<cmd, outcome, stack, router_init, setter, before>>
vars == <<srvPc, todo, shell, result, storage, applied, rebooting, server, spoiled, events>>

\* Every variable has its type.
TypeOK ==
    /\ srvPc \in {"select", "fork", "shell", "query", "script", "reply", "dead"}
    /\ cmd \in Commands \cup {NoCommand}
    /\ todo \in Seq(SUBSET Lines) /\ shell \in Lines /\ stack \in SUBSET Lines
    /\ outcome \in {"whole", "gaveUp", "dead"} /\ router_init \in {0, 1}
    /\ result \in {"unwritten", "success", "fail"}
    /\ flash \in [Keys -> Values] /\ hw \in [Nics -> Address]
    /\ inForce \in [Keys -> Values] /\ hwInForce \in [Nics -> Address]
    /\ unapplied \subseteq {"repeater", "reboot"} /\ before \in [Keys -> Values]
    /\ rebooting \in BOOLEAN /\ spoiled \in BOOLEAN
    /\ setter \in Configs \cup {"search", "boot"}
    /\ events \in Nat

\* A process that has just started.
Started ==
    /\ srvPc = "select" /\ cmd = NoCommand /\ outcome = "whole"
    /\ todo = <<>> /\ shell = <<>> /\ stack = {}
    /\ router_init = 1 /\ setter = "boot"
    /\ result = "unwritten" /\ rebooting = FALSE /\ spoiled = FALSE
    /\ unapplied = {}

Init ==
    /\ Started
    /\ flash = [k \in Keys |-> "default"] /\ inForce = flash /\ before = flash
    /\ hw = Factory /\ hwInForce = hw
    /\ events = 0
\* Something happens that the bound counts.
Count == events < MaxEvents /\ events' = events + 1
-----------------------------------------------------------------------------
\* The command lines.

WanLine(c) ==
    CASE c.op = "pppoe" -> <<Set("WAN_DHCP", "3"), Set("PPP_USER_NAME", c.tag),
                             Set("PPP_PASSWORD", c.tag)>>
      [] c.op = "dhcp" -> <<Set("WAN_DHCP", "1")>>
      [] c.op = "ip" -> <<Set("WAN_DHCP", "0"), Set("WAN_IP_ADDR", c.tag),
                          Set("WAN_SUBNET_MASK", c.tag),
                          Set("WAN_DEFAULT_GATEWAY", c.tag), Set("DNS1", c.tag)>>

\* cmd0 is for wlan0 (5 GHz), cmd1 for wlan1.  The name is stored with the
\* band's suffix, the key also when there is no encryption.
BandLine(band, c) ==
    LET encrypt == IF c.tag \in Open THEN "0" ELSE "2" IN
    IF band = "5GHz"
    THEN <<Set("WLAN0_SSID", c.tag), Set("WLAN0_ENCRYPT", encrypt), Set("WLAN0_WPA_PSK", c.tag)>>
    ELSE <<Set("WLAN1_SSID", c.tag), Set("WLAN1_ENCRYPT", encrypt), Set("WLAN1_WPA_PSK", c.tag)>>

\* router_enrepeater_config, and router_repeater_config when it takes back what it
\* has stored.
LeaveLines == <<<<Set("DHCP", "2")>>, <<Set("REPEATER1", "0")>>, <<Set("REPEATER2", "0")>>>>

\* What a buffer may hold that nobody has written: nothing that a shell
\* understands or that stores anything (`flash get`, `ifconfig`), or as much of
\* the line of any handler as other frames have left, its last value perhaps cut
\* short.
CutShort(line) ==
    LET n == Len(line) IN
    IF n > 0 /\ line[n].kind = "set"
    THEN [line EXCEPT ![n] = Set(line[n].key, "cut")] ELSE line
Parts(line) == {SubSeq(line, i, j) : i, j \in 1 .. Len(line)}
Leftovers(lines) ==
    {<<>>} \cup UNION {Parts(line) \cup {CutShort(p) : p \in Parts(line)} : line \in lines}

\* The bands a handler looks for: the WAN handlers only in a phone's command.
Given(c) == IF c.op = "wifi" \/ (c.op \in Wan /\ c.dev = "phone") THEN c.bands ELSE {}

\* The lines that a handler writes into its buffers.
Written(c) ==
    {BandLine(b, c) : b \in Given(c)} \cup (IF c.op \in {"pppoe", "ip"} THEN {WanLine(c)} ELSE {})
        \cup (IF c.op = "enrepeater" THEN {LeaveLines[i] : i \in 1 .. 3} ELSE {})

\* What the shell reads in cmd.  The end of a wanIP line lies in the buffer
\* behind cmd.  If that is cmd0 or cmd1 and its band is named, the band's line
\* is written over it: the gateway is stored, cut short or not stored, DNS1 and
\* the band's first store are not, and the band's other stores follow.
ReadsWan(c) ==
    {WanLine(c)} \cup
    (IF c.op # "ip" THEN {} ELSE
        {SubSeq(WanLine(c), 1, 3) \o gateway \o Tail(BandLine(b, c)) : b \in c.bands,
            gateway \in {<<>>, <<Set("WAN_DEFAULT_GATEWAY", c.tag)>>,
                         <<Set("WAN_DEFAULT_GATEWAY", "cut")>>}})

\* What the shell reads in cmd0 or cmd1.
ReadsBand(b, c) ==
    IF b \in c.bands THEN {BandLine(b, c)} ELSE Leftovers(stack \cup Written(c))
-----------------------------------------------------------------------------
\* Mutant: the search leaves the flag alone.
SetsFlagOnce(c) ==
    CASE c.op \in Configs -> router_init' = 1 /\ setter' = c.op
      [] c.op = "search" -> setter' = "search" /\ UNCHANGED router_init
      [] c.op = "check" -> UNCHANGED <<router_init, setter>>

\* handle_cmd sets the flag before it calls the handler.
SetsFlag(c) ==
    CASE c.op \in Configs -> router_init' = 1 /\ setter' = c.op
      [] c.op = "search" -> router_init' = 0 /\ setter' = "search"
      [] c.op = "check" -> UNCHANGED <<router_init, setter>>

\* How a handler ends.  A set_router_repeater without a survey ends the process,
\* and a Box's may give up before its script (router_dev.c:1327, 1335).
Ends(c) ==
    {"whole"} \cup (IF c.op = "repeater" THEN {"dead"} ELSE {})
              \cup (IF c.op = "repeater" /\ c.dev = "box" THEN {"gaveUp"} ELSE {})

\* read(), the prefix tests, parser_cmd: a command begins.
Begin(c, place) ==
    /\ srvPc = "select" /\ Count
    /\ srvPc' = place
    /\ cmd' = c
    /\ SetsFlag(c)
    /\ before' = flash
    /\ outcome' \in Ends(c)
    /\ shell' = <<>> /\ result' = "unwritten"
    /\ UNCHANGED <<storage, applied, rebooting>>

\* Mutant: the 2.4 GHz line is executed before the 5 GHz line.
SetWanCrossed(c) ==
    /\ c.op \in Wan
    /\ Begin(c, "fork")
    /\ \/ c.dev = "box" /\ todo' = <<{WanLine(c)}>>
       \/ c.dev = "phone" /\ todo' = <<ReadsWan(c), ReadsBand("2.4GHz", c), ReadsBand("5GHz", c)>>
    /\ stack' = IF c.op = "dhcp" /\ c.dev = "box" THEN stack ELSE stack \cup Written(c)
    /\ spoiled' = FALSE

\* set_wan_pppoe, set_wan_ip, set_wan_dhcp.  A Box gives no Wi-Fi settings.  For
\* a phone three lines are executed, whether they were written or not.
SetWan(c) ==
    /\ c.op \in Wan
    /\ Begin(c, "fork")
    /\ \/ /\ c.dev = "box"
          /\ todo' = <<{WanLine(c)}>>
          /\ stack' = IF c.op = "dhcp" THEN stack ELSE stack \cup {WanLine(c)}
       \/ /\ c.dev = "phone"
          /\ todo' = <<ReadsWan(c), ReadsBand("5GHz", c), ReadsBand("2.4GHz", c)>>
          /\ stack' = stack \cup Written(c)
    /\ spoiled' = FALSE

\* Mutant: both lines are executed, as the WAN handlers do.
SetWifiBoth(c) ==
    /\ c.op = "wifi"
    /\ Begin(c, "fork")
    /\ todo' = <<ReadsBand("5GHz", c), ReadsBand("2.4GHz", c)>>
    /\ stack' = stack \cup Written(c)
    /\ spoiled' = FALSE

\* set_wifi_config: a band that is not named is left out, and without any there
\* is no cmd_set.
SetWifi(c) ==
    /\ c.op = "wifi"
    /\ Begin(c, "fork")
    /\ todo' = (IF "5GHz" \in c.bands THEN <<{BandLine("5GHz", c)}>> ELSE <<>>)
               \o (IF "2.4GHz" \in c.bands THEN <<{BandLine("2.4GHz", c)}>> ELSE <<>>)
    /\ stack' = stack \cup Written(c)
    /\ spoiled' = FALSE

\* set_mac_addr: one line per interface in the same buffer, then reboot.  base is
\* what sscanf and strtol make of the text.
SetMacAddr(c) ==
    /\ c.op = "mac"
    /\ Begin(c, "fork")
    /\ \E base \in Bases, ends \in BOOLEAN, junk \in [Nics -> Junk] :
          LET line(n) == <<SetMac(n, Copied(base, n, ends, junk[n]))>> IN
          /\ todo' = <<{line(1)}, {line(2)}, {line(3)}, {line(4)}, {<<Reboot>>}>>
          /\ stack' = stack \cup {line(4)}
          /\ spoiled' = ~Tidy(base, ends)

\* router_repeater_config: the radio that has heard the network, if one has, and
\* the settings taken back if it gets no connection.
JoinLine(r, c) ==
    IF r = 1 THEN <<Set("REPEATER2", "0"), Set("REPEATER1", c.tag)>>
    ELSE <<Set("REPEATER1", "0"), Set("REPEATER2", c.tag)>>
SetRepeater(c) ==
    /\ c.op = "repeater"
    /\ Begin(c, "fork")
    /\ \E heard \in {<<>>, <<JoinLine(1, c)>>, <<JoinLine(2, c)>>}, undone \in {<<>>, LeaveLines} :
          LET lines == <<<<Set("DHCP", "0")>>>> \o heard \o undone IN
          /\ todo' = [i \in 1 .. Len(lines) |-> {lines[i]}]
          /\ stack' = stack \cup {lines[i] : i \in 1 .. Len(lines)}
          /\ heard # <<>> => outcome' # "dead"
          /\ undone # <<>> => outcome' = "whole"
    /\ spoiled' = FALSE

\* router_enrepeater_config.
LeaveNetwork(c) ==
    /\ c.op = "enrepeater"
    /\ Begin(c, "fork")
    /\ todo' = [i \in 1 .. 3 |-> {LeaveLines[i]}]
    /\ stack' = stack \cup Written(c)
    /\ spoiled' = FALSE

\* router_reset and router_reboot.
ResetOrReboot(c) ==
    /\ c.op \in {"reset", "reboot"}
    /\ Begin(c, "fork")
    /\ todo' = <<{IF c.op = "reset" THEN <<Default>> ELSE <<Reboot>>}>>
    /\ spoiled' = FALSE
    /\ UNCHANGED stack

\* set_router_search and the update commands: `flash set` is not involved.
Ask(c) ==
    /\ c.op \in {"search", "check"}
    /\ Begin(c, IF c.op = "search" THEN "query" ELSE "reply")
    /\ todo' = <<>> /\ spoiled' = FALSE
    /\ UNCHANGED stack

\* router_search: popen may fail, and there is no reply then; nothing changes
\* while it reads setting after setting.
Search ==
    /\ srvPc = "query"
    /\ srvPc' \in {"select", "reply"}
    /\ UNCHANGED <<todo, shell, result, storage, applied, rebooting, server, spoiled, events>>
-----------------------------------------------------------------------------
\* A store is lost, or none is; a `reboot` may be among them.
Lost(reboot) == unapplied' = IF reboot THEN unapplied \cup {"reboot"} ELSE unapplied

\* cmd_set: system() starts a shell, or returns -1.  The handler goes on with its
\* next line in both cases.
Fork ==
    /\ srvPc = "fork" /\ todo # <<>>
    /\ todo' = Tail(todo)
    /\ \/ /\ srvPc' = "shell" /\ shell' \in Head(todo)
          /\ UNCHANGED <<result, spoiled, unapplied, events>>
       \/ /\ Count
          /\ result' = "fail" /\ spoiled' = TRUE
          /\ Lost(Head(todo) = {<<Reboot>>})
          /\ UNCHANGED <<srvPc, shell>>
    /\ UNCHANGED <<storage, inForce, hwInForce, rebooting, server>>

\* One `flash set` (or flash default, or reboot).
Takes(s) ==
    /\ flash' = CASE s.kind = "set" -> [flash EXCEPT ![s.key] = s.value]
                  [] s.kind = "default" -> [k \in Keys |-> "default"]
                  [] OTHER -> flash
    /\ hw' = IF s.kind = "mac" THEN [hw EXCEPT ![s.nic] = s.addr] ELSE hw
    /\ rebooting' = (rebooting \/ s.kind = "reboot")

Shell ==
    /\ srvPc = "shell" /\ shell # <<>>
    /\ shell' = Tail(shell)
    /\ \/ Takes(Head(shell)) /\ UNCHANGED <<spoiled, unapplied, events>>
       \/ /\ Count
          /\ spoiled' = TRUE
          /\ Lost(Head(shell) = Reboot)
          /\ UNCHANGED <<storage, rebooting>>
    /\ UNCHANGED <<srvPc, todo, result, inForce, hwInForce, server>>

\* Mutant: only a failure is reported.
ShellEndsSilent ==
    /\ srvPc = "shell" /\ shell = <<>>
    /\ srvPc' = "fork"
    /\ UNCHANGED <<todo, shell, result, storage, applied, rebooting, server, spoiled, events>>

\* The shell has executed its line; what became of it does not matter.
ShellEnds ==
    /\ srvPc = "shell" /\ shell = <<>>
    /\ srvPc' = "fork" /\ result' = "success"
    /\ UNCHANGED <<todo, shell, storage, applied, rebooting, server, spoiled, events>>

\* Mutant: the script is forgotten in set_wan_dhcp.
HandlerEndsQuietly ==
    /\ srvPc = "fork" /\ todo = <<>>
    /\ srvPc' = IF cmd.dev = "box" /\ cmd.op \notin {"dhcp", "mac", "reboot"}
                THEN "script" ELSE "reply"
    /\ UNCHANGED <<todo, shell, result, storage, applied, rebooting, server, spoiled, events>>

\* After the last line a Box's handler runs the script, unless the device
\* reboots.
HandlerEnds ==
    /\ srvPc = "fork" /\ todo = <<>>
    /\ \/ /\ outcome = "whole"
          /\ srvPc' = IF cmd.dev = "box" /\ cmd.op \notin {"mac", "reboot"} THEN "script" ELSE "reply"
          /\ UNCHANGED unapplied
       \/ outcome = "gaveUp" /\ srvPc' = "reply" /\ unapplied' = unapplied \cup {"repeater"}
       \/ outcome = "dead" /\ srvPc' = "dead" /\ UNCHANGED unapplied
    /\ UNCHANGED <<todo, shell, result, storage, inForce, hwInForce, rebooting, server, spoiled, events>>

\* router_init_script: init.sh starts everything with the stored settings.  It is
\* not relied upon for the addresses (router_dev.c:1658).
Script ==
    /\ srvPc = "script"
    /\ srvPc' = IF cmd.dev = "box" THEN "reply" ELSE "select"
    /\ inForce' = flash /\ unapplied' = unapplied \ {"repeater"}
    /\ UNCHANGED <<todo, shell, result, storage, hwInForce, rebooting, server, spoiled, events>>

\* Mutant: the script is run for a reply that needs no init.
ReplyInverted ==
    /\ srvPc = "reply"
    /\ srvPc' = IF cmd.dev = "phone" /\ router_init = 0 THEN "script" ELSE "select"
    /\ UNCHANGED <<todo, shell, result, storage, applied, rebooting, server, spoiled, events>>

\* write_all, and after a phone's reply the script unless router_init is 0.
Reply ==
    /\ srvPc = "reply"
    /\ srvPc' = IF cmd.dev = "phone" /\ router_init = 1 THEN "script" ELSE "select"
    /\ UNCHANGED <<todo, shell, result, storage, applied, rebooting, server, spoiled, events>>

Configure(c) ==
    \/ SetWan(c) \/ SetWifi(c) \/ SetMacAddr(c) \/ SetRepeater(c) \/ LeaveNetwork(c)
    \/ ResetOrReboot(c) \/ Ask(c)

Work == Fork \/ Shell \/ ShellEnds \/ HandlerEnds \/ Search \/ Script \/ Reply

\* The device goes down, by `reboot` or by a power cut, and comes up with what is
\* in flash.
GoDown ==
    /\ \/ rebooting /\ UNCHANGED events
       \/ Count
    /\ srvPc' = "select" /\ cmd' = NoCommand /\ outcome' = "whole"
    /\ todo' = <<>> /\ shell' = <<>> /\ stack' = {}
    /\ router_init' = 1 /\ setter' = "boot"
    /\ result' = "unwritten" /\ rebooting' = FALSE /\ spoiled' = FALSE
    /\ inForce' = flash /\ hwInForce' = hw /\ unapplied' = {}
    /\ before' = flash
    /\ UNCHANGED storage

Next == (\E c \in Sent : Configure(c)) \/ Work \/ GoDown

Spec == Init /\ [][Next]_vars

\* The thread runs, and a device that has been told to reboot goes down.
FairSpec == Spec /\ WF_vars(Work) /\ WF_vars(rebooting /\ GoDown)
-----------------------------------------------------------------------------
\* What lines do.
StoresOf(lines) == UNION {{line[i] : i \in 1 .. Len(line)} : line \in lines}

\* What a command asks for.
Named(c) == StoresOf(Written(c) \cup (IF c.op = "dhcp" THEN {WanLine(c)} ELSE {}))

\* A command that writes all of its lines, none of them too long, and always the
\* same ones.
Complete(c) ==
    /\ c.op \notin {"reset", "repeater"}
    /\ c.dev = "phone" /\ c.op \in Wan => c.bands = Bands /\ c.op # "ip"

\* When a complete command is answered and none of its stores was lost, the
\* settings are those it names, and all others are what they were
\* (router_dev.c:1482, 1538, 1714, 1754): whatever earlier commands left behind,
\* half stored or in the buffers.
AsCommanded ==
    srvPc = "reply" /\ ~spoiled /\ Complete(cmd) =>
        /\ \A s \in Named(cmd) : s.key \in Keys => flash[s.key] = s.value
        /\ \A k \in Keys : (\A s \in Named(cmd) : s.key # k) => flash[k] = before[k]

\* When a phone's WAN command that names the 2.4 GHz band is answered and none of
\* its stores was lost, the settings of the bands it names are stored
\* (router_dev.c:1482-1500), whatever the shell has found in a buffer that nobody
\* has written (1431), or in an address line that runs into the next one (1687).
NamedBandsStand ==
    srvPc = "reply" /\ ~spoiled /\ cmd.op \in Wan /\ "2.4GHz" \in Given(cmd) =>
        \A b \in Given(cmd) : \A s \in StoresOf({BandLine(b, cmd)}) : flash[s.key] = s.value

\* While the server waits, answers a Box or reports settings, the settings in
\* force are the stored ones (main.c:287, router_dev.c:1453, 1685, 1787), unless a
\* Box's set_router_repeater has given up since the last script (1327, 1335); and
\* the interfaces have their stored addresses or the device is about to restart
\* (1659), unless that `reboot` was lost: so far no order of commands, lost stores
\* and power cuts goes wrong.
InForce ==
    \/ srvPc \in {"select", "query"}
    \/ srvPc = "reply" /\ (cmd.dev = "box" \/ cmd.op \notin Configs)
    => /\ inForce = flash \/ "repeater" \in unapplied
       /\ hwInForce = hw \/ rebooting \/ "reboot" \in unapplied

\* What the reply's STATUS says (router_dev.c:1482, 1790): "fail" that a store
\* was lost; but it is whatever lay on the stack when a Wi-Fi command has named no
\* band, and then nothing was stored.
StatusMeans ==
    srvPc = "reply" /\ cmd.op \in Configs =>
        /\ result = "fail" => spoiled
        /\ result = "unwritten" => cmd.op = "wifi" /\ flash = before

\* The script drops every connection.  It runs for a configuration; behind a
\* version check (parser.c:156) only if the last command that was none configured
\* something, or if there was none since the start.
ScriptsForConfigs ==
    [][srvPc # "script" /\ srvPc' = "script" =>
          cmd.op \in Configs \/ (cmd.op = "check" /\ setter \in Configs \cup {"boot"})]_vars

\* When a set_router_wanMAC is answered whose copies went right, the interfaces'
\* addresses differ from one another, in the fourth octet only
\* (router_dev.c:1563), although the octet wraps around without a carry.
InterfacesDiffer ==
    srvPc = "reply" /\ cmd.op = "mac" /\ ~spoiled =>
        \A m, n \in Nics : m # n =>
            /\ hw[m][4] # hw[n][4]
            /\ \A i \in 1 .. 6 : i # 4 => hw[m][i] = hw[n][i]

\* A setting that is stored comes into force, also when the command that stored
\* it is cut short (main.c:287), and so does an address (router_dev.c:1659), with
\* the same exceptions; and a set_router_repeater may end the process.
TakesEffect ==
    /\ flash # inForce ~> flash = inForce \/ "repeater" \in unapplied \/ srvPc = "dead"
    /\ hw # hwInForce ~> hw = hwInForce \/ "reboot" \in unapplied
-----------------------------------------------------------------------------
\* The parts that make the properties above inductive.

\* Which command is at which place, and where there are lines.
Places ==
    /\ srvPc \in {"fork", "shell"} => cmd.op \in Configs
    /\ srvPc = "query" => cmd.op = "search"
    /\ cmd = NoCommand => srvPc = "select"
    /\ srvPc # "shell" => shell = <<>>
    /\ srvPc \notin {"fork", "shell"} => todo = <<>>

\* What router_init says of the last command.
FlagMeans ==
    /\ cmd.op \in Configs => router_init = 1
    /\ cmd.op = "search" => router_init = 0
    /\ router_init = 1 => setter \in Configs \cup {"boot"}

\* What a shell may have to execute: for a complete command what it names.
Fit ==
    {s \in Stores :
        /\ s.kind = "default" => cmd.op = "reset"
        /\ s.kind = "set" =>
             /\ cmd.op \in Configs \ {"mac", "reset", "reboot"}
             /\ Complete(cmd) => s \in Named(cmd)}
Kept == {s \in Stores : s.kind \in {"set", "mac"}}
Orderly == shell \in Seq(Fit) /\ todo \in Seq(SUBSET Seq(Fit)) /\ stack \subseteq Seq(Kept)

\* Every command but these leaves the settings alone.
Still ==
    cmd.op \notin Configs \ {"mac", "reboot"} => inForce = flash \/ "repeater" \in unapplied

\* What the handler and the shell have still to execute.
Pending == StoresOf({shell} \cup UNION {todo[j] : j \in 1 .. Len(todo)})

\* A set_router_wanMAC that is executed has its reboot before it.
RebootAhead ==
    \/ Len(todo) > 0 /\ todo[Len(todo)] = {<<Reboot>>}
    \/ shell = <<Reboot>>

\* Only after a set_router_wanMAC can there be an address to store, or one that is
\* not in force.
Addresses ==
    \/ rebooting \/ "reboot" \in unapplied
    \/ cmd.op = "mac" /\ srvPc \in {"fork", "shell"} /\ RebootAhead
    \/ /\ hw = hwInForce
       /\ \A s \in StoresOf(stack) \cup Pending : s.kind # "mac"

\* A complete command's buffers hold one line each, and what it names is stored
\* or still in one of them.
Exactly ==
    Complete(cmd) /\ ~spoiled =>
        /\ \A j \in 1 .. Len(todo) : \E line \in todo[j] : todo[j] = {line}
        /\ \A s \in Named(cmd) : flash[s.key] = s.value \/ s \in Pending
        /\ \A k \in Keys : (\A s \in Named(cmd) : s.key # k) => flash[k] = before[k]

\* The line of a named band is still to be executed, or its settings are stored or
\* in the shell; and what comes behind it is named by the command as well.
Ahead(b) ==
    \E j \in 1 .. Len(todo) :
        /\ todo[j] = {BandLine(b, cmd)}
        /\ \A i \in j .. Len(todo) : todo[i] \subseteq Seq(Named(cmd))
Settled(b) ==
    /\ shell \in Seq(Named(cmd))
    /\ \A j \in 1 .. Len(todo) : todo[j] \subseteq Seq(Named(cmd))
    /\ \A s \in StoresOf({BandLine(b, cmd)}) : flash[s.key] = s.value \/ s \in StoresOf({shell})
Lasting ==
    cmd.op \in Wan /\ "2.4GHz" \in Given(cmd) /\ ~spoiled =>
        \A b \in Given(cmd) : Ahead(b) \/ Settled(b)

\* STATUS is written with the first line.
Answers ==
    /\ result = "fail" => spoiled
    /\ srvPc = "fork" /\ result = "unwritten" =>
          flash = before /\ (todo # <<>> \/ cmd.op = "wifi")
    /\ srvPc \in {"script", "reply"} /\ result = "unwritten" /\ cmd.op \in Configs =>
          flash = before /\ cmd.op = "wifi"

\* set_mac_addr is at its line number Turn; those before it have been stored.
Turn == 5 - Len(todo)
MacLine(base, n) == IF n = 5 THEN <<Reboot>> ELSE <<SetMac(n, Derived(base, n))>>
Addressing(base) ==
    /\ Turn \in 0 .. 5
    /\ \A j \in 1 .. Len(todo) : todo[j] = {MacLine(base, Turn + j)}
    /\ shell = <<>> \/ (Turn > 0 /\ shell = MacLine(base, Turn))
    /\ \A n \in Nics : n < Turn \/ (n = Turn /\ shell = <<>>) => hw[n] = Derived(base, n)
Addressed ==
    cmd.op = "mac" /\ ~spoiled /\ srvPc \in {"fork", "shell", "script", "reply"} =>
        \E base \in Bases : Addressing(base)

IndInv ==
    /\ TypeOK /\ Places /\ FlagMeans /\ Orderly
    /\ InForce /\ Still /\ Exactly /\ Addresses /\ Lasting /\ Answers /\ Addressed
=============================================================================
