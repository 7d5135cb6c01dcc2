-------------------------- MODULE FlashConfigProofs --------------------------
(***************************************************************************)
(* IndInv is an inductive invariant of FlashConfig, for every set of       *)
(* commands, tags and addresses and every number of events.                *)
(***************************************************************************)
EXTENDS FlashConfig, SequenceTheorems, TLAPS

-----------------------------------------------------------------------------
(* Stores, lines and what commands name                                    *)

\* A `flash set` is one of the stores, with its key and its value.
LEMMA SetProperties ==
    ASSUME NEW k \in Keys, NEW v \in Values
    PROVE  Set(k, v) \in Stores /\ Set(k, v).kind = "set" /\ Set(k, v).key = k /\ Set(k, v).value = v
BY DEF Set, Stores

\* Every store is of one of four kinds.
LEMMA StoreKinds ==
    ASSUME NEW s \in Stores
    PROVE  /\ s.kind \in {"set", "mac", "default", "reboot"}
           /\ s.kind = "set" => s.key \in Keys /\ s.value \in Values /\ s = Set(s.key, s.value)
           /\ s.kind = "mac" => s.nic \in Nics /\ s.addr \in Address
BY DEF Stores, Default, Reboot, Set

\* The store of an address, the reset and the reboot.
LEMMA OtherStores ==
    /\ \A n \in Nics, m \in Address : SetMac(n, m) \in Stores /\ SetMac(n, m).kind = "mac"
                                      /\ SetMac(n, m).nic = n /\ SetMac(n, m).addr = m
    /\ Default \in Stores /\ Default.kind = "default"
    /\ Reboot \in Stores /\ Reboot.kind = "reboot"
BY DEF Stores, SetMac, Default, Reboot

\* The lines' stores are in every set that the lines are made from.
LEMMA StoresOfIn ==
    ASSUME NEW S, NEW lines, lines \subseteq Seq(S)
    PROVE  StoresOf(lines) \subseteq S
<1> SUFFICES ASSUME NEW line \in lines, NEW i \in 1 .. Len(line) PROVE line[i] \in S
    BY DEF StoresOf
<1>1. line \in Seq(S)
    OBVIOUS
<1> QED
    BY <1>1, ElementOfSeq

\* A line is made from its stores.
LEMMA LineOfStores ==
    ASSUME NEW S, NEW lines, NEW line \in lines, line \in Seq(S)
    PROVE  line \in Seq(StoresOf(lines))
<1>1. Len(line) \in Nat /\ line \in [1 .. Len(line) -> S] /\ DOMAIN line = 1 .. Len(line)
    BY LenProperties
<1>2. \A i \in 1 .. Len(line) : line[i] \in StoresOf(lines)
    BY DEF StoresOf
<1>3. line \in [1 .. Len(line) -> StoresOf(lines)]
    BY <1>1, <1>2
<1> QED
    BY <1>1, <1>3, SeqDef

\* The value that a command has for a key.
Asked(c, k) ==
    IF k = "WAN_DHCP" THEN (IF c.op = "pppoe" THEN "3" ELSE IF c.op = "dhcp" THEN "1" ELSE "0")
    ELSE IF k \in {"WLAN0_ENCRYPT", "WLAN1_ENCRYPT"} THEN (IF c.tag \in Open THEN "0" ELSE "2")
    ELSE IF k = "DHCP" THEN "2"
    ELSE IF k \in {"REPEATER1", "REPEATER2"} THEN "0"
    ELSE c.tag
Wishes(c) == {Set(k, Asked(c, k)) : k \in Keys}

LEMMA WishesProperties ==
    ASSUME NEW c \in Commands
    PROVE  /\ \A k \in Keys : Asked(c, k) \in Values /\ Set(k, Asked(c, k)) \in Wishes(c)
           /\ \A s \in Wishes(c) : s \in Stores /\ s.kind = "set" /\ s.key \in Keys
           /\ \A s, t \in Wishes(c) : s.key = t.key => s = t
<1>1. \A k \in Keys : Asked(c, k) \in Values
  <2>1. c.tag \in Tags
      BY DEF Commands
  <2> QED
      BY <2>1 DEF Asked, Values
<1>2. \A k \in Keys : Set(k, Asked(c, k)) \in Wishes(c)
    BY DEF Wishes
<1>3. \A s \in Wishes(c) : s \in Stores /\ s.kind = "set" /\ s.key \in Keys /\ s = Set(s.key, Asked(c, s.key))
    BY <1>1, SetProperties DEF Wishes
<1> QED
    BY <1>1, <1>2, <1>3

\* The lines are made from what a command wishes.
LEMMA WanLineProperties ==
    ASSUME NEW c \in Commands, c.op \in Wan
    PROVE  /\ WanLine(c) \in Seq(Wishes(c))
           /\ c.op = "ip" => Len(WanLine(c)) = 5
<1> USE WishesProperties
<1>1. \A k \in {"WAN_DHCP", "PPP_USER_NAME", "PPP_PASSWORD", "WAN_IP_ADDR", "WAN_SUBNET_MASK",
                "WAN_DEFAULT_GATEWAY", "DNS1"} : Set(k, Asked(c, k)) \in Wishes(c)
    BY DEF Keys, WanKeys
<1>2. CASE c.op = "pppoe"
  <2>1. WanLine(c) = <<Set("WAN_DHCP", "3"), Set("PPP_USER_NAME", c.tag), Set("PPP_PASSWORD", c.tag)>>
      BY <1>2 DEF WanLine
  <2>2. Set("WAN_DHCP", "3") \in Wishes(c) /\ Set("PPP_USER_NAME", c.tag) \in Wishes(c)
        /\ Set("PPP_PASSWORD", c.tag) \in Wishes(c)
      BY <1>1, <1>2 DEF Asked
  <2> QED
      BY <1>2, <2>1, <2>2
<1>3. CASE c.op = "dhcp"
  <2>1. WanLine(c) = <<Set("WAN_DHCP", "1")>>
      BY <1>3 DEF WanLine
  <2>2. Set("WAN_DHCP", "1") \in Wishes(c)
      BY <1>1, <1>3 DEF Asked
  <2> QED
      BY <1>3, <2>1, <2>2
<1>4. CASE c.op = "ip"
  <2>1. WanLine(c) = <<Set("WAN_DHCP", "0"), Set("WAN_IP_ADDR", c.tag), Set("WAN_SUBNET_MASK", c.tag),
                       Set("WAN_DEFAULT_GATEWAY", c.tag), Set("DNS1", c.tag)>>
      BY <1>4 DEF WanLine
  <2>2. Set("WAN_DHCP", "0") \in Wishes(c) /\ Set("WAN_IP_ADDR", c.tag) \in Wishes(c)
        /\ Set("WAN_SUBNET_MASK", c.tag) \in Wishes(c)
        /\ Set("WAN_DEFAULT_GATEWAY", c.tag) \in Wishes(c) /\ Set("DNS1", c.tag) \in Wishes(c)
      BY <1>1, <1>4 DEF Asked
  <2> QED
      BY <1>4, <2>1, <2>2
<1> QED
    BY <1>2, <1>3, <1>4 DEF Wan

LEMMA BandLineProperties ==
    ASSUME NEW c \in Commands, NEW b \in Bands
    PROVE  BandLine(b, c) \in Seq(Wishes(c)) /\ Len(BandLine(b, c)) = 3
<1> USE WishesProperties
<1> DEFINE encrypt == IF c.tag \in Open THEN "0" ELSE "2"
<1>1. \A k \in {"WLAN0_SSID", "WLAN0_ENCRYPT", "WLAN0_WPA_PSK",
                "WLAN1_SSID", "WLAN1_ENCRYPT", "WLAN1_WPA_PSK"} : Set(k, Asked(c, k)) \in Wishes(c)
    BY DEF Keys, WifiKeys
<1>2. /\ Set("WLAN0_SSID", c.tag) \in Wishes(c) /\ Set("WLAN0_ENCRYPT", encrypt) \in Wishes(c)
      /\ Set("WLAN0_WPA_PSK", c.tag) \in Wishes(c)
      /\ Set("WLAN1_SSID", c.tag) \in Wishes(c) /\ Set("WLAN1_ENCRYPT", encrypt) \in Wishes(c)
      /\ Set("WLAN1_WPA_PSK", c.tag) \in Wishes(c)
    BY <1>1 DEF Asked
<1>3. BandLine(b, c) =
        IF b = "5GHz"
        THEN <<Set("WLAN0_SSID", c.tag), Set("WLAN0_ENCRYPT", encrypt), Set("WLAN0_WPA_PSK", c.tag)>>
        ELSE <<Set("WLAN1_SSID", c.tag), Set("WLAN1_ENCRYPT", encrypt), Set("WLAN1_WPA_PSK", c.tag)>>
    BY DEF BandLine
<1> HIDE DEF encrypt
<1> QED
    BY <1>2, <1>3

\* router_enrepeater_config's lines.
LEMMA LeaveLinesProperties ==
    ASSUME NEW c \in Commands, NEW i \in 1 .. 3
    PROVE  LeaveLines[i] \in Seq(Wishes(c)) /\ Len(LeaveLines[i]) = 1 /\ Len(LeaveLines) = 3
<1>1. \A k \in {"DHCP", "REPEATER1", "REPEATER2"} : Set(k, Asked(c, k)) \in Wishes(c)
    BY WishesProperties DEF Keys, RepeaterKeys
<1>2. Set("DHCP", "2") \in Wishes(c) /\ Set("REPEATER1", "0") \in Wishes(c) /\ Set("REPEATER2", "0") \in Wishes(c)
    BY <1>1 DEF Asked
<1>3. /\ LeaveLines[1] = <<Set("DHCP", "2")>> /\ LeaveLines[2] = <<Set("REPEATER1", "0")>>
      /\ LeaveLines[3] = <<Set("REPEATER2", "0")>> /\ Len(LeaveLines) = 3
    BY DEF LeaveLines
<1>4. i = 1 \/ i = 2 \/ i = 3
    OBVIOUS
<1> DEFINE W == Wishes(c)
<1>5. \A s \in W : <<s>> \in Seq(W) /\ Len(<<s>>) = 1
  <2> HIDE DEF W
  <2> QED
      OBVIOUS
<1>6. LeaveLines[i] \in {<<Set("DHCP", "2")>>, <<Set("REPEATER1", "0")>>, <<Set("REPEATER2", "0")>>}
    BY <1>3, <1>4
<1> QED
    BY <1>2, <1>3, <1>5, <1>6

\* What a command names is what its lines store.
LEMMA NamedProperties ==
    ASSUME NEW c \in Commands
    PROVE  /\ Named(c) \subseteq Wishes(c)
           /\ Written(c) \subseteq Seq(Named(c))
           /\ \A b \in Given(c) : BandLine(b, c) \in Seq(Named(c))
           /\ c.op \in Wan => WanLine(c) \in Seq(Named(c))
           /\ c.op = "enrepeater" => \A i \in 1 .. 3 : LeaveLines[i] \in Seq(Named(c))
           /\ c.op \notin Wan \cup {"wifi", "enrepeater"} => Named(c) = {}
<1> DEFINE lines == Written(c) \cup (IF c.op = "dhcp" THEN {WanLine(c)} ELSE {})
<1>1. Given(c) \subseteq Bands
    BY DEF Given, Commands
<1>2. \A b \in Given(c) : BandLine(b, c) \in lines
    BY DEF Written
<1>3. c.op \in Wan => WanLine(c) \in lines
    BY DEF Written, Wan
<1>4. lines \subseteq Seq(Wishes(c))
  <2>1. {BandLine(b, c) : b \in Given(c)} \subseteq Seq(Wishes(c))
      BY <1>1, BandLineProperties
  <2>2. c.op \in {"pppoe", "ip", "dhcp"} => WanLine(c) \in Seq(Wishes(c))
      BY WanLineProperties DEF Wan
  <2>3. {LeaveLines[i] : i \in 1 .. 3} \subseteq Seq(Wishes(c))
      BY LeaveLinesProperties
  <2> QED
      BY <2>1, <2>2, <2>3 DEF Written
<1>5. Named(c) = StoresOf(lines)
    BY DEF Named
<1>6. Written(c) \subseteq lines
    OBVIOUS
<1>7. c.op \notin Wan \cup {"wifi", "enrepeater"} => lines = {}
    BY DEF Written, Given, Wan
<1>11. c.op = "enrepeater" => \A i \in 1 .. 3 : LeaveLines[i] \in lines
    BY DEF Written
<1> HIDE DEF lines
<1>8. Named(c) \subseteq Wishes(c)
    BY <1>4, <1>5, StoresOfIn
<1>9. \A line \in lines : line \in Seq(Named(c))
    BY <1>4, <1>5, LineOfStores
<1>10. lines = {} => Named(c) = {}
    BY <1>5 DEF StoresOf
<1> QED
    BY <1>2, <1>3, <1>6, <1>7, <1>8, <1>9, <1>10, <1>11

\* A value that was cut short.
Cuts == {Set(k, "cut") : k \in Keys}

LEMMA CutsProperties == \A s \in Cuts : s \in Stores /\ s.kind = "set" /\ s.value = "cut"
<1>1. "cut" \in Values
    BY DEF Values
<1> QED
    BY <1>1, SetProperties DEF Cuts

\* What lies in a buffer that was not written is a part of an earlier line, or
\* that with its last value cut short.
LEMMA LeftoversProperties ==
    ASSUME NEW S \in SUBSET Stores, NEW lines \in SUBSET Seq(S)
    PROVE  Leftovers(lines) \subseteq Seq(S \cup Cuts)
<1>1. ASSUME NEW line \in lines, NEW part \in Parts(line)
      PROVE  part \in Seq(S)
  <2>1. PICK i \in 1 .. Len(line), j \in 1 .. Len(line) : part = SubSeq(line, i, j)
      BY DEF Parts
  <2>2. line \in Seq(S) /\ Len(line) \in Nat
      BY LenProperties
  <2>3. \A m \in i .. j : line[m] \in S
      BY <2>2, ElementOfSeq
  <2>4. i \in Int /\ j \in Int
      BY <2>2
  <2> QED
      BY <2>1, <2>3, <2>4, SubSeqProperties
<1>2. ASSUME NEW part \in Seq(S)
      PROVE  CutShort(part) \in Seq(S \cup Cuts)
  <2> DEFINE n == Len(part)
  <2>1. part \in Seq(S \cup Cuts) /\ n \in Nat
      BY SeqMonotonic, LenProperties
  <2>2. CASE n > 0 /\ part[n].kind = "set"
    <3>1. n \in 1 .. n /\ part[n] \in S
        BY <2>1, <2>2, ElementOfSeq
    <3>2. part[n].key \in Keys
        BY <2>2, <3>1, StoreKinds
    <3>3. Set(part[n].key, "cut") \in S \cup Cuts
        BY <3>2 DEF Cuts
    <3>4. CutShort(part) = [part EXCEPT ![n] = Set(part[n].key, "cut")]
        BY <2>2 DEF CutShort
    <3> HIDE DEF n
    <3> QED
        BY <2>1, <3>1, <3>3, <3>4, ExceptSeq DEF n
  <2>3. CASE ~(n > 0 /\ part[n].kind = "set")
      BY <2>1, <2>3 DEF CutShort
  <2> QED
      BY <2>2, <2>3
<1>3. \A line \in lines : Parts(line) \subseteq Seq(S \cup Cuts)
    BY <1>1, SeqMonotonic
<1>4. \A line \in lines : \A part \in Parts(line) : CutShort(part) \in Seq(S \cup Cuts)
    BY <1>1, <1>2
<1>5. <<>> \in Seq(S \cup Cuts)
    OBVIOUS
<1> DEFINE T == Seq(S \cup Cuts)
<1>6. \A line \in lines : Parts(line) \cup {CutShort(p) : p \in Parts(line)} \subseteq T
    BY <1>3, <1>4
<1>7. <<>> \in T
    BY <1>5
<1> HIDE DEF T
<1>8. Leftovers(lines) \subseteq T
    BY <1>6, <1>7 DEF Leftovers
<1> QED
    BY <1>8 DEF T

\* What a buffer for a band holds: its line, or leftovers.
LEMMA ReadsBandProperties ==
    ASSUME NEW c \in Commands, NEW b \in Bands, c.op \in Wan, c.dev = "phone",
           stack \subseteq Seq(Kept)
    PROVE  /\ b \in c.bands => ReadsBand(b, c) = {BandLine(b, c)} /\ BandLine(b, c) \in Seq(Named(c))
           /\ ReadsBand(b, c) \subseteq Seq(Named(c) \cup StoresOf(stack) \cup Cuts)
<1>1. Given(c) = c.bands
    BY DEF Given
<1>2. ASSUME b \in c.bands
      PROVE  ReadsBand(b, c) = {BandLine(b, c)} /\ BandLine(b, c) \in Seq(Named(c))
    BY <1>1, <1>2, NamedProperties DEF ReadsBand
<1> DEFINE S == Named(c) \cup StoresOf(stack)
<1>3. ReadsBand(b, c) \subseteq Seq(S \cup Cuts)
  <2>1. CASE b \in c.bands
    <3>1. BandLine(b, c) \in Seq(S \cup Cuts)
        BY <1>2, <2>1, SeqMonotonic
    <3> QED
        BY <1>2, <2>1, <3>1
  <2>2. CASE b \notin c.bands
    <3>1. S \in SUBSET Stores
      <4>1. StoresOf(stack) \subseteq Kept
          BY StoresOfIn
      <4>2. Named(c) \subseteq Stores
          BY NamedProperties, WishesProperties
      <4> QED
          BY <4>1, <4>2 DEF Kept
    <3>2. \A line \in stack : line \in Seq(StoresOf(stack))
        BY LineOfStores
    <3>3. \A line \in stack : line \in Seq(S)
        BY <3>2, SeqMonotonic
    <3>4. \A line \in Written(c) : line \in Seq(Named(c))
        BY NamedProperties
    <3>5. \A line \in Written(c) : line \in Seq(S)
        BY <3>4, SeqMonotonic
    <3>6. stack \cup Written(c) \in SUBSET Seq(S)
        BY <3>3, <3>5
    <3> HIDE DEF S
    <3>7. Leftovers(stack \cup Written(c)) \subseteq Seq(S \cup Cuts)
        BY <3>1, <3>6, LeftoversProperties
    <3> QED
        BY <2>2, <3>7 DEF ReadsBand
  <2> QED
      BY <2>1, <2>2
<1> QED
    BY <1>2, <1>3

\* What the WAN buffer holds: its line, or an address line that runs into the
\* next buffer.
LEMMA ReadsWanProperties ==
    ASSUME NEW c \in Commands, c.op \in Wan, c.dev = "phone"
    PROVE  /\ c.op # "ip" => ReadsWan(c) = {WanLine(c)}
           /\ ReadsWan(c) \subseteq Seq(Named(c) \cup Cuts)
<1> DEFINE S == Named(c) \cup Cuts
<1>1. c.op # "ip" => ReadsWan(c) = {WanLine(c)}
    BY DEF ReadsWan
<1>2. WanLine(c) \in Seq(Named(c))
    BY NamedProperties
<1> DEFINE tag == Set("WAN_DEFAULT_GATEWAY", c.tag)
           cut == Set("WAN_DEFAULT_GATEWAY", "cut")
           gateways == {<<>>, <<tag>>, <<cut>>}
<1>3. Named(c) \subseteq S
    OBVIOUS
<1>4. cut \in S
    BY DEF Cuts, Keys, WanKeys
<1>5. c.op = "ip" => WanLine(c)[4] = tag
    BY DEF WanLine
<1>6. \A b \in c.bands : b \in Bands /\ b \in Given(c)
    BY DEF Commands, Given
<1> HIDE DEF S, tag, cut
<1>7. WanLine(c) \in Seq(S)
    BY <1>2, <1>3, SeqMonotonic
<1>8. ASSUME c.op = "ip", NEW b \in c.bands, NEW gateway \in gateways
      PROVE  SubSeq(WanLine(c), 1, 3) \o gateway \o Tail(BandLine(b, c)) \in Seq(S)
  <2> DEFINE line == WanLine(c)
             band == BandLine(b, c)
             beginning == SubSeq(line, 1, 3)
             end == Tail(band)
  <2>1. line \in Seq(S) /\ Len(line) = 5
      BY <1>7, <1>8, WanLineProperties
  <2>2. band \in Seq(Named(c)) /\ Len(band) = 3
      BY <1>6, NamedProperties, BandLineProperties
  <2>3. line[4] = tag
      BY <1>5, <1>8
  <2> HIDE DEF line, band
  <2>4. \A i \in 1 .. 5 : line[i] \in S
      BY <2>1, ElementOfSeq
  <2>5. beginning \in Seq(S)
      BY <2>4, SubSeqProperties
  <2>6. band \in Seq(S) /\ band # <<>>
    <3>1. band \in Seq(S)
        BY <1>3, <2>2, SeqMonotonic
    <3>2. band # <<>>
        BY <2>2, EmptySeq
    <3> QED
        BY <3>1, <3>2
  <2>7. end \in Seq(S)
      BY <2>6, HeadTailProperties
  <2>8. tag \in S
      BY <2>3, <2>4
  <2>9. gateway \in Seq(S)
    <3>1. gateway = <<>> \/ gateway = <<tag>> \/ gateway = <<cut>>
        BY <1>8
    <3>2. <<>> \in Seq(S) /\ <<tag>> \in Seq(S) /\ <<cut>> \in Seq(S)
        BY <1>4, <2>8
    <3> QED
        BY <3>1, <3>2
  <2> HIDE DEF beginning, end
  <2>10. beginning \o gateway \in Seq(S)
      BY <2>5, <2>9, ConcatProperties
  <2>11. (beginning \o gateway) \o end \in Seq(S)
      BY <2>7, <2>10, ConcatProperties
  <2> QED
      BY <2>11 DEF beginning, end, line, band
<1>9. ASSUME NEW line \in ReadsWan(c)
      PROVE  line \in Seq(S)
  <2>1. CASE line = WanLine(c)
      BY <1>7, <2>1
  <2>2. CASE line # WanLine(c)
    <3>1. c.op = "ip"
        BY <1>1, <1>9, <2>2
    <3>2. PICK b \in c.bands, gateway \in gateways :
             line = SubSeq(WanLine(c), 1, 3) \o gateway \o Tail(BandLine(b, c))
        BY <1>9, <2>2, <3>1 DEF ReadsWan, tag, cut
    <3> QED
        BY <1>8, <3>1, <3>2
  <2> QED
      BY <2>1, <2>2
<1> QED
    BY <1>1, <1>9 DEF S

\* What a command names is in one of its lines.
LEMMA NamedLines ==
    ASSUME NEW c, NEW s \in Named(c)
    PROVE  \/ \E b \in Given(c) : \E i \in 1 .. Len(BandLine(b, c)) : s = BandLine(b, c)[i]
           \/ c.op \in Wan /\ \E i \in 1 .. Len(WanLine(c)) : s = WanLine(c)[i]
           \/ c.op = "enrepeater" /\ \E n \in 1 .. 3 : \E i \in 1 .. Len(LeaveLines[n]) : s = LeaveLines[n][i]
BY DEF Named, StoresOf, Written, Wan

\* What a shell and a handler have still to execute.
Held(sh, td) == StoresOf({sh} \cup UNION {td[j] : j \in 1 .. Len(td)})

LEMMA HeldProperties ==
    ASSUME NEW sh, NEW td, NEW s
    PROVE  s \in Held(sh, td) <=>
              \/ \E i \in 1 .. Len(sh) : s = sh[i]
              \/ \E j \in 1 .. Len(td) : \E line \in td[j] : \E i \in 1 .. Len(line) : s = line[i]
BY DEF Held, StoresOf

-----------------------------------------------------------------------------
(* A command begins                                                        *)

\* What the lines of a command are made from may be executed.
LEMMA FitProperties ==
    ASSUME NEW c \in Commands, cmd' = c, c.op \in Wan \cup {"wifi", "enrepeater"},
           stack \subseteq stack', stack' \subseteq Seq(Kept)
    PROVE  /\ Named(c) \subseteq Fit'
           /\ ~Complete(c) => Named(c) \cup StoresOf(stack) \cup Cuts \subseteq Fit'
<1>1. \A s \in Named(c) : s \in Stores /\ s.kind = "set"
    BY NamedProperties, WishesProperties
<1>5. c.op \in Configs \ {"mac", "reset", "reboot"}
    BY DEF Configs, Wan
<1>2. Named(c) \subseteq Fit'
    BY <1>1, <1>5 DEF Fit
<1>3. ~Complete(c) => Cuts \subseteq Fit'
    BY <1>5, CutsProperties DEF Fit
<1>4. ASSUME ~Complete(c), NEW s \in StoresOf(stack)
      PROVE  s \in Fit'
  <2>1. s \in StoresOf(stack')
      BY <1>4 DEF StoresOf
  <2>2. StoresOf(stack') \subseteq Kept
      BY StoresOfIn
  <2>3. s \in Stores /\ s.kind \in {"set", "mac"}
      BY <2>1, <2>2 DEF Kept
  <2> QED
      BY <1>4, <1>5, <2>3 DEF Fit
<1> QED
    BY <1>2, <1>3, <1>4

\* A handler's lines have no address but what was on the stack.
NoAddress == \A s \in StoresOf(stack') \cup Held(<<>>, todo') : s.kind = "mac" => s \in StoresOf(stack)

LEMMA HeldIn ==
    ASSUME NEW S, NEW sh \in Seq(S), NEW td \in Seq(SUBSET Seq(S))
    PROVE  Held(sh, td) \subseteq S
<1> SUFFICES ASSUME NEW s \in Held(sh, td) PROVE s \in S
    OBVIOUS
<1>1. CASE \E i \in 1 .. Len(sh) : s = sh[i]
    BY <1>1, ElementOfSeq
<1>2. CASE \E j \in 1 .. Len(td) : \E line \in td[j] : \E i \in 1 .. Len(line) : s = line[i]
  <2> DEFINE T == SUBSET Seq(S)
  <2>1. PICK j \in 1 .. Len(td) : \E line \in td[j] : \E i \in 1 .. Len(line) : s = line[i]
      BY <1>2
  <2>5. PICK line \in td[j] : \E i \in 1 .. Len(line) : s = line[i]
      BY <2>1
  <2>2. td \in Seq(T)
      OBVIOUS
  <2> HIDE DEF T
  <2>3. td[j] \in T
      BY <2>2, ElementOfSeq
  <2>4. line \in Seq(S)
      BY <2>3 DEF T
  <2> QED
      BY <2>4, <2>5, ElementOfSeq
<1> QED
    BY <1>1, <1>2, HeldProperties

LEMMA NoAddressFrom ==
    ASSUME NEW S, \A s \in S : s.kind = "mac" => s \in StoresOf(stack),
           todo' \in Seq(SUBSET Seq(S)), stack' \subseteq stack \cup Seq(S)
    PROVE  NoAddress
<1>1. Held(<<>>, todo') \subseteq S
    BY EmptySeq, HeldIn
<1>2. StoresOf(stack') \subseteq StoresOf(stack) \cup S
  <2> SUFFICES ASSUME NEW line \in stack', NEW i \in 1 .. Len(line)
               PROVE  line[i] \in StoresOf(stack) \cup S
      BY DEF StoresOf
  <2>1. CASE line \in stack
      BY <2>1 DEF StoresOf
  <2>2. CASE line \in Seq(S)
      BY <2>2, ElementOfSeq
  <2> QED
      BY <2>1, <2>2
<1> QED
    BY <1>1, <1>2 DEF NoAddress

\* Everything but the handler's lines.
LEMMA BeginStep ==
    ASSUME IndInv, NEW c \in Commands, NEW place, Begin(c, place),
           place = IF c.op \in Configs THEN "fork" ELSE IF c.op = "search" THEN "query" ELSE "reply",
           todo' \in Seq(SUBSET Seq(Fit')), stack' \subseteq Seq(Kept), spoiled' \in BOOLEAN,
           c.op \in Configs => todo' # <<>> \/ c.op = "wifi",
           c.op \notin Configs => todo' = <<>>,
           Complete(c) /\ ~spoiled' =>
              /\ \A j \in 1 .. Len(todo') : \E line \in todo'[j] : todo'[j] = {line}
              /\ Named(c) \subseteq Held(<<>>, todo'),
           IF c.op = "mac" THEN RebootAhead' ELSE NoAddress,
           Lasting', Addressed'
    PROVE  IndInv'
<1>1. /\ srvPc = "select" /\ srvPc' = place /\ cmd' = c /\ SetsFlag(c)
      /\ before' = flash /\ shell' = <<>> /\ result' = "unwritten"
      /\ events' = events + 1
      /\ UNCHANGED <<flash, hw, inForce, hwInForce, unapplied, rebooting>>
      /\ outcome' \in {"whole", "gaveUp", "dead"}
    BY DEF Begin, Count, storage, applied, Ends
<1>2. c.op \in Configs \cup {"search", "check"} /\ c # NoCommand
    BY DEF Commands, NoCommand
<1>3. place \in {"fork", "query", "reply"} /\ (place = "fork" => c.op \in Configs)
      /\ (place = "query" => c.op = "search") /\ (place = "reply" => c.op = "check")
    BY <1>2
<1>4. Fit' \subseteq Stores
    BY DEF Fit
<1>5. TypeOK'
  <2>1. todo' \in Seq(SUBSET Lines)
    <3> DEFINE S == SUBSET Seq(Fit')
               T == SUBSET Lines
    <3>1. S \subseteq T
        BY <1>4, SeqMonotonic DEF Lines
    <3>2. todo' \in Seq(S)
        OBVIOUS
    <3> HIDE DEF S, T
    <3>3. todo' \in Seq(T)
        BY <3>1, <3>2, SeqMonotonic
    <3> QED
        BY <3>3 DEF T
  <2>2. stack' \in SUBSET Lines
    <3>1. Kept \subseteq Stores
        BY DEF Kept
    <3> QED
        BY <3>1, SeqMonotonic DEF Lines
  <2>3. router_init' \in {0, 1} /\ setter' \in Configs \cup {"search", "boot"}
      BY <1>1, <1>2 DEF IndInv, TypeOK, SetsFlag
  <2>4. shell' \in Lines
      BY <1>1 DEF Lines
  <2> QED
      BY <1>1, <1>3, <2>1, <2>2, <2>3, <2>4 DEF IndInv, TypeOK
<1>6. Places'
    BY <1>1, <1>2, <1>3 DEF Places
<1>7. FlagMeans'
  <2>1. FlagMeans
      BY DEF IndInv
  <2>2. CASE c.op \in Configs
    <3>1. router_init' = 1 /\ setter' = c.op /\ c.op # "search"
        BY <1>1, <2>2 DEF SetsFlag, Configs, Wan
    <3> QED
        BY <1>1, <2>2, <3>1 DEF FlagMeans
  <2>3. CASE c.op = "search"
    <3>1. c.op \notin Configs
        BY <2>3 DEF Configs, Wan
    <3>2. router_init' = 0
        BY <1>1, <2>3, <3>1 DEF SetsFlag
    <3> QED
        BY <1>1, <3>1, <3>2 DEF FlagMeans
  <2>4. CASE c.op = "check"
    <3>1. c.op \notin Configs
        BY <2>4 DEF Configs, Wan
    <3>2. UNCHANGED <<router_init, setter>>
        BY <1>1, <2>4, <3>1 DEF SetsFlag
    <3> QED
        BY <1>1, <2>1, <2>4, <3>1, <3>2 DEF FlagMeans
  <2> QED
      BY <1>2, <2>2, <2>3, <2>4
<1>8. Orderly'
    BY <1>1 DEF Orderly
<1>9. (inForce = flash \/ "repeater" \in unapplied) /\ (hwInForce = hw \/ rebooting \/ "reboot" \in unapplied)
    BY <1>1 DEF IndInv, InForce
<1>10. InForce' /\ Still'
    BY <1>1, <1>9 DEF InForce, Still
<1>11. Exactly'
  <2>1. Pending' = Held(<<>>, todo')
      BY <1>1 DEF Pending, Held
  <2> QED
      BY <1>1, <2>1 DEF Exactly, Complete
<1>12. Addresses'
  <2>1. CASE rebooting \/ "reboot" \in unapplied
      BY <1>1, <2>1 DEF Addresses
  <2>2. CASE c.op = "mac"
    <3>1. srvPc' = "fork"
        BY <1>1, <2>2 DEF Configs
    <3> QED
        BY <1>1, <2>2, <3>1 DEF Addresses
  <2>3. CASE c.op # "mac" /\ ~(rebooting \/ "reboot" \in unapplied)
    <3>1. hw = hwInForce /\ \A s \in StoresOf(stack) : s.kind # "mac"
        BY <1>1, <2>3 DEF IndInv, Addresses
    <3>2. Pending' = Held(<<>>, todo')
        BY <1>1 DEF Pending, Held
    <3> QED
        BY <1>1, <2>3, <3>1, <3>2 DEF Addresses, NoAddress
  <2> QED
      BY <2>1, <2>2, <2>3
<1>13. Answers'
    BY <1>1, <1>3 DEF Answers, Configs, Wan
<1> QED
    BY <1>5, <1>6, <1>7, <1>8, <1>10, <1>11, <1>12, <1>13 DEF IndInv

\* A command's lines may lie on the stack.
LEMMA WrittenKept ==
    ASSUME NEW c \in Commands
    PROVE  Written(c) \subseteq Seq(Kept) /\ (c.op \in Wan => WanLine(c) \in Seq(Kept))
<1>1. Named(c) \subseteq Kept
    BY NamedProperties, WishesProperties DEF Kept
<1> QED
    BY <1>1, NamedProperties, SeqMonotonic

LEMMA SetWanStep ==
    ASSUME IndInv, NEW c \in Commands, SetWan(c)
    PROVE  IndInv'
<1> DEFINE S == IF Complete(c) THEN Named(c) ELSE Named(c) \cup StoresOf(stack) \cup Cuts
<1>1. c.op \in Wan /\ c.op \in Configs /\ Begin(c, "fork") /\ cmd' = c /\ spoiled' = FALSE
    BY DEF SetWan, Begin, Configs
<1>2. stack \subseteq Seq(Kept)
    BY DEF IndInv, Orderly
<1>3. stack \subseteq stack' /\ stack' \subseteq Seq(Kept)
    BY <1>1, <1>2, WrittenKept DEF SetWan
<1> DEFINE U == Named(c) \cup StoresOf(stack) \cup Cuts
<1>9. \A s \in U : s.kind = "mac" => s \in StoresOf(stack)
    BY NamedProperties, WishesProperties, CutsProperties
<1>10. stack' \subseteq stack \cup Seq(U)
  <2>1. Written(c) \subseteq Seq(Named(c)) /\ WanLine(c) \in Seq(Named(c))
      BY <1>1, NamedProperties
  <2>2. Written(c) \subseteq Seq(U) /\ WanLine(c) \in Seq(U)
      BY <2>1, SeqMonotonic
  <2> QED
      BY <2>2 DEF SetWan
<1> HIDE DEF U
<1>4. S \subseteq Fit'
    BY <1>1, <1>3, FitProperties
<1>5. WanLine(c) \in Seq(Named(c))
    BY <1>1, NamedProperties
<1>6. Addressed'
    BY <1>1 DEF Addressed, Wan
<1>11. c.op # "mac"
    BY <1>1 DEF Wan
<1>7. CASE c.dev = "box"
  <2>1. todo' = <<{WanLine(c)}>>
      BY <1>7 DEF SetWan
  <2>2. Given(c) = {}
      BY <1>1, <1>7 DEF Given, Wan
  <2>3. WanLine(c) \in Seq(Fit')
      BY <1>5, <1>4, SeqMonotonic
  <2>4. todo' \in Seq(SUBSET Seq(Fit'))
      BY <2>1, <2>3
  <2>5. Len(todo') = 1 /\ todo'[1] = {WanLine(c)} /\ todo' # <<>>
      BY <2>1
  <2>6. Named(c) \subseteq Held(<<>>, todo')
    <3>1. c.op # "enrepeater"
        BY <1>1 DEF Wan
    <3> QED
        BY <2>2, <2>5, <3>1, NamedLines, HeldProperties
  <2>7. \A j \in 1 .. Len(todo') : \E line \in todo'[j] : todo'[j] = {line}
      BY <2>5
  <2>8. NoAddress
    <3>1. Named(c) \subseteq U
        BY DEF U
    <3>2. WanLine(c) \in Seq(U)
        BY <1>5, <3>1, SeqMonotonic
    <3>3. todo' \in Seq(SUBSET Seq(U))
        BY <2>1, <3>2
    <3> QED
        BY <1>9, <1>10, <3>3, NoAddressFrom
  <2>9. Lasting'
      BY <1>1, <2>2 DEF Lasting
  <2> QED
      BY <1>1, <1>3, <1>6, <1>11, <2>4, <2>5, <2>6, <2>7, <2>8, <2>9, BeginStep
<1>8. CASE c.dev = "phone"
  <2>1. todo' = <<ReadsWan(c), ReadsBand("5GHz", c), ReadsBand("2.4GHz", c)>>
      BY <1>8 DEF SetWan
  <2>2. Given(c) = c.bands /\ c.bands \subseteq Bands
      BY <1>1, <1>8 DEF Given, Commands
  <2>3. /\ WanLine(c) \in ReadsWan(c)
        /\ c.op # "ip" => ReadsWan(c) = {WanLine(c)}
        /\ ReadsWan(c) \subseteq Seq(Named(c) \cup Cuts)
    <3>1. WanLine(c) \in ReadsWan(c)
        BY DEF ReadsWan
    <3> QED
        BY <1>1, <1>8, <3>1, ReadsWanProperties
  <2>4. \A b \in Bands :
           /\ b \in c.bands => ReadsBand(b, c) = {BandLine(b, c)} /\ BandLine(b, c) \in Seq(Named(c))
           /\ ReadsBand(b, c) \subseteq Seq(Named(c) \cup StoresOf(stack) \cup Cuts)
      BY <1>1, <1>2, <1>8, ReadsBandProperties
  <2>5. Complete(c) => c.bands = Bands /\ c.op # "ip"
      BY <1>1, <1>8 DEF Complete
  <2>6. Len(todo') = 3 /\ todo' # <<>> /\ todo'[1] = ReadsWan(c)
        /\ todo'[2] = ReadsBand("5GHz", c) /\ todo'[3] = ReadsBand("2.4GHz", c)
      BY <2>1
  <2>7. ReadsWan(c) \subseteq Seq(S)
    <3>1. CASE Complete(c)
        BY <1>5, <2>3, <2>5, <3>1
    <3>2. CASE ~Complete(c)
      <4>1. Named(c) \cup Cuts \subseteq S
          BY <3>2
      <4> HIDE DEF S
      <4> QED
          BY <2>3, <4>1, SeqMonotonic
    <3> QED
        BY <3>1, <3>2
  <2>8. \A b \in Bands : ReadsBand(b, c) \subseteq Seq(S)
      BY <2>4, <2>5
  <2> HIDE DEF S
  <2>9. ReadsWan(c) \subseteq Seq(Fit') /\ \A b \in Bands : ReadsBand(b, c) \subseteq Seq(Fit')
      BY <1>4, <2>7, <2>8, SeqMonotonic
  <2>10. todo' \in Seq(SUBSET Seq(Fit'))
    <3>1. ReadsWan(c) \in SUBSET Seq(Fit') /\ ReadsBand("5GHz", c) \in SUBSET Seq(Fit')
          /\ ReadsBand("2.4GHz", c) \in SUBSET Seq(Fit')
        BY <2>9 DEF Bands
    <3> QED
        BY <2>1, <3>1
  <2>11. ASSUME Complete(c)
         PROVE  /\ \A j \in 1 .. Len(todo') : \E line \in todo'[j] : todo'[j] = {line}
                /\ Named(c) \subseteq Held(<<>>, todo')
    <3>1. todo'[1] = {WanLine(c)} /\ todo'[2] = {BandLine("5GHz", c)} /\ todo'[3] = {BandLine("2.4GHz", c)}
        BY <2>3, <2>4, <2>5, <2>6, <2>11 DEF Bands
    <3>2. \A j \in 1 .. Len(todo') : j = 1 \/ j = 2 \/ j = 3
        BY <2>6
    <3>3. \A j \in 1 .. Len(todo') : \E line \in todo'[j] : todo'[j] = {line}
        BY <3>1, <3>2
    <3>4. WanLine(c) \in todo'[1] /\ \A b \in Given(c) : BandLine(b, c) \in todo'[2] \/ BandLine(b, c) \in todo'[3]
        BY <2>2, <3>1 DEF Bands
    <3>5. 1 \in 1 .. Len(todo') /\ 2 \in 1 .. Len(todo') /\ 3 \in 1 .. Len(todo')
        BY <2>6
    <3>6. Named(c) \subseteq Held(<<>>, todo')
      <4>1. c.op # "enrepeater"
          BY <1>1 DEF Wan
      <4> QED
          BY <3>4, <3>5, <4>1, NamedLines, HeldProperties
    <3> QED
        BY <3>3, <3>6
  <2>12. NoAddress
    <3>1. ReadsWan(c) \subseteq Seq(U)
      <4>1. Named(c) \cup Cuts \subseteq U
          BY DEF U
      <4> QED
          BY <2>3, <4>1, SeqMonotonic
    <3>2. \A b \in Bands : ReadsBand(b, c) \subseteq Seq(U)
        BY <2>4 DEF U
    <3>3. ReadsWan(c) \in SUBSET Seq(U) /\ ReadsBand("5GHz", c) \in SUBSET Seq(U)
          /\ ReadsBand("2.4GHz", c) \in SUBSET Seq(U)
        BY <3>1, <3>2 DEF Bands
    <3>4. todo' \in Seq(SUBSET Seq(U))
        BY <2>1, <3>3
    <3> QED
        BY <1>9, <1>10, <3>4, NoAddressFrom
  <2>13. Lasting'
    <3> SUFFICES ASSUME "2.4GHz" \in c.bands, NEW b \in c.bands
                 PROVE  Ahead(b)'
        BY <1>1, <2>2 DEF Lasting
    <3>1. todo'[3] = {BandLine("2.4GHz", c)} /\ BandLine("2.4GHz", c) \in Seq(Named(c))
        BY <2>4, <2>6 DEF Bands
    <3>2. CASE b = "2.4GHz"
      <4>1. 3 \in 1 .. Len(todo') /\ \A i \in 3 .. Len(todo') : i = 3
          BY <2>6
      <4> QED
          BY <1>1, <3>1, <3>2, <4>1 DEF Ahead
    <3>3. CASE b = "5GHz"
      <4>1. todo'[2] = {BandLine("5GHz", c)} /\ BandLine("5GHz", c) \in Seq(Named(c))
          BY <2>4, <2>6, <3>3 DEF Bands
      <4>2. 2 \in 1 .. Len(todo') /\ \A i \in 2 .. Len(todo') : i = 2 \/ i = 3
          BY <2>6
      <4> QED
          BY <1>1, <3>1, <3>3, <4>1, <4>2 DEF Ahead
    <3> QED
        BY <2>2, <3>2, <3>3 DEF Bands
  <2> QED
      BY <1>1, <1>3, <1>6, <1>11, <2>6, <2>10, <2>11, <2>12, <2>13, BeginStep
<1> QED
    BY <1>7, <1>8 DEF SetWan

\* With a band's line or nothing in each of its places.
LEMMA SetWifiStep ==
    ASSUME IndInv, NEW c \in Commands, SetWifi(c)
    PROVE  IndInv'
<1> DEFINE five == IF "5GHz" \in c.bands THEN <<{BandLine("5GHz", c)}>> ELSE <<>>
           two == IF "2.4GHz" \in c.bands THEN <<{BandLine("2.4GHz", c)}>> ELSE <<>>
           T == {{BandLine(b, c)} : b \in c.bands}
<1>1. c.op = "wifi" /\ c.op \in Configs /\ Begin(c, "fork") /\ cmd' = c /\ spoiled' = FALSE
      /\ todo' = five \o two
    BY DEF SetWifi, Begin, Configs
<1>2. stack \subseteq Seq(Kept) /\ stack' = stack \cup Written(c)
    BY DEF IndInv, Orderly, SetWifi
<1>3. stack \subseteq stack' /\ stack' \subseteq Seq(Kept)
    BY <1>2, WrittenKept
<1>4. Named(c) \subseteq Fit'
    BY <1>1, <1>3, FitProperties
<1>5. Addressed'
    BY <1>1 DEF Addressed
<1>6. Given(c) = c.bands /\ c.bands \subseteq Bands
    BY <1>1 DEF Given, Commands
<1>7. five \in Seq(T) /\ two \in Seq(T)
  <2>1. "5GHz" \in c.bands => {BandLine("5GHz", c)} \in T
      OBVIOUS
  <2>2. "2.4GHz" \in c.bands => {BandLine("2.4GHz", c)} \in T
      OBVIOUS
  <2> HIDE DEF T
  <2> QED
      BY <2>1, <2>2
<1>8. \A X \in T : X \in SUBSET Seq(Fit')
  <2>1. \A b \in c.bands : BandLine(b, c) \in Seq(Fit')
      BY <1>4, <1>6, NamedProperties, SeqMonotonic
  <2> QED
      BY <2>1
<1>9. \A X \in T : \E line \in X : X = {line}
    OBVIOUS
<1>10. \A b \in c.bands : \E j \in 1 .. Len(todo') : BandLine(b, c) \in todo'[j]
  <2>1. ASSUME "5GHz" \in c.bands
        PROVE  \E j \in 1 .. Len(todo') : BandLine("5GHz", c) \in todo'[j]
    <3>1. Len(five) = 1 /\ BandLine("5GHz", c) \in five[1]
        BY <2>1
    <3> HIDE DEF five, two, T
    <3>2. 1 \in 1 .. Len(todo') /\ todo'[1] = five[1]
        BY <1>1, <1>7, <3>1, ConcatProperties, LenProperties
    <3> QED
        BY <3>1, <3>2
  <2>2. ASSUME "2.4GHz" \in c.bands
        PROVE  \E j \in 1 .. Len(todo') : BandLine("2.4GHz", c) \in todo'[j]
    <3>1. Len(two) = 1 /\ BandLine("2.4GHz", c) \in two[1]
        BY <2>2
    <3> HIDE DEF five, two, T
    <3>2. Len(five) \in Nat /\ Len(five) + 1 \in 1 .. Len(todo') /\ todo'[Len(five) + 1] = two[1]
      <4>1. Len(five) \in Nat
          BY <1>7, LenProperties
      <4>2. Len(todo') = Len(five) + Len(two)
            /\ \A i \in 1 .. Len(five) + Len(two) :
                   todo'[i] = IF i <= Len(five) THEN five[i] ELSE two[i - Len(five)]
          BY <1>1, <1>7, ConcatProperties
      <4> QED
          BY <3>1, <4>1, <4>2
    <3> QED
        BY <3>1, <3>2
  <2> QED
      BY <1>6, <2>1, <2>2 DEF Bands
<1> HIDE DEF five, two, T
<1>11. todo' \in Seq(T)
    BY <1>1, <1>7, ConcatProperties
<1>12. todo' \in Seq(SUBSET Seq(Fit'))
    BY <1>8, <1>11, SeqMonotonic
<1>13. \A j \in 1 .. Len(todo') : \E line \in todo'[j] : todo'[j] = {line}
    BY <1>9, <1>11, ElementOfSeq
<1>14. Named(c) \subseteq Held(<<>>, todo')
  <2> SUFFICES ASSUME NEW s \in Named(c) PROVE s \in Held(<<>>, todo')
      OBVIOUS
  <2>1. c.op \notin Wan /\ c.op # "enrepeater"
      BY <1>1 DEF Wan
  <2>2. PICK b \in c.bands : \E i \in 1 .. Len(BandLine(b, c)) : s = BandLine(b, c)[i]
      BY <1>6, <2>1, NamedLines
  <2> QED
      BY <1>10, <2>2, HeldProperties
<1>15. NoAddress
  <2>1. \A X \in T : X \in SUBSET Seq(Named(c))
      BY <1>6, NamedProperties DEF T
  <2>2. todo' \in Seq(SUBSET Seq(Named(c)))
      BY <1>11, <2>1, SeqMonotonic
  <2>3. stack' \subseteq stack \cup Seq(Named(c))
      BY <1>2, NamedProperties
  <2>4. \A s \in Named(c) : s.kind # "mac"
      BY NamedProperties, WishesProperties
  <2> QED
      BY <2>2, <2>3, <2>4, NoAddressFrom
<1>16. Lasting' /\ c.op # "mac"
    BY <1>1 DEF Lasting, Wan
<1> QED
    BY <1>1, <1>3, <1>5, <1>12, <1>13, <1>14, <1>15, <1>16, BeginStep

\* What calc_mac and strcpy make is an address.
LEMMA CopiedProperties ==
    ASSUME NEW base \in Address, NEW n \in Nics, NEW ends \in BOOLEAN, NEW junk \in Address
    PROVE  /\ Derived(base, n) \in Address
           /\ Copied(base, n, ends, junk) \in Address
           /\ Tidy(base, ends) => Copied(base, n, ends, junk) = Derived(base, n)
<1>1. Derived(base, n) \in Address
  <2>1. base[4] + 16 * n \in Int /\ 256 \in Nat \ {0}
      BY DEF Address, Octet, Nics
  <2>2. (base[4] + 16 * n) % 256 \in Octet
      BY <2>1 DEF Octet
  <2> QED
      BY <2>2 DEF Derived, Address
<1>2. CopyToZero(Derived(base, n), junk) \in Address
    BY <1>1 DEF CopyToZero, Address
<1>3. Copied(base, n, ends, junk) \in Address
    BY <1>1, <1>2 DEF Copied
<1>4. Tidy(base, ends) => Copied(base, n, ends, junk) = Derived(base, n)
    BY DEF Tidy, Copied
<1> QED
    BY <1>1, <1>3, <1>4

\* What a command other than the WAN's and the Wi-Fi's begins with.
LEMMA OtherFit ==
    ASSUME NEW c \in Commands, cmd' = c
    PROVE  /\ \A n \in Nics, m \in Address : <<SetMac(n, m)>> \in Seq(Fit')
           /\ <<Reboot>> \in Seq(Fit')
           /\ c.op = "reset" => <<Default>> \in Seq(Fit')
<1>1. \A n \in Nics, m \in Address : SetMac(n, m) \in Fit'
    BY OtherStores DEF Fit
<1>2. Reboot \in Fit'
    BY OtherStores DEF Fit
<1>3. c.op = "reset" => Default \in Fit'
    BY OtherStores DEF Fit
<1> QED
    BY <1>1, <1>2, <1>3

LEMMA SetMacAddrStep ==
    ASSUME IndInv, NEW c \in Commands, SetMacAddr(c)
    PROVE  IndInv'
<1>1. c.op = "mac" /\ c.op \in Configs /\ Begin(c, "fork") /\ cmd' = c /\ shell' = <<>> /\ srvPc' = "fork"
    BY DEF SetMacAddr, Begin, Configs
<1> DEFINE line(n, base, ends, junk) == <<SetMac(n, Copied(base, n, ends, junk[n]))>>
<1>2. PICK base \in Bases, ends \in BOOLEAN, junk \in [Nics -> Junk] :
         /\ todo' = <<{line(1, base, ends, junk)}, {line(2, base, ends, junk)}, {line(3, base, ends, junk)},
                      {line(4, base, ends, junk)}, {<<Reboot>>}>>
         /\ stack' = stack \cup {line(4, base, ends, junk)}
         /\ spoiled' = ~Tidy(base, ends)
    BY DEF SetMacAddr
<1>3. base \in Address /\ \A n \in Nics : junk[n] \in Address
    BY ConfigAssumption
<1>4. \A n \in Nics : Copied(base, n, ends, junk[n]) \in Address
    BY <1>3, CopiedProperties
<1> DEFINE own(n) == line(n, base, ends, junk)
<1>5. \A n \in Nics : own(n) \in Seq(Fit') /\ own(n) \in Seq(Kept)
  <2>1. \A n \in Nics : SetMac(n, Copied(base, n, ends, junk[n])) \in Kept
      BY <1>4, OtherStores DEF Kept
  <2> QED
      BY <1>1, <1>4, <2>1, OtherFit
<1>6. stack' \subseteq Seq(Kept)
  <2>1. own(4) \in Seq(Kept)
      BY <1>5 DEF Nics
  <2>2. stack \subseteq Seq(Kept)
      BY DEF IndInv, Orderly
  <2> QED
      BY <1>2, <2>1, <2>2
<1>7. Tidy(base, ends) => \A n \in Nics : own(n) = MacLine(base, n)
    BY <1>3, CopiedProperties DEF MacLine, Nics
<1> HIDE DEF line, own
<1>8. todo' = <<{own(1)}, {own(2)}, {own(3)}, {own(4)}, {<<Reboot>>}>> /\ <<Reboot>> = MacLine(base, 5)
    BY <1>2 DEF own, MacLine
<1>9. Len(todo') = 5 /\ todo' # <<>>
      /\ todo'[1] = {own(1)} /\ todo'[2] = {own(2)} /\ todo'[3] = {own(3)} /\ todo'[4] = {own(4)}
      /\ todo'[5] = {MacLine(base, 5)}
    BY <1>8
<1>10. todo' \in Seq(SUBSET Seq(Fit'))
  <2>1. {own(1)} \in SUBSET Seq(Fit') /\ {own(2)} \in SUBSET Seq(Fit') /\ {own(3)} \in SUBSET Seq(Fit')
        /\ {own(4)} \in SUBSET Seq(Fit')
      BY <1>5 DEF Nics
  <2>2. {<<Reboot>>} \in SUBSET Seq(Fit')
      BY <1>1, OtherFit
  <2> QED
      BY <1>8, <2>1, <2>2
<1>11. \A j \in 1 .. Len(todo') : j = 1 \/ j = 2 \/ j = 3 \/ j = 4 \/ j = 5
    BY <1>9
<1>12. \A j \in 1 .. Len(todo') : \E x \in todo'[j] : todo'[j] = {x}
    BY <1>9, <1>11
<1>13. Named(c) = {}
    BY <1>1, NamedProperties DEF Wan
<1>14. Addressed'
  <2>1. ASSUME ~spoiled'
        PROVE  Addressing(base)'
    <3>1. Tidy(base, ends)
        BY <1>2, <2>1
    <3>2. Turn' = 0
        BY <1>9 DEF Turn
    <3>3. \A j \in 1 .. Len(todo') : todo'[j] = {MacLine(base, j)}
        BY <1>7, <1>9, <1>11, <3>1 DEF Nics
    <3>4. \A n \in Nics : ~(n < 0 \/ n = 0)
        BY DEF Nics
    <3> QED
        BY <1>1, <1>9, <3>2, <3>3, <3>4 DEF Addressing
  <2> QED
      BY <2>1 DEF Addressed
<1>15. spoiled' \in BOOLEAN
    BY <1>2 DEF Tidy
<1>16. RebootAhead'
  <2>1. todo'[Len(todo')] = {<<Reboot>>}
      BY <1>8, <1>9
  <2> QED
      BY <1>9, <2>1 DEF RebootAhead
<1>17. Lasting'
    BY <1>1 DEF Lasting, Wan
<1> QED
    BY <1>1, <1>6, <1>9, <1>10, <1>12, <1>13, <1>14, <1>15, <1>16, <1>17, BeginStep

\* router_repeater_config stores settings and no addresses.
LEMMA SetRepeaterStep ==
    ASSUME IndInv, NEW c \in Commands, SetRepeater(c)
    PROVE  IndInv'
<1> DEFINE S == {s \in Stores : s.kind = "set"}
           T == Seq(S)
<1>1. c.op = "repeater" /\ c.op \in Configs /\ Begin(c, "fork") /\ cmd' = c /\ spoiled' = FALSE
    BY DEF SetRepeater, Begin, Configs
<1>2. \A k \in {"DHCP", "REPEATER1", "REPEATER2"}, v \in {"0", "2", c.tag} : Set(k, v) \in S
  <2>1. \A k \in {"DHCP", "REPEATER1", "REPEATER2"} : k \in Keys
      BY DEF Keys, RepeaterKeys
  <2>2. \A v \in {"0", "2", c.tag} : v \in Values
      BY DEF Commands, Values
  <2> QED
      BY <2>1, <2>2, SetProperties
<1> HIDE DEF S
<1>3. <<Set("DHCP", "0")>> \in T /\ JoinLine(1, c) \in T /\ JoinLine(2, c) \in T
    BY <1>2 DEF JoinLine
<1>4. <<Set("DHCP", "2")>> \in T /\ <<Set("REPEATER1", "0")>> \in T /\ <<Set("REPEATER2", "0")>> \in T
    BY <1>2
<1>5. PICK heard \in {<<>>, <<JoinLine(1, c)>>, <<JoinLine(2, c)>>}, undone \in {<<>>, LeaveLines} :
         LET lines == <<<<Set("DHCP", "0")>>>> \o heard \o undone IN
         /\ todo' = [i \in 1 .. Len(lines) |-> {lines[i]}]
         /\ stack' = stack \cup {lines[i] : i \in 1 .. Len(lines)}
    BY DEF SetRepeater
<1> DEFINE first == <<<<Set("DHCP", "0")>>>>
           lines == first \o heard \o undone
<1>6. first \in Seq(T)
  <2> HIDE DEF T
  <2> QED
      BY <1>3
<1>7. heard \in Seq(T)
  <2> HIDE DEF T
  <2>1. <<>> \in Seq(T) /\ <<JoinLine(1, c)>> \in Seq(T) /\ <<JoinLine(2, c)>> \in Seq(T)
      BY <1>3
  <2> QED
      BY <1>5, <2>1
<1>8. undone \in Seq(T)
  <2> HIDE DEF T
  <2>1. <<>> \in Seq(T) /\ LeaveLines \in Seq(T)
      BY <1>4 DEF LeaveLines
  <2> QED
      BY <1>5, <2>1
<1> HIDE DEF T, first
<1>9. lines \in Seq(T) /\ Len(lines) > 0
  <2>1. first \o heard \in Seq(T) /\ Len(first \o heard) = Len(first) + Len(heard)
      BY <1>6, <1>7, ConcatProperties
  <2>2. lines \in Seq(T) /\ Len(lines) = Len(first \o heard) + Len(undone)
      BY <1>8, <2>1, ConcatProperties
  <2>3. Len(first) = 1
      BY DEF first
  <2>4. Len(heard) \in Nat /\ Len(undone) \in Nat
      BY <1>7, <1>8, LenProperties
  <2> QED
      BY <2>1, <2>2, <2>3, <2>4
<1>10. /\ todo' = [i \in 1 .. Len(lines) |-> {lines[i]}]
       /\ stack' = stack \cup {lines[i] : i \in 1 .. Len(lines)}
    BY <1>5 DEF first
<1> HIDE DEF lines
<1>11. \A i \in 1 .. Len(lines) : lines[i] \in T
    BY <1>9, ElementOfSeq
<1>12. Len(lines) \in Nat
    BY <1>9, LenProperties
<1>13. todo' \in Seq(SUBSET T) /\ Len(todo') = Len(lines)
  <2>1. todo' \in [1 .. Len(lines) -> SUBSET T]
      BY <1>10, <1>11
  <2> QED
      BY <1>12, <2>1, SeqDef, LenProperties
<1>14. todo' # <<>>
    BY <1>9, <1>13, EmptySeq
<1>15. S \subseteq Kept /\ S \subseteq Fit'
    BY <1>1 DEF S, Kept, Fit, Complete, Configs, Wan
<1>16. todo' \in Seq(SUBSET Seq(Fit'))
  <2>1. SUBSET T \subseteq SUBSET Seq(Fit')
      BY <1>15, SeqMonotonic DEF T
  <2> DEFINE A == SUBSET T
             B == SUBSET Seq(Fit')
  <2>2. A \subseteq B /\ todo' \in Seq(A)
      BY <1>13, <2>1
  <2> HIDE DEF A, B
  <2>3. todo' \in Seq(B)
      BY <2>2, SeqMonotonic
  <2> QED
      BY <2>3 DEF B
<1>17. stack' \subseteq stack \cup T
    BY <1>10, <1>11
<1>18. stack' \subseteq Seq(Kept)
  <2>1. T \subseteq Seq(Kept)
      BY <1>15, SeqMonotonic DEF T
  <2> QED
      BY <1>17, <2>1 DEF IndInv, Orderly
<1>19. NoAddress
  <2>1. \A s \in S : s.kind = "mac" => s \in StoresOf(stack)
      BY DEF S
  <2>2. todo' \in Seq(SUBSET Seq(S)) /\ stack' \subseteq stack \cup Seq(S)
      BY <1>13, <1>17 DEF T
  <2> QED
      BY <2>1, <2>2, NoAddressFrom
<1>20. Addressed' /\ Lasting' /\ ~Complete(c) /\ c.op # "mac"
    BY <1>1 DEF Addressed, Lasting, Complete, Wan
<1>21. spoiled' \in BOOLEAN
    BY <1>1
<1> QED
    BY <1>1, <1>14, <1>16, <1>18, <1>19, <1>20, <1>21, BeginStep

LEMMA LeaveNetworkStep ==
    ASSUME IndInv, NEW c \in Commands, LeaveNetwork(c)
    PROVE  IndInv'
<1>1. c.op = "enrepeater" /\ c.op \in Configs /\ Begin(c, "fork") /\ cmd' = c /\ spoiled' = FALSE
      /\ todo' = [i \in 1 .. 3 |-> {LeaveLines[i]}]
    BY DEF LeaveNetwork, Begin, Configs
<1>2. stack \subseteq Seq(Kept) /\ stack' = stack \cup Written(c)
    BY DEF IndInv, Orderly, LeaveNetwork
<1>3. stack \subseteq stack' /\ stack' \subseteq Seq(Kept)
    BY <1>2, WrittenKept
<1>4. Named(c) \subseteq Fit'
    BY <1>1, <1>3, FitProperties
<1>5. \A i \in 1 .. 3 : LeaveLines[i] \in Seq(Named(c))
    BY <1>1, NamedProperties
<1>6. todo' \in Seq(SUBSET Seq(Named(c))) /\ Len(todo') = 3 /\ todo' # <<>>
  <2> DEFINE T == SUBSET Seq(Named(c))
  <2>1. \A i \in 1 .. 3 : {LeaveLines[i]} \in T
      BY <1>5
  <2> HIDE DEF T
  <2>2. todo' \in [1 .. 3 -> T]
      BY <1>1, <2>1
  <2>3. todo' \in Seq(T) /\ Len(todo') = 3
    <3>1. todo' = <<{LeaveLines[1]}, {LeaveLines[2]}, {LeaveLines[3]}>>
        BY <1>1
    <3>2. {LeaveLines[1]} \in T /\ {LeaveLines[2]} \in T /\ {LeaveLines[3]} \in T
        BY <2>1
    <3> QED
        BY <3>1, <3>2
  <2>4. todo' # <<>>
      BY <2>3, EmptySeq
  <2> QED
      BY <2>3, <2>4 DEF T
<1>7. todo' \in Seq(SUBSET Seq(Fit'))
  <2> DEFINE A == SUBSET Seq(Named(c))
             B == SUBSET Seq(Fit')
  <2>1. A \subseteq B /\ todo' \in Seq(A)
      BY <1>4, <1>6, SeqMonotonic
  <2> HIDE DEF A, B
  <2>2. todo' \in Seq(B)
      BY <2>1, SeqMonotonic
  <2> QED
      BY <2>2 DEF B
<1>8. \A j \in 1 .. Len(todo') : todo'[j] = {LeaveLines[j]}
    BY <1>1, <1>6
<1>9. \A j \in 1 .. Len(todo') : \E line \in todo'[j] : todo'[j] = {line}
    BY <1>8
<1>10. Named(c) \subseteq Held(<<>>, todo')
  <2> SUFFICES ASSUME NEW s \in Named(c) PROVE s \in Held(<<>>, todo')
      OBVIOUS
  <2>1. c.op \notin Wan /\ Given(c) = {}
      BY <1>1 DEF Wan, Given
  <2>2. PICK n \in 1 .. 3 : \E i \in 1 .. Len(LeaveLines[n]) : s = LeaveLines[n][i]
      BY <2>1, NamedLines
  <2>3. n \in 1 .. Len(todo') /\ LeaveLines[n] \in todo'[n]
      BY <1>6, <1>8
  <2> QED
      BY <2>2, <2>3, HeldProperties
<1>11. NoAddress
  <2>1. stack' \subseteq stack \cup Seq(Named(c))
      BY <1>2, NamedProperties
  <2>2. \A s \in Named(c) : s.kind # "mac"
      BY NamedProperties, WishesProperties
  <2> QED
      BY <1>6, <2>1, <2>2, NoAddressFrom
<1>12. Addressed' /\ Lasting' /\ c.op # "mac"
    BY <1>1 DEF Addressed, Lasting, Wan
<1> QED
    BY <1>1, <1>3, <1>6, <1>7, <1>9, <1>10, <1>11, <1>12, BeginStep

LEMMA ResetOrRebootStep ==
    ASSUME IndInv, NEW c \in Commands, ResetOrReboot(c)
    PROVE  IndInv'
<1>1. c.op \in {"reset", "reboot"} /\ c.op \in Configs /\ Begin(c, "fork") /\ cmd' = c /\ spoiled' = FALSE
    BY DEF ResetOrReboot, Begin, Configs
<1> DEFINE line == IF c.op = "reset" THEN <<Default>> ELSE <<Reboot>>
<1>2. line \in Seq(Fit')
    BY <1>1, OtherFit
<1>3. todo' = <<{line}>> /\ stack' \subseteq Seq(Kept)
    BY DEF ResetOrReboot, IndInv, Orderly
<1> HIDE DEF line
<1>4. todo' \in Seq(SUBSET Seq(Fit')) /\ todo' # <<>> /\ Len(todo') = 1 /\ todo'[1] = {line}
    BY <1>2, <1>3
<1>5. \A j \in 1 .. Len(todo') : \E x \in todo'[j] : todo'[j] = {x}
    BY <1>4
<1>6. Named(c) = {}
    BY <1>1, NamedProperties DEF Wan
<1>7. Addressed' /\ Lasting' /\ c.op # "mac"
    BY <1>1 DEF Addressed, Lasting, Wan
<1>8. NoAddress
  <2> DEFINE S == {Default, Reboot}
  <2>1. \A s \in S : s.kind = "mac" => s \in StoresOf(stack)
      BY OtherStores
  <2>5. Default \in S /\ Reboot \in S
      OBVIOUS
  <2> HIDE DEF S
  <2>2. line \in Seq(S)
      BY <2>5 DEF line
  <2>3. todo' \in Seq(SUBSET Seq(S))
      BY <1>3, <2>2
  <2>4. stack' \subseteq stack \cup Seq(S)
      BY DEF ResetOrReboot
  <2> QED
      BY <2>1, <2>3, <2>4, NoAddressFrom
<1> QED
    BY <1>1, <1>3, <1>4, <1>5, <1>6, <1>7, <1>8, BeginStep

LEMMA AskStep ==
    ASSUME IndInv, NEW c \in Commands, Ask(c)
    PROVE  IndInv'
<1>1. c.op \in {"search", "check"} /\ cmd' = c /\ spoiled' = FALSE /\ todo' = <<>> /\ stack' \subseteq Seq(Kept)
      /\ Begin(c, IF c.op = "search" THEN "query" ELSE "reply")
    BY DEF Ask, Begin, IndInv, Orderly
<1>2. c.op \notin Configs
    BY <1>1 DEF Configs, Wan
<1>3. todo' \in Seq(SUBSET Seq(Fit')) /\ Len(todo') = 0
    BY <1>1
<1>4. Named(c) = {}
    BY <1>1, NamedProperties DEF Wan
<1>5. Addressed' /\ Lasting' /\ c.op # "mac"
    BY <1>1 DEF Addressed, Lasting, Wan
<1>6. \A j \in 1 .. Len(todo') : \E x \in todo'[j] : todo'[j] = {x}
    BY <1>3
<1>8. NoAddress
  <2> DEFINE S == {}
  <2>1. todo' \in Seq(SUBSET Seq(S)) /\ stack' \subseteq stack \cup Seq(S)
      BY <1>1 DEF Ask
  <2>2. \A s \in S : s.kind = "mac" => s \in StoresOf(stack)
      OBVIOUS
  <2> HIDE DEF S
  <2> QED
      BY <2>1, <2>2, NoAddressFrom
<1>7. Begin(c, IF c.op \in Configs THEN "fork" ELSE IF c.op = "search" THEN "query" ELSE "reply")
    BY <1>1, <1>2
<1> QED
    BY <1>1, <1>2, <1>3, <1>4, <1>5, <1>6, <1>7, <1>8, BeginStep

-----------------------------------------------------------------------------
(* A command is executed                                                   *)

\* The command, what lies on the stack and the flag stay the same meanwhile.
LEMMA ServerSame ==
    ASSUME IndInv, UNCHANGED server
    PROVE  /\ cmd' = cmd /\ stack' = stack /\ before' = before /\ Fit' = Fit
           /\ FlagMeans'
           /\ cmd # NoCommand => cmd \in Commands
BY DEF server, Fit, IndInv, FlagMeans, TypeOK

LEMMA PlacesOf ==
    ASSUME IndInv
    PROVE  /\ srvPc \in {"fork", "shell"} => cmd.op \in Configs /\ cmd \in Commands
           /\ srvPc \in {"query", "script", "reply"} => cmd \in Commands
           /\ Fit \subseteq Stores
<1>1. TypeOK /\ Places
    BY DEF IndInv
<1> QED
    BY <1>1 DEF Places, TypeOK, Fit

LEMMA ForkStep ==
    ASSUME IndInv, Fork
    PROVE  IndInv'
<1> DEFINE forked == srvPc' = "shell" /\ shell' \in Head(todo) /\ UNCHANGED <<result, spoiled, unapplied, events>>
           failed == /\ Count /\ result' = "fail" /\ spoiled' = TRUE /\ Lost(Head(todo) = {<<Reboot>>})
                     /\ UNCHANGED <<srvPc, shell>>
<1>1. srvPc = "fork" /\ todo # <<>> /\ todo' = Tail(todo) /\ (forked \/ failed)
      /\ UNCHANGED <<flash, hw, inForce, hwInForce, rebooting>> /\ UNCHANGED server
    BY DEF Fork, storage
<1>15. /\ unapplied \subseteq unapplied' /\ unapplied' \subseteq unapplied \cup {"reboot"}
       /\ failed /\ Head(todo) = {<<Reboot>>} => "reboot" \in unapplied'
    BY <1>1 DEF Lost
<1>2. cmd' = cmd /\ stack' = stack /\ before' = before /\ Fit' = Fit /\ FlagMeans'
    BY <1>1, ServerSame
<1>3. shell = <<>> /\ cmd.op \in Configs /\ cmd \in Commands
    BY <1>1, PlacesOf DEF IndInv, Places
<1>4. todo \in Seq(SUBSET Seq(Fit)) /\ Len(todo) \in Nat \ {0}
  <2>1. todo \in Seq(SUBSET Seq(Fit))
      BY DEF IndInv, Orderly
  <2> QED
      BY <1>1, <2>1, EmptySeq
<1>5. /\ Head(todo) = todo[1] /\ Head(todo) \in SUBSET Seq(Fit)
      /\ todo' \in Seq(SUBSET Seq(Fit)) /\ Len(todo') = Len(todo) - 1
      /\ \A j \in 1 .. Len(todo') : todo'[j] = todo[j + 1]
  <2> DEFINE T == SUBSET Seq(Fit)
  <2>1. todo \in Seq(T)
      BY <1>4
  <2> HIDE DEF T
  <2>2. Head(todo) \in T /\ Tail(todo) \in Seq(T) /\ Len(Tail(todo)) = Len(todo) - 1
        /\ \A j \in 1 .. Len(Tail(todo)) : Tail(todo)[j] = todo[j + 1]
      BY <1>1, <2>1, HeadTailProperties
  <2>3. Head(todo) = todo[1]
      BY <1>1, <2>1
  <2> QED
      BY <1>1, <2>2, <2>3 DEF T
<1>6. shell' \in Seq(Fit)
  <2>1. CASE forked
      BY <1>5, <2>1
  <2>2. CASE failed
    <3>1. shell' = <<>>
        BY <1>3, <2>2
    <3> QED
        BY <3>1, EmptySeq
  <2> QED
      BY <1>1, <2>1, <2>2
<1>7. TypeOK'
  <2>1. TypeOK
      BY DEF IndInv
  <2>2. todo' \in Seq(SUBSET Lines)
    <3> DEFINE S == SUBSET Lines
    <3>1. todo \in Seq(S)
        BY <2>1 DEF TypeOK
    <3> HIDE DEF S
    <3>2. Tail(todo) \in Seq(S)
        BY <1>1, <3>1, HeadTailProperties
    <3> QED
        BY <1>1, <3>2 DEF S
  <2>3. shell' \in Lines
      BY <1>6, PlacesOf, SeqMonotonic DEF Lines
  <2>4. events' \in Nat /\ spoiled' \in BOOLEAN /\ result' \in {"unwritten", "success", "fail"}
        /\ srvPc' \in {"fork", "shell"} /\ unapplied' \subseteq {"repeater", "reboot"}
    <3>1. CASE forked
        BY <2>1, <3>1 DEF TypeOK
    <3>2. CASE failed
        BY <1>1, <1>15, <2>1, <3>2 DEF TypeOK, Count
    <3> QED
        BY <1>1, <3>1, <3>2
  <2> QED
      BY <1>1, <2>1, <2>2, <2>3, <2>4 DEF TypeOK, server
<1>8. Places'
    BY <1>1, <1>2, <1>3 DEF Places, NoCommand, Configs, Wan
<1>9. Orderly'
    BY <1>2, <1>5, <1>6 DEF IndInv, Orderly
<1>10. InForce' /\ Still'
    BY <1>1, <1>2, <1>15 DEF IndInv, InForce, Still
<1>16. Pending' \subseteq Pending
  <2> SUFFICES ASSUME NEW s \in Pending' PROVE s \in Pending
      OBVIOUS
  <2>1. s \in Held(shell', todo')
      BY DEF Pending, Held
  <2>2. CASE \E i \in 1 .. Len(shell') : s = shell'[i]
    <3>1. CASE forked
      <4>1. shell' \in todo[1] /\ 1 \in 1 .. Len(todo)
          BY <1>4, <1>5, <3>1
      <4>2. s \in Held(shell, todo)
          BY <2>2, <4>1, HeldProperties
      <4> QED
          BY <4>2 DEF Pending, Held
    <3>2. CASE failed
      <4>1. shell' = shell
          BY <3>2
      <4>2. s \in Held(shell, todo)
          BY <2>2, <4>1, HeldProperties
      <4> QED
          BY <4>2 DEF Pending, Held
    <3> QED
        BY <1>1, <3>1, <3>2
  <2>3. CASE \E j \in 1 .. Len(todo') : \E line \in todo'[j] : \E i \in 1 .. Len(line) : s = line[i]
    <3>1. PICK j \in 1 .. Len(todo') : \E line \in todo'[j] : \E i \in 1 .. Len(line) : s = line[i]
        BY <2>3
    <3>2. j + 1 \in 1 .. Len(todo) /\ todo'[j] = todo[j + 1]
        BY <1>4, <1>5
    <3>3. s \in Held(shell, todo)
        BY <3>1, <3>2, HeldProperties
    <3> QED
        BY <3>3 DEF Pending, Held
  <2> QED
      BY <2>1, <2>2, <2>3, HeldProperties
<1>17. Addresses'
  <2>1. CASE rebooting \/ "reboot" \in unapplied
      BY <1>1, <1>15, <2>1 DEF Addresses
  <2>2. CASE cmd.op = "mac" /\ RebootAhead
    <3>1. todo[Len(todo)] = {<<Reboot>>}
      <4>1. shell # <<Reboot>>
        <5>1. Len(shell) = 0 /\ Len(<<Reboot>>) = 1
            BY <1>3
        <5> QED
            BY <5>1
      <4> QED
          BY <2>2, <4>1 DEF RebootAhead
    <3>2. CASE Len(todo) = 1
      <4>1. Head(todo) = {<<Reboot>>}
          BY <1>5, <3>1, <3>2
      <4>2. CASE forked
        <5>1. shell' = <<Reboot>> /\ srvPc' = "shell"
            BY <4>1, <4>2
        <5> QED
            BY <1>2, <2>2, <5>1 DEF Addresses, RebootAhead
      <4>3. CASE failed
          BY <1>15, <4>1, <4>3 DEF Addresses
      <4> QED
          BY <1>1, <4>2, <4>3
    <3>3. CASE Len(todo) # 1
      <4>1. Len(todo') > 0 /\ todo'[Len(todo')] = {<<Reboot>>}
        <5>1. Len(todo') \in 1 .. Len(todo') /\ Len(todo') + 1 = Len(todo)
            BY <1>4, <1>5, <3>3
        <5> QED
            BY <1>5, <3>1, <5>1
      <4>2. srvPc' \in {"fork", "shell"}
          BY <1>1
      <4> QED
          BY <1>2, <2>2, <4>1, <4>2 DEF Addresses, RebootAhead
    <3> QED
        BY <3>2, <3>3
  <2>3. CASE hw = hwInForce /\ \A s \in StoresOf(stack) \cup Pending : s.kind # "mac"
    <3>1. StoresOf(stack)' = StoresOf(stack)
        BY <1>2 DEF StoresOf
    <3> QED
        BY <1>1, <1>16, <2>3, <3>1 DEF Addresses
  <2> QED
      BY <2>1, <2>2, <2>3 DEF IndInv, Addresses
<1>11. Exactly'
  <2> SUFFICES ASSUME Complete(cmd), ~spoiled'
               PROVE  /\ \A j \in 1 .. Len(todo') : \E line \in todo'[j] : todo'[j] = {line}
                      /\ \A s \in Named(cmd) : flash[s.key] = s.value \/ s \in Pending'
                      /\ \A k \in Keys : (\A s \in Named(cmd) : s.key # k) => flash[k] = before[k]
      BY <1>1, <1>2 DEF Exactly
  <2>1. ~spoiled /\ shell' \in todo[1]
      BY <1>1, <1>5
  <2>2. /\ \A j \in 1 .. Len(todo) : \E line \in todo[j] : todo[j] = {line}
        /\ \A s \in Named(cmd) : flash[s.key] = s.value \/ s \in Pending
        /\ \A k \in Keys : (\A s \in Named(cmd) : s.key # k) => flash[k] = before[k]
      BY <2>1 DEF IndInv, Exactly
  <2>3. \A j \in 1 .. Len(todo') : j + 1 \in 1 .. Len(todo) /\ todo'[j] = todo[j + 1]
      BY <1>4, <1>5
  <2>4. \A j \in 1 .. Len(todo') : \E line \in todo'[j] : todo'[j] = {line}
      BY <2>2, <2>3
  <2>5. ASSUME NEW s \in Pending
        PROVE  s \in Pending'
    <3>1. s \in Held(shell, todo)
        BY DEF Pending, Held
    <3>2. Len(shell) = 0
        BY <1>3
    <3>3. PICK j \in 1 .. Len(todo) : \E line \in todo[j] : \E i \in 1 .. Len(line) : s = line[i]
        BY <3>1, <3>2, HeldProperties
    <3>4. CASE j = 1
      <4>1. todo[1] = {shell'}
          BY <2>1, <2>2, <3>4
      <4>2. \E i \in 1 .. Len(shell') : s = shell'[i]
          BY <3>3, <3>4, <4>1
      <4> QED
          BY <4>2, HeldProperties DEF Pending, Held
    <3>5. CASE j # 1
      <4>1. j - 1 \in 1 .. Len(todo') /\ todo'[j - 1] = todo[j]
          BY <1>4, <1>5, <3>5
      <4>2. s \in Held(shell', todo')
          BY <3>3, <4>1, HeldProperties
      <4> QED
          BY <4>2 DEF Pending, Held
    <3> QED
        BY <3>4, <3>5
  <2> QED
      BY <2>2, <2>4, <2>5
<1>12. Lasting'
  <2> SUFFICES ASSUME cmd.op \in Wan, "2.4GHz" \in Given(cmd), ~spoiled', NEW b \in Given(cmd)
               PROVE  Ahead(b)' \/ Settled(b)'
      BY <1>2 DEF Lasting
  <2>1. ~spoiled /\ forked
      BY <1>1
  <2>2. Ahead(b) \/ Settled(b)
      BY <2>1 DEF IndInv, Lasting
  <2>3. shell' \in todo[1] /\ 1 \in 1 .. Len(todo)
      BY <1>4, <1>5, <2>1
  <2>4. \A j \in 1 .. Len(todo') : j + 1 \in 1 .. Len(todo) /\ todo'[j] = todo[j + 1]
      BY <1>4, <1>5
  <2>5. CASE Ahead(b)
    <3>1. PICK j \in 1 .. Len(todo) :
             todo[j] = {BandLine(b, cmd)} /\ \A i \in j .. Len(todo) : todo[i] \subseteq Seq(Named(cmd))
        BY <2>5 DEF Ahead
    <3>2. CASE j = 1
      <4>1. shell' = BandLine(b, cmd) /\ shell' \in Seq(Named(cmd))
        <5>1. 1 \in j .. Len(todo)
            BY <2>3, <3>2
        <5> QED
            BY <2>3, <3>1, <3>2, <5>1
      <4>2. \A i \in 1 .. Len(todo') : todo'[i] \subseteq Seq(Named(cmd))
        <5> SUFFICES ASSUME NEW i \in 1 .. Len(todo') PROVE todo'[i] \subseteq Seq(Named(cmd))
            OBVIOUS
        <5>1. i + 1 \in j .. Len(todo)
            BY <1>4, <1>5, <3>2
        <5> QED
            BY <2>4, <3>1, <5>1
      <4> QED
          BY <1>2, <4>1, <4>2 DEF Settled, StoresOf
    <3>3. CASE j # 1
      <4>1. j - 1 \in 1 .. Len(todo') /\ todo'[j - 1] = {BandLine(b, cmd)}
          BY <1>4, <1>5, <3>1, <3>3
      <4>2. \A i \in j - 1 .. Len(todo') : todo'[i] \subseteq Seq(Named(cmd))
        <5> SUFFICES ASSUME NEW i \in j - 1 .. Len(todo') PROVE todo'[i] \subseteq Seq(Named(cmd))
            OBVIOUS
        <5>1. i \in 1 .. Len(todo') /\ i + 1 \in j .. Len(todo)
            BY <1>4, <1>5, <3>3
        <5> QED
            BY <2>4, <3>1, <5>1
      <4> QED
          BY <1>2, <4>1, <4>2 DEF Ahead
    <3> QED
        BY <3>2, <3>3
  <2>6. CASE Settled(b)
    <3>1. \A i \in 1 .. Len(todo) : todo[i] \subseteq Seq(Named(cmd))
        BY <2>6 DEF Settled
    <3>2. shell' \in Seq(Named(cmd)) /\ \A i \in 1 .. Len(todo') : todo'[i] \subseteq Seq(Named(cmd))
        BY <2>3, <2>4, <3>1
    <3>3. \A s : s \notin StoresOf({shell})
      <4>1. Len(shell) = 0
          BY <1>3
      <4> QED
          BY <4>1 DEF StoresOf
    <3>4. \A s \in StoresOf({BandLine(b, cmd)}) : flash'[s.key] = s.value
        BY <1>1, <2>6, <3>3 DEF Settled
    <3>5. StoresOf({BandLine(b, cmd)})' = StoresOf({BandLine(b, cmd)}) /\ Named(cmd)' = Named(cmd)
        BY <1>2
    <3> QED
        BY <1>2, <3>2, <3>4, <3>5 DEF Settled
  <2> QED
      BY <2>2, <2>5, <2>6
<1>13. Answers'
    BY <1>1 DEF IndInv, Answers
<1>14. Addressed'
  <2> SUFFICES ASSUME cmd.op = "mac", ~spoiled'
               PROVE  \E base \in Bases : Addressing(base)'
      BY <1>2 DEF Addressed
  <2>1. ~spoiled /\ shell' \in todo[1]
      BY <1>1, <1>5
  <2>2. PICK base \in Bases : Addressing(base)
      BY <1>1, <2>1 DEF IndInv, Addressed
  <2>3. Turn \in 0 .. 5 /\ Turn' = Turn + 1 /\ Turn' \in 0 .. 5
      BY <1>4, <1>5, <2>2 DEF Addressing, Turn
  <2>4. \A j \in 1 .. Len(todo') : todo'[j] = {MacLine(base, Turn' + j)}
    <3> SUFFICES ASSUME NEW j \in 1 .. Len(todo') PROVE todo'[j] = {MacLine(base, Turn' + j)}
        OBVIOUS
    <3>1. j + 1 \in 1 .. Len(todo) /\ todo'[j] = todo[j + 1]
        BY <1>4, <1>5
    <3>2. todo[j + 1] = {MacLine(base, Turn + (j + 1))}
        BY <2>2, <3>1 DEF Addressing
    <3>3. Turn + (j + 1) = Turn' + j
        BY <2>3, <1>4, <1>5
    <3> QED
        BY <3>1, <3>2, <3>3
  <2>5. shell' = MacLine(base, Turn')
    <3>1. 1 \in 1 .. Len(todo)
        BY <1>4
    <3> QED
        BY <2>1, <2>2, <2>3, <3>1 DEF Addressing
  <2>6. shell' # <<>>
      BY <2>5 DEF MacLine
  <2>7. \A n \in Nics : n < Turn' => n < Turn \/ n = Turn
      BY <2>3 DEF Nics
  <2>8. \A n \in Nics : n < Turn' \/ (n = Turn' /\ shell' = <<>>) => hw'[n] = Derived(base, n)
      BY <1>1, <1>3, <2>2, <2>6, <2>7 DEF Addressing
  <2> QED
      BY <2>3, <2>4, <2>5, <2>8 DEF Addressing
<1> QED
    BY <1>2, <1>7, <1>8, <1>9, <1>10, <1>11, <1>12, <1>13, <1>14, <1>17 DEF IndInv

\* The shell executes a command of its line, or loses it.
LEMMA ShellStep ==
    ASSUME IndInv, Shell
    PROVE  IndInv'
<1> DEFINE s0 == Head(shell)
           stored == Takes(s0) /\ UNCHANGED <<spoiled, unapplied, events>>
           lost == Count /\ spoiled' = TRUE /\ Lost(s0 = Reboot) /\ UNCHANGED <<flash, hw, rebooting>>
<1>1. srvPc = "shell" /\ srvPc' = "shell" /\ shell # <<>> /\ shell' = Tail(shell) /\ (stored \/ lost)
      /\ UNCHANGED <<todo, result, inForce, hwInForce>> /\ UNCHANGED server
    BY DEF Shell, storage
<1>19. /\ unapplied \subseteq unapplied' /\ unapplied' \subseteq unapplied \cup {"reboot"}
    BY <1>1 DEF Lost
<1>2. cmd' = cmd /\ stack' = stack /\ before' = before /\ Fit' = Fit /\ FlagMeans'
    BY <1>1, ServerSame
<1>3. cmd.op \in Configs /\ cmd \in Commands
    BY <1>1, PlacesOf
<1>4. /\ s0 \in Fit /\ s0 = shell[1] /\ shell' \in Seq(Fit) /\ Len(shell) \in Nat \ {0}
      /\ Len(shell') = Len(shell) - 1 /\ \A i \in 1 .. Len(shell') : shell'[i] = shell[i + 1]
  <2> HIDE DEF s0
  <2>1. shell \in Seq(Fit)
      BY DEF IndInv, Orderly
  <2>2. Head(shell) \in Fit /\ Tail(shell) \in Seq(Fit) /\ Len(Tail(shell)) = Len(shell) - 1
        /\ \A i \in 1 .. Len(Tail(shell)) : Tail(shell)[i] = shell[i + 1]
      BY <1>1, <2>1, HeadTailProperties
  <2>3. Head(shell) = shell[1]
      BY <2>1
  <2>4. Len(shell) \in Nat \ {0}
      BY <1>1, <2>1, EmptySeq
  <2> QED
      BY <1>1, <2>2, <2>3, <2>4 DEF s0
<1>5. s0 \in Stores
    BY <1>4, PlacesOf
<1> HIDE DEF s0
<1>6. /\ s0.kind \in {"set", "mac", "default", "reboot"}
      /\ s0.kind = "set" => s0.key \in Keys /\ s0.value \in Values /\ s0 = Set(s0.key, s0.value)
      /\ s0.kind = "mac" => s0.nic \in Nics /\ s0.addr \in Address
    BY <1>5, StoreKinds
<1>7. /\ s0.kind = "default" => cmd.op = "reset"
      /\ s0.kind = "set" =>
           /\ cmd.op \notin {"mac", "reboot"}
           /\ Complete(cmd) => s0 \in Named(cmd)
    BY <1>4 DEF Fit
<1>8. TypeOK
    BY DEF IndInv
<1>9. \/ s0.kind = "set" /\ flash' = [flash EXCEPT ![s0.key] = s0.value]
      \/ s0.kind = "default" /\ flash' = [k \in Keys |-> "default"]
      \/ s0.kind \notin {"set", "default"} /\ flash' = flash
      \/ lost
    BY <1>1 DEF Takes
<1>10. TypeOK'
  <2>1. flash' \in [Keys -> Values]
    <3>1. "default" \in Values
        BY DEF Values
    <3> QED
        BY <1>6, <1>8, <1>9, <3>1 DEF TypeOK
  <2>2. hw' \in [Nics -> Address] /\ rebooting' \in BOOLEAN
    <3>1. hw \in [Nics -> Address] /\ rebooting \in BOOLEAN
        BY <1>8 DEF TypeOK
    <3>2. CASE stored
        BY <1>6, <3>1, <3>2 DEF Takes
    <3>3. CASE lost
        BY <3>1, <3>3
    <3> QED
        BY <1>1, <3>2, <3>3
  <2>3. shell' \in Lines
      BY <1>4, PlacesOf, SeqMonotonic DEF Lines
  <2>4. events' \in Nat /\ spoiled' \in BOOLEAN /\ unapplied' \subseteq {"repeater", "reboot"}
    <3>1. events \in Nat /\ spoiled \in BOOLEAN /\ unapplied \subseteq {"repeater", "reboot"}
        BY <1>8 DEF TypeOK
    <3>2. CASE stored
        BY <3>1, <3>2
    <3>3. CASE lost
        BY <1>19, <3>1, <3>3 DEF Count
    <3> QED
        BY <1>1, <3>2, <3>3
  <2> QED
      BY <1>1, <1>8, <2>1, <2>2, <2>3, <2>4 DEF TypeOK, server
<1>11. Places'
    BY <1>1, <1>2, <1>3 DEF Places, NoCommand, Configs, Wan
<1>12. Orderly'
    BY <1>1, <1>2, <1>4 DEF IndInv, Orderly
<1>13. InForce'
    BY <1>1 DEF InForce
<1>14. Still'
  <2> SUFFICES ASSUME cmd.op \notin Configs \ {"mac", "reboot"}
               PROVE  inForce = flash' \/ "repeater" \in unapplied'
      BY <1>1, <1>2 DEF Still
  <2>1. cmd.op \in {"mac", "reboot"} /\ (inForce = flash \/ "repeater" \in unapplied)
      BY <1>3 DEF IndInv, Still
  <2>2. s0.kind \notin {"set", "default"}
      BY <1>7, <2>1
  <2> QED
      BY <1>9, <1>19, <2>1, <2>2
<1>15. Exactly'
  <2> SUFFICES ASSUME Complete(cmd), ~spoiled'
               PROVE  /\ \A j \in 1 .. Len(todo) : \E line \in todo[j] : todo[j] = {line}
                      /\ \A s \in Named(cmd) : flash'[s.key] = s.value \/ s \in Pending'
                      /\ \A k \in Keys : (\A s \in Named(cmd) : s.key # k) => flash'[k] = before[k]
      BY <1>1, <1>2 DEF Exactly
  <2>1. ~spoiled /\ stored
      BY <1>1
  <2>2. /\ \A j \in 1 .. Len(todo) : \E line \in todo[j] : todo[j] = {line}
        /\ \A s \in Named(cmd) : flash[s.key] = s.value \/ s \in Pending
        /\ \A k \in Keys : (\A s \in Named(cmd) : s.key # k) => flash[k] = before[k]
      BY <2>1 DEF IndInv, Exactly
  <2>3. ASSUME NEW s \in Pending, s # s0
        PROVE  s \in Pending'
    <3>1. s \in Held(shell, todo)
        BY DEF Pending, Held
    <3>2. s \in Held(shell', todo)
      <4>1. CASE \E i \in 1 .. Len(shell) : s = shell[i]
        <5>1. PICK i \in 1 .. Len(shell) : s = shell[i]
            BY <4>1
        <5>2. i # 1
            BY <1>4, <2>3, <5>1
        <5>3. i - 1 \in 1 .. Len(shell') /\ shell'[i - 1] = shell[i]
            BY <1>4, <5>2
        <5> QED
            BY <5>1, <5>3, HeldProperties
      <4>2. CASE \E j \in 1 .. Len(todo) : \E line \in todo[j] : \E i \in 1 .. Len(line) : s = line[i]
          BY <4>2, HeldProperties
      <4> QED
          BY <3>1, <4>1, <4>2, HeldProperties
    <3> QED
        BY <1>1, <3>2 DEF Pending, Held
  <2>4. \A s \in Named(cmd) : s.kind = "set" /\ s.key \in Keys
      BY <1>3, NamedProperties, WishesProperties
  <2>5. \A s, t \in Named(cmd) : s.key = t.key => s = t
      BY <1>3, NamedProperties, WishesProperties
  <2>6. CASE s0.kind = "set"
    <3>1. s0 \in Named(cmd) /\ flash' = [flash EXCEPT ![s0.key] = s0.value] /\ flash \in [Keys -> Values]
        BY <1>7, <1>8, <2>1, <2>6 DEF Takes, TypeOK
    <3>2. ASSUME NEW s \in Named(cmd)
          PROVE  flash'[s.key] = s.value \/ s \in Pending'
      <4>1. CASE s = s0
          BY <1>6, <2>6, <3>1, <4>1
      <4>2. CASE s # s0
        <5>1. s.key # s0.key /\ s.key \in Keys
            BY <2>4, <2>5, <3>1, <4>2
        <5>2. flash'[s.key] = flash[s.key]
            BY <3>1, <5>1
        <5> QED
            BY <2>2, <2>3, <4>2, <5>2
      <4> QED
          BY <4>1, <4>2
    <3>3. ASSUME NEW k \in Keys, \A s \in Named(cmd) : s.key # k
          PROVE  flash'[k] = before[k]
      <4>1. flash'[k] = flash[k]
          BY <3>1, <3>3
      <4> QED
          BY <2>2, <3>3, <4>1
    <3> QED
        BY <2>2, <3>2, <3>3
  <2>7. CASE s0.kind # "set"
    <3>1. s0.kind # "default"
        BY <1>7 DEF Complete
    <3>2. flash' = flash
        BY <2>1, <2>7, <3>1 DEF Takes
    <3>3. \A s \in Named(cmd) : s # s0
        BY <2>4, <2>7
    <3> QED
        BY <2>2, <2>3, <3>2, <3>3
  <2> QED
      BY <2>6, <2>7
<1>16. Lasting'
  <2> SUFFICES ASSUME cmd.op \in Wan, "2.4GHz" \in Given(cmd), ~spoiled', NEW b \in Given(cmd)
               PROVE  Ahead(b)' \/ Settled(b)'
      BY <1>2 DEF Lasting
  <2>1. ~spoiled /\ stored
      BY <1>1
  <2>2. CASE Ahead(b)
    <3>1. Ahead(b)'
        BY <1>1, <1>2, <2>2 DEF Ahead
    <3> QED
        BY <3>1
  <2>3. CASE Settled(b)
    <3>1. shell \in Seq(Named(cmd)) /\ \A s \in StoresOf({BandLine(b, cmd)}) :
             flash[s.key] = s.value \/ s \in StoresOf({shell})
        BY <2>3 DEF Settled
    <3>2. s0 \in Named(cmd) /\ shell' \in Seq(Named(cmd))
      <4>1. shell \in Seq(Named(cmd)) /\ shell # <<>> /\ shell' = Tail(shell) /\ 1 \in 1 .. Len(shell)
          BY <1>1, <1>4, <3>1
      <4>2. shell[1] \in Named(cmd)
          BY <4>1, ElementOfSeq
      <4>3. Tail(shell) \in Seq(Named(cmd))
          BY <4>1, HeadTailProperties
      <4> QED
          BY <1>4, <4>1, <4>2, <4>3
    <3>3. /\ \A s \in Named(cmd) : s.kind = "set" /\ s.key \in Keys
          /\ \A s, t \in Named(cmd) : s.key = t.key => s = t
        BY <1>3, NamedProperties, WishesProperties
    <3>4. flash' = [flash EXCEPT ![s0.key] = s0.value] /\ flash \in [Keys -> Values]
        BY <1>8, <2>1, <3>2, <3>3 DEF Takes, TypeOK
    <3>5. StoresOf({BandLine(b, cmd)}) \subseteq Named(cmd)
      <4>1. BandLine(b, cmd) \in Seq(Named(cmd))
          BY <1>3, NamedProperties
      <4> QED
          BY <4>1, StoresOfIn
    <3>6. ASSUME NEW s \in StoresOf({BandLine(b, cmd)})
          PROVE  flash'[s.key] = s.value \/ s \in StoresOf({shell'})
      <4>1. s \in Named(cmd)
          BY <3>5
      <4>2. CASE s = s0
          BY <3>2, <3>3, <3>4, <4>2
      <4>3. CASE s # s0 /\ flash[s.key] = s.value
        <5>1. s.key # s0.key /\ s.key \in Keys
            BY <3>2, <3>3, <4>1, <4>3
        <5> QED
            BY <3>4, <4>3, <5>1
      <4>4. CASE s # s0 /\ s \in StoresOf({shell})
        <5>1. PICK i \in 1 .. Len(shell) : s = shell[i]
            BY <4>4 DEF StoresOf
        <5>2. i # 1
            BY <1>4, <4>4, <5>1
        <5>3. i - 1 \in 1 .. Len(shell') /\ shell'[i - 1] = shell[i]
            BY <1>4, <5>2
        <5> QED
            BY <5>1, <5>3 DEF StoresOf
      <4> QED
          BY <3>1, <4>2, <4>3, <4>4
    <3>7. StoresOf({BandLine(b, cmd)})' = StoresOf({BandLine(b, cmd)}) /\ Named(cmd)' = Named(cmd)
        BY <1>2
    <3>8. StoresOf({shell})' = StoresOf({shell'})
        BY DEF StoresOf
    <3>9. \A j \in 1 .. Len(todo') : todo'[j] \subseteq Seq(Named(cmd))
        BY <1>1, <2>3 DEF Settled
    <3>10. Settled(b)'
        BY <1>2, <3>2, <3>6, <3>7, <3>8, <3>9 DEF Settled
    <3> QED
        BY <3>10
  <2> QED
      BY <2>1, <2>2, <2>3 DEF IndInv, Lasting
<1>20. Pending' \subseteq Pending
  <2> SUFFICES ASSUME NEW s \in Pending' PROVE s \in Pending
      OBVIOUS
  <2>1. s \in Held(shell', todo')
      BY DEF Pending, Held
  <2>2. CASE \E i \in 1 .. Len(shell') : s = shell'[i]
    <3>1. PICK i \in 1 .. Len(shell') : s = shell'[i]
        BY <2>2
    <3>2. i + 1 \in 1 .. Len(shell) /\ shell'[i] = shell[i + 1]
        BY <1>4
    <3>3. s \in Held(shell, todo)
        BY <3>1, <3>2, HeldProperties
    <3> QED
        BY <3>3 DEF Pending, Held
  <2>3. CASE \E j \in 1 .. Len(todo') : \E line \in todo'[j] : \E i \in 1 .. Len(line) : s = line[i]
    <3>1. s \in Held(shell, todo)
        BY <1>1, <2>3, HeldProperties
    <3> QED
        BY <3>1 DEF Pending, Held
  <2> QED
      BY <2>1, <2>2, <2>3, HeldProperties
<1>21. Addresses'
  <2>1. CASE rebooting \/ "reboot" \in unapplied
    <3>1. rebooting => rebooting'
        BY <1>1 DEF Takes
    <3> QED
        BY <1>19, <2>1, <3>1 DEF Addresses
  <2>2. CASE cmd.op = "mac" /\ RebootAhead
    <3>1. CASE Len(todo) > 0 /\ todo[Len(todo)] = {<<Reboot>>}
        BY <1>1, <1>2, <2>2, <3>1 DEF Addresses, RebootAhead
    <3>2. CASE shell = <<Reboot>>
      <4>1. s0 = Reboot
          BY <1>4, <3>2
      <4>2. CASE stored
        <5>1. rebooting'
            BY <4>1, <4>2, OtherStores DEF Takes
        <5> QED
            BY <5>1 DEF Addresses
      <4>3. CASE lost
          BY <4>1, <4>3 DEF Addresses, Lost
      <4> QED
          BY <1>1, <4>2, <4>3
    <3> QED
        BY <2>2, <3>1, <3>2 DEF RebootAhead
  <2>3. CASE hw = hwInForce /\ \A s \in StoresOf(stack) \cup Pending : s.kind # "mac"
    <3>1. StoresOf(stack)' = StoresOf(stack)
        BY <1>2 DEF StoresOf
    <3>2. s0 \in Pending
      <4>1. 1 \in 1 .. Len(shell)
          BY <1>4
      <4>2. s0 \in Held(shell, todo)
          BY <1>4, <4>1, HeldProperties
      <4> QED
          BY <4>2 DEF Pending, Held
    <3>3. hw' = hw
        BY <1>1, <2>3, <3>2 DEF Takes
    <3> QED
        BY <1>1, <1>20, <2>3, <3>1, <3>3 DEF Addresses
  <2> QED
      BY <2>1, <2>2, <2>3 DEF IndInv, Addresses
<1>17. Answers'
    BY <1>1 DEF IndInv, Answers
<1>18. Addressed'
  <2> SUFFICES ASSUME cmd.op = "mac", ~spoiled'
               PROVE  \E base \in Bases : Addressing(base)'
      BY <1>2 DEF Addressed
  <2>1. ~spoiled /\ stored
      BY <1>1
  <2>2. PICK base \in Bases : Addressing(base)
      BY <1>1, <2>1 DEF IndInv, Addressed
  <2>3. Turn \in 0 .. 5 /\ Turn' = Turn /\ Turn > 0 /\ shell = MacLine(base, Turn)
      BY <1>1, <2>2 DEF Addressing, Turn
  <2>4. Len(shell) = 1
      BY <2>3 DEF MacLine
  <2>5. shell' = <<>>
      BY <1>4, <2>4
  <2>6. \A n \in Nics : n < Turn \/ n = Turn => hw'[n] = Derived(base, n)
    <3>1. \A n \in Nics : n < Turn => hw[n] = Derived(base, n)
        BY <2>2 DEF Addressing
    <3>2. hw \in [Nics -> Address]
        BY <1>8 DEF TypeOK
    <3>3. CASE Turn = 5
      <4>1. s0 = Reboot
          BY <1>4, <2>3, <3>3 DEF MacLine
      <4>2. hw' = hw
          BY <2>1, <4>1 DEF Takes, Reboot
      <4> QED
          BY <3>1, <3>3, <4>2 DEF Nics
    <3>4. CASE Turn # 5
      <4>1. s0 = SetMac(Turn, Derived(base, Turn)) /\ Turn \in Nics
          BY <1>4, <2>3, <3>4 DEF MacLine, Nics
      <4>2. hw' = [hw EXCEPT ![Turn] = Derived(base, Turn)]
          BY <2>1, <4>1 DEF Takes, SetMac
      <4> QED
          BY <3>1, <3>2, <4>1, <4>2 DEF Nics
    <3> QED
        BY <3>3, <3>4
  <2> QED
      BY <1>1, <2>2, <2>3, <2>5, <2>6 DEF Addressing
<1> QED
    BY <1>2, <1>10, <1>11, <1>12, <1>13, <1>14, <1>15, <1>16, <1>17, <1>18, <1>21 DEF IndInv

\* The steps that neither take a line nor execute one.
LEMMA QuietStep ==
    ASSUME IndInv, UNCHANGED <<todo, shell, flash, hw, hwInForce, rebooting, server, spoiled, events>>,
           srvPc' \in {"select", "fork", "script", "reply", "dead"},
           result' \in {result, "success"}, inForce' \in {inForce, flash},
           unapplied' \subseteq {"repeater", "reboot"}, "reboot" \in unapplied => "reboot" \in unapplied',
           srvPc' \in {"fork", "script", "reply"} => srvPc \in {"fork", "shell", "script", "reply"} \/ cmd.op = "search",
           srvPc' = "fork" \/ (shell = <<>> /\ todo = <<>>),
           Places', InForce', Still', Answers'
    PROVE  IndInv'
<1>1. cmd' = cmd /\ stack' = stack /\ before' = before /\ Fit' = Fit /\ FlagMeans'
    BY ServerSame
<1>2. TypeOK'
    BY DEF IndInv, TypeOK, server
<1>3. Orderly'
    BY <1>1 DEF IndInv, Orderly
<1>4. Exactly'
    BY <1>1 DEF IndInv, Exactly, Pending
<1>6. Lasting'
  <2> SUFFICES ASSUME cmd.op \in Wan, "2.4GHz" \in Given(cmd), ~spoiled, NEW b \in Given(cmd)
               PROVE  Ahead(b)' \/ Settled(b)'
      BY <1>1 DEF Lasting
  <2>1. Ahead(b) \/ Settled(b)
      BY DEF IndInv, Lasting
  <2>2. Ahead(b) => Ahead(b)'
      BY <1>1 DEF Ahead
  <2>3. Settled(b) => Settled(b)'
      BY <1>1 DEF Settled, StoresOf
  <2> QED
      BY <2>1, <2>2, <2>3
<1>7. Addresses'
  <2>1. CASE cmd.op = "mac" /\ RebootAhead
    <3>1. srvPc' = "fork"
      <4>1. ~(shell = <<>> /\ todo = <<>>)
        <5>1. ASSUME shell = <<>>, todo = <<>> PROVE FALSE
          <6>1. Len(shell) = 0 /\ Len(todo) = 0 /\ Len(<<Reboot>>) = 1
              BY <5>1
          <6>2. shell # <<Reboot>>
              BY <6>1
          <6> QED
              BY <2>1, <6>1, <6>2 DEF RebootAhead
        <5> QED
            BY <5>1
      <4> QED
          BY <4>1
    <3> QED
        BY <1>1, <2>1, <3>1 DEF Addresses, RebootAhead
  <2>2. CASE ~(cmd.op = "mac" /\ RebootAhead)
    <3>1. Pending' = Pending /\ StoresOf(stack)' = StoresOf(stack)
        BY <1>1 DEF Pending, StoresOf
    <3> QED
        BY <2>2, <3>1 DEF IndInv, Addresses
  <2> QED
      BY <2>1, <2>2
<1>5. Addressed'
  <2> SUFFICES ASSUME cmd.op = "mac", ~spoiled, srvPc' \in {"fork", "shell", "script", "reply"}
               PROVE  \E base \in Bases : Addressing(base)'
      BY <1>1 DEF Addressed
  <2>1. PICK base \in Bases : Addressing(base)
      BY DEF IndInv, Addressed
  <2>2. Addressing(base)'
      BY <2>1 DEF Addressing, Turn
  <2> QED
      BY <2>2
<1> QED
    BY <1>1, <1>2, <1>3, <1>4, <1>5, <1>6, <1>7 DEF IndInv

LEMMA ShellEndsStep ==
    ASSUME IndInv, ShellEnds
    PROVE  IndInv'
<1>1. srvPc = "shell" /\ shell = <<>> /\ srvPc' = "fork" /\ result' = "success"
      /\ UNCHANGED <<todo, shell, flash, hw, inForce, hwInForce, unapplied, rebooting, server, spoiled, events>>
    BY DEF ShellEnds, storage, applied
<1>2. cmd' = cmd
    BY <1>1, ServerSame
<1>3. Places'
    BY <1>1, <1>2 DEF IndInv, Places
<1>4. InForce'
    BY <1>1 DEF InForce
<1>5. Answers'
    BY <1>1 DEF Answers
<1>6. Still' /\ unapplied \subseteq {"repeater", "reboot"}
    BY <1>1, <1>2 DEF IndInv, Still, TypeOK
<1> QED
    BY <1>1, <1>3, <1>4, <1>5, <1>6, QuietStep

LEMMA HandlerEndsStep ==
    ASSUME IndInv, HandlerEnds
    PROVE  IndInv'
<1>1. /\ srvPc = "fork" /\ todo = <<>> /\ srvPc' \in {"script", "reply", "dead"}
      /\ srvPc' = "reply" => cmd.dev # "box" \/ cmd.op \in {"mac", "reboot"} \/ "repeater" \in unapplied'
      /\ unapplied \subseteq unapplied' /\ unapplied' \subseteq unapplied \cup {"repeater"}
      /\ UNCHANGED <<todo, shell, result, flash, hw, inForce, hwInForce, rebooting, server, spoiled, events>>
    BY DEF HandlerEnds, storage
<1>2. cmd' = cmd /\ before' = before
    BY <1>1, ServerSame
<1>3. cmd.op \in Configs /\ shell = <<>> /\ cmd # NoCommand
    BY <1>1 DEF IndInv, Places
<1>4. Places'
    BY <1>1, <1>2, <1>3 DEF Places
<1>5. hw = hwInForce \/ rebooting \/ "reboot" \in unapplied
  <2>1. ~RebootAhead
    <3>1. Len(shell) = 0 /\ Len(todo) = 0 /\ Len(<<Reboot>>) = 1
        BY <1>1, <1>3
    <3>2. shell # <<Reboot>>
        BY <3>1
    <3> QED
        BY <3>1, <3>2 DEF RebootAhead
  <2> QED
      BY <2>1 DEF IndInv, Addresses
<1>6. cmd.op \in {"mac", "reboot"} => inForce = flash \/ "repeater" \in unapplied
    BY DEF IndInv, Still
<1>7. InForce'
    BY <1>1, <1>2, <1>3, <1>5, <1>6 DEF InForce
<1>8. Answers'
    BY <1>1, <1>2 DEF IndInv, Answers
<1>9. Still'
    BY <1>1, <1>2 DEF IndInv, Still
<1>10. unapplied \subseteq {"repeater", "reboot"}
    BY DEF IndInv, TypeOK
<1> QED
    BY <1>1, <1>3, <1>4, <1>7, <1>8, <1>9, <1>10, QuietStep

LEMMA SearchStep ==
    ASSUME IndInv, Search
    PROVE  IndInv'
<1>1. srvPc = "query" /\ srvPc' \in {"select", "reply"}
      /\ UNCHANGED <<todo, shell, result, flash, hw, inForce, hwInForce, unapplied, rebooting, server, spoiled, events>>
    BY DEF Search, storage, applied
<1>2. cmd' = cmd
    BY <1>1, ServerSame
<1>3. cmd.op = "search" /\ cmd.op \notin Configs /\ shell = <<>> /\ todo = <<>> /\ cmd # NoCommand
    BY <1>1 DEF IndInv, Places, Configs, Wan
<1>4. Places'
    BY <1>1, <1>2, <1>3 DEF Places
<1>5. InForce'
    BY <1>1 DEF IndInv, InForce
<1>6. Answers'
    BY <1>1, <1>2, <1>3 DEF IndInv, Answers
<1>7. Still' /\ unapplied \subseteq {"repeater", "reboot"}
    BY <1>1, <1>2 DEF IndInv, Still, TypeOK
<1> QED
    BY <1>1, <1>3, <1>4, <1>5, <1>6, <1>7, QuietStep

LEMMA ScriptStep ==
    ASSUME IndInv, Script
    PROVE  IndInv'
<1>1. srvPc = "script" /\ srvPc' \in {"select", "reply"} /\ inForce' = flash /\ unapplied' = unapplied \ {"repeater"}
      /\ UNCHANGED <<todo, shell, result, flash, hw, hwInForce, rebooting, server, spoiled, events>>
    BY DEF Script, storage
<1>2. cmd' = cmd /\ before' = before
    BY <1>1, ServerSame
<1>3. shell = <<>> /\ todo = <<>> /\ cmd # NoCommand
    BY <1>1 DEF IndInv, Places
<1>4. Places'
    BY <1>1, <1>2, <1>3 DEF Places
<1>7. hw = hwInForce \/ rebooting \/ "reboot" \in unapplied
    BY <1>1 DEF IndInv, Addresses
<1>5. InForce'
    BY <1>1, <1>7 DEF InForce
<1>6. Answers'
    BY <1>1, <1>2 DEF IndInv, Answers
<1>8. Still'
    BY <1>1 DEF Still
<1>9. unapplied \subseteq {"repeater", "reboot"}
    BY DEF IndInv, TypeOK
<1> QED
    BY <1>1, <1>3, <1>4, <1>5, <1>6, <1>8, <1>9, QuietStep

LEMMA ReplyStep ==
    ASSUME IndInv, Reply
    PROVE  IndInv'
<1>1. srvPc = "reply" /\ srvPc' \in {"script", "select"}
      /\ (srvPc' = "select" => ~(cmd.dev = "phone" /\ router_init = 1))
      /\ UNCHANGED <<todo, shell, result, flash, hw, inForce, hwInForce, unapplied, rebooting, server, spoiled, events>>
    BY DEF Reply, storage, applied
<1>2. cmd' = cmd /\ before' = before
    BY <1>1, ServerSame
<1>3. shell = <<>> /\ todo = <<>> /\ cmd # NoCommand /\ cmd \in Commands
    BY <1>1, PlacesOf DEF IndInv, Places
<1>4. Places'
    BY <1>1, <1>2, <1>3 DEF Places
<1>5. InForce'
  <2> SUFFICES ASSUME srvPc' = "select"
               PROVE  /\ inForce = flash \/ "repeater" \in unapplied
                      /\ hwInForce = hw \/ rebooting \/ "reboot" \in unapplied
      BY <1>1 DEF InForce
  <2>1. cmd.dev \in {"box", "phone"}
      BY <1>3 DEF Commands
  <2>2. cmd.dev = "box" \/ cmd.op \notin Configs
      BY <1>1, <2>1 DEF IndInv, FlagMeans
  <2> QED
      BY <1>1, <2>2 DEF IndInv, InForce
<1>6. Answers'
    BY <1>1, <1>2 DEF IndInv, Answers
<1>7. Still' /\ unapplied \subseteq {"repeater", "reboot"}
    BY <1>1, <1>2 DEF IndInv, Still, TypeOK
<1> QED
    BY <1>1, <1>3, <1>4, <1>5, <1>6, <1>7, QuietStep

\* Nothing is named, held or stored.
LEMMA NothingThere ==
    /\ Named(NoCommand) = {}
    /\ \A s : s \notin Held(<<>>, <<>>) /\ s \notin StoresOf({})
<1>1. Written(NoCommand) = {}
    BY DEF Written, Given, NoCommand, Wan
<1>2. NoCommand.op # "dhcp"
    BY DEF NoCommand
<1>3. Named(NoCommand) = {}
    BY <1>1, <1>2 DEF Named, StoresOf
<1>4. Len(<<>>) = 0
    OBVIOUS
<1> QED
    BY <1>3, <1>4, HeldProperties DEF StoresOf

LEMMA GoDownStep ==
    ASSUME IndInv, GoDown
    PROVE  IndInv'
<1>1. /\ srvPc' = "select" /\ cmd' = NoCommand /\ outcome' = "whole" /\ todo' = <<>> /\ shell' = <<>> /\ stack' = {}
      /\ router_init' = 1 /\ setter' = "boot"
      /\ result' = "unwritten" /\ rebooting' = FALSE /\ spoiled' = FALSE
      /\ inForce' = flash /\ hwInForce' = hw /\ unapplied' = {} /\ before' = flash /\ flash' = flash /\ hw' = hw
      /\ events' \in {events, events + 1}
    BY DEF GoDown, Count, storage
<1>2. TypeOK'
  <2>1. TypeOK
      BY DEF IndInv
  <2>2. <<>> \in Seq(SUBSET Lines) /\ <<>> \in Lines /\ {} \in SUBSET Lines
      BY EmptySeq DEF Lines
  <2>3. events' \in Nat
      BY <1>1, <2>1 DEF TypeOK
  <2> QED
      BY <1>1, <2>1, <2>2, <2>3 DEF TypeOK
<1>3. NoCommand.op = "boot" /\ NoCommand.dev = "none" /\ "boot" \notin Configs
    BY DEF NoCommand, Configs, Wan
<1>4. Places' /\ FlagMeans'
    BY <1>1, <1>3 DEF Places, FlagMeans
<1>5. Orderly'
    BY <1>1 DEF Orderly
<1>6. InForce' /\ Still' /\ Answers' /\ Addressed'
    BY <1>1 DEF InForce, Still, Answers, Addressed
<1>8. Addresses'
  <2>1. Pending' = Held(<<>>, <<>>) /\ StoresOf(stack)' = StoresOf({})
      BY <1>1 DEF Pending, Held, StoresOf
  <2> QED
      BY <1>1, <2>1, NothingThere DEF Addresses
<1>9. Lasting'
    BY <1>1, <1>3 DEF Lasting, Wan
<1>7. Exactly'
  <2>1. Named(NoCommand) = {}
      BY NothingThere
  <2> QED
      BY <1>1, <2>1 DEF Exactly
<1> QED
    BY <1>2, <1>4, <1>5, <1>6, <1>7, <1>8, <1>9 DEF IndInv

-----------------------------------------------------------------------------
(* The theorems                                                            *)

LEMMA Initially == Init => IndInv
<1> SUFFICES ASSUME Init PROVE IndInv
    OBVIOUS
<1>1. /\ srvPc = "select" /\ cmd = NoCommand /\ outcome = "whole" /\ todo = <<>> /\ shell = <<>> /\ stack = {}
      /\ router_init = 1 /\ setter = "boot"
      /\ result = "unwritten" /\ rebooting = FALSE /\ spoiled = FALSE
      /\ flash = [k \in Keys |-> "default"] /\ inForce = flash /\ before = flash
      /\ hw = Factory /\ hwInForce = hw /\ unapplied = {} /\ events = 0
    BY DEF Init, Started
<1>2. TypeOK
  <2>1. flash \in [Keys -> Values]
      BY <1>1 DEF Values
  <2> QED
    <3>1. <<>> \in Seq(SUBSET Lines) /\ <<>> \in Lines /\ {} \in SUBSET Lines
        BY EmptySeq DEF Lines
    <3> QED
        BY <1>1, <2>1, <3>1, ConfigAssumption DEF TypeOK
<1>3. NoCommand.op = "boot" /\ NoCommand.dev = "none" /\ "boot" \notin Configs
    BY DEF NoCommand, Configs, Wan
<1>4. Places /\ FlagMeans
    BY <1>1, <1>3 DEF Places, FlagMeans
<1>5. Orderly
    BY <1>1 DEF Orderly
<1>6. InForce /\ Still /\ Answers /\ Addressed
    BY <1>1 DEF InForce, Still, Answers, Addressed
<1>8. Addresses
  <2>1. Pending = Held(<<>>, <<>>) /\ StoresOf(stack) = StoresOf({})
      BY <1>1 DEF Pending, Held
  <2> QED
      BY <1>1, <2>1, NothingThere DEF Addresses
<1>9. Lasting
    BY <1>1, <1>3 DEF Lasting, Wan
<1>7. Exactly
  <2>1. Named(NoCommand) = {}
      BY NothingThere
  <2> QED
      BY <1>1, <2>1 DEF Exactly
<1> QED
    BY <1>2, <1>4, <1>5, <1>6, <1>7, <1>8, <1>9 DEF IndInv

LEMMA Stutters == IndInv /\ UNCHANGED vars => IndInv'
<1> SUFFICES ASSUME IndInv, UNCHANGED vars
             PROVE  IndInv'
    OBVIOUS
<1>1. UNCHANGED <<todo, shell, result, flash, hw, inForce, hwInForce, unapplied, rebooting,
                 server, spoiled, events, srvPc>>
    BY DEF vars, storage, applied
<1>2. cmd' = cmd /\ before' = before /\ Fit' = Fit /\ FlagMeans' /\ stack' = stack
    BY <1>1, ServerSame
<1>3. TypeOK' /\ Places' /\ InForce' /\ Answers'
    BY <1>1, <1>2 DEF IndInv, TypeOK, Places, InForce, Answers, server
<1>4. Orderly' /\ Still' /\ Lasting'
    BY <1>1, <1>2 DEF IndInv, Orderly, Still, Lasting, Ahead, Settled
<1>7. Addresses'
  <2>1. Pending' = Pending /\ StoresOf(stack)' = StoresOf(stack) /\ RebootAhead' = RebootAhead
      BY <1>1, <1>2 DEF Pending, StoresOf, RebootAhead
  <2> QED
      BY <1>1, <1>2, <2>1 DEF IndInv, Addresses
<1>5. Exactly'
    BY <1>1, <1>2 DEF IndInv, Exactly, Pending
<1>6. Addressed'
    BY <1>1, <1>2 DEF IndInv, Addressed, Addressing, Turn
<1> QED
    BY <1>2, <1>3, <1>4, <1>5, <1>6, <1>7 DEF IndInv

LEMMA Steps == IndInv /\ [Next]_vars => IndInv'
<1> SUFFICES ASSUME IndInv, [Next]_vars
             PROVE  IndInv'
    OBVIOUS
<1>1. ASSUME NEW c \in Sent, Configure(c)
      PROVE  IndInv'
  <2>1. c \in Commands
      BY ConfigAssumption
  <2> QED
      BY <1>1, <2>1, SetWanStep, SetWifiStep, SetMacAddrStep, SetRepeaterStep, LeaveNetworkStep,
         ResetOrRebootStep, AskStep DEF Configure
<1>2. CASE Work
    BY <1>2, ForkStep, ShellStep, ShellEndsStep, HandlerEndsStep, SearchStep, ScriptStep, ReplyStep
    DEF Work
<1>3. CASE GoDown
    BY <1>3, GoDownStep
<1>4. CASE UNCHANGED vars
    BY <1>4, Stutters
<1> QED
    BY <1>1, <1>2, <1>3, <1>4 DEF Next

\* The invariant the other theorems rest on.
THEOREM Invariance == Spec => []IndInv
BY Initially, Steps, PTL DEF Spec

\* Every variable has its type.
THEOREM TypeCorrect == Spec => []TypeOK
<1>1. IndInv => TypeOK
    BY DEF IndInv
<1> QED
    BY <1>1, Invariance, PTL

\* A complete command that is answered has stored what it names, and nothing else
\* (router_dev.c:1482, 1538, 1714, 1754), whatever lay in the buffers.
THEOREM StoredAsCommanded == Spec => []AsCommanded
<1>1. IndInv => AsCommanded
  <2> SUFFICES ASSUME IndInv, srvPc = "reply", ~spoiled, Complete(cmd)
               PROVE  /\ \A s \in Named(cmd) : s.key \in Keys => flash[s.key] = s.value
                      /\ \A k \in Keys : (\A s \in Named(cmd) : s.key # k) => flash[k] = before[k]
      BY DEF AsCommanded
  <2>1. shell = <<>> /\ todo = <<>>
      BY DEF IndInv, Places
  <2>2. Len(shell) = 0 /\ Len(todo) = 0
      BY <2>1
  <2>3. \A s : s \notin Pending
      BY <2>2, HeldProperties DEF Pending, Held
  <2> QED
      BY <2>3 DEF IndInv, Exactly
<1> QED
    BY <1>1, Invariance, PTL

\* The bands that a phone's WAN command names keep their settings, whatever the
\* buffers hold that nobody has written (router_dev.c:1431, 1482, 1687).
THEOREM NamedBandsAreStored == Spec => []NamedBandsStand
<1>1. IndInv => NamedBandsStand
  <2> SUFFICES ASSUME IndInv, srvPc = "reply", ~spoiled, cmd.op \in Wan, "2.4GHz" \in Given(cmd),
                      NEW b \in Given(cmd), NEW s \in StoresOf({BandLine(b, cmd)})
               PROVE  flash[s.key] = s.value
      BY DEF NamedBandsStand
  <2>1. Len(todo) = 0 /\ Len(shell) = 0
      BY DEF IndInv, Places
  <2>2. ~Ahead(b)
      BY <2>1 DEF Ahead
  <2>3. Settled(b)
      BY <2>2 DEF IndInv, Lasting
  <2>4. s \notin StoresOf({shell})
      BY <2>1 DEF StoresOf
  <2> QED
      BY <2>3, <2>4 DEF Settled
<1> QED
    BY <1>1, Invariance, PTL

\* Whoever waits or is answered finds the stored settings and addresses in force,
\* or the restart before him (main.c:287, router_dev.c:1453, 1659), unless a Box's
\* set_router_repeater gave up (1327, 1335) or the reboot was lost.
THEOREM SettingsInForce == Spec => []InForce
<1>1. IndInv => InForce
    BY DEF IndInv
<1> QED
    BY <1>1, Invariance, PTL

\* What the reply's STATUS says of the stores (router_dev.c:1482, 1790).
THEOREM StatusIsMeant == Spec => []StatusMeans
<1>1. IndInv => StatusMeans
    BY DEF IndInv, Answers, StatusMeans
<1> QED
    BY <1>1, Invariance, PTL

\* The four addresses differ, in their fourth octets only, although these wrap
\* around (router_dev.c:1563).
THEOREM InterfacesAreDifferent == Spec => []InterfacesDiffer
<1>1. IndInv => InterfacesDiffer
  <2> SUFFICES ASSUME IndInv, srvPc = "reply", cmd.op = "mac", ~spoiled,
                      NEW m \in Nics, NEW n \in Nics, m # n
               PROVE  /\ hw[m][4] # hw[n][4]
                      /\ \A i \in 1 .. 6 : i # 4 => hw[m][i] = hw[n][i]
      BY DEF InterfacesDiffer
  <2>1. PICK base \in Bases : Addressing(base)
      BY DEF IndInv, Addressed
  <2>2. Len(todo) = 0 /\ shell = <<>>
      BY DEF IndInv, Places
  <2>3. \A i \in Nics : i < Turn
      BY <2>2 DEF Turn, Nics
  <2>4. hw[m] = Derived(base, m) /\ hw[n] = Derived(base, n)
      BY <2>1, <2>3 DEF Addressing
  <2>5. base \in [1 .. 6 -> Octet]
      BY ConfigAssumption DEF Address
  <2>6. (base[4] + 16 * m) % 256 # (base[4] + 16 * n) % 256
    <3>1. base[4] \in 0 .. 255 /\ m \in 1 .. 4 /\ n \in 1 .. 4
        BY <2>5 DEF Octet, Nics
    <3>2. \A x \in 0 .. 255, i \in 1 .. 4, j \in 1 .. 4 : i # j => (x + 16 * i) % 256 # (x + 16 * j) % 256
        OBVIOUS
    <3> QED
        BY <3>1, <3>2
  <2> QED
      BY <2>4, <2>5, <2>6 DEF Derived
<1> QED
    BY <1>1, Invariance, PTL

\* The script runs for a configuration, and behind a version check only if the
\* last command that was none configured something (parser.c:156).
THEOREM ScriptsAreForConfigs == Spec => ScriptsForConfigs
<1> DEFINE Runs == srvPc # "script" /\ srvPc' = "script" =>
                      cmd.op \in Configs \/ (cmd.op = "check" /\ setter \in Configs \cup {"boot"})
<1>1. IndInv /\ [Next]_vars => [Runs]_vars
  <2> SUFFICES ASSUME IndInv, Next, srvPc # "script", srvPc' = "script", cmd.op \notin Configs
               PROVE  cmd.op = "check" /\ setter \in Configs \cup {"boot"}
      BY DEF vars
  <2>1. HandlerEnds \/ Reply
      BY DEF Next, Configure, SetWan, SetWifi, SetMacAddr, SetRepeater, LeaveNetwork, ResetOrReboot,
             Ask, Begin, Work, Fork, Shell,
             ShellEnds, Search, Script, GoDown
  <2>2. Reply
      BY <2>1 DEF HandlerEnds, IndInv, Places
  <2>3. srvPc = "reply" /\ router_init = 1
      BY <2>2 DEF Reply
  <2>4. cmd \in Commands
      BY <2>3, PlacesOf
  <2>5. cmd.op # "search" /\ setter \in Configs \cup {"boot"}
      BY <2>3 DEF IndInv, FlagMeans
  <2> QED
      BY <2>4, <2>5 DEF Commands
<1> QED
    BY <1>1, Invariance, PTL DEF Spec, ScriptsForConfigs
==============================================================================
