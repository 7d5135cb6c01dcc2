---------------------------- MODULE MCFlashConfig ----------------------------
(***************************************************************************)
(* Model checking FlashConfig.  `open` is a network without a key, `home`  *)
(* one with a key.  Three commands follow one another, so that a buffer    *)
(* can be written, passed over and executed; one thing goes wrong.         *)
(***************************************************************************)
EXTENDS FlashConfig

Command(d, o, b, t) == [dev |-> d, op |-> o, bands |-> b, tag |-> t]
Some == {
    Command("phone", "pppoe", {"2.4GHz"}, "home"),
    Command("phone", "ip", Bands, "open"),
    Command("phone", "dhcp", Bands, "open"),
    Command("phone", "wifi", {}, "home"),
    Command("phone", "check", {}, "home"),
    Command("phone", "search", {}, "home"),
    Command("box", "dhcp", {}, "home"),
    Command("box", "mac", {}, "home"),
    Command("box", "repeater", {}, "home"),
    Command("phone", "enrepeater", {}, "home"),
    Command("box", "reset", {}, "home")}

\* The fourth octet wraps past zero.
SomeBases == {<<2, 224, 76, 216, 1, 1>>}
SomeJunk == {<<9, 9, 9, 9, 9, 9>>}
FactorySet == [n \in Nics |-> <<0, 224, 76, 129, 134, n>>]
=============================================================================
