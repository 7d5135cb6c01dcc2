---------------------------- MODULE RepeaterMode ----------------------------
(***************************************************************************)
(* What the settings promise to the network the router joins: the router   *)
(* never begins to repeat while its own DHCP server is on, and it leaves   *)
(* one radio's network before it joins another's.  A router may turn its   *)
(* server off and on whenever it likes.                                    *)
(***************************************************************************)
CONSTANT Radio

VARIABLES
    repeating,  \* the radios that repeat
    serving     \* the router's own DHCP server is on

modeVars == <<repeating, serving>>

Init == repeating = {} /\ serving = TRUE

Join(r) == repeating = {} /\ serving = FALSE /\ repeating' = {r} /\ UNCHANGED serving
Leave == repeating' = {} /\ UNCHANGED serving
Serve == serving' = TRUE /\ UNCHANGED repeating
Hush == serving' = FALSE /\ UNCHANGED repeating

\* All settings at once.
Default == repeating' = {} /\ serving' = TRUE

Next == (\E r \in Radio : Join(r)) \/ Leave \/ Serve \/ Hush \/ Default

Spec == Init /\ [][Next]_modeVars
=============================================================================
