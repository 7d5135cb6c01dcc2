--------------------------- MODULE CommandService ---------------------------
(***************************************************************************)
(* What a client may rely on for a command that must not run twice: it is  *)
(* executed at most once for every time it was sent.  Nothing is promised  *)
(* to happen: datagrams and responses may be lost.                         *)
(***************************************************************************)
EXTENDS Naturals

CONSTANT Once  \* the commands this is promised for

VARIABLES
    asked,  \* command -> times a client has sent it
    done    \* command -> times it has been executed

serviceVars == <<asked, done>>

Init == asked = [c \in Once |-> 0] /\ done = asked

Ask(c) == asked' = [asked EXCEPT ![c] = @ + 1] /\ UNCHANGED done

Do(c) ==
    /\ done[c] < asked[c]
    /\ done' = [done EXCEPT ![c] = @ + 1]
    /\ UNCHANGED asked

Next == \E c \in Once : Ask(c) \/ Do(c)

Spec == Init /\ [][Next]_serviceVars
=============================================================================
