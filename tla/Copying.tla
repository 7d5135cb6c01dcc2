------------------------------ MODULE Copying -------------------------------
(***************************************************************************)
(* What encoding a text and decoding the result promises: the text comes   *)
(* out again from its beginning, some octets at a time and never an octet  *)
(* that is not its own.  It is over when all of it is there; without       *)
(* memory nothing comes out.                                               *)
(***************************************************************************)
EXTENDS Integers, Sequences

CONSTANT Text  \* the texts

VARIABLES
    text,  \* the text
    got,   \* what has come out
    over   \* it is over

copyVars == <<text, got, over>>

Init == text \in Text /\ got = <<>> /\ over = FALSE

More == \E n \in Len(got) + 1 .. Len(text) :
    /\ ~over
    /\ got' = SubSeq(text, 1, n)
    /\ UNCHANGED <<text, over>>

Finish == got = text /\ over' = TRUE /\ UNCHANGED <<text, got>>

NoMemory == got = <<>> /\ over' = TRUE /\ UNCHANGED <<text, got>>

Next == More \/ Finish \/ NoMemory

Spec == Init /\ [][Next]_copyVars
=============================================================================
