--------------------------- MODULE MCCommandServer ---------------------------
(***************************************************************************)
(* Model checking CommandServer.  Each command of Once is sent up to       *)
(* MaxAsked times, the others any number of times; two replies fit into    *)
(* the pipe, so that one read may take both or leave a part.               *)
(***************************************************************************)
EXTENDS CommandServer

Command(d, o) == [kind |-> "command", dev |-> d, op |-> o]

\* Everything about scripts and echoes.  (The phone's update, which inherits the
\* flag of the command before it, is left to the proofs.)
Configs == {Command("phone", "config"), Command("box", "config"), Command("phone", "query")}
PhoneQuery == {Command("phone", "query")}
=============================================================================
