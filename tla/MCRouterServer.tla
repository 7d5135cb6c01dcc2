--------------------------- MODULE MCRouterServer ---------------------------
(***************************************************************************)
(* Model checking RouterServer on a small table.  Eight numbers are stdin, *)
(* stdout, stderr, the pipe, one probe or other lost number, the sockets   *)
(* of the online and the server thread, and what is left over for the      *)
(* update thread's connection, popen and files: the table is full after    *)
(* one to three leaks, and numbers are reused all the time.                *)
(***************************************************************************)
EXTENDS RouterServer

OnlyUp == {"up"}
UpOrDown == {"up", "down"}
AnyLink == {"up", "down", "error"}

AnyVendor == {"unreachable", "breaks", "nothing", "news"}
NoNews == {"nothing", "unreachable"}
NewsOrNone == {"unreachable", "news"}

Command(d, o) == [dev |-> d, op |-> o]
Other == Command("other", "unknown")

\* Commands that run no script.
Harmless == {Command("phone", "query"), Command("box", "query"), Command("box", "check"),
             Command("box", "upgrade"), Command("box", "restart"), Other}
\* Commands around the script; the phone's check runs it by the flag an
\* earlier command left.
Scripting == {Command("phone", "config"), Command("box", "config"), Command("phone", "check")}
BoxConfig == {Command("box", "config")}
\* For liveness: the ways a turn can end.
Turns == {Command("phone", "query"), Command("box", "upgrade")}
=============================================================================
