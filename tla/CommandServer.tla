---------------------------- MODULE CommandServer ----------------------------
(***************************************************************************)
(* The path of a command through main.c and parser.c, message by message:  *)
(* a client's datagram, the command socket's queue, dispatch, the reply in *)
(* the pipe, the broadcast, and the copy of the broadcast that comes back  *)
(* to the command socket, which is bound to the port it goes to.           *)
(*                                                                         *)
(* A message is a command or a response, from or for a Box or a phone.     *)
(* Only the prefixes tell them apart: "UBoxV002:set" is a Box's command;   *)
(* "UPhoneV002" begins a phone's command and the response to a phone.      *)
(*                                                                         *)
(* Descriptors are RouterServer's subject.  Of them, `open` keeps what     *)
(* carries messages and is still there: the pipe, the online thread's      *)
(* broadcast socket and the command socket.  The online thread has its     *)
(* socket before the first command arrives.                                *)
(***************************************************************************)
EXTENDS Integers, Sequences

CONSTANTS
    MaxQueue,  \* datagrams of one kind that the command socket queues
    MaxPipe,   \* replies the pipe holds before a write blocks
    Sent,      \* the commands clients send
    MaxAsked   \* bound: times they send each of those in Once

\* By what the handler does to router_init: a query sets 0, a configuration
\* (reboot and reset included) 1, get_ and set_router_update leave it alone.
Ops == {"query", "config", "update"}
Devices == {"box", "phone"}
Commands == [kind : {"command"}, dev : Devices, op : Ops]
Responses == [kind : {"response"}, dev : Devices, op : Ops]
Messages == Commands \cup Responses

ASSUME CommandsAssumption ==
    /\ MaxQueue \in Nat /\ MaxPipe \in Nat /\ MaxAsked \in Nat
    /\ Sent \subseteq Commands

\* The rest of a reply longer than one read: no prefix of a message.
Fragment == [kind |-> "fragment", dev |-> "none", op |-> "none"]

\* parser_cmd: the response repeats the version and the name of the command,
\* of whatever it has executed.
Response(m) == [kind |-> "response", dev |-> m.dev, op |-> m.op]
CommandOf(m) == [kind |-> "command", dev |-> m.dev, op |-> m.op]

\* The commands whose repetition matters: a Box's, and a phone's configuration.
Once == {c \in Commands : c.dev = "box" \/ c.op = "config"}

VARIABLES
    srvPc,        \* where the server thread is
    msg,          \* the message it is executing
    router_init,  \* the flag that decides on the script after a phone's reply
    queue,        \* the command socket's queue, as a bag: message -> copies
    pipe,         \* the replies in the pipe
    open,         \* which of pipe, bcast and sock are open
    onPc,         \* where the online thread is
    recv,         \* the message its buffer begins with
    asked, done   \* history: as in CommandService

serverVars == <<srvPc, msg, router_init>>
onlineVars == <<onPc, recv>>
history == <<asked, done>>
vars == <<serverVars, queue, pipe, open, onlineVars, history>>

Nothing == [m \in Messages |-> 0]

\* Every variable has its type; the queue and the pipe keep their capacity.
TypeOK ==
    /\ srvPc \in {"socket", "select", "script", "reply", "close"}
    /\ msg \in Messages \cup {Fragment}
    /\ router_init \in {0, 1}
    /\ queue \in [Messages -> 0 .. MaxQueue]
    /\ pipe \in Seq(Responses \cup {Fragment}) /\ Len(pipe) <= MaxPipe
    /\ open \in SUBSET {"pipe", "bcast", "sock"}
    /\ onPc \in {"poll", "send"}
    /\ recv \in Messages \cup {Fragment}
    /\ asked \in [Once -> Nat]
    /\ done \in [Once -> Nat]

\* A process that has just started its threads; recv is uninitialised, which
\* is no message.
Started ==
    /\ srvPc = "socket"
    /\ msg = Fragment
    /\ router_init = 1
    /\ queue = Nothing
    /\ pipe = <<>>
    /\ open = {"pipe", "bcast"}
    /\ onPc = "poll"
    /\ recv = Fragment

Init == Started /\ asked = [c \in Once |-> 0] /\ done = asked
-----------------------------------------------------------------------------
\* The datagram m comes to port 5188: it is queued, or lost.
Arrives(m) ==
    \/ /\ "sock" \in open /\ m \in Messages /\ queue[m] < MaxQueue
       /\ queue' = [queue EXCEPT ![m] = @ + 1]
    \/ UNCHANGED queue

\* A client sends a command, for the first time or again.
Send ==
    /\ \E c \in Sent :
          /\ c \in Once => asked[c] < MaxAsked
          /\ asked' = IF c \in Once THEN [asked EXCEPT ![c] = @ + 1] ELSE asked
          /\ Arrives(c)
    /\ UNCHANGED <<serverVars, pipe, open, onlineVars, done>>

\* Each turn: a new socket, hence an empty queue.
ServerSocket ==
    /\ srvPc = "socket"
    /\ srvPc' = "select"
    /\ open' = open \cup {"sock"}
    /\ UNCHANGED <<msg, router_init, queue, pipe, onlineVars, history>>

\* select() timed out.
ServerTimeout ==
    /\ srvPc = "select"
    /\ queue = Nothing
    /\ srvPc' = "close"
    /\ UNCHANGED <<msg, router_init, queue, pipe, open, onlineVars, history>>

\* start_with: everything from a phone's version is a command.
Executable(m) == m.kind = "command" \/ m.dev = "phone"

\* Mutant: a configuration does not set the flag.
InitFlagKeeping(op) == IF op = "query" THEN 0 ELSE router_init

\* handle_cmd sets the flag before it calls the handler.
InitFlag(op) ==
    CASE op = "query" -> 0
      [] op = "config" -> 1
      [] op = "update" -> router_init

\* read(), the prefix tests, parser_cmd.  A handler may fail, and there is no
\* reply then; a Box's configuration runs the init script before it returns,
\* unless it is a reboot, a MAC address or a repeater that could not be joined.
ServerRead ==
    /\ srvPc = "select"
    /\ \E m \in Messages :
          /\ queue[m] > 0
          /\ queue' = [queue EXCEPT ![m] = @ - 1]
          /\ msg' = m
          /\ \/ /\ ~Executable(m)
                /\ srvPc' = "close"
                /\ UNCHANGED <<router_init, done>>
             \/ /\ Executable(m)
                /\ \/ srvPc' \in {"reply", "close"}
                   \/ m.dev = "box" /\ m.op = "config" /\ srvPc' = "script"
                /\ router_init' = InitFlag(m.op)
                /\ done' = IF CommandOf(m) \in Once
                           THEN [done EXCEPT ![CommandOf(m)] = @ + 1] ELSE done
    /\ UNCHANGED <<pipe, open, onlineVars, asked>>

\* write_all(pipe_fw[1]) blocks while the pipe is full, and fails once a script
\* has closed it.  A phone's reply is followed by the script unless
\* router_init is 0.
ServerReply ==
    /\ srvPc = "reply"
    /\ IF "pipe" \in open
       THEN Len(pipe) < MaxPipe /\ pipe' = Append(pipe, Response(msg))
       ELSE UNCHANGED pipe
    /\ srvPc' = IF msg.dev = "phone" /\ router_init = 1 THEN "script" ELSE "close"
    /\ UNCHANGED <<msg, router_init, queue, open, onlineVars, history>>

\* router_init_script closes number after number; the pipe has the lowest ones.
ScriptCloses ==
    /\ srvPc = "script"
    /\ \E x \in open :
          /\ "pipe" \in open => x = "pipe"
          /\ open' = open \ {x}
          /\ pipe' = IF x = "pipe" THEN <<>> ELSE pipe
          /\ queue' = IF x = "sock" THEN Nothing ELSE queue
    /\ UNCHANGED <<serverVars, onlineVars, history>>

\* Mutant: the loop ends before it has closed every number.
ScriptEndsEarly ==
    /\ srvPc = "script"
    /\ "pipe" \notin open
    /\ srvPc' = IF msg.dev = "box" THEN "reply" ELSE "close"
    /\ UNCHANGED <<msg, router_init, queue, pipe, open, onlineVars, history>>

\* After the script a Box still gets its reply.
ScriptEnds ==
    /\ srvPc = "script"
    /\ open = {}
    /\ srvPc' = IF msg.dev = "box" THEN "reply" ELSE "close"
    /\ UNCHANGED <<msg, router_init, queue, pipe, open, onlineVars, history>>

\* close(sock) drops what has arrived during the handler.
ServerClose ==
    /\ srvPc = "close"
    /\ srvPc' = "socket"
    /\ open' = open \ {"sock"}
    /\ queue' = Nothing
    /\ UNCHANGED <<msg, router_init, pipe, onlineVars, history>>

ServerNext ==
    \/ ServerSocket \/ ServerTimeout \/ ServerRead \/ ServerReply
    \/ ScriptCloses \/ ScriptEnds \/ ServerClose
-----------------------------------------------------------------------------
\* Mutant: what stays of a reply is left in the pipe for ever.
OnlineReadHalf ==
    /\ onPc = "poll"
    /\ "pipe" \in open /\ pipe # <<>>
    /\ pipe[1] # Fragment
    /\ pipe' = <<Fragment>> \o SubSeq(pipe, 2, Len(pipe))
    /\ recv' = pipe[1]
    /\ onPc' = "send"
    /\ UNCHANGED <<serverVars, queue, open, history>>

\* One read takes at most 1024 bytes: whole replies, one or several, and
\* perhaps the beginning of one more, of which a fragment stays behind.  What
\* stays of a reply is read by the next read.  recv is not cleared.
OnlineRead ==
    /\ onPc = "poll"
    /\ "pipe" \in open /\ pipe # <<>>
    /\ \E n \in 0 .. Len(pipe) :
          \/ n > 0 /\ pipe' = SubSeq(pipe, n + 1, Len(pipe))
          \/ /\ n < Len(pipe) /\ pipe[n + 1] # Fragment
             /\ pipe' = <<Fragment>> \o SubSeq(pipe, n + 2, Len(pipe))
    /\ recv' = pipe[1]
    /\ onPc' = "send"
    /\ UNCHANGED <<serverVars, queue, open, history>>

\* Number 3 is not the pipe any more.  It may yield nothing (an error or the
\* end of a file: recv stays as it was), bytes of some object, or, when the
\* script is over and the server has got number 3 for its socket, a command.
OnlineReadStray ==
    /\ onPc = "poll"
    /\ "pipe" \notin open
    /\ \/ recv' \in {recv, Fragment} /\ UNCHANGED queue
       \/ /\ "bcast" \notin open
          /\ \E m \in Messages :
                /\ queue[m] > 0
                /\ queue' = [queue EXCEPT ![m] = @ - 1]
                /\ recv' = m
    /\ onPc' = "send"
    /\ UNCHANGED <<serverVars, pipe, open, history>>

\* sendto(): a copy of the broadcast comes back to the command socket.
OnlineSend ==
    /\ onPc = "send"
    /\ onPc' = "poll"
    /\ IF "bcast" \in open THEN Arrives(recv) ELSE UNCHANGED queue
    /\ UNCHANGED <<serverVars, pipe, open, recv, history>>

OnlineNext == OnlineRead \/ OnlineReadStray \/ OnlineSend

\* The device goes down at any moment, by a command or without one, and comes
\* up with nothing but its flash memory.
Restart ==
    /\ srvPc' = "socket" /\ msg' = Fragment /\ router_init' = 1
    /\ queue' = Nothing /\ pipe' = <<>> /\ open' = {"pipe", "bcast"}
    /\ onPc' = "poll" /\ recv' = Fragment
    /\ UNCHANGED history

Next == Send \/ ServerNext \/ OnlineNext \/ Restart

Spec == Init /\ [][Next]_vars

\* The scheduler runs every thread that can run.
FairSpec == Spec /\ WF_vars(ServerNext) /\ WF_vars(OnlineNext)
-----------------------------------------------------------------------------
\* What the clients may rely on.
Service == INSTANCE CommandService

\* A Box's commands and a phone's configurations are executed at most once for
\* every time they were sent (main.c:252, 268), although a phone's response is
\* taken for a command: the script after a configuration (main.c:287) closes
\* the broadcast socket and drops the queue before its echo is read.
AtMostOnce == Service!Spec

\* Where the response to a phone's configuration can be: in the pipe until the
\* script closes that, in recv until the broadcast socket is gone, in the queue
\* until the command socket is gone.
Configured == [kind |-> "response", dev |-> "phone", op |-> "config"]
EchoConfined ==
    /\ \A i \in 1 .. Len(pipe) : pipe[i] = Configured => srvPc = "script"
    /\ recv = Configured => srvPc = "script" \/ "bcast" \notin open
    /\ queue[Configured] > 0 => srvPc = "script"

\* A command of Once that is queued was sent and not executed yet, whatever
\* becomes of the sockets: this is what makes AtMostOnce inductive.
QueuedOnce == \A c \in Once : done[c] + queue[c] <= asked[c]

\* The queue goes with its socket and the pipe's contents with its ends, a
\* script follows every configuration of a phone, and while the pipe or the
\* broadcast socket is there the online thread has read nothing but replies.
Places ==
    /\ srvPc = "select" => "sock" \in open
    /\ "sock" \notin open => queue = Nothing
    /\ "pipe" \notin open => pipe = <<>>
    /\ "pipe" \notin open /\ "bcast" \in open => srvPc = "script"
    /\ srvPc \in {"reply", "script"} => msg \in Messages
    /\ srvPc \in {"reply", "script"} /\ msg.op = "config" => router_init = 1
    /\ "bcast" \in open => recv \notin Commands

IndInv == TypeOK /\ EchoConfined /\ QueuedOnce /\ Places

\* The server thread never waits for ever on a full pipe (main.c:286): the
\* online thread empties it, or a restart or script has closed it.
RepliesNeverBlock == srvPc = "reply" ~> srvPc # "reply"

\* main.c:272 "response to Phone client, send": what goes to a phone is a
\* response, and only what comes from a client is executed.
ResponsesAreNotExecuted == srvPc \in {"reply", "script"} => msg.kind = "command"
=============================================================================
