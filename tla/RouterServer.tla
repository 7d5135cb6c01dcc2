---------------------------- MODULE RouterServer ----------------------------
(***************************************************************************)
(* The whole process: the server thread, the online thread and the update  *)
(* thread over one descriptor table.  Clients are the environment: any     *)
(* command may arrive at any time, a copy of the server's own broadcasts   *)
(* included.                                                               *)
(***************************************************************************)
EXTENDS ServerThread, OnlineThread, UpdateThread

vars == <<kernelVars, serverVars, onlineVars, updateVars>>

Init == KernelInit /\ ServerInit /\ OnlineInit /\ UpdateInit

\* pthread_create for the update and the online thread.  One step stands for
\* both: a new thread's first step may be late in any case.
StartThreads ==
    /\ Goto("spawn", "socket")
    /\ upPc' = "query" /\ onPc' = "socket"
    /\ UNCHANGED <<sock, srvStream, client, router_init, cursor, link,
                   upStream, conn, files, sockfd, kernelVars>>

ServerNext ==
    \/ StartThreads
    \/ /\ \/ Probe \/ ServerSocket \/ ServerSelect \/ ServerRead(files)
          \/ ServerHandler(files) \/ ServerScript \/ ServerReply \/ ServerClose
       /\ UNCHANGED <<onlineVars, updateVars>>

OnlineStep == OnlineNext /\ UNCHANGED <<serverVars, updateVars>>
UpdateStep == UpdateNext /\ UNCHANGED <<serverVars, onlineVars>>

\* A datagram for port 5188 arrives while the socket exists; beyond the
\* queue's capacity it is dropped.  What it says is chosen when it is read.
Arrive ==
    /\ \E f \in Fd : fdtab[f] = "udp"
    /\ inbox < MaxInbox
    /\ inbox' = inbox + 1
    /\ UNCHANGED <<fdtab, pipe, scripted, clobbered, life,
                   serverVars, onlineVars, updateVars>>

\* The device goes down some time after `reboot` was started.
GoDown ==
    /\ life = "rebooting"
    /\ Crash
    /\ UNCHANGED <<serverVars, onlineVars, updateVars>>

Environment == GoDown \/ Arrive

Next == life # "gone" /\ (ServerNext \/ OnlineStep \/ UpdateStep \/ Environment)

Spec == Init /\ [][Next]_vars

\* The scheduler runs every thread that can run.  Nothing is assumed of the
\* clients.
Fairness ==
    /\ WF_vars(life # "gone" /\ ServerNext)
    /\ WF_vars(life # "gone" /\ OnlineStep)
    /\ WF_vars(life # "gone" /\ UpdateStep)
    /\ WF_vars(life # "gone" /\ GoDown)

FairSpec == Spec /\ Fairness
-----------------------------------------------------------------------------
\* Every variable has its type.
TypeOK == KernelTypeOK /\ ServerTypeOK /\ OnlineTypeOK /\ UpdateTypeOK

\* Until a script begins to close numbers, 3 and 4 are the two ends of the
\* pipe: no close of any thread hits them, whatever else is clobbered
\* (main.c:147, 165 and 263 use the numbers without looking).
PipeIntact == ~scripted => Refers(PipeR, "pipeR") /\ Refers(PipeW, "pipeW")

\* Until a script runs or a close clobbers something, every number a thread
\* holds refers to the object that thread opened.  The connection's number
\* between the two closes of check_version (update.c:246, 147) is the one
\* exception.
Ownership ==
    ~scripted /\ ~clobbered =>
        /\ sock # NoFd => Refers(sock, "udp")
        /\ srvStream # NoFd => \E k \in ServerKinds : Refers(srvStream, k)
        /\ upStream # NoFd => \E k \in UpdateKinds : Refers(upStream, k)
        /\ sockfd # NoFd => Refers(sockfd, "bcast")
        /\ conn # NoFd /\ upPc # "secondClose" => Refers(conn, "tcp")

\* What can be lost for good (open, and no thread has the number) is a link
\* probe (main.c:46), a connection that failed (update.h:54), the firmware
\* image (router_dev.c:1820) or the flash device (utility.c:3640): every other
\* open object is in the variable of the thread that opened it, before and
\* after a script.
OnlyKnownLeaks ==
    \A f \in Fd :
        /\ fdtab[f] = "udp" => sock = f
        /\ fdtab[f] \in {"query", "version"} => srvStream = f
        /\ fdtab[f] \in UpdateKinds => upStream = f
        /\ fdtab[f] = "bcast" => sockfd = f

\* Once a script has closed them, the ends of the pipe are gone for good: main
\* creates the pipe once, so no later reply reaches the online thread
\* (router_dev.c:121, main.c:263).
PipeNeverReturns ==
    \A f \in {PipeR, PipeW} :
        scripted /\ (srvPc = "script" => f < cursor)
            => fdtab[f] \notin {"pipeR", "pipeW"}

\* The datagram that made select return is still there at read (main.c:243):
\* the server thread never blocks in read until a script has run or a close
\* has clobbered something.
ReadNeverBlocks ==
    ~scripted /\ ~clobbered /\ srvPc = "read" => inbox > 0

\* Before any script, the only close that hits an object of another thread is
\* the second close of check_version (update.c:147).
OnlySecondCloseClobbers ==
    [][~scripted /\ ~clobbered /\ clobbered' => upPc = "secondClose"]_vars

-----------------------------------------------------------------------------
\* The parts that make the properties above inductive.

\* The other threads start after the wait for the link, a variable holds a
\* number only between the step that opens and the step that closes or
\* forgets it, and a script closes one number after the other.
Phases ==
    /\ srvPc \in {"probe", "spawn"} => upPc = "off" /\ onPc = "off"
    /\ srvPc \in {"probe", "spawn", "socket", "exited"} => sock = NoFd
    /\ srvPc \in {"select", "read"} => sock \in Fd
    /\ srvPc \notin {"queryRead", "checkRead", "flash", "versionRead"} => srvStream = NoFd
    /\ srvPc = "script" => cursor \in Fd /\ (~scripted => cursor = PipeR)
    /\ onPc \in {"off", "socket"} => sockfd = NoFd
    /\ upPc \notin {"queryRead", "saved"} => upStream = NoFd
    /\ upPc \in {"off", "query", "queryRead", "connect"} => conn = NoFd

\* What OnlyKnownLeaks says of the server thread's stream, with the place
\* where the thread then is.
StreamPlaces ==
    \A f \in Fd :
        /\ fdtab[f] = "query" => srvStream = f /\ srvPc = "queryRead"
        /\ fdtab[f] = "version" => srvStream = f /\ srvPc \in {"checkRead", "versionRead"}

\* Before a script no thread holds a number of the pipe.
NoneHoldsPipe ==
    ~scripted => \A f \in {sock, srvStream, upStream, sockfd, conn} : f \notin {PipeR, PipeW}

IndInv ==
    /\ TypeOK /\ Phases /\ StreamPlaces /\ NoneHoldsPipe
    /\ PipeIntact /\ Ownership /\ OnlyKnownLeaks /\ PipeNeverReturns /\ ReadNeverBlocks
-----------------------------------------------------------------------------
\* When the wait for the link has used up the table (main.c:46), the process
\* is lost: no thread ever frees a number, and server_thread never gets its
\* socket (main.c:207).
NoServiceAfterExhaustion ==
    link = "full" => TableFull /\ srvPc \in {"spawn", "socket", "exited"}

\* Why: the update thread holds no number, and gets none.
NobodyFrees == link = "full" => upPc \in {"off", "query", "connect"}

\* main.c:59 "wait network online;": main goes on only when eth0 is up.
WaitsForNetwork == srvPc # "probe" => link = "up"

\* main.c:258 "response to Box client, send": the reply to a Box goes to the
\* pipe, from which the online thread sends it.
BoxResponseSent ==
    srvPc = "reply" /\ client = "box" => Refers(PipeW, "pipeW")

\* What ends the regular service: a script, a clobbering close, the process
\* going down, or an online thread that found no free number at its start.
Disturbed == scripted \/ clobbered \/ life # "running" \/ onPc = "dead"

\* The server thread returns to select again and again (main.c:182), unless
\* service is disturbed or it waits for a free number in the endless loop of
\* doFirmwareUpgrade (utility.c:3538).
ServerListens ==
    \/ []<>(srvPc = "select")
    \/ <>Disturbed
    \/ <>[](srvPc = "opening" /\ TableFull)

\* The online thread broadcasts again and again (main.c:104).
OnlineBroadcasts == []<>(onPc = "send") \/ <>Disturbed
=============================================================================
