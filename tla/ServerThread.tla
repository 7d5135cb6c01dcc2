---------------------------- MODULE ServerThread ----------------------------
(***************************************************************************)
(* The main thread, main.c: it waits for eth0, starts the other threads,   *)
(* and then serves one command per turn of server_thread's loop, with a    *)
(* new socket for every turn.                                              *)
(*                                                                         *)
(* Handlers (parser.c, router_dev.c) appear by what they do to descriptors *)
(* and to router_init:                                                     *)
(*   query    search, repeater_get, wifi_search: popen; router_init = 0    *)
(*   config   the set_* handlers: flash set by system(), which keeps no    *)
(*            descriptor, then the init script if a Box asked; = 1         *)
(*   restart  reboot, wanMAC: reboot by system(), no script; = 1           *)
(*   check    check_update: the version file; router_init is not assigned  *)
(*   upgrade  update_firmware: image and flash device; not assigned        *)
(*   unknown  no handler: -1, hence no reply; not assigned                 *)
(* Handlers that open and close one descriptor after the other are one     *)
(* open and one close: each repetition starts from the state this one      *)
(* leaves, and the other threads may run in between in any case.           *)
(***************************************************************************)
EXTENDS Descriptors

CONSTANTS
    LinkStates,  \* what the eth0 probe may report while main waits
    Sent         \* the commands clients send

Ops == {"query", "config", "restart", "check", "upgrade", "unknown"}
Commands == [dev : {"box", "phone"}, op : Ops] \cup [dev : {"other"}, op : {"unknown"}]

ASSUME EnvironmentAssumption ==
    /\ LinkStates \subseteq {"up", "down", "error"}
    /\ Sent \subseteq Commands

VARIABLES
    srvPc,        \* where the thread is
    sock,         \* its socket's number
    srvStream,    \* the stream, version file or flash device it has open
    client,       \* who sent the command being handled
    router_init,  \* the flag parser_cmd leaves for the next phone reply
    cursor,       \* i, the loop variable of router_init_script
    link          \* what the last probe reported; "full": it got no socket

serverVars == <<srvPc, sock, srvStream, client, router_init, cursor, link>>

ServerTypeOK ==
    /\ srvPc \in {"probe", "spawn", "socket", "select", "read", "query",
                  "queryRead", "check", "checkRead", "upgrade", "image", "opening",
                  "flash", "version", "versionRead", "script", "reply", "close",
                  "upgrading", "exited"}
    /\ sock \in Fd \cup {NoFd}
    /\ srvStream \in Fd \cup {NoFd}
    /\ client \in {"none", "box", "phone", "other"}
    /\ router_init \in {0, 1}
    /\ cursor \in Fd \cup {OpenMax}
    /\ link \in {"unknown", "up", "down", "error", "full"}

ServerInit ==
    /\ srvPc = "probe"
    /\ sock = NoFd /\ srvStream = NoFd /\ client = "none"
    /\ router_init = 1 /\ cursor = OpenMax /\ link = "unknown"

Goto(from, to) == srvPc = from /\ srvPc' = to

\* Mutant: a probe that finds the table full gives a number back.
ProbeReleasing ==
    /\ \/ \E f \in Fd, l \in LinkStates :
             /\ Open(f, "probe")
             /\ link' = l
             /\ Goto("probe", IF l = "down" THEN "probe" ELSE "spawn")
       \/ /\ TableFull
          /\ link' = "full"
          /\ Goto("probe", "spawn")
          /\ Close(OpenMax - 1, {"probe"})
    /\ UNCHANGED <<sock, srvStream, client, router_init, cursor>>

\* One turn of wait_online.  get_host_status opens a socket and never closes
\* it; on a full table ioctl(-1) fails, and -1 ends the wait like "up" does.
Probe ==
    /\ \/ \E f \in Fd, l \in LinkStates :
             /\ Open(f, "probe")
             /\ link' = l
             /\ Goto("probe", IF l = "down" THEN "probe" ELSE "spawn")
       \/ /\ TableFull
          /\ link' = "full"
          /\ Goto("probe", "spawn")
          /\ UNCHANGED kernelVars
    /\ UNCHANGED <<sock, srvStream, client, router_init, cursor>>

\* server_thread returns -1 when socket() fails, and main exits.
ServerSocket ==
    /\ \/ \E f \in Fd : Open(f, "udp") /\ sock' = f /\ Goto("socket", "select")
       \/ TableFull /\ Goto("socket", "exited") /\ Crash /\ UNCHANGED sock
    /\ UNCHANGED <<srvStream, client, router_init, cursor, link>>

\* Mutants: the result of select is ignored; the timeout closes the socket, and
\* the end of the turn closes it again.
ServerSelectIgnored ==
    /\ Goto("select", "read")
    /\ UNCHANGED <<sock, srvStream, client, router_init, cursor, link, kernelVars>>
ServerSelectCloses ==
    /\ \/ inbox = 0 /\ Goto("select", "close") /\ Close(sock, {"udp"})
       \/ inbox > 0 /\ Goto("select", "read") /\ UNCHANGED kernelVars
    /\ UNCHANGED <<sock, srvStream, client, router_init, cursor, link>>

\* setsockopt, bind and select() for 5 seconds.  They fail on a number that is
\* free, and on another object they fail, time out or report its data.
ServerSelect ==
    /\ IF Refers(sock, "udp")
       THEN Goto("select", IF inbox = 0 THEN "close" ELSE "read")
       ELSE Goto("select", "close") \/ (~Free(sock) /\ Goto("select", "read"))
    /\ UNCHANGED <<sock, srvStream, client, router_init, cursor, link, kernelVars>>
-----------------------------------------------------------------------------
\* start_with on the prefixes, parser_cmd and handle_cmd up to the handler's
\* first step that another thread can see or disturb.
DispatchQuery ==
    /\ srvPc' = "query"
    /\ router_init' = 0
    /\ UNCHANGED <<cursor, life>>

\* Mutant: the script's loop starts behind the read end of the pipe.
DispatchConfigLate(dev) ==
    /\ \/ dev = "box" /\ srvPc' = "script" /\ cursor' = PipeW
       \/ srvPc' = "reply" /\ UNCHANGED cursor
    /\ router_init' = 1
    /\ UNCHANGED life

\* A Box's handler runs the script before it answers; repeater_config returns
\* early when the join result fails or is late.
DispatchConfig(dev) ==
    /\ \/ dev = "box" /\ srvPc' = "script" /\ cursor' = PipeR
       \/ srvPc' = "reply" /\ UNCHANGED cursor
    /\ router_init' = 1
    /\ UNCHANGED life

DispatchRestart ==
    /\ srvPc' = "reply"
    /\ router_init' = 1
    /\ life' = "rebooting"
    /\ UNCHANGED cursor

\* check_update: access() on both files.
DispatchCheck(files) ==
    /\ srvPc' = IF files = {"fw.bin", "version"} THEN "check" ELSE "reply"
    /\ UNCHANGED <<router_init, cursor, life>>

\* update_firmware: without an image the answer is "fail".
DispatchUpgrade(files) ==
    /\ srvPc' = IF "fw.bin" \in files THEN "upgrade" ELSE "reply"
    /\ UNCHANGED <<router_init, cursor, life>>

DispatchUnknown ==
    /\ srvPc' = "close"
    /\ UNCHANGED <<router_init, cursor, life>>

Dispatch(c, files) ==
    /\ client' = c.dev
    /\ \/ c.op = "query" /\ DispatchQuery
       \/ c.op = "config" /\ DispatchConfig(c.dev)
       \/ c.op = "restart" /\ DispatchRestart
       \/ c.op = "check" /\ DispatchCheck(files)
       \/ c.op = "upgrade" /\ DispatchUpgrade(files)
       \/ c.op = "unknown" /\ DispatchUnknown

\* read() takes one datagram; it blocks when the online thread has taken it
\* meanwhile.  What another object yields starts with none of the prefixes.
ServerRead(files) ==
    /\ srvPc = "read"
    /\ \/ /\ Refers(sock, "udp") /\ inbox > 0
          /\ inbox' = inbox - 1
          /\ \E c \in Sent : Dispatch(c, files)
       \/ /\ ~Refers(sock, "udp")
          /\ srvPc' = "close"
          /\ UNCHANGED <<inbox, client, router_init, cursor, life>>
    /\ UNCHANGED <<sock, srvStream, link, fdtab, pipe, scripted, clobbered>>
-----------------------------------------------------------------------------
\* A handler opens or closes its descriptor.
OpenStream(from, kind, to) ==
    /\ Goto(from, to)
    /\ \E f \in Fd : Open(f, kind) /\ srvStream' = f

\* Mutant: the number stays in its variable.
CloseStreamKeeping(from, to) ==
    /\ Goto(from, to)
    /\ Close(srvStream, ServerKinds)
    /\ UNCHANGED srvStream

CloseStream(from, to) ==
    /\ Goto(from, to)
    /\ Close(srvStream, ServerKinds)
    /\ srvStream' = NoFd

Stay(from, to) == Goto(from, to) /\ UNCHANGED <<srvStream, kernelVars>>
Killed(from) == srvPc = from /\ Crash /\ UNCHANGED <<srvPc, srvStream>>

\* cmd_get: popen, and pclose; without a stream the handler returns -1 and
\* there is no reply.
HandleQuery ==
    \/ ~NoRoomForPopen /\ OpenStream("query", "query", "queryRead")
    \/ NoRoomForPopen /\ Stay("query", "close")
    \/ CloseStream("queryRead", "reply")

\* check_update reads the version file; fgets(NULL) when it cannot be opened.
HandleCheck ==
    \/ OpenStream("check", "version", "checkRead")
    \/ TableFull /\ Killed("check")
    \/ CloseStream("checkRead", "reply")

\* update_firmware opens the image and never closes it.  On a full table open
\* returns -1, which the code takes for a descriptor; a failed or short read
\* answers "fail".
HandleUpgrade ==
    \/ /\ Goto("upgrade", "image") \/ Goto("upgrade", "reply")
       /\ \E f \in Fd : Open(f, "fwFile")
       /\ UNCHANGED srvStream
    \/ TableFull /\ Stay("upgrade", "reply")

\* doFirmwareUpgrade writes an image: its header or checksum may be wrong;
\* while the device cannot be opened the loop turns without advancing (no
\* step); a short write returns with the device open; after the image the next
\* one may be wrong.  update_firmware answers "success" to every return.
HandleFlash ==
    \/ Stay("image", "reply")
    \/ Stay("image", "opening")
    \/ OpenStream("opening", "mtd", "flash")
    \/ Goto("flash", "reply") /\ srvStream' = NoFd /\ UNCHANGED kernelVars
    \/ CloseStream("flash", "version")
    \/ CloseStream("flash", "reply")

\* system("reboot"), then for(;;).
HandleReboot ==
    /\ srvPc = "upgrading"
    /\ life' = "rebooting"
    /\ UNCHANGED <<srvPc, srvStream, fdtab, inbox, pipe, scripted, clobbered>>

\* After the last image: fopen("/tmp/version", "r+"), and fgets(NULL) when the
\* file is missing or the table full; then reboot.
HandleFlashed(files) ==
    \/ "version" \in files /\ OpenStream("version", "version", "versionRead")
    \/ ("version" \notin files \/ TableFull) /\ Killed("version")
    \/ CloseStream("versionRead", "upgrading")
    \/ HandleReboot

ServerHandler(files) ==
    /\ HandleQuery \/ HandleCheck \/ HandleUpgrade \/ HandleFlash \/ HandleFlashed(files)
    /\ UNCHANGED <<sock, client, router_init, cursor, link>>
-----------------------------------------------------------------------------
\* router_init_script: close(i) for i = 3, 4, ... while the other threads run;
\* then sleep(1) and "init.sh gw all".  A Box still waits for its answer.
ServerScript ==
    /\ IF cursor + 1 < OpenMax THEN Goto("script", "script")
       ELSE Goto("script", IF client = "box" THEN "reply" ELSE "close")
    /\ cursor' = cursor + 1
    /\ Release(cursor)
    /\ scripted' = TRUE
    /\ UNCHANGED <<sock, srvStream, client, router_init, link, clobbered, life>>

\* After the reply to a phone the script runs unless router_init is 0.
AfterReply ==
    IF client = "phone" /\ router_init = 1
    THEN Goto("reply", "script") /\ cursor' = PipeR
    ELSE Goto("reply", "close") /\ UNCHANGED cursor

\* write_all(pipe_fw[1]).  It blocks while the pipe is full.  Number 4 may be
\* free or another object by now; a connection whose peer is gone raises
\* SIGPIPE.
ServerReply ==
    /\ \/ /\ Refers(PipeW, "pipeW") /\ pipe < MaxPipe
          /\ pipe' = pipe + 1
          /\ AfterReply
          /\ UNCHANGED <<fdtab, inbox, scripted, clobbered, life>>
       \/ ~Refers(PipeW, "pipeW") /\ AfterReply /\ UNCHANGED kernelVars
       \/ Refers(PipeW, "tcp") /\ srvPc = "reply" /\ Crash /\ UNCHANGED <<srvPc, cursor>>
    /\ UNCHANGED <<sock, srvStream, client, router_init, link>>

\* Mutant: the turn ends without close(sock).
ServerCloseForgotten ==
    /\ Goto("close", "socket")
    /\ sock' = NoFd /\ client' = "none"
    /\ UNCHANGED <<srvStream, router_init, cursor, link, kernelVars>>

\* close(sock) at the end of the turn, and the next turn.
ServerClose ==
    /\ Goto("close", "socket")
    /\ Close(sock, {"udp"})
    /\ sock' = NoFd /\ client' = "none"
    /\ UNCHANGED <<srvStream, router_init, cursor, link>>
=============================================================================
