----------------------------- MODULE Descriptors -----------------------------
(***************************************************************************)
(* The descriptor table that all threads of the router server share, and   *)
(* the two kernel queues behind it: the server's UDP receive queue and the *)
(* pipe from the server thread to the online thread.                       *)
(*                                                                         *)
(* A thread never holds an object, only the NUMBER of one.  The kernel     *)
(* hands out the lowest free number, and close(n) closes whatever n refers *)
(* to at that moment.  fdtab maps each number to the kind of object it     *)
(* refers to.  The kind says who opened the object, and what for:          *)
(*                                                                         *)
(*   pipeR, pipeW  the two ends of pipe_fw                  main.c:329     *)
(*   probe         the socket of one link probe             main.c:46      *)
(*   bcast         the online thread's broadcast socket     main.c:120     *)
(*   udp           the server thread's command socket       main.c:207     *)
(*   query, version, mtd                                                   *)
(*                 the server thread's popen stream, version file and      *)
(*                 flash device             router_dev.c:157, 1881         *)
(*   fwFile        the firmware image opened for reading router_dev.c:1820 *)
(*   upStream, upVersion                                                   *)
(*                 the update thread's popen stream and version file       *)
(*   tcp           the update thread's connection           update.h:47    *)
(*                                                                         *)
(* stdin, stdout and stderr are 0, 1 and 2: no code closes them.           *)
(***************************************************************************)
EXTENDS Integers

CONSTANTS
    OpenMax,   \* sysconf(_SC_OPEN_MAX): the numbers are 0 .. OpenMax-1
    MaxInbox,  \* bound: datagrams the UDP receive queue holds
    MaxPipe    \* replies the pipe holds before a write blocks

ASSUME SizesAssumption ==
    /\ OpenMax \in Nat /\ OpenMax >= 5
    /\ MaxInbox \in Nat /\ MaxPipe \in Nat

VARIABLES
    fdtab,     \* number -> kind of the object it refers to, or "free"
    inbox,     \* number of datagrams in the UDP receive queue
    pipe,      \* number of replies in the pipe
    scripted,  \* history: some router_init_script has begun to close numbers
    clobbered, \* history: before that, a close has hit an object that its
               \* caller had not opened
    life       \* "running"; "rebooting" once reboot was called; "gone"

kernelVars == <<fdtab, inbox, pipe, scripted, clobbered, life>>

Fd == 3 .. (OpenMax - 1)
NoFd == -1
PipeR == 3      \* pipe_fw[0]: pipe() runs first and takes the lowest numbers
PipeW == 4      \* pipe_fw[1]

ServerKinds == {"query", "version", "mtd"}   \* what srvStream may stand for
UpdateKinds == {"upStream", "upVersion"}     \* what upStream may stand for
Kinds == {"pipeR", "pipeW", "probe", "bcast", "udp", "fwFile", "tcp"}
             \cup ServerKinds \cup UpdateKinds

KernelTypeOK ==
    /\ fdtab \in [Fd -> Kinds \cup {"free"}]
    /\ inbox \in Nat
    /\ pipe \in Nat
    /\ scripted \in BOOLEAN
    /\ clobbered \in BOOLEAN
    /\ life \in {"running", "rebooting", "gone"}

\* main after pipe(): everything else is still free.
KernelInit ==
    /\ fdtab = [f \in Fd |-> IF f = PipeR THEN "pipeR"
                             ELSE IF f = PipeW THEN "pipeW" ELSE "free"]
    /\ inbox = 0
    /\ pipe = 0
    /\ scripted = FALSE
    /\ clobbered = FALSE
    /\ life = "running"
-----------------------------------------------------------------------------
Free(f) == f \in Fd /\ fdtab[f] = "free"
Refers(f, kind) == f \in Fd /\ fdtab[f] = kind
Lowest(f) == Free(f) /\ \A g \in Fd : g < f => ~Free(g)
TableFull == \A f \in Fd : ~Free(f)
\* popen needs two numbers for a moment and keeps the lower one.
NoRoomForPopen == \A f, g \in Fd : Free(f) /\ Free(g) => f = g

\* socket(), popen() or open() returns f.
Open(f, kind) ==
    /\ Lowest(f)
    /\ fdtab' = [fdtab EXCEPT ![f] = kind]
    /\ UNCHANGED <<inbox, pipe, scripted, clobbered, life>>

\* The number f becomes free; a queue goes with the last reference to it.
Release(f) ==
    /\ fdtab' = [fdtab EXCEPT ![f] = "free"]
    /\ inbox' = IF Refers(f, "udp") THEN 0 ELSE inbox
    /\ pipe' = IF Refers(f, "pipeR") THEN 0 ELSE pipe

\* close(f) by a thread that believes f to be an object of one of the kinds
\* `own`.  On a free number it is EBADF, which no caller looks at.
Close(f, own) ==
    /\ IF f \in Fd THEN Release(f) ELSE UNCHANGED <<fdtab, inbox, pipe>>
    /\ clobbered' = (\/ clobbered
                     \/ ~scripted /\ f \in Fd /\ fdtab[f] \notin own \cup {"free"})
    /\ UNCHANGED <<scripted, life>>

\* A signal kills the process, it exits, or the device goes down: no thread
\* runs any more.
Crash ==
    /\ life' = "gone"
    /\ UNCHANGED <<fdtab, inbox, pipe, scripted, clobbered>>
=============================================================================
