---------------------------- MODULE OnlineThread ----------------------------
(***************************************************************************)
(* server_online_thread, main.c: waits on the pipe for at most 3 seconds,  *)
(* broadcasts every reply it reads from it, and announces the router when  *)
(* nothing came.  It looks at the object the number 3 refers to NOW.       *)
(***************************************************************************)
EXTENDS Descriptors

VARIABLES
    onPc,     \* where the thread is
    sockfd    \* its socket's number

onlineVars == <<onPc, sockfd>>

OnlineTypeOK ==
    /\ onPc \in {"off", "socket", "setopt", "poll", "recv", "send", "dead"}
    /\ sockfd \in Fd \cup {NoFd}

OnlineInit == onPc = "off" /\ sockfd = NoFd

\* Kinds whose readability depends on someone outside the process.
PeerDriven == {"tcp", "upStream", "query"}

\* POLLIN may be set for number 3.
MaybeReadable ==
    \/ Refers(PipeR, "pipeR") /\ pipe > 0
    \/ Refers(PipeR, "udp") /\ inbox > 0
    \/ fdtab[PipeR] \in PeerDriven \cup {"fwFile", "version", "upVersion", "mtd"}

\* The poll may run into its timeout.  On a free number a new poll returns at
\* once with POLLNVAL and the loop spins, which is a stuttering step; a poll
\* that was entered before the number was freed still times out.
MaybeSilent ==
    \/ Refers(PipeR, "pipeR") /\ pipe = 0
    \/ Refers(PipeR, "udp") /\ inbox = 0
    \/ fdtab[PipeR] \in PeerDriven \cup {"free", "bcast", "probe", "pipeW"}

\* socket(): on a full table it returns -1, and setsockopt(-1) fails next.
OnlineSocket ==
    /\ onPc = "socket"
    /\ onPc' = "setopt"
    /\ \/ \E f \in Fd : Open(f, "bcast") /\ sockfd' = f
       \/ TableFull /\ sockfd' = NoFd /\ UNCHANGED kernelVars

\* SO_BROADCAST and SO_REUSEADDR: the thread returns when they fail, which is
\* when sockfd is not a socket.
OnlineSetopt ==
    /\ onPc = "setopt"
    /\ onPc' = IF sockfd \in Fd /\ fdtab[sockfd] \in {"bcast", "udp", "tcp", "probe"}
               THEN "poll" ELSE "dead"
    /\ UNCHANGED <<sockfd, kernelVars>>

\* Mutant: the timeout is not used for an announcement.
OnlineTimeoutSilent ==
    /\ onPc = "poll"
    /\ MaybeSilent
    /\ UNCHANGED <<onPc, sockfd, kernelVars>>

\* poll() = 0: broadcast "I'm online".
OnlineTimeout ==
    /\ onPc = "poll"
    /\ MaybeSilent
    /\ onPc' = "send"
    /\ UNCHANGED <<sockfd, kernelVars>>

OnlinePollin ==
    /\ onPc = "poll"
    /\ MaybeReadable
    /\ onPc' = "recv"
    /\ UNCHANGED <<sockfd, kernelVars>>

\* Mutant: the read end is closed after the read.
OnlineReadPipeOnce ==
    /\ onPc = "recv"
    /\ Refers(PipeR, "pipeR") /\ pipe > 0
    /\ Close(PipeR, {"pipeR"})
    /\ onPc' = "send"
    /\ UNCHANGED sockfd

\* read_all(pipe_fw[0]): one read of at most 1024 bytes.  It finishes at least
\* one reply; the pipe may keep others.
OnlineReadPipe ==
    /\ onPc = "recv"
    /\ Refers(PipeR, "pipeR") /\ pipe > 0
    /\ \E left \in 0 .. (pipe - 1) : pipe' = left
    /\ onPc' = "send"
    /\ UNCHANGED <<sockfd, fdtab, inbox, scripted, clobbered, life>>

\* Number 3 is no longer the pipe.  The read takes a datagram from the command
\* queue, or some bytes of another object, or fails; what the buffer holds
\* then is sent in every case.  On an empty command queue it blocks.
OnlineReadStray ==
    /\ onPc = "recv"
    /\ ~Refers(PipeR, "pipeR")
    /\ Refers(PipeR, "udp") => inbox > 0
    /\ inbox' = IF Refers(PipeR, "udp") THEN inbox - 1 ELSE inbox
    /\ onPc' = "send"
    /\ UNCHANGED <<sockfd, fdtab, pipe, scripted, clobbered, life>>

\* sendto() on whatever sockfd refers to; the result is not looked at.  A copy
\* of the broadcast that comes back to the command socket is one of the
\* datagrams RouterServer lets arrive.
OnlineSend ==
    /\ onPc = "send"
    /\ onPc' = "poll"
    /\ UNCHANGED <<sockfd, kernelVars>>

OnlineNext ==
    \/ OnlineSocket \/ OnlineSetopt \/ OnlineTimeout \/ OnlinePollin
    \/ OnlineReadPipe \/ OnlineReadStray \/ OnlineSend
=============================================================================
