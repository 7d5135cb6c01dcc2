------------------------------ MODULE ReplyPipe ------------------------------
(***************************************************************************)
(* The replies as octets (main.c): the server thread writes them one after *)
(* the other into the pipe, the online thread reads at most sizeof(recv)   *)
(* octets and broadcasts strlen(recv) of them.  The pipe keeps no          *)
(* boundaries, and recv is neither cleared nor terminated.                 *)
(*                                                                         *)
(* An octet is its number in the stream of everything the server thread    *)
(* has written; none of them is zero, for a reply is written up to its     *)
(* terminator.  CommandServer has the replies' meaning.  A script closes   *)
(* the pipe; what its two numbers refer to from then on is left to         *)
(* OnlineThread and RouterServer, and here the online thread gets to the   *)
(* end of what it was doing and waits.                                     *)
(***************************************************************************)
EXTENDS Integers, Sequences

CONSTANTS
    Size,      \* octets in recv (1024)
    Capacity,  \* octets the pipe holds (65536)
    Lengths,   \* of the replies (up to 4095: one write, which is atomic)
    MaxWrote   \* bound: octets written

ASSUME PipeAssumption ==
    /\ Size \in Nat \ {0}
    /\ Capacity \in Nat
    /\ Lengths \subseteq 1 .. Capacity
    /\ MaxWrote \in Nat

Nul == 0
Junk == -1   \* not zero, and nothing the server has written

VARIABLES
    srvPc,   \* where the server thread is
    length,  \* of the reply in sendbuf
    pipe,    \* the octets in the pipe
    open,    \* no script has closed the pipe
    onPc,    \* where the online thread is
    recv,    \* its buffer
    ret,     \* what its last read returned, 0 if it failed
    wrote,   \* history: octets written so far
    told,    \* history: octets broadcast so far, by the broadcast that read them
    longest, \* history: the longest read so far
    whole    \* history: the replies that fit into recv and met an empty pipe, each
             \* as the octets before it and behind its last

serverVars == <<srvPc, length>>
onlineVars == <<onPc, recv, ret, told, longest>>
vars == <<serverVars, pipe, open, onlineVars, wrote, whole>>

\* Every variable has its type; the pipe keeps its capacity.
TypeOK ==
    /\ srvPc \in {"command", "write", "script"}
    /\ length \in Lengths \cup {0}
    /\ pipe \in Seq(Nat \ {0}) /\ Len(pipe) <= Capacity
    /\ open \in BOOLEAN
    /\ onPc \in {"poll", "read", "send"}
    /\ recv \in [1 .. Size -> Nat \cup {Nul, Junk}]
    /\ ret \in 0 .. Size
    /\ wrote \in Nat /\ told \in Nat /\ longest \in 0 .. Size
    /\ whole \in SUBSET (Nat \X Nat)

\* recv is on the thread's stack and not initialised.
Init ==
    /\ srvPc = "command" /\ length = 0
    /\ pipe = <<>> /\ open = TRUE
    /\ onPc = "poll" /\ recv \in [1 .. Size -> {Nul, Junk}] /\ ret = 0
    /\ wrote = 0 /\ told = 0 /\ longest = 0 /\ whole = {}
-----------------------------------------------------------------------------
\* A command has been executed, and its reply is in sendbuf.
Answer ==
    /\ srvPc = "command"
    /\ srvPc' = "write"
    /\ \E n \in Lengths : wrote + n <= MaxWrote /\ length' = n
    /\ UNCHANGED <<pipe, open, onlineVars, wrote, whole>>

\* Mutant: a full pipe takes what fits.
WriteShort ==
    /\ srvPc = "write"
    /\ srvPc' \in {"command", "script"}
    /\ length' = 0
    /\ open
    /\ pipe' = SubSeq(pipe \o [i \in 1 .. length |-> wrote + i], 1,
                      IF Len(pipe) + length <= Capacity THEN Len(pipe) + length ELSE Capacity)
    /\ wrote' = wrote + length
    /\ UNCHANGED <<open, onlineVars, whole>>

\* write_all(pipe_fw[1]) blocks until there is room for the reply, and fails when
\* a script has closed the pipe.  A phone's configuration is followed by the
\* script.
Write ==
    /\ srvPc = "write"
    /\ srvPc' \in {"command", "script"}
    /\ length' = 0
    /\ IF open
       THEN /\ Len(pipe) + length <= Capacity
            /\ pipe' = pipe \o [i \in 1 .. length |-> wrote + i]
            /\ wrote' = wrote + length
            /\ whole' = IF pipe = <<>> /\ length <= Size
                        THEN whole \cup {<<wrote, wrote + length>>} ELSE whole
       ELSE UNCHANGED <<pipe, wrote, whole>>
    /\ UNCHANGED <<open, onlineVars>>

\* router_init_script closes both ends: what nobody has read is gone.
Script ==
    /\ srvPc = "script"
    /\ srvPc' = "command"
    /\ open' = FALSE /\ pipe' = <<>>
    /\ UNCHANGED <<length, onlineVars, wrote, whole>>
-----------------------------------------------------------------------------
\* Mutant: after the timeout recv is broadcast.
PollFallsThrough ==
    /\ onPc = "poll"
    /\ \/ pipe # <<>> /\ onPc' = "read" /\ UNCHANGED ret
       \/ pipe = <<>> /\ onPc' = "send" /\ ret' = 0
    /\ UNCHANGED <<serverVars, pipe, open, recv, told, longest, wrote, whole>>

\* poll() finds POLLIN.  (Its timeout announces the router and touches nothing
\* of this.)
Poll ==
    /\ onPc = "poll"
    /\ pipe # <<>>
    /\ onPc' = "read"
    /\ UNCHANGED <<serverVars, pipe, open, recv, ret, told, longest, wrote, whole>>

\* Mutants: recv keeps room for a terminator; what it keeps out is seen, but left in
\* the pipe; what does not fit is thrown away.
ReadLess ==
    /\ onPc = "read"
    /\ onPc' = "send"
    /\ LET n == IF Len(pipe) < Size - 1 THEN Len(pipe) ELSE Size - 1 IN
       /\ recv' = [i \in 1 .. Size |-> IF i <= n THEN pipe[i] ELSE recv[i]]
       /\ ret' = n
       /\ pipe' = SubSeq(pipe, n + 1, Len(pipe))
       /\ longest' = IF n > longest THEN n ELSE longest
    /\ UNCHANGED <<serverVars, open, told, wrote, whole>>
ReadPeeking ==
    /\ onPc = "read"
    /\ onPc' = "send"
    /\ LET n == IF Len(pipe) < Size - 1 THEN Len(pipe) ELSE Size - 1 IN
       /\ recv' = [i \in 1 .. Size |-> IF i <= Len(pipe) THEN pipe[i] ELSE recv[i]]
       /\ ret' = n
       /\ pipe' = SubSeq(pipe, n + 1, Len(pipe))
       /\ longest' = IF n > longest THEN n ELSE longest
    /\ UNCHANGED <<serverVars, open, told, wrote, whole>>
ReadDiscarding ==
    /\ onPc = "read"
    /\ onPc' = "send"
    /\ LET n == IF Len(pipe) < Size THEN Len(pipe) ELSE Size IN
       /\ recv' = [i \in 1 .. Size |-> IF i <= n THEN pipe[i] ELSE recv[i]]
       /\ ret' = n
       /\ pipe' = <<>>
       /\ longest' = IF n > longest THEN n ELSE longest
    /\ UNCHANGED <<serverVars, open, told, wrote, whole>>

\* read_all() is one read, and blocks while the pipe is empty.  It fails when the
\* script has closed the pipe since the poll, and the thread goes on to broadcast
\* what recv holds.
Read ==
    /\ onPc = "read"
    /\ pipe # <<>> \/ ~open
    /\ onPc' = "send"
    /\ LET n == IF Len(pipe) < Size THEN Len(pipe) ELSE Size IN
       /\ recv' = [i \in 1 .. Size |-> IF i <= n THEN pipe[i] ELSE recv[i]]
       /\ ret' = n
       /\ pipe' = SubSeq(pipe, n + 1, Len(pipe))
       /\ longest' = IF n > longest THEN n ELSE longest
    /\ UNCHANGED <<serverVars, open, told, wrote, whole>>

\* strlen(recv); without a terminator it runs on behind the buffer.
Strlen(buf) ==
    CHOOSE n \in 0 .. Size :
        /\ \A i \in 1 .. n : buf[i] # Nul
        /\ n = Size \/ buf[n + 1] = Nul

\* sendto(recv, strlen(recv)).
Send ==
    /\ onPc = "send"
    /\ onPc' = "poll"
    /\ told' = told + ret
    /\ UNCHANGED <<serverVars, pipe, open, recv, ret, longest, wrote, whole>>

ServerNext == Answer \/ Write \/ Script
OnlineNext == Poll \/ Read \/ Send

Next == ServerNext \/ OnlineNext

Spec == Init /\ [][Next]_vars

\* The scheduler runs the online thread whenever it can run.
FairSpec == Spec /\ WF_vars(OnlineNext)
-----------------------------------------------------------------------------
\* Octets `from`+1 .. `to` of the stream.
Stretch(from, to) == [i \in 1 .. (to - from) |-> from + i]

\* What was read and not broadcast yet.
InHand == IF onPc = "send" THEN SubSeq(recv, 1, ret) ELSE <<>>

\* No octet is skipped, repeated or overtaken by another one between the write
\* and the broadcast that reads it (main.c:165), until a script drops what is
\* in the pipe.
InOrder ==
    /\ open => InHand \o pipe = Stretch(told, wrote)
    /\ InHand = Stretch(told, told + Len(InHand))

\* What a broadcast has behind the octets it has read (main.c:172) was broadcast
\* before, at the same distance from the beginning, or is what the stack held at
\* the start: never a part of a reply that is still to come.
TailIsOld ==
    onPc = "send" => \A i \in (ret + 1) .. Size : recv[i] \in {Nul, Junk} \cup 1 .. told

\* After a reply of sizeof(recv) octets or more recv has no terminator any more:
\* every later broadcast goes on to the end of recv and behind it (main.c:172),
\* however short the reply is.
FullForEver == longest = Size => Strlen(recv) = Size

\* What sendto(recv, strlen(recv)) adds to the octets that were read
\* (main.c:165, 172).
BehindRead == TailIsOld /\ FullForEver

\* A reply that fits into recv and meets an empty pipe is read as a whole
\* (main.c:165): it can be in one broadcast with later ones, but not in two.
WholeInOne ==
    \A r \in whole : ~(r[1] < told /\ told < r[2])

\* A broadcast without anything new happens only when a script has closed the
\* pipe between the poll and the read (main.c:165): the phones hear the last
\* reply again.
RepeatsAfterScript == [][onPc = "send" /\ onPc' = "poll" /\ told' = told => ~open]_vars

\* Every octet of a reply is broadcast (main.c:172), unless a script closes the
\* pipe first (main.c:287).
Delivered == \A k \in 1 .. MaxWrote : wrote >= k ~> told >= k \/ ~open
-----------------------------------------------------------------------------
\* The octets that have been read.
Taken == IF onPc = "send" THEN told + ret ELSE told

\* What is in the pipe and what has just been read, octet by octet.
Stream ==
    /\ told <= wrote /\ Taken <= wrote
    /\ open => Len(pipe) = wrote - Taken /\ \A i \in 1 .. Len(pipe) : pipe[i] = Taken + i
    /\ ~open => pipe = <<>>
    /\ onPc = "send" => \A i \in 1 .. ret : recv[i] = told + i
    /\ onPc = "read" => pipe # <<>> \/ ~open
    /\ onPc = "send" => ret > 0 \/ ~open

\* What recv holds that is not part of that.
Remains ==
    /\ \A i \in 1 .. Size :
          (onPc = "send" /\ i <= ret) \/ recv[i] \in {Nul, Junk} \cup 1 .. told
    /\ longest = Size => \A i \in 1 .. Size : recv[i] # Nul

\* A reply in `whole` has been read completely, or nothing of it has.
Unsplit ==
    \A r \in whole :
        /\ r[2] - r[1] <= Size /\ r[2] <= wrote
        /\ Taken = r[1] \/ Taken >= r[2]
        /\ told <= r[1] \/ told >= r[2]

\* The inductive invariant of ReplyPipeProofs.
IndInv == TypeOK /\ Stream /\ Remains /\ Unsplit
=============================================================================
