------------------------- MODULE CommandServerProofs -------------------------
(***************************************************************************)
(* IndInv is an inductive invariant of CommandServer, for every capacity   *)
(* of the queue and the pipe, every set of commands and any number of      *)
(* retries; and CommandServer implements CommandService.                   *)
(***************************************************************************)
EXTENDS CommandServer, TLAPS

\* Commands, responses and fragments are different things.
LEMMA Kinds ==
    /\ Configured \in Responses /\ Configured # Fragment
    /\ Fragment \notin Messages
    /\ Once \subseteq Commands
    /\ \A c \in Commands : c \in Messages /\ c.kind = "command" /\ c \notin Responses
    /\ \A m \in Messages :
          /\ Response(m) \in Responses /\ CommandOf(m) \in Commands
          /\ m \in Commands => CommandOf(m) = m
          /\ m \in Responses => Response(m) = m
          /\ Response(m) = Configured => m.dev = "phone" /\ m.op = "config"
          /\ m \in Responses => m.kind = "response"
          /\ m.kind = "response" /\ m.dev = "phone" /\ m.op = "config" => m = Configured
          /\ CommandOf(m) \in Once /\ m.kind = "response" /\ m.dev = "phone" => m = Configured
BY DEF Configured, Fragment, Responses, Commands, Messages, Once, Response, CommandOf, Ops, Devices

\* What a read of the online thread leaves in the pipe.
Rest(q, p, n) ==
    \/ n > 0 /\ q = SubSeq(p, n + 1, Len(p))
    \/ n < Len(p) /\ q = <<Fragment>> \o SubSeq(p, n + 2, Len(p))

LEMMA ReadLeaves ==
    ASSUME NEW S, Fragment \in S, NEW p \in Seq(S), NEW q, NEW n \in 0 .. Len(p), Rest(q, p, n)
    PROVE  /\ q \in Seq(S)
           /\ Len(q) <= Len(p)
           /\ \A i \in 1 .. Len(q) : q[i] = Fragment \/ \E j \in 1 .. Len(p) : q[i] = p[j]
<1>1. CASE n > 0 /\ q = SubSeq(p, n + 1, Len(p))
    BY <1>1
<1>2. CASE n < Len(p) /\ q = <<Fragment>> \o SubSeq(p, n + 2, Len(p))
  <2> DEFINE r == SubSeq(p, n + 2, Len(p))
  <2>1. r \in Seq(S) /\ Len(r) = Len(p) - n - 1 /\ \A i \in 1 .. Len(r) : r[i] = p[n + 1 + i]
      BY <1>2
  <2>2. <<Fragment>> \in Seq(S) /\ Len(<<Fragment>>) = 1
      OBVIOUS
  <2> HIDE DEF r
  <2>3. q = <<Fragment>> \o r
      BY <1>2 DEF r
  <2>4. q \in Seq(S) /\ Len(q) = 1 + Len(r) /\ q[1] = Fragment
        /\ \A i \in 2 .. Len(q) : q[i] = r[i - 1]
      BY <2>1, <2>2, <2>3
  <2>5. Len(q) <= Len(p) /\ Len(q) \in Nat
      BY <1>2, <2>1, <2>4
  <2>6. ASSUME NEW i \in 1 .. Len(q) PROVE q[i] = Fragment \/ \E j \in 1 .. Len(p) : q[i] = p[j]
    <3>1. CASE i = 1
        BY <2>4, <3>1
    <3>2. CASE i # 1
      <4>1. i \in 2 .. Len(q) /\ i - 1 \in 1 .. Len(r) /\ n + i \in 1 .. Len(p)
          BY <1>2, <2>1, <2>4, <3>2
      <4>2. q[i] = p[n + i]
          BY <2>1, <2>4, <4>1
      <4> QED
          BY <4>1, <4>2
    <3> QED
        BY <3>1, <3>2
  <2> QED
      BY <2>4, <2>5, <2>6
<1> QED
    BY <1>1, <1>2 DEF Rest
-----------------------------------------------------------------------------
\* What a write of the server thread adds to the pipe.
LEMMA AppendAdds ==
    ASSUME NEW S, NEW p \in Seq(S), NEW e \in S
    PROVE  /\ Append(p, e) \in Seq(S)
           /\ Len(Append(p, e)) = Len(p) + 1
           /\ \A i \in 1 .. Len(Append(p, e)) :
                 Append(p, e)[i] = e \/ (i <= Len(p) /\ Append(p, e)[i] = p[i])
<1> DEFINE q == Append(p, e)
<1>1. q \in Seq(S) /\ Len(q) = Len(p) + 1 /\ q[Len(p) + 1] = e
    OBVIOUS
<1>2. \A i \in 1 .. Len(p) : q[i] = p[i]
    OBVIOUS
<1>3. Len(p) \in Nat
    OBVIOUS
<1> HIDE DEF q
<1>4. ASSUME NEW i \in 1 .. Len(q) PROVE q[i] = e \/ (i <= Len(p) /\ q[i] = p[i])
    BY <1>1, <1>2, <1>3
<1> QED
    BY <1>1, <1>4 DEF q

\* An empty queue.
LEMMA EmptyQueue == Nothing \in [Messages -> 0 .. MaxQueue] /\ \A m \in Messages : Nothing[m] = 0
<1>1. 0 \in 0 .. MaxQueue
    BY CommandsAssumption
<1> QED
    BY <1>1 DEF Nothing

\* The invariant holds when the process starts.
LEMMA InitHolds == Init => IndInv
<1> SUFFICES ASSUME Init PROVE IndInv
    OBVIOUS
<1> USE Kinds, EmptyQueue, CommandsAssumption DEF Init, Started
<1>1. TypeOK
    BY DEF TypeOK
<1>2. EchoConfined
    BY DEF EchoConfined, Messages
<1>3. QueuedOnce
    BY DEF QueuedOnce
<1>4. Places
    BY DEF Places, Messages
<1> QED
    BY <1>1, <1>2, <1>3, <1>4 DEF IndInv

\* One step, action by action.
LEMMA StepHolds == IndInv /\ [Next]_vars => IndInv'
<1> SUFFICES ASSUME IndInv, [Next]_vars PROVE IndInv'
    OBVIOUS
<1> USE Kinds, EmptyQueue, CommandsAssumption DEF IndInv, serverVars, onlineVars, history
<1>1. CASE Send
  <2>1. PICK c \in Sent :
           /\ asked' = IF c \in Once THEN [asked EXCEPT ![c] = @ + 1] ELSE asked
           /\ Arrives(c)
      BY <1>1 DEF Send
  <2>2. UNCHANGED <<srvPc, msg, router_init, pipe, open, onPc, recv, done>>
      BY <1>1 DEF Send
  <2>3. c \in Messages /\ c # Configured
      OBVIOUS
  <2>4. \/ "sock" \in open /\ queue[c] < MaxQueue /\ queue' = [queue EXCEPT ![c] = @ + 1]
        \/ queue' = queue
      BY <2>1 DEF Arrives
  <2>5. queue' \in [Messages -> 0 .. MaxQueue] /\ queue'[Configured] = queue[Configured]
      BY <2>3, <2>4 DEF TypeOK, Messages
  <2>6. asked' \in [Once -> Nat]
      BY <2>1 DEF TypeOK
  <2>7. TypeOK' /\ EchoConfined' /\ Places'
      BY <2>2, <2>4, <2>5, <2>6 DEF TypeOK, EchoConfined, Places
  <2>8. ASSUME NEW d \in Once PROVE done'[d] + queue'[d] <= asked'[d]
    <3>1. done[d] + queue[d] <= asked[d] /\ queue[d] \in Nat /\ done[d] \in Nat /\ asked[d] \in Nat
        BY DEF QueuedOnce, TypeOK
    <3>2. CASE d = c
        BY <2>1, <2>2, <2>3, <2>4, <3>1, <3>2 DEF TypeOK
    <3>3. CASE d # c
        BY <2>1, <2>2, <2>3, <2>4, <3>1, <3>3 DEF TypeOK
    <3> QED
        BY <3>2, <3>3
  <2> QED
      BY <2>7, <2>8 DEF QueuedOnce
<1>2. CASE ServerSocket
  <2>1. TypeOK'
      BY <1>2 DEF ServerSocket, TypeOK
  <2>2. EchoConfined'
      BY <1>2 DEF ServerSocket, TypeOK, EchoConfined, Places, Messages
  <2>3. QueuedOnce'
      BY <1>2 DEF ServerSocket, TypeOK, EchoConfined, QueuedOnce, Places, Messages
  <2>4. Places'
      BY <1>2 DEF ServerSocket, TypeOK, Places, Messages
  <2> QED
      BY <2>1, <2>2, <2>3, <2>4
<1>3. CASE ServerTimeout
  <2>1. TypeOK'
      BY <1>3 DEF ServerTimeout, TypeOK
  <2>2. EchoConfined'
      BY <1>3 DEF ServerTimeout, TypeOK, EchoConfined, Places, Messages
  <2>3. QueuedOnce'
      BY <1>3 DEF ServerTimeout, TypeOK, EchoConfined, QueuedOnce, Places, Messages
  <2>4. Places'
      BY <1>3 DEF ServerTimeout, TypeOK, Places, Messages
  <2> QED
      BY <2>1, <2>2, <2>3, <2>4
<1>4. CASE ServerRead
  <2>1. PICK m \in Messages :
           /\ queue[m] > 0
           /\ queue' = [queue EXCEPT ![m] = @ - 1]
           /\ msg' = m
           /\ \/ /\ ~Executable(m)
                 /\ srvPc' = "close"
                 /\ UNCHANGED <<router_init, done>>
              \/ /\ Executable(m)
                 /\ \/ srvPc' \in {"reply", "close"}
                    \/ m.dev = "box" /\ m.op = "config" /\ srvPc' = "script"
                 /\ router_init' = InitFlag(m.op)
                 /\ done' = IF CommandOf(m) \in Once
                            THEN [done EXCEPT ![CommandOf(m)] = @ + 1] ELSE done
      BY <1>4 DEF ServerRead
  <2>2. srvPc = "select" /\ UNCHANGED <<pipe, open, onPc, recv, asked>>
      BY <1>4 DEF ServerRead
  <2>3. m # Configured
      BY <2>1, <2>2 DEF EchoConfined
  <2>4. /\ queue' \in [Messages -> 0 .. MaxQueue]
        /\ \A d \in Messages : queue'[d] = IF d = m THEN queue[d] - 1 ELSE queue[d]
      BY <2>1 DEF TypeOK
  <2>5. /\ done' \in [Once -> Nat]
        /\ \A d \in Once :
              \/ done'[d] = done[d]
              \/ done'[d] = done[d] + 1 /\ Executable(m) /\ CommandOf(m) = d
    <3>1. done \in [Once -> Nat]
        BY DEF TypeOK
    <3>2. CASE done' = done
        BY <3>1, <3>2
    <3>3. CASE /\ Executable(m) /\ CommandOf(m) \in Once
               /\ done' = [done EXCEPT ![CommandOf(m)] = @ + 1]
      <4> HIDE DEF IndInv
      <4> QED
        BY <3>1, <3>3
    <3> QED
        BY <2>1, <3>2, <3>3
  <2>6. router_init' \in {0, 1} /\ (m.op = "config" /\ srvPc' # "close" => router_init' = 1)
    <3>1. m.op \in Ops /\ router_init \in {0, 1}
        BY DEF TypeOK, Messages, Commands, Responses
    <3> QED
        BY <2>1, <3>1 DEF InitFlag, Ops
  <2>7. srvPc' \in {"script", "reply", "close"}
      BY <2>1
  <2>8. TypeOK'
      BY <2>1, <2>2, <2>4, <2>5, <2>6, <2>7 DEF TypeOK
  <2>9. EchoConfined'
    <3>1. Configured \in Messages
        BY DEF Messages
    <3> QED
        BY <2>2, <2>3, <2>4, <3>1 DEF EchoConfined
  <2>10. Places'
      BY <2>1, <2>2, <2>6, <2>7 DEF Places
  <2>11. ASSUME NEW d \in Once PROVE done'[d] + queue'[d] <= asked'[d]
    <3>1. /\ done[d] + queue[d] <= asked[d] /\ queue[d] \in Nat /\ done[d] \in Nat /\ asked[d] \in Nat
          /\ d \in Messages
        BY DEF QueuedOnce, TypeOK
    <3>2. \/ done'[d] = done[d]
          \/ done'[d] = done[d] + 1 /\ Executable(m) /\ CommandOf(m) = d
        BY <2>5
    <3>3. CASE done'[d] = done[d]
        BY <2>2, <2>4, <3>1, <3>3
    <3>4. CASE done'[d] = done[d] + 1 /\ Executable(m) /\ CommandOf(m) = d
      <4>1. m \in Commands
          BY <2>3, <3>4 DEF Executable, Messages
      <4> QED
          BY <2>2, <2>4, <3>1, <3>4, <4>1
    <3> QED
        BY <3>2, <3>3, <3>4
  <2> QED
      BY <2>8, <2>9, <2>10, <2>11 DEF QueuedOnce
<1>5. CASE ServerReply
  <2>1. /\ srvPc = "reply" /\ msg \in Messages
        /\ srvPc' = IF msg.dev = "phone" /\ router_init = 1 THEN "script" ELSE "close"
        /\ UNCHANGED <<msg, router_init, queue, open, onPc, recv, asked, done>>
      BY <1>5 DEF ServerReply, Places
  <2>2. /\ pipe' \in Seq(Responses \cup {Fragment}) /\ Len(pipe') <= MaxPipe
        /\ "pipe" \notin open => pipe' = pipe
        /\ \A i \in 1 .. Len(pipe') : pipe'[i] = Response(msg) \/ (i <= Len(pipe) /\ pipe'[i] = pipe[i])
    <3>1. CASE "pipe" \notin open
        BY <1>5, <3>1 DEF ServerReply, TypeOK
    <3>2. CASE "pipe" \in open
      <4>1. Len(pipe) < MaxPipe /\ pipe' = Append(pipe, Response(msg))
          BY <1>5, <3>2 DEF ServerReply
      <4>2. Response(msg) \in Responses \cup {Fragment}
          BY <2>1
      <4> HIDE DEF IndInv
      <4>3. pipe \in Seq(Responses \cup {Fragment}) /\ Len(pipe) \in Nat
          BY DEF IndInv, TypeOK
      <4> QED
          BY <4>1, <4>2, <4>3, <3>2, AppendAdds, SMTT(30)
    <3> QED
        BY <3>1, <3>2
  <2>3. TypeOK'
      BY <2>1, <2>2 DEF TypeOK
  <2>4. EchoConfined'
    <3>1. ASSUME NEW i \in 1 .. Len(pipe'), pipe'[i] = Configured PROVE srvPc' = "script"
      <4>1. ~ (i <= Len(pipe) /\ pipe'[i] = pipe[i])
          BY <2>1, <2>2, <3>1 DEF EchoConfined, TypeOK
      <4>2. Response(msg) = Configured
          BY <2>2, <3>1, <4>1
      <4> QED
          BY <2>1, <4>2 DEF Places
    <3> QED
        BY <2>1, <3>1 DEF EchoConfined
  <2>5. QueuedOnce' /\ Places'
      BY <2>1, <2>2 DEF QueuedOnce, Places
  <2> QED
      BY <2>3, <2>4, <2>5
<1>6. CASE ScriptCloses
  <2>1. TypeOK'
      BY <1>6 DEF ScriptCloses, TypeOK
  <2>2. EchoConfined'
      BY <1>6 DEF ScriptCloses, TypeOK, EchoConfined, Places, Messages
  <2>3. QueuedOnce'
      BY <1>6 DEF ScriptCloses, TypeOK, EchoConfined, QueuedOnce, Places, Messages
  <2>4. Places'
      BY <1>6 DEF ScriptCloses, TypeOK, Places, Messages
  <2> QED
      BY <2>1, <2>2, <2>3, <2>4
<1>7. CASE ScriptEnds
  <2>1. TypeOK'
      BY <1>7 DEF ScriptEnds, TypeOK
  <2>2. EchoConfined'
      BY <1>7 DEF ScriptEnds, TypeOK, EchoConfined, Places, Messages
  <2>3. QueuedOnce'
      BY <1>7 DEF ScriptEnds, TypeOK, EchoConfined, QueuedOnce, Places, Messages
  <2>4. Places'
      BY <1>7 DEF ScriptEnds, TypeOK, Places, Messages
  <2> QED
      BY <2>1, <2>2, <2>3, <2>4
<1>8. CASE ServerClose
  <2>1. TypeOK'
      BY <1>8 DEF ServerClose, TypeOK
  <2>2. EchoConfined'
      BY <1>8 DEF ServerClose, TypeOK, EchoConfined, Places, Messages
  <2>3. QueuedOnce'
      BY <1>8 DEF ServerClose, TypeOK, EchoConfined, QueuedOnce, Places, Messages
  <2>4. Places'
      BY <1>8 DEF ServerClose, TypeOK, Places, Messages
  <2> QED
      BY <2>1, <2>2, <2>3, <2>4
<1>9. CASE OnlineRead
  <2>1. PICK n \in 0 .. Len(pipe) : Rest(pipe', pipe, n)
      BY <1>9 DEF OnlineRead, Rest
  <2>2. /\ "pipe" \in open /\ recv' = pipe[1] /\ onPc' = "send"
        /\ UNCHANGED <<srvPc, msg, router_init, queue, open, asked, done>>
      BY <1>9 DEF OnlineRead
  <2>3. /\ pipe' \in Seq(Responses \cup {Fragment}) /\ Len(pipe') <= Len(pipe)
        /\ \A i \in 1 .. Len(pipe') : pipe'[i] = Fragment \/ \E j \in 1 .. Len(pipe) : pipe'[i] = pipe[j]
    <3> DEFINE S == Responses \cup {Fragment}
    <3>1. Fragment \in S /\ pipe \in Seq(S)
        BY DEF TypeOK
    <3> HIDE DEF IndInv, S
    <3> QED
        BY <2>1, <3>1, ReadLeaves DEF S
  <2>4. 1 \in 1 .. Len(pipe) /\ pipe[1] \in Responses \cup {Fragment}
      BY <1>9 DEF OnlineRead, TypeOK
  <2>5. TypeOK'
      BY <2>2, <2>3, <2>4 DEF TypeOK, Messages
  <2>6. EchoConfined'
      BY <2>2, <2>3, <2>4 DEF EchoConfined
  <2>7. QueuedOnce'
      BY <2>2 DEF QueuedOnce
  <2>8. Places'
      BY <2>2, <2>4 DEF Places
  <2> QED
      BY <2>5, <2>6, <2>7, <2>8
<1>10. CASE OnlineReadStray
  <2>1. /\ "pipe" \notin open /\ onPc' = "send"
        /\ UNCHANGED <<srvPc, msg, router_init, pipe, open, asked, done>>
      BY <1>10 DEF OnlineReadStray
  <2>2. CASE recv' \in {recv, Fragment} /\ UNCHANGED queue
    <3>1. recv' \in Messages \cup {Fragment}
        BY <2>2 DEF TypeOK
    <3> QED
        BY <2>1, <2>2, <3>1 DEF TypeOK, EchoConfined, QueuedOnce, Places, Messages
  <2>3. ASSUME "bcast" \notin open, NEW m \in Messages, queue[m] > 0,
               queue' = [queue EXCEPT ![m] = @ - 1], recv' = m
        PROVE  IndInv'
    <3>1. /\ queue' \in [Messages -> 0 .. MaxQueue]
          /\ \A d \in Messages : queue'[d] = IF d = m THEN queue[d] - 1 ELSE queue[d]
        BY <2>3 DEF TypeOK
    <3>2. \A d \in Messages : queue[d] \in Nat /\ queue'[d] <= queue[d]
      <4>1. ASSUME NEW d \in Messages PROVE queue[d] \in 0 .. MaxQueue
          BY DEF TypeOK
      <4> QED
          BY <3>1, <4>1
    <3>3. TypeOK'
        BY <2>1, <2>3, <3>1 DEF TypeOK
    <3>4. EchoConfined'
        BY <2>1, <2>3, <3>2 DEF EchoConfined, Messages
    <3>5. QueuedOnce'
      <4>1. ASSUME NEW d \in Once PROVE done'[d] + queue'[d] <= asked'[d]
        <5>1. done[d] \in Nat /\ asked[d] \in Nat /\ queue'[d] \in Nat /\ queue[d] \in Nat
              /\ queue'[d] <= queue[d]
            BY <3>1, <3>2 DEF TypeOK
        <5> QED
            BY <2>1, <5>1 DEF QueuedOnce
      <4> QED
          BY <4>1 DEF QueuedOnce
    <3>6. Places'
        BY <2>1, <2>3 DEF Places, TypeOK
    <3> QED
        BY <3>3, <3>4, <3>5, <3>6
  <2> QED
      BY <1>10, <2>2, <2>3 DEF OnlineReadStray
<1>11. CASE OnlineSend
  <2>1. UNCHANGED <<srvPc, msg, router_init, pipe, open, recv, asked, done>> /\ onPc' = "poll"
      BY <1>11 DEF OnlineSend
  <2>2. \/ queue' = queue
        \/ /\ "bcast" \in open /\ "sock" \in open /\ recv \in Messages /\ queue[recv] < MaxQueue
           /\ queue' = [queue EXCEPT ![recv] = @ + 1]
      BY <1>11 DEF OnlineSend, Arrives
  <2>3. CASE queue' = queue
      BY <2>1, <2>3 DEF TypeOK, EchoConfined, QueuedOnce, Places
  <2>4. CASE /\ "bcast" \in open /\ "sock" \in open /\ recv \in Messages /\ queue[recv] < MaxQueue
             /\ queue' = [queue EXCEPT ![recv] = @ + 1]
    <3>1. queue' \in [Messages -> 0 .. MaxQueue] /\ \A d \in Messages \ {recv} : queue'[d] = queue[d]
        BY <2>4 DEF TypeOK
    <3>2. TypeOK'
        BY <2>1, <3>1 DEF TypeOK
    <3>3. EchoConfined'
        BY <2>1, <2>4, <3>1 DEF EchoConfined, Messages
    <3>4. QueuedOnce'
      <4>1. recv \notin Once
          BY <2>4 DEF Places
      <4> QED
          BY <2>1, <3>1, <4>1 DEF QueuedOnce, Messages
    <3>5. Places'
        BY <2>1, <2>4 DEF Places
    <3> QED
        BY <3>2, <3>3, <3>4, <3>5
  <2> QED
      BY <2>2, <2>3, <2>4
<1>12. CASE Restart
  <2>1. TypeOK'
      BY <1>12 DEF Restart, TypeOK
  <2>2. EchoConfined'
      BY <1>12 DEF Restart, TypeOK, EchoConfined, Places, Messages
  <2>3. QueuedOnce'
      BY <1>12 DEF Restart, TypeOK, EchoConfined, QueuedOnce, Places, Messages
  <2>4. Places'
      BY <1>12 DEF Restart, TypeOK, Places, Messages
  <2> QED
      BY <2>1, <2>2, <2>3, <2>4
<1>13. CASE UNCHANGED vars
  <2>1. TypeOK'
      BY <1>13 DEF vars, TypeOK
  <2>2. EchoConfined'
      BY <1>13 DEF vars, TypeOK, EchoConfined, Places, Messages
  <2>3. QueuedOnce'
      BY <1>13 DEF vars, TypeOK, EchoConfined, QueuedOnce, Places, Messages
  <2>4. Places'
      BY <1>13 DEF vars, TypeOK, Places, Messages
  <2> QED
      BY <2>1, <2>2, <2>3, <2>4
<1> QED
    BY <1>1, <1>2, <1>3, <1>4, <1>5, <1>6, <1>7, <1>8, <1>9, <1>10, <1>11, <1>12, <1>13
       DEF Next, ServerNext, OnlineNext

\* IndInv holds in every reachable state.
THEOREM Invariance == Spec => []IndInv
BY InitHolds, StepHolds, PTL DEF Spec

\* The response to a phone's configuration, which main.c:268 would take for the
\* same command, is nowhere to be read once the script after it is over.
THEOREM EchoesStayConfined == Spec => []EchoConfined
<1>1. IndInv => EchoConfined
    BY DEF IndInv
<1> QED
    BY Invariance, <1>1, PTL
-----------------------------------------------------------------------------
\* Every step of the server is a step of the service, or changes nothing of it.
LEMMA StepServes == IndInv /\ [Next]_vars => [Service!Next]_(Service!serviceVars)
<1> SUFFICES ASSUME IndInv, [Next]_vars
             PROVE  Service!Next \/ UNCHANGED <<asked, done>>
    BY DEF Service!serviceVars
<1> USE DEF history
<1>1. CASE Send
  <2>1. PICK c \in Sent :
           asked' = IF c \in Once THEN [asked EXCEPT ![c] = @ + 1] ELSE asked
      BY <1>1 DEF Send
  <2>2. done' = done
      BY <1>1 DEF Send
  <2> QED
      BY <2>1, <2>2 DEF Service!Next, Service!Ask
<1>2. CASE ServerRead
  <2>1. PICK m \in Messages :
           /\ queue[m] > 0
           /\ \/ done' = done
              \/ /\ Executable(m)
                 /\ done' = IF CommandOf(m) \in Once
                            THEN [done EXCEPT ![CommandOf(m)] = @ + 1] ELSE done
      BY <1>2 DEF ServerRead
  <2>2. srvPc = "select" /\ asked' = asked
      BY <1>2 DEF ServerRead
  <2>3. CASE Executable(m) /\ CommandOf(m) \in Once
             /\ done' = [done EXCEPT ![CommandOf(m)] = @ + 1]
    <3>1. m # Configured
        BY <2>1, <2>2 DEF IndInv, EchoConfined
    <3>2. m \in Commands /\ CommandOf(m) = m
        BY <2>3, <3>1, Kinds DEF Executable, Messages
    <3>3. done[m] < asked[m]
      <4>1. done[m] \in Nat /\ asked[m] \in Nat /\ queue[m] \in 0 .. MaxQueue
          BY <2>3, <3>2 DEF IndInv, TypeOK
      <4> QED
          BY <2>1, <2>3, <3>2, <4>1, CommandsAssumption DEF IndInv, QueuedOnce
    <3> QED
        BY <2>2, <2>3, <3>2, <3>3 DEF Service!Next, Service!Do
  <2> QED
      BY <2>1, <2>2, <2>3
<1>3. CASE ServerSocket \/ ServerTimeout \/ ServerReply \/ ScriptCloses \/ ScriptEnds \/ ServerClose
    BY <1>3 DEF ServerSocket, ServerTimeout, ServerReply, ScriptCloses, ScriptEnds, ServerClose
<1>4. CASE OnlineNext \/ Restart \/ UNCHANGED vars
    BY <1>4 DEF OnlineNext, OnlineRead, OnlineReadStray, OnlineSend, Restart, vars
<1> QED
    BY <1>1, <1>2, <1>3, <1>4 DEF Next, ServerNext

\* Commands that must not run twice are executed at most once for every time
\* they were sent.
THEOREM ExecutedAtMostOnce == Spec => AtMostOnce
<1>1. Init => Service!Init
    BY DEF Init, Service!Init
<1> QED
    BY Invariance, StepServes, <1>1, PTL DEF Spec, AtMostOnce, Service!Spec
=============================================================================
