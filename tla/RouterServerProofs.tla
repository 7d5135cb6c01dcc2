------------------------- MODULE RouterServerProofs -------------------------
(***************************************************************************)
(* IndInv is an inductive invariant of RouterServer, for every size of the *)
(* table, the queue and the pipe, every behaviour of the link and of the   *)
(* vendor's server and every set of commands.                              *)
(***************************************************************************)
EXTENDS RouterServer, TLAPS

\* The numbers of the pipe are in the table, and "none" is not.
LEMMA Numbers ==
    /\ Fd \subseteq Int
    /\ PipeR \in Fd /\ PipeW \in Fd /\ NoFd \notin Fd
    /\ \A f \in Fd : f + 1 < OpenMax => f + 1 \in Fd
    /\ \A f \in Fd : ~(f + 1 < OpenMax) => f + 1 = OpenMax /\ PipeW <= f
BY SizesAssumption DEF Fd, PipeR, PipeW, NoFd

\* The invariant holds when the process starts.
LEMMA InitHolds == Init => IndInv
<1> SUFFICES ASSUME Init PROVE IndInv
    OBVIOUS
<1> USE Numbers DEF Init, KernelInit, ServerInit, OnlineInit, UpdateInit
<1>1. TypeOK
    BY SizesAssumption DEF TypeOK, KernelTypeOK, ServerTypeOK, OnlineTypeOK, UpdateTypeOK, Kinds,
        ServerKinds, UpdateKinds
<1>2. Phases /\ StreamPlaces /\ NoneHoldsPipe
    BY DEF Phases, StreamPlaces, NoneHoldsPipe, NoFd, PipeR, PipeW
<1>3. PipeIntact /\ Ownership /\ OnlyKnownLeaks /\ PipeNeverReturns /\ ReadNeverBlocks
    BY DEF PipeIntact, Ownership, OnlyKnownLeaks, PipeNeverReturns, ReadNeverBlocks, Refers,
        ServerKinds, UpdateKinds, PipeR, PipeW
<1> QED BY <1>1, <1>2, <1>3 DEF IndInv
-----------------------------------------------------------------------------
\* Every step keeps the types: the queues are only taken from when they are not
\* empty, and a script's cursor stays within the table.
LEMMA TypeCorrectStep == ASSUME IndInv, [Next]_vars PROVE (TypeOK)'
<1> USE Numbers, EnvironmentAssumption DEF IndInv, TypeOK, KernelTypeOK,
       ServerTypeOK, OnlineTypeOK, UpdateTypeOK, Kinds, ServerKinds,
       UpdateKinds, Files, Commands, Phases, Refers, Free, Goto, UpGoto,
       kernelVars, serverVars, onlineVars, updateVars
<1>1. CASE StartThreads
    BY <1>1 DEF StartThreads
<1>2. ASSUME UNCHANGED <<onlineVars, updateVars>>,
             \/ Probe \/ ServerSocket \/ ServerSelect \/ ServerRead(files)
             \/ ServerHandler(files) \/ ServerScript \/ ServerReply \/ ServerClose
      PROVE (TypeOK)'
  <2> DEFINE HandlerFrame == UNCHANGED <<sock, client, router_init, cursor, link>>
  <2>1. CASE Probe
      BY <1>2, <2>1 DEF Probe, Open, Lowest
  <2>2. CASE ServerSocket
      BY <1>2, <2>2 DEF ServerSocket, Open, Lowest, Crash
  <2>3. CASE ServerSelect
      BY <1>2, <2>3 DEF ServerSelect
  <2>4. CASE ServerRead(files)
      BY <1>2, <2>4 DEF ServerRead, Dispatch, DispatchQuery, DispatchConfig,
         DispatchRestart, DispatchCheck, DispatchUpgrade, DispatchUnknown
  <2>5. CASE HandleQuery /\ HandlerFrame
    <3>1. CASE OpenStream("query", "query", "queryRead")
        BY <1>2, <2>5, <3>1 DEF OpenStream, Open, Lowest
    <3>2. CASE Stay("query", "close")
        BY <1>2, <2>5, <3>2 DEF Stay
    <3>3. CASE CloseStream("queryRead", "reply")
        BY <1>2, <2>5, <3>3 DEF CloseStream, Close, Release
    <3> QED
        BY <1>2, <2>5, <3>1, <3>2, <3>3 DEF HandleQuery
  <2>6. CASE HandleCheck /\ HandlerFrame
    <3>1. CASE OpenStream("check", "version", "checkRead")
        BY <1>2, <2>6, <3>1 DEF OpenStream, Open, Lowest
    <3>2. CASE Killed("check")
        BY <1>2, <2>6, <3>2 DEF Killed, Crash
    <3>3. CASE CloseStream("checkRead", "reply")
        BY <1>2, <2>6, <3>3 DEF CloseStream, Close, Release
    <3> QED
        BY <1>2, <2>6, <3>1, <3>2, <3>3 DEF HandleCheck
  <2>7. CASE HandleUpgrade /\ HandlerFrame
      BY <1>2, <2>7 DEF HandleUpgrade, Stay, Open, Lowest
  <2>8. CASE HandleFlash /\ HandlerFrame
    <3>1. CASE Stay("image", "reply") \/ Stay("image", "opening")
        BY <1>2, <2>8, <3>1 DEF Stay
    <3>2. CASE OpenStream("opening", "mtd", "flash")
        BY <1>2, <2>8, <3>2 DEF OpenStream, Open, Lowest
    <3>3. CASE Goto("flash", "reply") /\ srvStream' = NoFd /\ UNCHANGED kernelVars
        BY <1>2, <2>8, <3>3
    <3>4. CASE CloseStream("flash", "version")
        BY <1>2, <2>8, <3>4 DEF CloseStream, Close, Release
    <3>5. CASE CloseStream("flash", "reply")
        BY <1>2, <2>8, <3>5 DEF CloseStream, Close, Release
    <3> QED
        BY <1>2, <2>8, <3>1, <3>2, <3>3, <3>4, <3>5 DEF HandleFlash
  <2>9. CASE HandleFlashed(files) /\ HandlerFrame
    <3>1. CASE OpenStream("version", "version", "versionRead")
        BY <1>2, <2>9, <3>1 DEF OpenStream, Open, Lowest
    <3>2. CASE Killed("version")
        BY <1>2, <2>9, <3>2 DEF Killed, Crash
    <3>3. CASE CloseStream("versionRead", "upgrading")
        BY <1>2, <2>9, <3>3 DEF CloseStream, Close, Release
    <3>4. CASE HandleReboot
        BY <1>2, <2>9, <3>4 DEF HandleReboot
    <3> QED
        BY <1>2, <2>9, <3>1, <3>2, <3>3, <3>4 DEF HandleFlashed
  <2>10. CASE ServerScript
      BY <1>2, <2>10 DEF ServerScript, Release
  <2>11. CASE ServerReply
      BY <1>2, <2>11 DEF ServerReply, AfterReply, Crash
  <2>12. CASE ServerClose
      BY <1>2, <2>12 DEF ServerClose, Close, Release
  <2> QED
      BY <1>2, <2>1, <2>2, <2>3, <2>4, <2>5, <2>6, <2>7, <2>8, <2>9, <2>10,
         <2>11, <2>12 DEF ServerHandler
<1>3. CASE OnlineStep
  <2>1. CASE OnlineSocket
      BY <1>3, <2>1 DEF OnlineSocket, Open, Lowest, OnlineStep
  <2>2. CASE OnlineSetopt
      BY <1>3, <2>2 DEF OnlineSetopt, OnlineStep
  <2>3. CASE OnlineTimeout
      BY <1>3, <2>3 DEF OnlineTimeout, OnlineStep
  <2>4. CASE OnlinePollin
      BY <1>3, <2>4 DEF OnlinePollin, OnlineStep
  <2>5. CASE OnlineReadPipe
      BY <1>3, <2>5 DEF OnlineReadPipe, OnlineStep
  <2>6. CASE OnlineReadStray
      BY <1>3, <2>6 DEF OnlineReadStray, OnlineStep
  <2>7. CASE OnlineSend
      BY <1>3, <2>7 DEF OnlineSend, OnlineStep
  <2> QED
      BY <1>3, <2>1, <2>2, <2>3, <2>4, <2>5, <2>6, <2>7 DEF OnlineStep,
         OnlineNext
<1>4. CASE UpdateStep
  <2>1. CASE UpdateQuery
      BY <1>4, <2>1 DEF UpdateQuery, Open, Lowest, UpdateStep
  <2>2. CASE UpdateCloseStream
      BY <1>4, <2>2 DEF UpdateCloseStream, Close, Release, UpdateStep
  <2>3. CASE UpdateSocket
      BY <1>4, <2>3 DEF UpdateSocket, Open, Lowest, UpdateStep
  <2>4. CASE UpdateConnectFails
      BY <1>4, <2>4 DEF UpdateConnectFails, UpdateStep
  <2>5. CASE UpdateRequestFails
      BY <1>4, <2>5 DEF UpdateRequestFails, UpdateStep
  <2>6. CASE UpdateNoNews
      BY <1>4, <2>6 DEF UpdateNoNews, UpdateStep
  <2>7. CASE UpdateDownload
      BY <1>4, <2>7 DEF UpdateDownload, UpdateStep
  <2>8. CASE UpdateSave
    <3>1. CASE upPc = "save" /\ Crash /\ UNCHANGED <<upPc, upStream, conn, files>>
        BY <1>4, <2>8, <3>1 DEF Crash, UpdateStep
    <3>2. CASE \E f \in Fd : Open(f, "upVersion") /\ upStream' = f /\ UpGoto("save", "saved") /\ conn' = conn /\ files' = files \cup {"version"}
        BY <1>4, <2>8, <3>2 DEF Open, Lowest, UpdateStep
    <3> QED
        BY <1>4, <2>8, <3>1, <3>2 DEF UpdateSave, UpdateStep
  <2>9. CASE UpdateInnerClose
      BY <1>4, <2>9 DEF UpdateInnerClose, Close, Release, UpdateStep
  <2>10. CASE UpdateOuterClose
      BY <1>4, <2>10 DEF UpdateOuterClose, Close, Release, UpdateStep
  <2> QED
      BY <1>4, <2>1, <2>2, <2>3, <2>4, <2>5, <2>6, <2>7, <2>8, <2>9, <2>10 DEF
         UpdateStep, UpdateNext
<1>5. CASE GoDown
    BY <1>5 DEF GoDown, Crash
<1>6. CASE Arrive
    BY <1>6 DEF Arrive
<1>7. CASE UNCHANGED vars
    BY <1>7 DEF vars
<1> QED
    BY <1>1, <1>2, <1>3, <1>4, <1>5, <1>6, <1>7 DEF Next, ServerNext,
       Environment

\* Every step keeps Phases, StreamPlaces and NoneHoldsPipe: a number that is
\* handed out was free, so before a script it is not one of the pipe's.
LEMMA PhaseStep == ASSUME IndInv, [Next]_vars PROVE (Phases /\ StreamPlaces /\ NoneHoldsPipe)'
<1> USE Numbers DEF IndInv, TypeOK, KernelTypeOK, ServerTypeOK, Phases,
       StreamPlaces, NoneHoldsPipe, PipeIntact, Refers, Free, Goto, UpGoto,
       kernelVars, serverVars, onlineVars, updateVars
<1>1. CASE StartThreads
    BY <1>1 DEF StartThreads
<1>2. ASSUME UNCHANGED <<onlineVars, updateVars>>,
             \/ Probe \/ ServerSocket \/ ServerSelect \/ ServerRead(files)
             \/ ServerHandler(files) \/ ServerScript \/ ServerReply \/ ServerClose
      PROVE (Phases /\ StreamPlaces /\ NoneHoldsPipe)'
  <2> DEFINE HandlerFrame == UNCHANGED <<sock, client, router_init, cursor, link>>
  <2>1. CASE Probe
      BY <1>2, <2>1 DEF Probe, Open, Lowest
  <2>2. CASE ServerSocket
      BY <1>2, <2>2 DEF ServerSocket, Open, Lowest, Crash
  <2>3. CASE ServerSelect
      BY <1>2, <2>3 DEF ServerSelect
  <2>4. CASE ServerRead(files)
      BY <1>2, <2>4 DEF ServerRead, Dispatch, DispatchQuery, DispatchConfig,
         DispatchRestart, DispatchCheck, DispatchUpgrade, DispatchUnknown
  <2>5. CASE HandleQuery /\ HandlerFrame
    <3>1. CASE OpenStream("query", "query", "queryRead")
        BY <1>2, <2>5, <3>1 DEF OpenStream, Open, Lowest
    <3>2. CASE Stay("query", "close")
        BY <1>2, <2>5, <3>2 DEF Stay
    <3>3. CASE CloseStream("queryRead", "reply")
        BY <1>2, <2>5, <3>3 DEF CloseStream, Close, Release
    <3> QED
        BY <1>2, <2>5, <3>1, <3>2, <3>3 DEF HandleQuery
  <2>6. CASE HandleCheck /\ HandlerFrame
    <3>1. CASE OpenStream("check", "version", "checkRead")
        BY <1>2, <2>6, <3>1 DEF OpenStream, Open, Lowest
    <3>2. CASE Killed("check")
        BY <1>2, <2>6, <3>2 DEF Killed, Crash
    <3>3. CASE CloseStream("checkRead", "reply")
        BY <1>2, <2>6, <3>3 DEF CloseStream, Close, Release
    <3> QED
        BY <1>2, <2>6, <3>1, <3>2, <3>3 DEF HandleCheck
  <2>7. CASE HandleUpgrade /\ HandlerFrame
      BY <1>2, <2>7 DEF HandleUpgrade, Stay, Open, Lowest
  <2>8. CASE HandleFlash /\ HandlerFrame
    <3>1. CASE Stay("image", "reply") \/ Stay("image", "opening")
        BY <1>2, <2>8, <3>1 DEF Stay
    <3>2. CASE OpenStream("opening", "mtd", "flash")
        BY <1>2, <2>8, <3>2 DEF OpenStream, Open, Lowest
    <3>3. CASE Goto("flash", "reply") /\ srvStream' = NoFd /\ UNCHANGED kernelVars
        BY <1>2, <2>8, <3>3
    <3>4. CASE CloseStream("flash", "version")
        BY <1>2, <2>8, <3>4 DEF CloseStream, Close, Release
    <3>5. CASE CloseStream("flash", "reply")
        BY <1>2, <2>8, <3>5 DEF CloseStream, Close, Release
    <3> QED
        BY <1>2, <2>8, <3>1, <3>2, <3>3, <3>4, <3>5 DEF HandleFlash
  <2>9. CASE HandleFlashed(files) /\ HandlerFrame
    <3>1. CASE OpenStream("version", "version", "versionRead")
        BY <1>2, <2>9, <3>1 DEF OpenStream, Open, Lowest
    <3>2. CASE Killed("version")
        BY <1>2, <2>9, <3>2 DEF Killed, Crash
    <3>3. CASE CloseStream("versionRead", "upgrading")
        BY <1>2, <2>9, <3>3 DEF CloseStream, Close, Release
    <3>4. CASE HandleReboot
        BY <1>2, <2>9, <3>4 DEF HandleReboot
    <3> QED
        BY <1>2, <2>9, <3>1, <3>2, <3>3, <3>4 DEF HandleFlashed
  <2>10. CASE ServerScript
      BY <1>2, <2>10 DEF ServerScript, Release
  <2>11. CASE ServerReply
      BY <1>2, <2>11 DEF ServerReply, AfterReply, Crash
  <2>12. CASE ServerClose
      BY <1>2, <2>12 DEF ServerClose, Close, Release
  <2> QED
      BY <1>2, <2>1, <2>2, <2>3, <2>4, <2>5, <2>6, <2>7, <2>8, <2>9, <2>10,
         <2>11, <2>12 DEF ServerHandler
<1>3. CASE OnlineStep
  <2>1. CASE OnlineSocket
      BY <1>3, <2>1 DEF OnlineSocket, Open, Lowest, OnlineStep
  <2>2. CASE OnlineSetopt
      BY <1>3, <2>2 DEF OnlineSetopt, OnlineStep
  <2>3. CASE OnlineTimeout
      BY <1>3, <2>3 DEF OnlineTimeout, OnlineStep
  <2>4. CASE OnlinePollin
      BY <1>3, <2>4 DEF OnlinePollin, OnlineStep
  <2>5. CASE OnlineReadPipe
      BY <1>3, <2>5 DEF OnlineReadPipe, OnlineStep
  <2>6. CASE OnlineReadStray
      BY <1>3, <2>6 DEF OnlineReadStray, OnlineStep
  <2>7. CASE OnlineSend
      BY <1>3, <2>7 DEF OnlineSend, OnlineStep
  <2> QED
      BY <1>3, <2>1, <2>2, <2>3, <2>4, <2>5, <2>6, <2>7 DEF OnlineStep,
         OnlineNext
<1>4. CASE UpdateStep
  <2>1. CASE UpdateQuery
      BY <1>4, <2>1 DEF UpdateQuery, Open, Lowest, UpdateStep
  <2>2. CASE UpdateCloseStream
      BY <1>4, <2>2 DEF UpdateCloseStream, Close, Release, UpdateStep
  <2>3. CASE UpdateSocket
      BY <1>4, <2>3 DEF UpdateSocket, Open, Lowest, UpdateStep
  <2>4. CASE UpdateConnectFails
      BY <1>4, <2>4 DEF UpdateConnectFails, UpdateStep
  <2>5. CASE UpdateRequestFails
      BY <1>4, <2>5 DEF UpdateRequestFails, UpdateStep
  <2>6. CASE UpdateNoNews
      BY <1>4, <2>6 DEF UpdateNoNews, UpdateStep
  <2>7. CASE UpdateDownload
      BY <1>4, <2>7 DEF UpdateDownload, UpdateStep
  <2>8. CASE UpdateSave
    <3>1. CASE upPc = "save" /\ Crash /\ UNCHANGED <<upPc, upStream, conn, files>>
        BY <1>4, <2>8, <3>1 DEF Crash, UpdateStep
    <3>2. CASE \E f \in Fd : Open(f, "upVersion") /\ upStream' = f /\ UpGoto("save", "saved") /\ conn' = conn /\ files' = files \cup {"version"}
        BY <1>4, <2>8, <3>2 DEF Open, Lowest, UpdateStep
    <3> QED
        BY <1>4, <2>8, <3>1, <3>2 DEF UpdateSave, UpdateStep
  <2>9. CASE UpdateInnerClose
      BY <1>4, <2>9 DEF UpdateInnerClose, Close, Release, UpdateStep
  <2>10. CASE UpdateOuterClose
      BY <1>4, <2>10 DEF UpdateOuterClose, Close, Release, UpdateStep
  <2> QED
      BY <1>4, <2>1, <2>2, <2>3, <2>4, <2>5, <2>6, <2>7, <2>8, <2>9, <2>10 DEF
         UpdateStep, UpdateNext
<1>5. CASE GoDown
    BY <1>5 DEF GoDown, Crash
<1>6. CASE Arrive
    BY <1>6 DEF Arrive
<1>7. CASE UNCHANGED vars
    BY <1>7 DEF vars
<1> QED
    BY <1>1, <1>2, <1>3, <1>4, <1>5, <1>6, <1>7 DEF Next, ServerNext,
       Environment

\* Opening takes a free number and leaves the others what they are.
LEMMA OpenKeeps ==
    ASSUME NEW f \in Fd, NEW kind, KernelTypeOK, Open(f, kind)
    PROVE  /\ fdtab'[f] = kind
           /\ \A g \in Fd : fdtab[g] # "free" => fdtab'[g] = fdtab[g]
           /\ UNCHANGED <<inbox, pipe, scripted, clobbered, life>>
BY DEF KernelTypeOK, Open, Lowest, Free

\* Every step keeps the pipe and the ownership of numbers.  A close by another
\* thread cannot hit a number whose object is of a kind of its own; the second
\* close of check_version can, and then sets clobbered.
LEMMA OwnershipStep == ASSUME IndInv, [Next]_vars PROVE (PipeIntact /\ Ownership)'
<1> USE Numbers DEF IndInv, TypeOK, KernelTypeOK, Phases, NoneHoldsPipe,
       PipeIntact, Ownership, ServerKinds, UpdateKinds, Refers, Free, Goto,
       UpGoto, kernelVars, serverVars, onlineVars, updateVars
<1>1. CASE StartThreads
    BY <1>1 DEF StartThreads
<1>2. ASSUME UNCHANGED <<onlineVars, updateVars>>,
             \/ Probe \/ ServerSocket \/ ServerSelect \/ ServerRead(files)
             \/ ServerHandler(files) \/ ServerScript \/ ServerReply \/ ServerClose
      PROVE (PipeIntact /\ Ownership)'
  <2> DEFINE HandlerFrame == UNCHANGED <<sock, client, router_init, cursor, link>>
  <2>1. CASE Probe
      BY <1>2, <2>1 DEF Probe, Open, Lowest
  <2>2. CASE ServerSocket
    <3>1. CASE Crash /\ UNCHANGED sock
        BY <1>2, <2>2, <3>1 DEF ServerSocket, Crash
    <3>2. ASSUME NEW f \in Fd, Open(f, "udp"), sock' = f PROVE (PipeIntact /\ Ownership)'
      <4>1. /\ fdtab'[f] = "udp"
            /\ \A g \in Fd : fdtab[g] # "free" => fdtab'[g] = fdtab[g]
            /\ UNCHANGED <<scripted, clobbered>>
          BY <3>2, OpenKeeps
      <4>2. UNCHANGED <<srvStream, upStream, sockfd, conn, upPc>>
          BY <1>2, <2>2 DEF ServerSocket
      <4> QED
          BY <3>2, <4>1, <4>2
    <3> QED
        BY <2>2, <3>1, <3>2 DEF ServerSocket
  <2>3. CASE ServerSelect
      BY <1>2, <2>3 DEF ServerSelect
  <2>4. CASE ServerRead(files)
      BY <1>2, <2>4 DEF ServerRead, Dispatch, DispatchQuery, DispatchConfig,
         DispatchRestart, DispatchCheck, DispatchUpgrade, DispatchUnknown
  <2>5. CASE HandleQuery /\ HandlerFrame
    <3>1. CASE OpenStream("query", "query", "queryRead")
        BY <1>2, <2>5, <3>1 DEF OpenStream, Open, Lowest
    <3>2. CASE Stay("query", "close")
        BY <1>2, <2>5, <3>2 DEF Stay
    <3>3. CASE CloseStream("queryRead", "reply")
        BY <1>2, <2>5, <3>3 DEF CloseStream, Close, Release
    <3> QED
        BY <1>2, <2>5, <3>1, <3>2, <3>3 DEF HandleQuery
  <2>6. CASE HandleCheck /\ HandlerFrame
    <3>1. CASE OpenStream("check", "version", "checkRead")
        BY <1>2, <2>6, <3>1 DEF OpenStream, Open, Lowest
    <3>2. CASE Killed("check")
        BY <1>2, <2>6, <3>2 DEF Killed, Crash
    <3>3. CASE CloseStream("checkRead", "reply")
        BY <1>2, <2>6, <3>3 DEF CloseStream, Close, Release
    <3> QED
        BY <1>2, <2>6, <3>1, <3>2, <3>3 DEF HandleCheck
  <2>7. CASE HandleUpgrade /\ HandlerFrame
      BY <1>2, <2>7 DEF HandleUpgrade, Stay, Open, Lowest
  <2>8. CASE HandleFlash /\ HandlerFrame
    <3>1. CASE Stay("image", "reply") \/ Stay("image", "opening")
        BY <1>2, <2>8, <3>1 DEF Stay
    <3>2. CASE OpenStream("opening", "mtd", "flash")
        BY <1>2, <2>8, <3>2 DEF OpenStream, Open, Lowest
    <3>3. CASE Goto("flash", "reply") /\ srvStream' = NoFd /\ UNCHANGED kernelVars
        BY <1>2, <2>8, <3>3
    <3>4. CASE CloseStream("flash", "version")
        BY <1>2, <2>8, <3>4 DEF CloseStream, Close, Release
    <3>5. CASE CloseStream("flash", "reply")
        BY <1>2, <2>8, <3>5 DEF CloseStream, Close, Release
    <3> QED
        BY <1>2, <2>8, <3>1, <3>2, <3>3, <3>4, <3>5 DEF HandleFlash
  <2>9. CASE HandleFlashed(files) /\ HandlerFrame
    <3>1. CASE OpenStream("version", "version", "versionRead")
        BY <1>2, <2>9, <3>1 DEF OpenStream, Open, Lowest
    <3>2. CASE Killed("version")
        BY <1>2, <2>9, <3>2 DEF Killed, Crash
    <3>3. CASE CloseStream("versionRead", "upgrading")
        BY <1>2, <2>9, <3>3 DEF CloseStream, Close, Release
    <3>4. CASE HandleReboot
        BY <1>2, <2>9, <3>4 DEF HandleReboot
    <3> QED
        BY <1>2, <2>9, <3>1, <3>2, <3>3, <3>4 DEF HandleFlashed
  <2>10. CASE ServerScript
      BY <1>2, <2>10 DEF ServerScript, Release
  <2>11. CASE ServerReply
      BY <1>2, <2>11 DEF ServerReply, AfterReply, Crash
  <2>12. CASE ServerClose
      BY <1>2, <2>12 DEF ServerClose, Close, Release
  <2> QED
      BY <1>2, <2>1, <2>2, <2>3, <2>4, <2>5, <2>6, <2>7, <2>8, <2>9, <2>10,
         <2>11, <2>12 DEF ServerHandler
<1>3. CASE OnlineStep
  <2>1. CASE OnlineSocket
    <3>1. CASE sockfd' = NoFd /\ UNCHANGED kernelVars
        BY <1>3, <2>1, <3>1 DEF OnlineSocket, OnlineStep
    <3>2. ASSUME NEW f \in Fd, Open(f, "bcast"), sockfd' = f PROVE (PipeIntact /\ Ownership)'
      <4>1. /\ fdtab'[f] = "bcast"
            /\ \A g \in Fd : fdtab[g] # "free" => fdtab'[g] = fdtab[g]
            /\ UNCHANGED <<scripted, clobbered>>
          BY <3>2, OpenKeeps
      <4>2. UNCHANGED <<srvStream, sock, upStream, conn, upPc>>
          BY <1>3, <2>1 DEF OnlineSocket, OnlineStep
      <4> QED
          BY <3>2, <4>1, <4>2
    <3> QED
        BY <2>1, <3>1, <3>2 DEF OnlineSocket
  <2>2. CASE OnlineSetopt
      BY <1>3, <2>2 DEF OnlineSetopt, OnlineStep
  <2>3. CASE OnlineTimeout
      BY <1>3, <2>3 DEF OnlineTimeout, OnlineStep
  <2>4. CASE OnlinePollin
      BY <1>3, <2>4 DEF OnlinePollin, OnlineStep
  <2>5. CASE OnlineReadPipe
      BY <1>3, <2>5 DEF OnlineReadPipe, OnlineStep
  <2>6. CASE OnlineReadStray
      BY <1>3, <2>6 DEF OnlineReadStray, OnlineStep
  <2>7. CASE OnlineSend
      BY <1>3, <2>7 DEF OnlineSend, OnlineStep
  <2> QED
      BY <1>3, <2>1, <2>2, <2>3, <2>4, <2>5, <2>6, <2>7 DEF OnlineStep,
         OnlineNext
<1>4. CASE UpdateStep
  <2>1. CASE UpdateQuery
    <3>1. CASE UNCHANGED <<upStream, kernelVars>>
        BY <1>4, <2>1, <3>1 DEF UpdateQuery, UpdateStep
    <3>2. ASSUME NEW f \in Fd, Open(f, "upStream"), upStream' = f PROVE (PipeIntact /\ Ownership)'
      <4>1. /\ fdtab'[f] = "upStream"
            /\ \A g \in Fd : fdtab[g] # "free" => fdtab'[g] = fdtab[g]
            /\ UNCHANGED <<scripted, clobbered>>
          BY <3>2, OpenKeeps
      <4>2. UNCHANGED <<srvStream, sock, sockfd, conn>> /\ upPc # "secondClose"
          BY <1>4, <2>1 DEF UpdateQuery, UpdateStep
      <4> QED
          BY <3>2, <4>1, <4>2
    <3> QED
        BY <2>1, <3>1, <3>2 DEF UpdateQuery
  <2>2. CASE UpdateCloseStream
      BY <1>4, <2>2 DEF UpdateCloseStream, Close, Release, UpdateStep
  <2>3. CASE UpdateSocket
    <3>1. CASE UNCHANGED <<conn, kernelVars>>
        BY <1>4, <2>3, <3>1 DEF UpdateSocket, UpdateStep
    <3>2. ASSUME NEW f \in Fd, Open(f, "tcp"), conn' = f PROVE (PipeIntact /\ Ownership)'
      <4>1. /\ fdtab'[f] = "tcp"
            /\ \A g \in Fd : fdtab[g] # "free" => fdtab'[g] = fdtab[g]
            /\ UNCHANGED <<scripted, clobbered>>
          BY <3>2, OpenKeeps
      <4>2. UNCHANGED <<srvStream, sock, sockfd, upStream>>
          BY <1>4, <2>3 DEF UpdateSocket, UpdateStep
      <4> QED
          BY <3>2, <4>1, <4>2
    <3> QED
        BY <2>3, <3>1, <3>2 DEF UpdateSocket
  <2>4. CASE UpdateConnectFails
      BY <1>4, <2>4 DEF UpdateConnectFails, UpdateStep
  <2>5. CASE UpdateRequestFails
      BY <1>4, <2>5 DEF UpdateRequestFails, UpdateStep
  <2>6. CASE UpdateNoNews
      BY <1>4, <2>6 DEF UpdateNoNews, UpdateStep
  <2>7. CASE UpdateDownload
      BY <1>4, <2>7 DEF UpdateDownload, UpdateStep
  <2>8. CASE UpdateSave
    <3>1. CASE upPc = "save" /\ Crash /\ UNCHANGED <<upPc, upStream, conn, files>>
        BY <1>4, <2>8, <3>1 DEF Crash, UpdateStep
    <3>2. CASE \E f \in Fd : Open(f, "upVersion") /\ upStream' = f /\ UpGoto("save", "saved") /\ conn' = conn /\ files' = files \cup {"version"}
        BY <1>4, <2>8, <3>2 DEF Open, Lowest, UpdateStep
    <3> QED
        BY <1>4, <2>8, <3>1, <3>2 DEF UpdateSave, UpdateStep
  <2>9. CASE UpdateInnerClose
      BY <1>4, <2>9 DEF UpdateInnerClose, Close, Release, UpdateStep
  <2>10. CASE UpdateOuterClose
      BY <1>4, <2>10 DEF UpdateOuterClose, Close, Release, UpdateStep
  <2> QED
      BY <1>4, <2>1, <2>2, <2>3, <2>4, <2>5, <2>6, <2>7, <2>8, <2>9, <2>10 DEF
         UpdateStep, UpdateNext
<1>5. CASE GoDown
    BY <1>5 DEF GoDown, Crash
<1>6. CASE Arrive
    BY <1>6 DEF Arrive
<1>7. CASE UNCHANGED vars
    BY <1>7 DEF vars
<1> QED
    BY <1>1, <1>2, <1>3, <1>4, <1>5, <1>6, <1>7 DEF Next, ServerNext,
       Environment

\* Every step keeps OnlyKnownLeaks, PipeNeverReturns and ReadNeverBlocks.
LEMMA LeakStep == ASSUME IndInv, [Next]_vars PROVE (OnlyKnownLeaks /\ PipeNeverReturns /\ ReadNeverBlocks)'
<1> USE Numbers DEF IndInv, TypeOK, KernelTypeOK, ServerTypeOK, Phases,
       StreamPlaces, Ownership, PipeIntact, OnlyKnownLeaks, PipeNeverReturns,
       ReadNeverBlocks, ServerKinds, UpdateKinds, Refers, Free, Goto, UpGoto,
       kernelVars, serverVars, onlineVars, updateVars
<1>1. CASE StartThreads
    BY <1>1 DEF StartThreads
<1>2. ASSUME UNCHANGED <<onlineVars, updateVars>>,
             \/ Probe \/ ServerSocket \/ ServerSelect \/ ServerRead(files)
             \/ ServerHandler(files) \/ ServerScript \/ ServerReply \/ ServerClose
      PROVE (OnlyKnownLeaks /\ PipeNeverReturns /\ ReadNeverBlocks)'
  <2> DEFINE HandlerFrame == UNCHANGED <<sock, client, router_init, cursor, link>>
  <2>1. CASE Probe
      BY <1>2, <2>1 DEF Probe, Open, Lowest
  <2>2. CASE ServerSocket
      BY <1>2, <2>2 DEF ServerSocket, Open, Lowest, Crash
  <2>3. CASE ServerSelect
      BY <1>2, <2>3 DEF ServerSelect
  <2>4. CASE ServerRead(files)
      BY <1>2, <2>4 DEF ServerRead, Dispatch, DispatchQuery, DispatchConfig,
         DispatchRestart, DispatchCheck, DispatchUpgrade, DispatchUnknown
  <2>5. CASE HandleQuery /\ HandlerFrame
    <3>1. CASE OpenStream("query", "query", "queryRead")
        BY <1>2, <2>5, <3>1 DEF OpenStream, Open, Lowest
    <3>2. CASE Stay("query", "close")
        BY <1>2, <2>5, <3>2 DEF Stay
    <3>3. CASE CloseStream("queryRead", "reply")
        BY <1>2, <2>5, <3>3 DEF CloseStream, Close, Release
    <3> QED
        BY <1>2, <2>5, <3>1, <3>2, <3>3 DEF HandleQuery
  <2>6. CASE HandleCheck /\ HandlerFrame
    <3>1. CASE OpenStream("check", "version", "checkRead")
        BY <1>2, <2>6, <3>1 DEF OpenStream, Open, Lowest
    <3>2. CASE Killed("check")
        BY <1>2, <2>6, <3>2 DEF Killed, Crash
    <3>3. CASE CloseStream("checkRead", "reply")
        BY <1>2, <2>6, <3>3 DEF CloseStream, Close, Release
    <3> QED
        BY <1>2, <2>6, <3>1, <3>2, <3>3 DEF HandleCheck
  <2>7. CASE HandleUpgrade /\ HandlerFrame
      BY <1>2, <2>7 DEF HandleUpgrade, Stay, Open, Lowest
  <2>8. CASE HandleFlash /\ HandlerFrame
    <3>1. CASE Stay("image", "reply") \/ Stay("image", "opening")
        BY <1>2, <2>8, <3>1 DEF Stay
    <3>2. CASE OpenStream("opening", "mtd", "flash")
        BY <1>2, <2>8, <3>2 DEF OpenStream, Open, Lowest
    <3>3. CASE Goto("flash", "reply") /\ srvStream' = NoFd /\ UNCHANGED kernelVars
        BY <1>2, <2>8, <3>3
    <3>4. CASE CloseStream("flash", "version")
        BY <1>2, <2>8, <3>4 DEF CloseStream, Close, Release
    <3>5. CASE CloseStream("flash", "reply")
        BY <1>2, <2>8, <3>5 DEF CloseStream, Close, Release
    <3> QED
        BY <1>2, <2>8, <3>1, <3>2, <3>3, <3>4, <3>5 DEF HandleFlash
  <2>9. CASE HandleFlashed(files) /\ HandlerFrame
    <3>1. CASE OpenStream("version", "version", "versionRead")
        BY <1>2, <2>9, <3>1 DEF OpenStream, Open, Lowest
    <3>2. CASE Killed("version")
        BY <1>2, <2>9, <3>2 DEF Killed, Crash
    <3>3. CASE CloseStream("versionRead", "upgrading")
        BY <1>2, <2>9, <3>3 DEF CloseStream, Close, Release
    <3>4. CASE HandleReboot
        BY <1>2, <2>9, <3>4 DEF HandleReboot
    <3> QED
        BY <1>2, <2>9, <3>1, <3>2, <3>3, <3>4 DEF HandleFlashed
  <2>10. CASE ServerScript
    <3> USE <1>2, <2>10 DEF ServerScript, Release
    <3>1. cursor \in Fd
        OBVIOUS
    <3>2. fdtab' = [fdtab EXCEPT ![cursor] = "free"]
        OBVIOUS
    <3>3. OnlyKnownLeaks'
        BY <3>2
    <3>4. ASSUME NEW f \in {PipeR, PipeW}, srvPc' = "script" => f < cursor'
          PROVE  fdtab'[f] \notin {"pipeR", "pipeW"}
      <4>1. CASE f = cursor
          BY <3>1, <3>2, <4>1
      <4>2. CASE f # cursor
        <5>1. f < cursor
            BY <3>1, <3>4, <4>2 DEF PipeR, PipeW, Fd
        <5>2. fdtab'[f] = fdtab[f]
            BY <3>2, <4>2
        <5>3. CASE scripted
            BY <5>1, <5>2, <5>3
        <5>4. CASE ~scripted
            BY <5>1, <5>4 DEF PipeR, PipeW
        <5> QED BY <5>3, <5>4
      <4> QED BY <4>1, <4>2
    <3>5. PipeNeverReturns'
        BY <3>4
    <3>6. ReadNeverBlocks'
        OBVIOUS
    <3> QED BY <3>3, <3>5, <3>6
  <2>11. CASE ServerReply
      BY <1>2, <2>11 DEF ServerReply, AfterReply, Crash
  <2>12. CASE ServerClose
      BY <1>2, <2>12 DEF ServerClose, Close, Release
  <2> QED
      BY <1>2, <2>1, <2>2, <2>3, <2>4, <2>5, <2>6, <2>7, <2>8, <2>9, <2>10,
         <2>11, <2>12 DEF ServerHandler
<1>3. CASE OnlineStep
  <2>1. CASE OnlineSocket
      BY <1>3, <2>1 DEF OnlineSocket, Open, Lowest, OnlineStep
  <2>2. CASE OnlineSetopt
      BY <1>3, <2>2 DEF OnlineSetopt, OnlineStep
  <2>3. CASE OnlineTimeout
      BY <1>3, <2>3 DEF OnlineTimeout, OnlineStep
  <2>4. CASE OnlinePollin
      BY <1>3, <2>4 DEF OnlinePollin, OnlineStep
  <2>5. CASE OnlineReadPipe
      BY <1>3, <2>5 DEF OnlineReadPipe, OnlineStep
  <2>6. CASE OnlineReadStray
      BY <1>3, <2>6 DEF OnlineReadStray, OnlineStep
  <2>7. CASE OnlineSend
      BY <1>3, <2>7 DEF OnlineSend, OnlineStep
  <2> QED
      BY <1>3, <2>1, <2>2, <2>3, <2>4, <2>5, <2>6, <2>7 DEF OnlineStep,
         OnlineNext
<1>4. CASE UpdateStep
  <2>1. CASE UpdateQuery
      BY <1>4, <2>1 DEF UpdateQuery, Open, Lowest, UpdateStep
  <2>2. CASE UpdateCloseStream
      BY <1>4, <2>2 DEF UpdateCloseStream, Close, Release, UpdateStep
  <2>3. CASE UpdateSocket
      BY <1>4, <2>3 DEF UpdateSocket, Open, Lowest, UpdateStep
  <2>4. CASE UpdateConnectFails
      BY <1>4, <2>4 DEF UpdateConnectFails, UpdateStep
  <2>5. CASE UpdateRequestFails
      BY <1>4, <2>5 DEF UpdateRequestFails, UpdateStep
  <2>6. CASE UpdateNoNews
      BY <1>4, <2>6 DEF UpdateNoNews, UpdateStep
  <2>7. CASE UpdateDownload
      BY <1>4, <2>7 DEF UpdateDownload, UpdateStep
  <2>8. CASE UpdateSave
    <3>1. CASE upPc = "save" /\ Crash /\ UNCHANGED <<upPc, upStream, conn, files>>
        BY <1>4, <2>8, <3>1 DEF Crash, UpdateStep
    <3>2. CASE \E f \in Fd : Open(f, "upVersion") /\ upStream' = f /\ UpGoto("save", "saved") /\ conn' = conn /\ files' = files \cup {"version"}
        BY <1>4, <2>8, <3>2 DEF Open, Lowest, UpdateStep
    <3> QED
        BY <1>4, <2>8, <3>1, <3>2 DEF UpdateSave, UpdateStep
  <2>9. CASE UpdateInnerClose
      BY <1>4, <2>9 DEF UpdateInnerClose, Close, Release, UpdateStep
  <2>10. CASE UpdateOuterClose
      BY <1>4, <2>10 DEF UpdateOuterClose, Close, Release, UpdateStep
  <2> QED
      BY <1>4, <2>1, <2>2, <2>3, <2>4, <2>5, <2>6, <2>7, <2>8, <2>9, <2>10 DEF
         UpdateStep, UpdateNext
<1>5. CASE GoDown
    BY <1>5 DEF GoDown, Crash
<1>6. CASE Arrive
    BY <1>6 DEF Arrive
<1>7. CASE UNCHANGED vars
    BY <1>7 DEF vars
<1> QED
    BY <1>1, <1>2, <1>3, <1>4, <1>5, <1>6, <1>7 DEF Next, ServerNext,
       Environment
-----------------------------------------------------------------------------
\* IndInv is an invariant.
THEOREM Invariance == Spec => []IndInv
<1>1. IndInv /\ [Next]_vars => IndInv'
    BY TypeCorrectStep, PhaseStep, OwnershipStep, LeakStep DEF IndInv
<1> QED BY <1>1, InitHolds, PTL DEF Spec

\* Type correctness of all variables (main.c, update.c, router_dev.c).
THEOREM TypeCorrect == Spec => []TypeOK
<1>1. IndInv => TypeOK
    BY DEF IndInv
<1> QED BY <1>1, Invariance, PTL

\* The pipe of main.c:38 is intact until router_init_script closes it.
THEOREM PipeStaysIntact == Spec => []PipeIntact
<1>1. IndInv => PipeIntact
    BY DEF IndInv
<1> QED BY <1>1, Invariance, PTL

\* Threads own the numbers they hold until a script or a clobbering close.
THEOREM ThreadsOwnTheirNumbers == Spec => []Ownership
<1>1. IndInv => Ownership
    BY DEF IndInv
<1> QED BY <1>1, Invariance, PTL

\* Only probes, failed connections, firmware images and flash devices leak.
THEOREM LeaksAreKnown == Spec => []OnlyKnownLeaks
<1>1. IndInv => OnlyKnownLeaks
    BY DEF IndInv
<1> QED BY <1>1, Invariance, PTL

\* A closed pipe never comes back, so no reply is delivered after a script
\* (router_dev.c:121, main.c:263).
THEOREM PipeIsGoneForGood == Spec => []PipeNeverReturns
<1>1. IndInv => PipeNeverReturns
    BY DEF IndInv
<1> QED BY <1>1, Invariance, PTL

\* The blocking read of main.c:243 finds its datagram.
THEOREM ReadFindsItsDatagram == Spec => []ReadNeverBlocks
<1>1. IndInv => ReadNeverBlocks
    BY DEF IndInv
<1> QED BY <1>1, Invariance, PTL
-----------------------------------------------------------------------------
\* A step that clobbers first is the second close of check_version: any other
\* close names a number whose object its thread opened, or no number.
LEMMA FirstClobber ==
    ASSUME IndInv, [Next]_vars PROVE ~scripted /\ ~clobbered /\ clobbered' => upPc = "secondClose"
<1> USE Numbers DEF IndInv, TypeOK, KernelTypeOK, Ownership, Refers, Free, Goto,
       UpGoto, Open, Close, Release, Crash, kernelVars, serverVars, onlineVars,
       updateVars
<1>1. CASE StartThreads
    BY <1>1 DEF StartThreads
<1>2. ASSUME UNCHANGED <<onlineVars, updateVars>>,
             \/ Probe \/ ServerSocket \/ ServerSelect \/ ServerRead(files)
             \/ ServerHandler(files) \/ ServerScript \/ ServerReply \/ ServerClose
      PROVE  ~scripted /\ ~clobbered /\ clobbered' => upPc = "secondClose"
  <2>1. CASE Probe \/ ServerSocket \/ ServerSelect \/ ServerRead(files) \/ ServerScript
      BY <2>1 DEF Probe, ServerSocket, ServerSelect, ServerRead, ServerScript
  <2>2. CASE ServerReply
      BY <2>2 DEF ServerReply, AfterReply
  <2>3. CASE ServerClose
      BY <2>3 DEF ServerClose
  <2>4. CASE ServerHandler(files)
    <3>1. ASSUME NEW from, NEW to, CloseStream(from, to) PROVE ~scripted /\ ~clobbered /\ clobbered' => upPc = "secondClose"
        BY <3>1 DEF CloseStream
    <3>2. ASSUME NEW from, NEW kind, NEW to, OpenStream(from, kind, to) PROVE ~scripted /\ ~clobbered /\ clobbered' => upPc = "secondClose"
        BY <3>2 DEF OpenStream
    <3> QED
        BY <2>4, <3>1, <3>2 DEF ServerHandler, HandleQuery, HandleCheck,
           HandleUpgrade, HandleFlash, HandleFlashed, HandleReboot, Stay, Killed
  <2> QED BY <1>2, <2>1, <2>2, <2>3, <2>4
<1>3. CASE OnlineStep
    BY <1>3 DEF OnlineStep, OnlineNext, OnlineSocket, OnlineSetopt, OnlineTimeout,
       OnlinePollin, OnlineReadPipe, OnlineReadStray, OnlineSend
<1>4. CASE UpdateStep
  <2>1. CASE UpdateCloseStream
      BY <2>1 DEF UpdateCloseStream
  <2>2. CASE UpdateInnerClose
      BY <2>2 DEF UpdateInnerClose
  <2>3. CASE UpdateOuterClose
      BY <2>3 DEF UpdateOuterClose
  <2>4. CASE UpdateQuery \/ UpdateSocket \/ UpdateConnectFails \/ UpdateRequestFails
             \/ UpdateNoNews \/ UpdateDownload \/ UpdateSave
      BY <2>4 DEF UpdateQuery, UpdateSocket, UpdateConnectFails,
         UpdateRequestFails, UpdateNoNews, UpdateDownload, UpdateSave
  <2> QED BY <1>4, <2>1, <2>2, <2>3, <2>4 DEF UpdateStep, UpdateNext
<1>5. CASE GoDown \/ Arrive
    BY <1>5 DEF GoDown, Arrive
<1>6. CASE UNCHANGED vars
    BY <1>6 DEF vars
<1> QED BY <1>1, <1>2, <1>3, <1>4, <1>5, <1>6 DEF Next, ServerNext, Environment

\* Before any script only the second close of check_version hits an object of
\* another thread (update.c:147).
THEOREM OnlyTheSecondCloseClobbers == Spec => OnlySecondCloseClobbers
<1>1. IndInv /\ [Next]_vars => [~scripted /\ ~clobbered /\ clobbered' => upPc = "secondClose"]_vars
    BY FirstClobber
<1> QED BY <1>1, Invariance, PTL DEF Spec, OnlySecondCloseClobbers
-----------------------------------------------------------------------------
\* On a full table nothing can be opened, and popen has no room.
LEMMA NothingOpens ==
    ASSUME TableFull
    PROVE  NoRoomForPopen /\ \A f \in Fd : \A kind : ~Open(f, kind)
BY DEF TableFull, NoRoomForPopen, Open, Lowest

\* With the table full for good, a step leaves the table alone.
LEMMA ExhaustionStep ==
    ASSUME IndInv, NoServiceAfterExhaustion, NobodyFrees, [Next]_vars
    PROVE  (NoServiceAfterExhaustion /\ NobodyFrees)'
<1> USE DEF NoServiceAfterExhaustion, NobodyFrees, kernelVars, serverVars, onlineVars, updateVars
<1>1. CASE link = "full"
  <2>1. /\ TableFull /\ srvPc \in {"spawn", "socket", "exited"} /\ upPc \in {"off", "query", "connect"}
        /\ NoRoomForPopen /\ \A f \in Fd : \A kind : ~Open(f, kind)
      BY <1>1, NothingOpens
  <2>2. ASSUME UNCHANGED fdtab PROVE TableFull'
      BY <2>1, <2>2 DEF TableFull, Free
  <2>3. CASE StartThreads
      BY <2>1, <2>2, <2>3 DEF StartThreads, Goto
  <2>4. ASSUME UNCHANGED <<onlineVars, updateVars>>,
               \/ Probe \/ ServerSocket \/ ServerSelect \/ ServerRead(files)
               \/ ServerHandler(files) \/ ServerScript \/ ServerReply \/ ServerClose
        PROVE  (NoServiceAfterExhaustion /\ NobodyFrees)'
    <3>1. ServerSocket
        BY <2>1, <2>4 DEF Probe, ServerSelect, ServerRead, ServerHandler, HandleQuery, HandleCheck,
           HandleUpgrade, HandleFlash, HandleFlashed, HandleReboot, OpenStream, CloseStream, Stay,
           Killed, ServerScript, ServerReply, AfterReply, ServerClose, Goto
    <3>2. srvPc' = "exited" /\ UNCHANGED <<fdtab, upPc>>
        BY <2>1, <2>4, <3>1 DEF ServerSocket, Goto, Crash
    <3> QED
        BY <2>1, <2>2, <3>2
  <2>5. CASE OnlineStep
    <3>1. UNCHANGED <<fdtab, link, srvPc, upPc>>
        BY <2>1, <2>5 DEF OnlineStep, OnlineNext, OnlineSocket, OnlineSetopt, OnlineTimeout,
           OnlinePollin, OnlineReadPipe, OnlineReadStray, OnlineSend
    <3> QED
        BY <2>1, <2>2, <3>1
  <2>6. CASE UpdateStep
    <3>1. UNCHANGED <<fdtab, link, srvPc>> /\ upPc' \in {"query", "connect"}
        BY <2>1, <2>6 DEF UpdateStep, UpdateNext, UpdateQuery, UpdateCloseStream, UpdateSocket,
           UpdateConnectFails, UpdateRequestFails, UpdateNoNews, UpdateDownload, UpdateSave,
           UpdateInnerClose, UpdateOuterClose, UpGoto
    <3> QED
        BY <2>1, <2>2, <3>1
  <2>7. CASE GoDown \/ Arrive \/ UNCHANGED vars
    <3>1. UNCHANGED <<fdtab, link, srvPc, upPc>>
        BY <2>7 DEF GoDown, Arrive, Crash, vars
    <3> QED
        BY <2>1, <2>2, <3>1
  <2> QED
      BY <2>3, <2>4, <2>5, <2>6, <2>7 DEF Next, ServerNext, Environment
<1>2. CASE link # "full" /\ link' = "full"
  <2>1. Probe /\ UNCHANGED <<onlineVars, updateVars>>
    <3>1. ~StartThreads /\ ~OnlineStep /\ ~UpdateStep /\ ~GoDown /\ ~Arrive /\ ~UNCHANGED vars
        BY <1>2 DEF StartThreads, OnlineStep, UpdateStep, GoDown, Arrive, vars
    <3>2. ~ServerSocket /\ ~ServerSelect /\ ~ServerRead(files) /\ ~ServerHandler(files)
          /\ ~ServerScript /\ ~ServerReply /\ ~ServerClose
        BY <1>2 DEF ServerSocket, ServerSelect, ServerRead, ServerHandler, ServerScript, ServerReply,
           ServerClose
    <3> QED
        BY <3>1, <3>2 DEF Next, ServerNext, Environment
  <2>2. srvPc = "probe" /\ srvPc' = "spawn" /\ TableFull /\ UNCHANGED <<fdtab, upPc>>
    <3>1. \A l \in LinkStates : l # "full"
        BY EnvironmentAssumption
    <3> QED
        BY <1>2, <2>1, <3>1 DEF Probe, Goto
  <2>3. upPc = "off"
      BY <2>2 DEF IndInv, Phases
  <2> QED
      BY <2>2, <2>3 DEF TableFull, Free
<1>3. CASE link # "full" /\ link' # "full"
    BY <1>3
<1> QED
    BY <1>1, <1>2, <1>3

\* After a wait for the link that has used up the table nobody ever gets a number
\* again (main.c:46, 207).
THEOREM NoServiceAgain == Spec => []NoServiceAfterExhaustion
<1>1. Init => NoServiceAfterExhaustion /\ NobodyFrees
    BY DEF Init, ServerInit, NoServiceAfterExhaustion, NobodyFrees
<1>2. IndInv /\ NoServiceAfterExhaustion /\ NobodyFrees /\ [Next]_vars
          => (NoServiceAfterExhaustion /\ NobodyFrees)'
    BY ExhaustionStep
<1> QED
    BY <1>1, <1>2, Invariance, PTL DEF Spec
=============================================================================
