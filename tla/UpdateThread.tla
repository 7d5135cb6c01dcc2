---------------------------- MODULE UpdateThread ----------------------------
(***************************************************************************)
(* check_update_thread, main.c: once an hour check_version (update.c) asks *)
(* the vendor's server for a new version and downloads its image.  A step  *)
(* ends where another thread can see or disturb what follows.              *)
(***************************************************************************)
EXTENDS Descriptors

CONSTANT Vendor  \* how the vendor's server may treat a check

ASSUME VendorAssumption == Vendor \subseteq {"unreachable", "breaks", "nothing", "news"}

VARIABLES
    upPc,      \* where the thread is
    upStream,  \* the popen stream or version file it has open
    conn,      \* s, the number of its connection
    files      \* which of /tmp/fw.bin and /tmp/version exist

updateVars == <<upPc, upStream, conn, files>>

Files == {"fw.bin", "version"}

UpdateTypeOK ==
    /\ upPc \in {"off", "query", "queryRead", "connect", "exchange", "save",
                 "saved", "innerClose", "onlyClose", "secondClose"}
    /\ upStream \in Fd \cup {NoFd}
    /\ conn \in Fd \cup {NoFd}
    /\ files \in SUBSET Files

UpdateInit == upPc = "off" /\ upStream = NoFd /\ conn = NoFd /\ files = {}

UpGoto(from, to) == upPc = from /\ upPc' = to

\* After sleep(60*60): router_get_version and router_get_mac, one popen each
\* and one here, since the second starts from the state the first leaves.
\* check_version ignores a failure.
UpdateQuery ==
    /\ \/ /\ ~NoRoomForPopen
          /\ UpGoto("query", "queryRead")
          /\ \E f \in Fd : Open(f, "upStream") /\ upStream' = f
       \/ NoRoomForPopen /\ UpGoto("query", "connect") /\ UNCHANGED <<upStream, kernelVars>>
    /\ UNCHANGED <<conn, files>>

\* pclose(fp), or fclose(fd) of the version file.
UpdateCloseStream ==
    /\ UpGoto("queryRead", "connect") \/ UpGoto("saved", "innerClose")
    /\ Close(upStream, UpdateKinds)
    /\ upStream' = NoFd
    /\ UNCHANGED <<conn, files>>

\* gethostbyname, then socket; both may fail, and nothing is open then.
UpdateSocket ==
    /\ \/ UpGoto("connect", "exchange") /\ \E f \in Fd : Open(f, "tcp") /\ conn' = f
       \/ UpGoto("connect", "query") /\ UNCHANGED <<conn, kernelVars>>
    /\ UNCHANGED <<upStream, files>>

\* Mutant: the number of the failed connection is kept.
UpdateConnectFailsKeeping ==
    /\ "unreachable" \in Vendor
    /\ UpGoto("exchange", "query")
    /\ UNCHANGED <<upStream, conn, files, kernelVars>>

\* connect() fails: get_connection forgets the socket without closing it.
UpdateConnectFails ==
    /\ "unreachable" \in Vendor
    /\ UpGoto("exchange", "query")
    /\ conn' = NoFd
    /\ UNCHANGED <<upStream, files, kernelVars>>

\* request() fails: check_version goes straight to its own close.
UpdateRequestFails ==
    /\ "breaks" \in Vendor
    /\ UpGoto("exchange", "onlyClose")
    /\ UNCHANGED <<upStream, conn, files, kernelVars>>

\* check_server_msg: /tmp/fw.bin is there already, or the answer is late,
\* unreadable, not a 200, or says -1.
UpdateNoNews ==
    /\ "nothing" \in Vendor \/ "fw.bin" \in files
    /\ UpGoto("exchange", "innerClose")
    /\ UNCHANGED <<upStream, conn, files, kernelVars>>

\* A new version: system("wget -O /tmp/fw.bin ..."), whose result is not
\* looked at.  wget makes the file before the first byte arrives, unless it
\* cannot run at all.
UpdateDownload ==
    /\ "news" \in Vendor
    /\ UpGoto("exchange", "save")
    /\ "fw.bin" \notin files
    /\ files' \in {files, files \cup {"fw.bin"}}
    /\ UNCHANGED <<upStream, conn, kernelVars>>

\* fopen("/tmp/version", "wb+"), and fwrite(NULL) when that fails.
UpdateSave ==
    /\ \/ /\ UpGoto("save", "saved")
          /\ \E f \in Fd : Open(f, "upVersion") /\ upStream' = f
          /\ files' = files \cup {"version"}
       \/ upPc = "save" /\ TableFull /\ Crash /\ UNCHANGED <<upPc, upStream, files>>
    /\ UNCHANGED conn

\* close(s) on every path through check_server_msg ...
UpdateInnerClose ==
    /\ UpGoto("innerClose", "secondClose")
    /\ Close(conn, {"tcp"})
    /\ UNCHANGED <<upStream, conn, files>>

\* ... and again in check_version, which is the only close after a failed
\* request.
UpdateOuterClose ==
    /\ UpGoto("onlyClose", "query") \/ UpGoto("secondClose", "query")
    /\ Close(conn, {"tcp"})
    /\ conn' = NoFd
    /\ UNCHANGED <<upStream, files>>

UpdateNext ==
    \/ UpdateQuery \/ UpdateCloseStream \/ UpdateSocket \/ UpdateConnectFails
    \/ UpdateRequestFails \/ UpdateNoNews \/ UpdateDownload \/ UpdateSave
    \/ UpdateInnerClose \/ UpdateOuterClose
=============================================================================
