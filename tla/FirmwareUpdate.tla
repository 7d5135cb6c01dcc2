--------------------------- MODULE FirmwareUpdate ---------------------------
(***************************************************************************)
(* A firmware release on its way from the vendor's server into the flash   *)
(* memory: the update thread (update.c) downloads /tmp/fw.bin and writes   *)
(* /tmp/version; update_firmware (router_dev.c) and doFirmwareUpgrade      *)
(* (utility.c) read these files and write the flash partitions image by    *)
(* image.  Nothing but the files' existence connects the two, and /tmp is  *)
(* in memory: it is empty after every restart.                             *)
(*                                                                         *)
(* A release is a sequence of images, each with a header and a checksum.   *)
(* A file holds whole images of a release and perhaps a part of the next.  *)
(***************************************************************************)
EXTENDS Integers, Sequences

CONSTANT Releases  \* the releases the vendor may offer, all of one version

\* The kernel ("cs6c", "cr6c"), the web pages and the root file system go to
\* flash partitions; the hardware, default and current settings, each a
\* compressed section with a tag and a checksum inside, go to the settings area;
\* "other" is no header that the code knows.
Flashed == {"kernel", "web", "root"}
Sections == {"hw", "default", "current"}
Parts == Flashed \cup Sections
Image == [part : Parts \cup {"other"}, good : BOOLEAN]

\* No release has two images of one part, and each begins with one.
ASSUME ReleasesAssumption ==
    \A rel \in Releases :
        /\ rel \in Seq(Image)
        /\ \A i, j \in 1 .. Len(rel) : rel[i].part = rel[j].part => i = j

VARIABLES
    upPc,      \* where the update thread is
    image,     \* /tmp/fw.bin
    version,   \* what /tmp/version says
    srvPc,     \* where the server thread is
    buf,       \* firmware_data: the file as it was read
    pos,       \* images of buf that are dealt with: head_offset
    answer,    \* STATUS in the response to the last set_router_update
    flash,     \* part -> version of what the partition holds
    boardVer,  \* HW_BOARD_VER
    stopped    \* history: an upgrade was cut short by a restart, a failed
               \* write or a crash, or has written what it had not received

fileVars == <<upPc, image, version>>
serverVars == <<srvPc, buf, pos, answer>>
flashVars == <<flash, boardVer, stopped>>
vars == <<fileVars, serverVars, flashVars>>

\* Whole images n of the release rel; torn if a part of the next one follows.
NoFile == [rel |-> <<>>, n |-> -1, torn |-> FALSE]
FileOf(rel, n, torn) == [rel |-> rel, n |-> n, torn |-> torn]
IsFile(f) ==
    /\ f.rel \in Releases
    /\ f.n \in 0 .. Len(f.rel)
    /\ f.torn \in BOOLEAN
    /\ f.torn => f.n < Len(f.rel)
    /\ f = FileOf(f.rel, f.n, f.torn)

TypeOK ==
    /\ upPc \in {"wait", "wget", "got", "opened", "dead"}
    /\ image = NoFile \/ IsFile(image)
    /\ version \in {"absent", "empty", "new"}
    /\ srvPc \in {"idle", "images", "opening", "writing", "version", "reboot", "dead"}
    /\ buf = NoFile \/ IsFile(buf)
    /\ pos \in Nat
    /\ answer \in {"none", "fail", "success"}
    /\ flash \in [Parts -> {"old", "new", "torn"}]
    /\ boardVer \in {"old", "new", "garbage"}
    /\ stopped \in BOOLEAN

\* After power on: /tmp is empty.
Started ==
    /\ upPc = "wait" /\ image = NoFile /\ version = "absent"
    /\ srvPc = "idle" /\ buf = NoFile /\ pos = 0 /\ answer = "none"

Init ==
    /\ Started
    /\ flash = [p \in Parts |-> "old"]
    /\ boardVer = "old"
    /\ stopped = FALSE
-----------------------------------------------------------------------------
\* The update thread.

\* Mutant: the vendor's version is not compared with the board's.
DownloadAgain ==
    /\ upPc = "wait" /\ image = NoFile
    /\ \/ \E rel \in Releases : image' = FileOf(rel, 0, FALSE) /\ upPc' = "wget"
       \/ UNCHANGED image /\ upPc' = "got"
    /\ UNCHANGED <<version, serverVars, flashVars>>

\* check_server_msg asks only while there is no file, and the vendor compares
\* the board's version with its own.  wget creates the file, or never gets that
\* far.
Download ==
    /\ upPc = "wait" /\ image = NoFile /\ boardVer # "new"
    /\ \/ \E rel \in Releases : image' = FileOf(rel, 0, FALSE) /\ upPc' = "wget"
       \/ UNCHANGED image /\ upPc' = "got"
    /\ UNCHANGED <<version, serverVars, flashVars>>

\* Some more bytes.
Receive ==
    /\ upPc = "wget"
    /\ \E n \in image.n .. Len(image.rel), torn \in BOOLEAN :
          /\ torn => n < Len(image.rel)
          /\ image' = FileOf(image.rel, n, torn)
          /\ image' # image
    /\ UNCHANGED <<upPc, version, serverVars, flashVars>>

\* wget returns when it is done or has given up; nobody looks at the result.
WgetEnds ==
    /\ upPc = "wget"
    /\ upPc' = "got"
    /\ UNCHANGED <<image, version, serverVars, flashVars>>

\* fopen("wb+") empties the version file.
OpenVersion ==
    /\ upPc = "got"
    /\ upPc' = "opened"
    /\ version' = "empty"
    /\ UNCHANGED <<image, serverVars, flashVars>>

\* What fwrite was given is in the file after fclose, unless /tmp is full.
WriteVersion ==
    /\ upPc = "opened"
    /\ upPc' = "wait"
    /\ version' \in {"new", "empty"}
    /\ UNCHANGED <<image, serverVars, flashVars>>

UpdateNext == Download \/ Receive \/ WgetEnds \/ OpenVersion \/ WriteVersion
-----------------------------------------------------------------------------
\* The server thread.

Goto(from, to) == srvPc = from /\ srvPc' = to

\* set_router_update.  The file's length is taken once: what wget adds later is
\* not read.  Without a file, without memory, or after a short read it fails.
Load ==
    /\ \/ /\ image # NoFile
          /\ Goto("idle", "images")
          /\ buf' = image
          /\ answer' = "none"
       \/ /\ Goto("idle", "idle")
          /\ answer' = "fail"
          /\ UNCHANGED buf
    /\ pos' = 0
    /\ UNCHANGED <<fileVars, flashVars>>

\* goto ret_upload; update_firmware answers "success" whatever is returned.
GiveUp ==
    /\ Goto("images", "idle") \/ Goto("writing", "idle")
    /\ answer' = "success"

\* Mutant: the loop's condition looks at the last image only.
ImagesEndSkippingOne ==
    /\ pos >= buf.n - 1
    /\ Goto("images", "version")
    /\ UNCHANGED <<answer, flashVars>>

\* head_offset + header >= upload_len: nothing is left, or less than a header.
ImagesEnd ==
    /\ pos >= buf.n
    /\ Goto("images", "version")
    /\ UNCHANGED <<answer, flashVars>>

\* An unknown header ends the loop once there was an image (isValidfw).
UnknownHeader ==
    /\ pos < buf.n /\ buf.rel[pos + 1].part = "other"
    /\ \/ pos > 0 /\ Goto("images", "version") /\ UNCHANGED answer
       \/ pos = 0 /\ srvPc = "images" /\ GiveUp
    /\ UNCHANGED flashVars

\* Mutant: the checksum is not looked at.
GoodImageUnchecked ==
    /\ pos < buf.n /\ buf.rel[pos + 1].part \in Flashed
    /\ Goto("images", "opening")
    /\ UNCHANGED <<answer, flashVars>>

\* Length and checksum are right.
GoodImage ==
    /\ pos < buf.n /\ buf.rel[pos + 1].part \in Flashed /\ buf.rel[pos + 1].good
    /\ Goto("images", "opening")
    /\ UNCHANGED <<answer, flashVars>>

BadImage ==
    /\ pos < buf.n /\ buf.rel[pos + 1].part \in Flashed /\ ~buf.rel[pos + 1].good
    /\ srvPc = "images" /\ GiveUp
    /\ UNCHANGED flashVars

\* The checksum of an image that ends early is taken over what follows buf in
\* memory: it does not match, or it does.  (Reading there may also crash, as in
\* Crash.)
TornImage ==
    /\ pos = buf.n /\ buf.torn /\ srvPc = "images"
    /\ \/ GiveUp /\ UNCHANGED flashVars
       \/ /\ buf.rel[pos + 1].part \in Flashed
          /\ Goto("images", "opening")
          /\ stopped' = TRUE
          /\ UNCHANGED <<answer, flash, boardVer>>

\* updateConfigIntoFlash expands one section: the length it is given is 0, so
\* that its own loop ends after the first.  With a known tag and the right
\* checksum it is stored, which apmib_updateFlash begins here; a section that
\* ends early may match with what follows it.
StoreSection ==
    /\ Goto("images", "writing")
    /\ \/ pos < buf.n /\ buf.rel[pos + 1].good /\ UNCHANGED stopped
       \/ pos = buf.n /\ buf.torn /\ stopped' = TRUE
    /\ buf.rel[pos + 1].part \in Sections
    /\ flash' = [flash EXCEPT ![buf.rel[pos + 1].part] = "torn"]
    /\ UNCHANGED <<answer, boardVer>>

\* Without memory for what it expands to, with another tag (type 0) or a wrong
\* checksum (status 0) it is "Invalid configuration file!".
RejectSection ==
    /\ pos < buf.n /\ buf.rel[pos + 1].part \in Sections
    /\ srvPc = "images" /\ GiveUp
    /\ UNCHANGED flashVars

Images ==
    /\ \/ ImagesEnd \/ UnknownHeader \/ GoodImage \/ BadImage \/ TornImage
       \/ StoreSection \/ RejectSection
    /\ UNCHANGED <<fileVars, buf, pos>>

\* open() of the flash device, lseek and the beginning of write().  While open
\* fails the loop turns without advancing: no step.
OpenFlash ==
    /\ Goto("opening", "writing")
    /\ flash' = [flash EXCEPT ![buf.rel[pos + 1].part] = "torn"]
    /\ UNCHANGED <<fileVars, buf, pos, answer, boardVer, stopped>>

\* The image is on the device, with what it lacked if it was torn.
Written ==
    /\ Goto("writing", "images")
    /\ flash' = [flash EXCEPT ![buf.rel[pos + 1].part] = IF pos < buf.n THEN "new" ELSE "torn"]
    /\ pos' = pos + 1
    /\ UNCHANGED <<fileVars, buf, answer, boardVer, stopped>>

\* Mutant: what write() returns is not looked at.
WriteFailsUnnoticed ==
    /\ Goto("writing", "images")
    /\ pos' = pos + 1
    /\ UNCHANGED <<fileVars, buf, answer, flash, boardVer, stopped>>

\* write() wrote less.  (What apmib_updateFlash, of another library, returns is
\* not looked at; it is taken to succeed.)
WriteFails ==
    /\ srvPc = "writing" /\ buf.rel[pos + 1].part \in Flashed
    /\ GiveUp
    /\ stopped' = TRUE
    /\ UNCHANGED <<fileVars, buf, pos, flash, boardVer>>

\* HW_BOARD_VER becomes what the version file says; of an empty file it is what
\* the stack held; and when `flash set` fails, which nobody looks at, it stays as
\* it is.  Then reboot, and for(;;).
SetBoardVersion ==
    /\ version # "absent"
    /\ Goto("version", "reboot")
    /\ boardVer' \in {boardVer, IF version = "new" THEN "new" ELSE "garbage"}
    /\ UNCHANGED <<fileVars, buf, pos, answer, flash, stopped>>

\* The process dies: fgets(NULL) when there is no version file, or a read
\* behind buf.
Crash ==
    /\ \/ srvPc = "version" /\ version = "absent"
       \/ srvPc = "images" /\ pos = buf.n /\ buf.torn
    /\ srvPc' = "dead" /\ upPc' = "dead"
    /\ stopped' = TRUE
    /\ UNCHANGED <<image, version, buf, pos, answer, flash, boardVer>>

ServerNext ==
    \/ Load \/ Images \/ OpenFlash \/ Written \/ WriteFails \/ SetBoardVersion \/ Crash

\* The device restarts, by the upgrade or because its power is cut.  With a torn
\* kernel or root file system it does not come up again.
Restart ==
    /\ flash["kernel"] # "torn" /\ flash["root"] # "torn"
    /\ upPc' = "wait" /\ image' = NoFile /\ version' = "absent"
    /\ srvPc' = "idle" /\ buf' = NoFile /\ pos' = 0 /\ answer' = "none"
    /\ stopped' = (stopped \/ srvPc \in {"images", "opening", "writing", "version"})
    /\ UNCHANGED <<flash, boardVer>>

Brick ==
    /\ flash["kernel"] = "torn" \/ flash["root"] = "torn"
    /\ srvPc' = "dead" /\ upPc' = "dead"
    /\ stopped' = (stopped \/ srvPc # "dead")
    /\ UNCHANGED <<image, version, buf, pos, answer, flash, boardVer>>

Next == UpdateNext \/ ServerNext \/ Restart \/ Brick

Spec == Init /\ [][Next]_vars

\* The threads run.  Nobody has to ask for an upgrade, and the flash device may
\* never open.
FairSpec ==
    /\ Spec
    /\ WF_vars(UpdateNext)
    /\ WF_vars(Images \/ Written \/ SetBoardVersion \/ Crash)
-----------------------------------------------------------------------------
Busy == {"images", "opening", "writing", "version", "reboot"}
Done(i) == buf.rel[i].good /\ flash[buf.rel[i].part] = "new"

\* When an upgrade restarts the device (utility.c:3687), every image that had been
\* received whole was good and is on flash, whatever happened to earlier attempts;
\* only an unknown image may be missing, and what follows that.  (Images that had
\* not been received are missing, and HW_BOARD_VER says nothing of it.)
RebootMeansInstalled ==
    srvPc = "reboot" =>
        \A i \in 1 .. buf.n :
            (\E j \in 1 .. i : buf.rel[j].part = "other") \/ Done(i)

\* A partition is torn only while it is written, or after a restart, a failed
\* write or an image that was not received whole: no sequence of downloads and
\* upgrades that the code itself considers done leaves one (utility.c:3640).
TornOnlyByStop ==
    \A p \in Parts : flash[p] = "torn" => stopped \/ (srvPc = "writing" /\ buf.rel[pos + 1].part = p)

\* The STATUS "success" (router_dev.c:1856) is only ever given by an upgrade
\* that has not installed the version: one that has does not answer.
AnswersMeanFailure == answer = "success" => boardVer # "new"

\* Where the upgrade is: what it has done so far, and what it works on.
Progress ==
    /\ srvPc \in Busy =>
          /\ IsFile(buf)
          /\ pos <= buf.n \/ (buf.torn /\ pos = buf.n + 1)
          /\ \A i \in 1 .. pos : i <= buf.n => buf.rel[i].part \in Parts /\ Done(i)
    /\ srvPc \in {"opening", "writing"} =>
          /\ pos < Len(buf.rel) /\ buf.rel[pos + 1].part \in Parts
          /\ pos < buf.n => buf.rel[pos + 1].good
          /\ pos >= buf.n => stopped /\ buf.torn
          /\ pos <= buf.n
    /\ srvPc \in {"version", "reboot"} =>
          pos >= buf.n \/ buf.rel[pos + 1].part = "other"

\* The device downloads only while its version is not the vendor's, and the
\* upgrade that changes that ends in a restart.
Versions ==
    /\ upPc = "wget" => IsFile(image)
    /\ srvPc \in Busy => answer = "none"
    /\ boardVer = "new" => srvPc \in {"reboot", "dead"} \/ (image = NoFile /\ srvPc = "idle")

IndInv == TypeOK /\ Progress /\ TornOnlyByStop /\ Versions /\ AnswersMeanFailure

\* A release without settings that is downloaded completely and whose images are
\* good is installed, once an upgrade has begun, unless that is stopped or the flash
\* device never opens (utility.c:3538).
GoodReleases == {rel \in Releases : \A i \in 1 .. Len(rel) : rel[i].good /\ rel[i].part \in Flashed}
GoodReleaseInstalls ==
    \/ \A rel \in GoodReleases :
          srvPc = "images" /\ buf = FileOf(rel, Len(rel), FALSE)
          ~> stopped \/ \A i \in 1 .. Len(rel) : flash[rel[i].part] = "new"
    \/ <>[](srvPc = "opening")
=============================================================================
