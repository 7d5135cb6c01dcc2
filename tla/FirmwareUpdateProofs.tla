------------------------ MODULE FirmwareUpdateProofs ------------------------
(***************************************************************************)
(* IndInv is an inductive invariant of FirmwareUpdate, for every set of    *)
(* releases with any number of images.                                     *)
(***************************************************************************)
EXTENDS FirmwareUpdate, TLAPS

\* A file is made of a release, and "no file" is not.
LEMMA Files ==
    /\ ~IsFile(NoFile)
    /\ \A rel \in Releases, torn \in BOOLEAN : \A n \in 0 .. Len(rel) :
          (torn => n < Len(rel)) => IsFile(FileOf(rel, n, torn))
<1>1. ~IsFile(NoFile)
  <2> SUFFICES ASSUME IsFile(NoFile) PROVE FALSE
      OBVIOUS
  <2>1. NoFile.n = -1 /\ NoFile.n \in 0 .. Len(NoFile.rel)
      BY DEF NoFile, IsFile
  <2> QED
      BY <2>1
<1>2. ASSUME NEW rel \in Releases, NEW torn \in BOOLEAN, NEW n \in 0 .. Len(rel), torn => n < Len(rel)
      PROVE  IsFile(FileOf(rel, n, torn))
    BY <1>2 DEF IsFile, FileOf
<1> QED
    BY <1>1, <1>2

\* The images of a file.
LEMMA Contents ==
    ASSUME NEW f, IsFile(f)
    PROVE  /\ Len(f.rel) \in Nat /\ f.n \in Nat /\ f.n <= Len(f.rel)
           /\ f.torn => f.n < Len(f.rel)
           /\ \A i \in 1 .. Len(f.rel) : f.rel[i].part \in Parts \cup {"other"}
           /\ \A i, j \in 1 .. Len(f.rel) : f.rel[i].part = f.rel[j].part => i = j
<1>1. f.rel \in Releases /\ f.n \in 0 .. Len(f.rel) /\ (f.torn => f.n < Len(f.rel))
    BY DEF IsFile
<1>2. /\ f.rel \in Seq(Image)
      /\ \A i, j \in 1 .. Len(f.rel) : f.rel[i].part = f.rel[j].part => i = j
    BY <1>1, ReleasesAssumption
<1>3. \A i \in 1 .. Len(f.rel) : f.rel[i] \in Image
    BY <1>2
<1> QED
    BY <1>1, <1>2, <1>3 DEF Image
-----------------------------------------------------------------------------
\* The invariant holds at the first start.
LEMMA InitHolds == Init => IndInv
<1> SUFFICES ASSUME Init PROVE IndInv
    OBVIOUS
<1>1. TypeOK
    BY DEF Init, Started, TypeOK
<1>2. Progress /\ TornOnlyByStop /\ Versions /\ AnswersMeanFailure
    BY DEF Init, Started, Progress, TornOnlyByStop, Versions, AnswersMeanFailure, Busy
<1> QED
    BY <1>1, <1>2 DEF IndInv

\* One step, action by action.
LEMMA StepHolds == IndInv /\ [Next]_vars => IndInv'
<1> SUFFICES ASSUME IndInv, [Next]_vars PROVE IndInv'
    OBVIOUS
<1> USE Files DEF IndInv, fileVars, serverVars, flashVars
<1>1. CASE Download
  <2>1. /\ upPc = "wait" /\ image = NoFile /\ boardVer # "new"
        /\ \/ IsFile(image') /\ upPc' = "wget"
           \/ image' = image /\ upPc' = "got"
    <3>1. ASSUME NEW rel \in Releases PROVE IsFile(FileOf(rel, 0, FALSE))
      <4>1. 0 \in 0 .. Len(rel)
          BY ReleasesAssumption
      <4> QED
          BY <4>1
    <3> QED
        BY <1>1, <3>1 DEF Download
  <2>2. UNCHANGED <<version, srvPc, buf, pos, answer, flash, boardVer, stopped>>
      BY <1>1 DEF Download
  <2>3. TypeOK'
      BY <2>1, <2>2 DEF TypeOK
  <2>8. Progress'
      BY <2>2 DEF Progress, Busy, Done
  <2>9. TornOnlyByStop'
      BY <2>2 DEF TornOnlyByStop
  <2>10. Versions' /\ AnswersMeanFailure'
      BY <2>1, <2>2 DEF Versions, AnswersMeanFailure, Busy
  <2> QED
      BY <2>3, <2>8, <2>9, <2>10
<1>2. CASE Receive
  <2>1. upPc = "wget" /\ IsFile(image) /\ IsFile(image')
    <3>1. upPc = "wget" /\ IsFile(image)
        BY <1>2 DEF Receive, Versions
    <3>2. image.rel \in Releases /\ image.n \in Nat
        BY <3>1, Contents DEF IsFile
    <3>3. PICK n \in image.n .. Len(image.rel), torn \in BOOLEAN :
             (torn => n < Len(image.rel)) /\ image' = FileOf(image.rel, n, torn)
        BY <1>2 DEF Receive
    <3>4. n \in 0 .. Len(image.rel)
        BY <3>1, <3>2, <3>3, Contents
    <3> QED
        BY <3>1, <3>2, <3>3, <3>4
  <2>2. UNCHANGED <<upPc, version, srvPc, buf, pos, answer, flash, boardVer, stopped>>
      BY <1>2 DEF Receive
  <2>3. TypeOK'
      BY <2>1, <2>2 DEF TypeOK
  <2>8. Progress'
      BY <2>2 DEF Progress, Busy, Done
  <2>9. TornOnlyByStop'
      BY <2>2 DEF TornOnlyByStop
  <2>10. Versions' /\ AnswersMeanFailure'
      BY <2>1, <2>2 DEF Versions, AnswersMeanFailure, Busy
  <2> QED
      BY <2>3, <2>8, <2>9, <2>10
<1>3. CASE WgetEnds
  <2>1. TypeOK'
      BY <1>3 DEF WgetEnds, TypeOK
  <2>2. Progress'
      BY <1>3 DEF WgetEnds, TypeOK, Progress, Busy, Done
  <2>3. TornOnlyByStop'
      BY <1>3 DEF WgetEnds, TypeOK, TornOnlyByStop
  <2>4. Versions' /\ AnswersMeanFailure'
      BY <1>3 DEF WgetEnds, TypeOK, Versions, AnswersMeanFailure, Busy
  <2> QED
      BY <2>1, <2>2, <2>3, <2>4
<1>4. CASE OpenVersion
  <2>1. TypeOK'
      BY <1>4 DEF OpenVersion, TypeOK
  <2>2. Progress'
      BY <1>4 DEF OpenVersion, TypeOK, Progress, Busy, Done
  <2>3. TornOnlyByStop'
      BY <1>4 DEF OpenVersion, TypeOK, TornOnlyByStop
  <2>4. Versions' /\ AnswersMeanFailure'
      BY <1>4 DEF OpenVersion, TypeOK, Versions, AnswersMeanFailure, Busy
  <2> QED
      BY <2>1, <2>2, <2>3, <2>4
<1>5. CASE WriteVersion
  <2>1. TypeOK'
      BY <1>5 DEF WriteVersion, TypeOK
  <2>2. Progress'
      BY <1>5 DEF WriteVersion, TypeOK, Progress, Busy, Done
  <2>3. TornOnlyByStop'
      BY <1>5 DEF WriteVersion, TypeOK, TornOnlyByStop
  <2>4. Versions' /\ AnswersMeanFailure'
      BY <1>5 DEF WriteVersion, TypeOK, Versions, AnswersMeanFailure, Busy
  <2> QED
      BY <2>1, <2>2, <2>3, <2>4
<1>6. CASE Load
  <2>1. UNCHANGED <<upPc, image, version, flash, boardVer, stopped>> /\ pos' = 0 /\ srvPc = "idle"
      BY <1>6 DEF Load, Goto
  <2>2. \/ image # NoFile /\ srvPc' = "images" /\ buf' = image /\ answer' = "none"
        \/ srvPc' = "idle" /\ answer' = "fail" /\ buf' = buf
      BY <1>6 DEF Load, Goto
  <2>3. TypeOK'
      BY <2>1, <2>2 DEF TypeOK
  <2>4. Progress'
    <3>1. CASE image # NoFile /\ srvPc' = "images" /\ buf' = image /\ answer' = "none"
      <4>1. IsFile(buf') /\ buf'.n \in Nat
          BY <3>1, Contents DEF TypeOK
      <4>2. pos' <= buf'.n /\ 1 .. pos' = {}
          BY <2>1, <4>1
      <4> QED
          BY <3>1, <4>1, <4>2 DEF Progress, Busy
    <3>2. CASE srvPc' = "idle"
        BY <3>2 DEF Progress, Busy
    <3> QED
        BY <2>2, <3>1, <3>2
  <2>5. TornOnlyByStop'
      BY <2>1, <2>2 DEF TornOnlyByStop
  <2>6. Versions' /\ AnswersMeanFailure'
      BY <2>1, <2>2 DEF Versions, AnswersMeanFailure, Busy
  <2> QED
      BY <2>3, <2>4, <2>5, <2>6
<1>7. CASE ImagesEnd /\ UNCHANGED <<fileVars, buf, pos>>
  <2>1. TypeOK'
      BY <1>7 DEF ImagesEnd, Goto, TypeOK
  <2>2. Progress'
      BY <1>7 DEF ImagesEnd, Goto, TypeOK, Progress, Busy, Done
  <2>3. TornOnlyByStop'
      BY <1>7 DEF ImagesEnd, Goto, TypeOK, TornOnlyByStop
  <2>4. Versions' /\ AnswersMeanFailure'
      BY <1>7 DEF ImagesEnd, Goto, TypeOK, Versions, AnswersMeanFailure, Busy
  <2> QED
      BY <2>1, <2>2, <2>3, <2>4
<1>8. CASE UnknownHeader /\ UNCHANGED <<fileVars, buf, pos>>
  <2>1. TypeOK'
      BY <1>8 DEF UnknownHeader, Goto, GiveUp, TypeOK
  <2>2. Progress'
      BY <1>8 DEF UnknownHeader, Goto, GiveUp, TypeOK, Progress, Busy, Done
  <2>3. TornOnlyByStop'
      BY <1>8 DEF UnknownHeader, Goto, GiveUp, TypeOK, TornOnlyByStop
  <2>4. Versions' /\ AnswersMeanFailure'
      BY <1>8 DEF UnknownHeader, Goto, GiveUp, TypeOK, Versions, AnswersMeanFailure, Busy
  <2> QED
      BY <2>1, <2>2, <2>3, <2>4
<1>9. CASE GoodImage /\ UNCHANGED <<fileVars, buf, pos>>
  <2>1. /\ srvPc = "images" /\ srvPc' = "opening"
        /\ pos < buf.n /\ buf.rel[pos + 1].part \in Parts /\ buf.rel[pos + 1].good
      BY <1>9 DEF GoodImage, Goto, Parts
  <2>2. UNCHANGED <<upPc, image, version, buf, pos, answer, flash, boardVer, stopped>>
      BY <1>9 DEF GoodImage
  <2>3. TypeOK'
      BY <2>1, <2>2 DEF TypeOK
  <2>4. Progress'
    <3>1. IsFile(buf) /\ pos \in Nat
        BY <2>1 DEF Progress, Busy, TypeOK
    <3>2. pos < Len(buf.rel) /\ pos <= buf.n /\ ~(pos >= buf.n)
        BY <2>1, <3>1, Contents
    <3> QED
        BY <2>1, <2>2, <3>2 DEF Progress, Busy, Done
  <2>5. TornOnlyByStop'
      BY <2>1, <2>2 DEF TornOnlyByStop
  <2>6. Versions' /\ AnswersMeanFailure'
      BY <2>1, <2>2 DEF Versions, AnswersMeanFailure, Busy
  <2> QED
      BY <2>3, <2>4, <2>5, <2>6
<1>10. CASE BadImage /\ UNCHANGED <<fileVars, buf, pos>>
  <2>1. TypeOK'
      BY <1>10 DEF BadImage, Goto, GiveUp, TypeOK
  <2>2. Progress'
      BY <1>10 DEF BadImage, Goto, GiveUp, TypeOK, Progress, Busy, Done
  <2>3. TornOnlyByStop'
      BY <1>10 DEF BadImage, Goto, GiveUp, TypeOK, TornOnlyByStop
  <2>4. Versions' /\ AnswersMeanFailure'
      BY <1>10 DEF BadImage, Goto, GiveUp, TypeOK, Versions, AnswersMeanFailure, Busy
  <2> QED
      BY <2>1, <2>2, <2>3, <2>4
<1>11. CASE TornImage /\ UNCHANGED <<fileVars, buf, pos>>
  <2>1. /\ srvPc = "images" /\ pos = buf.n /\ buf.torn
        /\ UNCHANGED <<upPc, image, version, buf, pos, flash, boardVer>>
      BY <1>11 DEF TornImage
  <2>2. \/ srvPc' = "idle" /\ answer' = "success" /\ stopped' = stopped
        \/ /\ buf.rel[pos + 1].part \in Parts
           /\ srvPc' = "opening" /\ answer' = answer /\ stopped' = TRUE
      BY <1>11 DEF TornImage, Goto, GiveUp, Parts
  <2>3. TypeOK'
      BY <2>1, <2>2 DEF TypeOK
  <2>4. Progress'
    <3>1. IsFile(buf) /\ pos \in Nat
        BY <2>1 DEF Progress, Busy, TypeOK
    <3>2. pos < Len(buf.rel) /\ pos <= buf.n /\ ~(pos < buf.n)
        BY <2>1, <3>1, Contents
    <3>3. CASE srvPc' = "idle"
        BY <3>3 DEF Progress, Busy
    <3>4. CASE buf.rel[pos + 1].part \in Parts /\ srvPc' = "opening" /\ stopped' = TRUE
        BY <2>1, <3>2, <3>4 DEF Progress, Busy, Done
    <3> QED
        BY <2>2, <3>3, <3>4
  <2>5. TornOnlyByStop'
      BY <2>1, <2>2 DEF TornOnlyByStop
  <2>6. Versions' /\ AnswersMeanFailure'
      BY <2>1, <2>2 DEF Versions, AnswersMeanFailure, Busy
  <2> QED
      BY <2>3, <2>4, <2>5, <2>6
<1>12. CASE OpenFlash
  <2>1. /\ srvPc = "opening" /\ srvPc' = "writing"
        /\ UNCHANGED <<upPc, image, version, buf, pos, answer, boardVer, stopped>>
      BY <1>12 DEF OpenFlash, Goto
  <2>2. flash' = [flash EXCEPT ![buf.rel[pos + 1].part] = "torn"]
      BY <1>12 DEF OpenFlash
  <2>3. /\ IsFile(buf) /\ pos \in Nat /\ buf.n \in Nat /\ pos <= buf.n
        /\ pos < Len(buf.rel) /\ buf.rel[pos + 1].part \in Parts /\ Len(buf.rel) \in Nat
        /\ pos < buf.n => buf.rel[pos + 1].good
        /\ pos >= buf.n => stopped /\ buf.torn
        /\ buf.n <= Len(buf.rel)
    <3>1. IsFile(buf) /\ pos \in Nat
        BY <2>1 DEF Progress, Busy, TypeOK
    <3> QED
        BY <2>1, <3>1, Contents DEF Progress, Busy
  <2>4. ASSUME NEW i \in 1 .. pos, i <= buf.n
        PROVE  buf.rel[i].part \in Parts /\ buf.rel[i].good /\ flash'[buf.rel[i].part] = "new"
    <3>1. buf.rel[i].part \in Parts /\ Done(i)
        BY <2>1, <2>3, <2>4 DEF Progress, Busy
    <3>2. i \in 1 .. Len(buf.rel) /\ pos + 1 \in 1 .. Len(buf.rel) /\ i # pos + 1
        BY <2>3, <2>4
    <3>3. buf.rel[i].part # buf.rel[pos + 1].part
        BY <2>3, <3>2, Contents
    <3> QED
        BY <2>2, <3>1, <3>3 DEF Done, TypeOK
  <2>5. TypeOK'
      BY <2>1, <2>2 DEF TypeOK
  <2>6. Progress'
      BY <2>1, <2>3, <2>4 DEF Progress, Busy, Done
  <2>7. TornOnlyByStop'
      BY <2>1, <2>2, <2>3 DEF TornOnlyByStop, TypeOK
  <2>8. Versions' /\ AnswersMeanFailure'
      BY <2>1 DEF Versions, AnswersMeanFailure, Busy
  <2> QED
      BY <2>5, <2>6, <2>7, <2>8
<1>13. CASE Written
  <2>1. /\ srvPc = "writing" /\ srvPc' = "images" /\ pos' = pos + 1
        /\ UNCHANGED <<upPc, image, version, buf, answer, boardVer, stopped>>
      BY <1>13 DEF Written, Goto
  <2>2. flash' = [flash EXCEPT ![buf.rel[pos + 1].part] = IF pos < buf.n THEN "new" ELSE "torn"]
      BY <1>13 DEF Written
  <2>3. /\ IsFile(buf) /\ pos \in Nat /\ buf.n \in Nat /\ pos <= buf.n
        /\ pos < Len(buf.rel) /\ buf.rel[pos + 1].part \in Parts /\ Len(buf.rel) \in Nat
        /\ pos < buf.n => buf.rel[pos + 1].good
        /\ pos >= buf.n => stopped /\ buf.torn
        /\ buf.n <= Len(buf.rel)
    <3>1. IsFile(buf) /\ pos \in Nat
        BY <2>1 DEF Progress, Busy, TypeOK
    <3> QED
        BY <2>1, <3>1, Contents DEF Progress, Busy
  <2>4. ASSUME NEW i \in 1 .. pos, i <= buf.n
        PROVE  buf.rel[i].part \in Parts /\ buf.rel[i].good /\ flash'[buf.rel[i].part] = "new"
    <3>1. buf.rel[i].part \in Parts /\ Done(i)
        BY <2>1, <2>3, <2>4 DEF Progress, Busy
    <3>2. i \in 1 .. Len(buf.rel) /\ pos + 1 \in 1 .. Len(buf.rel) /\ i # pos + 1
        BY <2>3, <2>4
    <3>3. buf.rel[i].part # buf.rel[pos + 1].part
        BY <2>3, <3>2, Contents
    <3> QED
        BY <2>2, <3>1, <3>3 DEF Done, TypeOK
  <2>5. TypeOK'
    <3>1. flash' \in [Parts -> {"old", "new", "torn"}]
        BY <2>2 DEF TypeOK
    <3>2. pos' \in Nat
        BY <2>1, <2>3
    <3> QED
        BY <2>1, <3>1, <3>2 DEF TypeOK
  <2>6. Progress'
    <3>1. pos' <= buf'.n \/ (buf'.torn /\ pos' = buf'.n + 1)
        BY <2>1, <2>3
    <3>2. ASSUME NEW i \in 1 .. pos', i <= buf'.n PROVE buf'.rel[i].part \in Parts /\ (Done(i))'
      <4>1. CASE i = pos + 1
          BY <2>1, <2>2, <2>3, <3>2, <4>1 DEF Done, TypeOK
      <4>2. CASE i # pos + 1
        <5>1. i \in 1 .. pos /\ i <= buf.n
            BY <2>1, <2>3, <3>2, <4>2
        <5> QED
            BY <2>1, <2>4, <5>1 DEF Done
      <4> QED
          BY <4>1, <4>2
    <3> QED
        BY <2>1, <2>3, <3>1, <3>2 DEF Progress, Busy
  <2>7. TornOnlyByStop'
    <3>1. ASSUME NEW p \in Parts, flash'[p] = "torn" PROVE stopped'
      <4>1. CASE p = buf.rel[pos + 1].part
          BY <2>1, <2>2, <2>3, <3>1, <4>1 DEF TypeOK
      <4>2. CASE p # buf.rel[pos + 1].part
          BY <2>1, <2>2, <3>1, <4>2 DEF TypeOK, TornOnlyByStop
      <4> QED
          BY <4>1, <4>2
    <3> QED
        BY <3>1 DEF TornOnlyByStop
  <2>8. Versions' /\ AnswersMeanFailure'
      BY <2>1 DEF Versions, AnswersMeanFailure, Busy
  <2> QED
      BY <2>5, <2>6, <2>7, <2>8
<1>14. CASE WriteFails
  <2>1. TypeOK'
      BY <1>14 DEF WriteFails, Goto, GiveUp, TypeOK
  <2>2. Progress'
      BY <1>14 DEF WriteFails, Goto, GiveUp, TypeOK, Progress, Busy, Done
  <2>3. TornOnlyByStop'
      BY <1>14 DEF WriteFails, Goto, GiveUp, TypeOK, TornOnlyByStop
  <2>4. Versions' /\ AnswersMeanFailure'
      BY <1>14 DEF WriteFails, Goto, GiveUp, TypeOK, Versions, AnswersMeanFailure, Busy
  <2> QED
      BY <2>1, <2>2, <2>3, <2>4
<1>15. CASE SetBoardVersion
  <2>1. TypeOK'
      BY <1>15 DEF SetBoardVersion, Goto, TypeOK
  <2>2. Progress'
      BY <1>15 DEF SetBoardVersion, Goto, TypeOK, Progress, Busy, Done
  <2>3. TornOnlyByStop'
      BY <1>15 DEF SetBoardVersion, Goto, TypeOK, TornOnlyByStop
  <2>4. Versions' /\ AnswersMeanFailure'
      BY <1>15 DEF SetBoardVersion, Goto, TypeOK, Versions, AnswersMeanFailure, Busy
  <2> QED
      BY <2>1, <2>2, <2>3, <2>4
<1>16. CASE Crash
  <2>1. TypeOK'
      BY <1>16 DEF Crash, TypeOK
  <2>2. Progress'
      BY <1>16 DEF Crash, TypeOK, Progress, Busy, Done
  <2>3. TornOnlyByStop'
      BY <1>16 DEF Crash, TypeOK, TornOnlyByStop
  <2>4. Versions' /\ AnswersMeanFailure'
      BY <1>16 DEF Crash, TypeOK, Versions, AnswersMeanFailure, Busy
  <2> QED
      BY <2>1, <2>2, <2>3, <2>4
<1>17. CASE Restart
  <2>1. TypeOK'
      BY <1>17 DEF Restart, TypeOK
  <2>2. Progress'
      BY <1>17 DEF Restart, TypeOK, Progress, Busy, Done
  <2>3. TornOnlyByStop'
      BY <1>17 DEF Restart, TypeOK, TornOnlyByStop
  <2>4. Versions' /\ AnswersMeanFailure'
      BY <1>17 DEF Restart, TypeOK, Versions, AnswersMeanFailure, Busy
  <2> QED
      BY <2>1, <2>2, <2>3, <2>4
<1>18. CASE Brick
  <2>1. TypeOK'
      BY <1>18 DEF Brick, TypeOK
  <2>2. Progress'
      BY <1>18 DEF Brick, TypeOK, Progress, Busy, Done
  <2>3. TornOnlyByStop'
      BY <1>18 DEF Brick, TypeOK, TornOnlyByStop
  <2>4. Versions' /\ AnswersMeanFailure'
      BY <1>18 DEF Brick, TypeOK, Versions, AnswersMeanFailure, Busy
  <2> QED
      BY <2>1, <2>2, <2>3, <2>4
<1>19. CASE StoreSection /\ UNCHANGED <<fileVars, buf, pos>>
  <2>1. /\ srvPc = "images" /\ srvPc' = "writing"
        /\ UNCHANGED <<upPc, image, version, buf, pos, answer, boardVer>>
        /\ stopped => stopped'
      BY <1>19 DEF StoreSection, Goto, TypeOK
  <2>2. flash' = [flash EXCEPT ![buf.rel[pos + 1].part] = "torn"] /\ stopped' \in BOOLEAN
      BY <1>19 DEF StoreSection, TypeOK
  <2>3. /\ IsFile(buf) /\ pos \in Nat /\ buf.n \in Nat /\ pos <= buf.n
        /\ pos < Len(buf.rel) /\ buf.rel[pos + 1].part \in Parts /\ Len(buf.rel) \in Nat
        /\ pos < buf.n => buf.rel[pos + 1].good
        /\ pos >= buf.n => stopped' /\ buf.torn
        /\ buf.n <= Len(buf.rel)
    <3>1. IsFile(buf) /\ pos \in Nat
        BY <2>1 DEF Progress, Busy, TypeOK
    <3>2. \/ pos < buf.n /\ buf.rel[pos + 1].good
          \/ pos = buf.n /\ buf.torn /\ stopped' = TRUE
        BY <1>19 DEF StoreSection
    <3>3. buf.rel[pos + 1].part \in Parts
        BY <1>19 DEF StoreSection, Parts
    <3> QED
        BY <3>1, <3>2, <3>3, Contents
  <2>4. ASSUME NEW i \in 1 .. pos, i <= buf.n
        PROVE  buf.rel[i].part \in Parts /\ buf.rel[i].good /\ flash'[buf.rel[i].part] = "new"
    <3>1. buf.rel[i].part \in Parts /\ Done(i)
        BY <2>1, <2>3, <2>4 DEF Progress, Busy
    <3>2. i \in 1 .. Len(buf.rel) /\ pos + 1 \in 1 .. Len(buf.rel) /\ i # pos + 1
        BY <2>3, <2>4
    <3>3. buf.rel[i].part # buf.rel[pos + 1].part
        BY <2>3, <3>2, Contents
    <3> QED
        BY <2>2, <3>1, <3>3 DEF Done, TypeOK
  <2>5. TypeOK'
      BY <2>1, <2>2 DEF TypeOK
  <2>6. Progress'
      BY <2>1, <2>3, <2>4 DEF Progress, Busy, Done
  <2>7. TornOnlyByStop'
      BY <2>1, <2>2, <2>3 DEF TornOnlyByStop, TypeOK
  <2>8. Versions' /\ AnswersMeanFailure'
      BY <2>1 DEF Versions, AnswersMeanFailure, Busy
  <2> QED
      BY <2>5, <2>6, <2>7, <2>8
<1>20. CASE RejectSection /\ UNCHANGED <<fileVars, buf, pos>>
  <2>1. TypeOK'
      BY <1>20 DEF RejectSection, Goto, GiveUp, TypeOK
  <2>2. Progress'
      BY <1>20 DEF RejectSection, Goto, GiveUp, TypeOK, Progress, Busy, Done
  <2>3. TornOnlyByStop'
      BY <1>20 DEF RejectSection, Goto, GiveUp, TypeOK, TornOnlyByStop
  <2>4. Versions' /\ AnswersMeanFailure'
      BY <1>20 DEF RejectSection, Goto, GiveUp, TypeOK, Versions, AnswersMeanFailure, Busy
  <2> QED
      BY <2>1, <2>2, <2>3, <2>4
<1>21. CASE UNCHANGED vars
  <2>1. TypeOK'
      BY <1>21 DEF vars, TypeOK
  <2>2. Progress'
      BY <1>21 DEF vars, TypeOK, Progress, Busy, Done
  <2>3. TornOnlyByStop'
      BY <1>21 DEF vars, TypeOK, TornOnlyByStop
  <2>4. Versions' /\ AnswersMeanFailure'
      BY <1>21 DEF vars, TypeOK, Versions, AnswersMeanFailure, Busy
  <2> QED
      BY <2>1, <2>2, <2>3, <2>4
<1> QED
    BY <1>1, <1>2, <1>3, <1>4, <1>5, <1>6, <1>7, <1>8, <1>9,
       <1>10, <1>11, <1>12, <1>13, <1>14, <1>15, <1>16, <1>17, <1>18, <1>19,
       <1>20, <1>21
       DEF Next, UpdateNext, ServerNext, Images

\* IndInv holds in every reachable state.
THEOREM Invariance == Spec => []IndInv
BY InitHolds, StepHolds, PTL DEF Spec

\* When an upgrade restarts the device (utility.c:3687), every image that it had
\* received whole, up to the first unknown one, was good and is on flash.
THEOREM RebootInstalls == Spec => []RebootMeansInstalled
<1>1. ASSUME IndInv PROVE RebootMeansInstalled
  <2> SUFFICES ASSUME srvPc = "reboot", NEW i \in 1 .. buf.n,
                      \A j \in 1 .. i : buf.rel[j].part # "other"
               PROVE  Done(i)
      BY DEF RebootMeansInstalled
  <2>1. IsFile(buf) /\ pos \in Nat /\ buf.n \in Nat
      BY <1>1, ReleasesAssumption DEF IndInv, TypeOK, Progress, Busy, IsFile
  <2>2. \A k \in 1 .. pos : k <= buf.n => Done(k)
      BY <1>1 DEF IndInv, Progress, Busy
  <2>3. pos >= buf.n \/ buf.rel[pos + 1].part = "other"
      BY <1>1 DEF IndInv, Progress
  <2>4. i <= pos
      BY <2>1, <2>3
  <2> QED
      BY <2>1, <2>2, <2>4
<1> QED
    BY <1>1, Invariance, PTL

\* A torn partition is explained by a restart, a failed write, a crash, an image
\* that was not received whole, or the write that is under way (utility.c:3640).
THEOREM TornIsExplained == Spec => []TornOnlyByStop
<1>1. IndInv => TornOnlyByStop
    BY DEF IndInv
<1> QED
    BY <1>1, Invariance, PTL

\* "success" (router_dev.c:1856) is never the answer of an upgrade that has
\* installed the version.
THEOREM SuccessMeansFailure == Spec => []AnswersMeanFailure
<1>1. IndInv => AnswersMeanFailure
    BY DEF IndInv
<1> QED
    BY <1>1, Invariance, PTL
=============================================================================
