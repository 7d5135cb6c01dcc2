--------------------------- MODULE ReplyPipeProofs ---------------------------
(***************************************************************************)
(* IndInv is an inductive invariant of ReplyPipe, for every size of the    *)
(* buffer and of the pipe and every set of replies that fit into the pipe. *)
(***************************************************************************)
EXTENDS ReplyPipe, SequenceTheorems, TLAPS

\* The values of the pipe's octets, and what recv's places may hold.
Numbers == Nat \ {0}
Places == Nat \cup {Nul, Junk}

\* Sizes are numbers.
LEMMA Sizes ==
    /\ Size \in Nat /\ Size >= 1 /\ Capacity \in Nat
    /\ \A n \in Lengths \cup {0} : n \in Nat
<1>1. Size \in Nat /\ Size >= 1 /\ Capacity \in Nat
    BY PipeAssumption
<1>2. \A n \in Lengths \cup {0} : n \in Nat
  <2>1. \A n \in 1 .. Capacity : n \in Nat
      BY <1>1
  <2> QED
      BY <2>1, PipeAssumption
<1> QED
    BY <1>1, <1>2

\* A stretch of the stream is a sequence with the octets one expects.
LEMMA StretchProperties ==
    ASSUME NEW from \in Nat, NEW n \in Nat
    PROVE  /\ [i \in 1 .. n |-> from + i] \in Seq(Numbers)
           /\ Len([i \in 1 .. n |-> from + i]) = n
           /\ \A i \in 1 .. n : [j \in 1 .. n |-> from + j][i] = from + i
<1> DEFINE s == [i \in 1 .. n |-> from + i]
<1>1. \A i \in 1 .. n : from + i \in Numbers
    BY DEF Numbers
<1>2. s \in [1 .. n -> Numbers]
    BY <1>1
<1>3. s \in Seq(Numbers)
    BY <1>2
<1>4. DOMAIN s = 1 .. n
    OBVIOUS
<1>5. Len(s) = n
  <2>1. Len(s) \in Nat /\ DOMAIN s = 1 .. Len(s)
      BY <1>3, LenProperties
  <2>2. 1 .. Len(s) = 1 .. n
      BY <1>4, <2>1
  <2> QED
      BY <2>1, <2>2
<1>6. \A i \in 1 .. n : s[i] = from + i
    OBVIOUS
<1> QED
    BY <1>3, <1>5, <1>6

\* What Read takes from the pipe and leaves in it.
Portion == IF Len(pipe) < Size THEN Len(pipe) ELSE Size

LEMMA PortionProperties ==
    ASSUME pipe \in Seq(Numbers)
    PROVE  /\ Portion \in 0 .. Size /\ Portion \in Nat
           /\ Len(pipe) \in Nat /\ Portion <= Len(pipe)
           /\ Portion = Len(pipe) \/ Portion = Size
           /\ SubSeq(pipe, Portion + 1, Len(pipe)) \in Seq(Numbers)
           /\ Len(SubSeq(pipe, Portion + 1, Len(pipe))) = Len(pipe) - Portion
           /\ \A i \in 1 .. Len(pipe) - Portion :
                 SubSeq(pipe, Portion + 1, Len(pipe))[i] = pipe[Portion + i]
<1>1. Len(pipe) \in Nat
    BY LenProperties
<1>2. /\ Portion \in 0 .. Size /\ Portion \in Nat /\ Portion <= Len(pipe)
      /\ Portion = Len(pipe) \/ Portion = Size
    BY <1>1, Sizes DEF Portion
<1>3. \A i \in 1 .. Len(pipe) : pipe[i] \in Numbers
    BY <1>1, ElementOfSeq
<1>4. \A i \in Portion + 1 .. Len(pipe) : pipe[i] \in Numbers
    BY <1>1, <1>2, <1>3
<1>5. /\ SubSeq(pipe, Portion + 1, Len(pipe)) \in Seq(Numbers)
      /\ Len(SubSeq(pipe, Portion + 1, Len(pipe))) =
            IF Portion + 1 <= Len(pipe) THEN Len(pipe) - (Portion + 1) + 1 ELSE 0
      /\ \A i \in 1 .. Len(pipe) - (Portion + 1) + 1 :
            SubSeq(pipe, Portion + 1, Len(pipe))[i] = pipe[Portion + 1 + i - 1]
  <2>1. Portion + 1 \in Int /\ Len(pipe) \in Int
      BY <1>1, <1>2
  <2> QED
      BY <1>4, <2>1, SubSeqProperties
<1>6. Len(SubSeq(pipe, Portion + 1, Len(pipe))) = Len(pipe) - Portion
    BY <1>1, <1>2, <1>5
<1>7. \A i \in 1 .. Len(pipe) - Portion :
          SubSeq(pipe, Portion + 1, Len(pipe))[i] = pipe[Portion + i]
  <2> TAKE i \in 1 .. Len(pipe) - Portion
  <2>1. i \in 1 .. Len(pipe) - (Portion + 1) + 1 /\ Portion + 1 + i - 1 = Portion + i
      BY <1>1, <1>2
  <2> QED
      BY <1>5, <2>1
<1> QED
    BY <1>1, <1>2, <1>5, <1>6, <1>7
-----------------------------------------------------------------------------
LEMMA Initially == Init => IndInv
<1> SUFFICES ASSUME Init PROVE IndInv
    OBVIOUS
<1>1. recv \in [1 .. Size -> {Nul, Junk}]
    BY DEF Init
<1>2. \A i \in 1 .. Size : recv[i] \in {Nul, Junk}
    BY <1>1
<1>3. /\ onPc = "poll" /\ open = TRUE /\ wrote = 0 /\ told = 0 /\ longest = 0 /\ ret = 0
      /\ whole = {} /\ pipe = <<>> /\ srvPc = "command" /\ length = 0
    BY DEF Init
<1>4. Taken = 0
    BY <1>3 DEF Taken
<1>5. pipe \in Seq(Nat \ {0}) /\ Len(pipe) = 0
    BY <1>3
<1>6. recv \in [1 .. Size -> Nat \cup {Nul, Junk}]
    BY <1>1
<1>7. TypeOK
    BY <1>3, <1>5, <1>6, Sizes DEF TypeOK
<1>8. Stream
    BY <1>3, <1>4, <1>5 DEF Stream
<1>9. Remains
    BY <1>2, <1>3, Sizes DEF Remains
<1>10. Unsplit
    BY <1>3 DEF Unsplit
<1> QED
    BY <1>7, <1>8, <1>9, <1>10 DEF IndInv

\* A reply goes into the pipe behind what is there.
LEMMA WriteKeeps == IndInv /\ Write => IndInv'
<1> SUFFICES ASSUME IndInv, Write PROVE IndInv'
    OBVIOUS
<1> USE DEF Numbers
<1>t. TypeOK /\ Stream /\ Remains /\ Unsplit
    BY DEF IndInv
<1>u. /\ srvPc' \in {"command", "write", "script"} /\ length' \in Lengths \cup {0}
      /\ UNCHANGED <<open, onPc, recv, ret, told, longest>>
    BY DEF Write, onlineVars
<1>w. UNCHANGED Taken
    BY <1>u DEF Taken
<1>n. length \in Nat /\ wrote \in Nat /\ told \in Nat /\ ret \in Nat /\ Taken \in Nat
  <2>1. length \in Nat /\ wrote \in Nat /\ told \in Nat
      BY <1>t, Sizes DEF TypeOK
  <2>2. ret \in Nat
      BY <1>t, Sizes DEF TypeOK
  <2> QED
      BY <2>1, <2>2 DEF Taken
<1>1. CASE ~open
  <2>1. UNCHANGED <<pipe, wrote, whole>>
      BY <1>1 DEF Write
  <2>2. TypeOK'
      BY <1>t, <1>u, <2>1 DEF TypeOK
  <2>3. Stream'
      BY <1>t, <1>u, <1>w, <2>1 DEF Stream
  <2>4. Remains'
      BY <1>t, <1>u, <2>1 DEF Remains
  <2>5. Unsplit'
      BY <1>t, <1>u, <1>w, <2>1 DEF Unsplit
  <2> QED
      BY <2>2, <2>3, <2>4, <2>5 DEF IndInv
<1>2. CASE open
  <2> DEFINE reply == [i \in 1 .. length |-> wrote + i]
  <2>1. /\ Len(pipe) + length <= Capacity
        /\ pipe' = pipe \o reply
        /\ wrote' = wrote + length
        /\ whole' = IF pipe = <<>> /\ length <= Size
                    THEN whole \cup {<<wrote, wrote + length>>} ELSE whole
      BY <1>2 DEF Write
  <2>2. /\ reply \in Seq(Numbers) /\ Len(reply) = length
        /\ \A i \in 1 .. length : reply[i] = wrote + i
      BY <1>n, StretchProperties
  <2>3. pipe \in Seq(Numbers) /\ Len(pipe) \in Nat
      BY <1>t, LenProperties DEF TypeOK
  <2> HIDE DEF reply
  <2>4. /\ pipe' \in Seq(Numbers) /\ Len(pipe') = Len(pipe) + length
        /\ \A i \in 1 .. Len(pipe) + length :
              pipe'[i] = IF i <= Len(pipe) THEN pipe[i] ELSE reply[i - Len(pipe)]
      BY <2>1, <2>2, <2>3, ConcatProperties
  <2>5. Len(pipe) = wrote - Taken /\ \A i \in 1 .. Len(pipe) : pipe[i] = Taken + i
      BY <1>t, <1>2 DEF Stream
  <2>6. \A i \in 1 .. Len(pipe') : pipe'[i] = Taken + i
    <3> TAKE i \in 1 .. Len(pipe')
    <3>1. CASE i <= Len(pipe)
        BY <2>3, <2>4, <2>5, <3>1, <1>n
    <3>2. CASE i > Len(pipe)
      <4>1. i - Len(pipe) \in 1 .. length
          BY <2>3, <2>4, <3>2, <1>n
      <4>2. pipe'[i] = reply[i - Len(pipe)]
          BY <2>3, <2>4, <3>2, <1>n
      <4>3. reply[i - Len(pipe)] = wrote + (i - Len(pipe))
          BY <2>2, <4>1
      <4> QED
          BY <2>3, <2>5, <4>2, <4>3, <1>n
    <3> QED
        BY <2>3, <2>4, <3>1, <3>2, <1>n
  <2>7. Len(pipe') = wrote' - Taken' /\ wrote <= wrote' /\ wrote' \in Nat
      BY <1>n, <1>w, <2>1, <2>3, <2>4, <2>5
  <2>8. whole' \in SUBSET (Nat \X Nat)
    <3>1. <<wrote, wrote + length>> \in Nat \X Nat
        BY <1>n
    <3> QED
        BY <1>t, <2>1, <3>1 DEF TypeOK
  <2>9. TypeOK'
    <3>1. Len(pipe') <= Capacity
        BY <2>1, <2>4
    <3> QED
        BY <1>t, <1>u, <2>4, <2>7, <2>8, <3>1 DEF TypeOK
  <2>10. Stream'
    <3>1. told' <= wrote' /\ Taken' <= wrote'
        BY <1>t, <1>u, <1>w, <1>n, <2>7 DEF Stream
    <3>2. Len(pipe') = wrote' - Taken' /\ \A i \in 1 .. Len(pipe') : pipe'[i] = Taken' + i
        BY <1>w, <2>6, <2>7
    <3>3. onPc' = "read" => pipe' # <<>>
      <4>1. onPc = "read" => Len(pipe) # 0
          BY <1>t, <1>2, <2>3, EmptySeq DEF Stream
      <4>2. Len(pipe) # 0 => Len(pipe') # 0
          BY <1>n, <2>3, <2>4
      <4> QED
          BY <1>u, <4>1, <4>2, EmptySeq
    <3> QED
        BY <1>t, <1>u, <1>2, <3>1, <3>2, <3>3 DEF Stream
  <2>11. Remains'
      BY <1>t, <1>u DEF Remains
  <2>12. Unsplit'
    <3> SUFFICES ASSUME NEW r \in whole'
                 PROVE  /\ r[2] - r[1] <= Size /\ r[2] <= wrote'
                        /\ Taken' = r[1] \/ Taken' >= r[2]
                        /\ told' <= r[1] \/ told' >= r[2]
        BY DEF Unsplit
    <3>1. CASE r \in whole
      <4>1. r[1] \in Nat /\ r[2] \in Nat
          BY <1>t, <3>1 DEF TypeOK
      <4>2. /\ r[2] - r[1] <= Size /\ r[2] <= wrote
            /\ Taken = r[1] \/ Taken >= r[2]
            /\ told <= r[1] \/ told >= r[2]
          BY <1>t, <3>1 DEF Unsplit
      <4> QED
          BY <1>n, <1>u, <1>w, <2>7, <4>1, <4>2
    <3>2. CASE r \notin whole
      <4>1. pipe = <<>> /\ length <= Size /\ r = <<wrote, wrote + length>>
          BY <2>1, <3>2
      <4>2. r[1] = wrote /\ r[2] = wrote + length
          BY <4>1
      <4>3. Taken = wrote
        <5>1. Len(pipe) = 0
            BY <4>1
        <5> QED
            BY <1>n, <2>5, <5>1
      <4>4. told <= wrote
          BY <1>t DEF Stream
      <4> QED
          BY <1>n, <1>u, <1>w, <2>1, <4>1, <4>2, <4>3, <4>4, Sizes
    <3> QED
        BY <3>1, <3>2
  <2> QED
      BY <2>9, <2>10, <2>11, <2>12 DEF IndInv
<1> QED
    BY <1>1, <1>2

\* The reader takes a portion from the beginning of the pipe.
LEMMA ReadKeeps == IndInv /\ Read => IndInv'
<1> SUFFICES ASSUME IndInv, Read PROVE IndInv'
    OBVIOUS
<1>t. TypeOK /\ Stream /\ Remains /\ Unsplit
    BY DEF IndInv
<1>u. /\ onPc = "read" /\ onPc' = "send"
      /\ UNCHANGED <<srvPc, length, open, told, wrote, whole>>
    BY DEF Read, serverVars
<1>r. /\ recv' = [i \in 1 .. Size |-> IF i <= Portion THEN pipe[i] ELSE recv[i]]
      /\ ret' = Portion
      /\ pipe' = SubSeq(pipe, Portion + 1, Len(pipe))
      /\ longest' = IF Portion > longest THEN Portion ELSE longest
    BY DEF Read, Portion
<1>q. pipe \in Seq(Numbers)
    BY <1>t DEF TypeOK, Numbers
<1>p. /\ Portion \in 0 .. Size /\ Portion \in Nat
      /\ Len(pipe) \in Nat /\ Portion <= Len(pipe)
      /\ Portion = Len(pipe) \/ Portion = Size
      /\ pipe' \in Seq(Numbers)
      /\ Len(pipe') = Len(pipe) - Portion
      /\ \A i \in 1 .. Len(pipe) - Portion : pipe'[i] = pipe[Portion + i]
    BY <1>q, <1>r, PortionProperties
<1>n. /\ wrote \in Nat /\ told \in Nat /\ Taken = told /\ Taken' = told + Portion
      /\ longest \in 0 .. Size
    BY <1>t, <1>u, <1>r DEF TypeOK, Taken
<1>s. /\ open => Len(pipe) = wrote - told /\ \A i \in 1 .. Len(pipe) : pipe[i] = told + i
      /\ ~open => pipe = <<>>
      /\ told <= wrote
    BY <1>t, <1>n DEF Stream
<1>z. ~open => Portion = 0
    BY <1>s, <1>p, EmptySeq
<1>b. \A i \in 1 .. Portion : pipe[i] = told + i
  <2>1. CASE open
      BY <1>s, <1>p, <2>1
  <2>2. CASE ~open
      BY <1>z, <2>2
  <2> QED
      BY <2>1, <2>2
<1>v. \A i \in 1 .. Size : recv'[i] = IF i <= Portion THEN told + i ELSE recv[i]
  <2> TAKE i \in 1 .. Size
  <2>1. recv'[i] = IF i <= Portion THEN pipe[i] ELSE recv[i]
      BY <1>r
  <2>2. i <= Portion => pipe[i] = told + i
      BY <1>b, <1>p, Sizes
  <2> QED
      BY <2>1, <2>2
<1>1. TypeOK'
  <2>1. Len(pipe') <= Capacity
      BY <1>t, <1>p, Sizes DEF TypeOK
  <2>2. recv' \in [1 .. Size -> Nat \cup {Nul, Junk}]
    <3>1. \A i \in 1 .. Size : recv'[i] \in Nat \cup {Nul, Junk}
      <4> TAKE i \in 1 .. Size
      <4>1. recv[i] \in Nat \cup {Nul, Junk} /\ told + i \in Nat
          BY <1>t, <1>n, Sizes DEF TypeOK
      <4> QED
          BY <1>v, <4>1
    <3>2. recv' = [i \in 1 .. Size |-> recv'[i]]
        BY <1>r
    <3> QED
        BY <3>1, <3>2
  <2>3. longest' \in 0 .. Size
      BY <1>r, <1>p, <1>n
  <2> QED
      BY <1>t, <1>u, <1>r, <1>p, <2>1, <2>2, <2>3 DEF TypeOK, Numbers
<1>2. Stream'
  <2>1. told' <= wrote' /\ Taken' <= wrote'
      BY <1>u, <1>n, <1>s, <1>p, <1>z
  <2>2. open => Len(pipe') = wrote' - Taken' /\ \A i \in 1 .. Len(pipe') : pipe'[i] = Taken' + i
    <3> SUFFICES ASSUME open
                 PROVE  Len(pipe') = wrote' - Taken' /\ \A i \in 1 .. Len(pipe') : pipe'[i] = Taken' + i
        OBVIOUS
    <3>1. Len(pipe') = wrote' - Taken'
        BY <1>u, <1>n, <1>s, <1>p
    <3>2. ASSUME NEW i \in 1 .. Len(pipe')
          PROVE  pipe'[i] = Taken' + i
      <4>1. Portion + i \in 1 .. Len(pipe) /\ i \in 1 .. Len(pipe) - Portion
          BY <1>p
      <4>2. pipe'[i] = pipe[Portion + i] /\ pipe[Portion + i] = told + (Portion + i)
          BY <1>p, <1>s, <4>1
      <4> QED
          BY <1>p, <1>n, <4>2
    <3> QED
        BY <3>1, <3>2
  <2>3. ~open => pipe' = <<>>
    <3>1. ~open => Len(pipe') = 0
        BY <1>s, <1>p, <1>z, EmptySeq
    <3> QED
        BY <1>p, <3>1, EmptySeq
  <2>4. \A i \in 1 .. ret' : recv'[i] = told' + i
      BY <1>u, <1>r, <1>v, <1>p, Sizes
  <2>5. ret' > 0 \/ ~open
    <3>1. open => Len(pipe) # 0
        BY <1>t, <1>u, <1>q, EmptySeq DEF Stream
    <3> QED
        BY <1>r, <1>p, <3>1, Sizes
  <2> QED
      BY <1>u, <2>1, <2>2, <2>3, <2>4, <2>5 DEF Stream
<1>3. Remains'
  <2>1. \A i \in 1 .. Size : i <= ret' \/ recv'[i] \in {Nul, Junk} \cup 1 .. told'
    <3> TAKE i \in 1 .. Size
    <3>1. recv[i] \in {Nul, Junk} \cup 1 .. told
        BY <1>t, <1>u DEF Remains
    <3> QED
        BY <1>u, <1>r, <1>v, <3>1
  <2>2. longest' = Size => \A i \in 1 .. Size : recv'[i] # Nul
    <3>1. \A i \in 1 .. Size : told + i # Nul
        BY <1>n, Sizes DEF Nul
    <3>2. CASE Portion > longest
        BY <1>r, <1>v, <3>1, <3>2, Sizes
    <3>3. CASE ~(Portion > longest)
      <4>1. longest = Size => \A i \in 1 .. Size : recv[i] # Nul
          BY <1>t DEF Remains
      <4> QED
          BY <1>r, <1>v, <3>1, <3>3, <4>1
    <3> QED
        BY <3>2, <3>3
  <2> QED
      BY <1>u, <2>1, <2>2 DEF Remains
<1>4. Unsplit'
  <2> SUFFICES ASSUME NEW r \in whole
               PROVE  /\ r[2] - r[1] <= Size /\ r[2] <= wrote
                      /\ Taken' = r[1] \/ Taken' >= r[2]
                      /\ told <= r[1] \/ told >= r[2]
      BY <1>u DEF Unsplit
  <2>1. r[1] \in Nat /\ r[2] \in Nat
      BY <1>t DEF TypeOK
  <2>2. /\ r[2] - r[1] <= Size /\ r[2] <= wrote
        /\ Taken = r[1] \/ Taken >= r[2]
        /\ told <= r[1] \/ told >= r[2]
      BY <1>t DEF Unsplit
  <2>3. Taken' = r[1] \/ Taken' >= r[2]
    <3>1. CASE Portion = 0
        BY <1>n, <2>2, <3>1
    <3>2. CASE open
        BY <1>n, <1>p, <1>s, <2>1, <2>2, <3>2, Sizes
    <3> QED
        BY <1>z, <3>1, <3>2
  <2> QED
      BY <2>2, <2>3
<1> QED
    BY <1>1, <1>2, <1>3, <1>4 DEF IndInv

\* Answer only picks a length.
LEMMA AnswerKeeps == IndInv /\ Answer => IndInv'
<1> SUFFICES ASSUME IndInv, Answer PROVE IndInv'
    OBVIOUS
<1>1. /\ srvPc' = "write" /\ length' \in Lengths
      /\ UNCHANGED <<pipe, open, onPc, recv, ret, told, longest, wrote, whole>>
    BY DEF Answer, onlineVars
<1>2. UNCHANGED Taken
    BY <1>1 DEF Taken
<1>3. TypeOK'
    BY <1>1 DEF IndInv, TypeOK
<1>4. Stream' /\ Remains' /\ Unsplit'
    BY <1>1, <1>2 DEF IndInv, Stream, Remains, Unsplit
<1> QED
    BY <1>3, <1>4 DEF IndInv

\* A script empties the pipe for good.
LEMMA ScriptKeeps == IndInv /\ Script => IndInv'
<1> SUFFICES ASSUME IndInv, Script PROVE IndInv'
    OBVIOUS
<1>1. /\ srvPc' = "command" /\ open' = FALSE /\ pipe' = <<>>
      /\ UNCHANGED <<length, onPc, recv, ret, told, longest, wrote, whole>>
    BY DEF Script, onlineVars
<1>2. UNCHANGED Taken
    BY <1>1 DEF Taken
<1>3. pipe' \in Seq(Nat \ {0}) /\ Len(pipe') = 0
    BY <1>1
<1>4. TypeOK'
  <2>1. Len(pipe') <= Capacity
      BY <1>3, Sizes
  <2>2. length' \in Lengths \cup {0} /\ open' \in BOOLEAN
      BY <1>1 DEF IndInv, TypeOK
  <2>3. onPc' \in {"poll", "read", "send"} /\ ret' \in 0 .. Size
        /\ recv' \in [1 .. Size -> Nat \cup {Nul, Junk}]
      BY <1>1 DEF IndInv, TypeOK
  <2>4. wrote' \in Nat /\ told' \in Nat /\ longest' \in 0 .. Size /\ whole' \in SUBSET (Nat \X Nat)
      BY <1>1 DEF IndInv, TypeOK
  <2> QED
      BY <1>1, <1>3, <2>1, <2>2, <2>3, <2>4 DEF TypeOK
<1>5. Stream'
    BY <1>1, <1>2 DEF IndInv, Stream
<1>6. Remains' /\ Unsplit'
    BY <1>1, <1>2 DEF IndInv, Remains, Unsplit
<1> QED
    BY <1>4, <1>5, <1>6 DEF IndInv

\* The poll has found something to read.
LEMMA PollKeeps == IndInv /\ Poll => IndInv'
<1> SUFFICES ASSUME IndInv, Poll PROVE IndInv'
    OBVIOUS
<1>1. /\ onPc = "poll" /\ onPc' = "read" /\ pipe # <<>>
      /\ UNCHANGED <<srvPc, length, pipe, open, recv, ret, told, longest, wrote, whole>>
    BY DEF Poll, serverVars
<1>2. UNCHANGED Taken
    BY <1>1 DEF Taken
<1>3. TypeOK'
    BY <1>1 DEF IndInv, TypeOK
<1>4. Stream'
    BY <1>1, <1>2 DEF IndInv, Stream
<1>5. Remains' /\ Unsplit'
    BY <1>1, <1>2 DEF IndInv, Remains, Unsplit
<1> QED
    BY <1>3, <1>4, <1>5 DEF IndInv

\* What was in hand has been broadcast, and stays behind in recv.
LEMMA SendKeeps == IndInv /\ Send => IndInv'
<1> SUFFICES ASSUME IndInv, Send PROVE IndInv'
    OBVIOUS
<1>1. /\ onPc = "send" /\ onPc' = "poll" /\ told' = told + ret
      /\ UNCHANGED <<srvPc, length, pipe, open, recv, ret, longest, wrote, whole>>
    BY DEF Send, serverVars
<1>2. told \in Nat /\ ret \in Nat /\ ret <= Size /\ wrote \in Nat /\ told' \in Nat
    BY <1>1, Sizes DEF IndInv, TypeOK
<1>3. Taken = told + ret /\ Taken' = Taken /\ told' = Taken
    BY <1>1 DEF Taken
<1>4. TypeOK'
    BY <1>1, <1>2 DEF IndInv, TypeOK
<1>5. Stream'
    BY <1>1, <1>3 DEF IndInv, Stream
<1>6. Remains'
  <2>1. \A i \in 1 .. Size : recv[i] \in {Nul, Junk} \cup 1 .. told'
    <3> TAKE i \in 1 .. Size
    <3>1. CASE i <= ret
      <4>1. recv[i] = told + i
          BY <1>1, <1>2, <3>1, Sizes DEF IndInv, Stream
      <4>2. told + i \in 1 .. told'
          BY <1>1, <1>2, <3>1, Sizes
      <4> QED
          BY <4>1, <4>2
    <3>2. CASE ~(i <= ret)
      <4>1. recv[i] \in {Nul, Junk} \cup 1 .. told
          BY <3>2 DEF IndInv, Remains
      <4>2. \A k \in 1 .. told : k \in 1 .. told'
          BY <1>1, <1>2
      <4> QED
          BY <4>1, <4>2
    <3> QED
        BY <3>1, <3>2
  <2> QED
      BY <1>1, <2>1 DEF IndInv, Remains
<1>7. Unsplit'
  <2> SUFFICES ASSUME NEW r \in whole
               PROVE  /\ r[2] - r[1] <= Size /\ r[2] <= wrote
                      /\ Taken' = r[1] \/ Taken' >= r[2]
                      /\ told' <= r[1] \/ told' >= r[2]
      BY <1>1 DEF Unsplit
  <2>1. r[1] \in Nat /\ r[2] \in Nat
      BY DEF IndInv, TypeOK
  <2>2. /\ r[2] - r[1] <= Size /\ r[2] <= wrote
        /\ Taken = r[1] \/ Taken >= r[2]
      BY DEF IndInv, Unsplit
  <2> QED
      BY <1>2, <1>3, <2>1, <2>2
<1> QED
    BY <1>4, <1>5, <1>6, <1>7 DEF IndInv

LEMMA Consecution == IndInv /\ [Next]_vars => IndInv'
<1> SUFFICES ASSUME IndInv, [Next]_vars PROVE IndInv'
    OBVIOUS
<1>1. CASE Answer
    BY <1>1, AnswerKeeps
<1>2. CASE Write
    BY <1>2, WriteKeeps
<1>3. CASE Script
    BY <1>3, ScriptKeeps
<1>4. CASE Poll
    BY <1>4, PollKeeps
<1>5. CASE Read
    BY <1>5, ReadKeeps
<1>6. CASE Send
    BY <1>6, SendKeeps
<1>7. CASE UNCHANGED vars
  <2>1. UNCHANGED <<srvPc, length, pipe, open, onPc, recv, ret, told, longest, wrote, whole>>
      BY <1>7 DEF vars, serverVars, onlineVars
  <2>2. UNCHANGED Taken
      BY <2>1 DEF Taken
  <2> QED
      BY <2>1, <2>2 DEF IndInv, TypeOK, Stream, Remains, Unsplit
<1> QED
    BY <1>1, <1>2, <1>3, <1>4, <1>5, <1>6, <1>7 DEF Next, ServerNext, OnlineNext

\* The pipe and recv hold the octets that are due, and nothing later.
THEOREM Invariance == Spec => []IndInv
BY Initially, Consecution, PTL DEF Spec
-----------------------------------------------------------------------------
\* What has just been read is the stretch behind what has been broadcast.
LEMMA HandIsNext ==
    ASSUME IndInv
    PROVE  /\ InHand \in Seq(Numbers)
           /\ Len(InHand) = Taken - told
           /\ \A i \in 1 .. Len(InHand) : InHand[i] = told + i
<1>1. told \in Nat /\ ret \in Nat /\ ret <= Size
    BY Sizes DEF IndInv, TypeOK
<1>2. CASE onPc = "send"
  <2>1. InHand = SubSeq(recv, 1, ret) /\ Taken = told + ret
      BY <1>2 DEF InHand, Taken
  <2>2. \A i \in 1 .. ret : recv[i] = told + i
      BY <1>2 DEF IndInv, Stream
  <2>3. \A i \in 1 .. ret : recv[i] \in Numbers
      BY <1>1, <2>2 DEF Numbers
  <2>4. /\ SubSeq(recv, 1, ret) \in Seq(Numbers)
        /\ Len(SubSeq(recv, 1, ret)) = IF 1 <= ret THEN ret - 1 + 1 ELSE 0
        /\ \A i \in 1 .. ret - 1 + 1 : SubSeq(recv, 1, ret)[i] = recv[1 + i - 1]
    <3>1. 1 \in Int /\ ret \in Int
        BY <1>1
    <3> QED
        BY <2>3, <3>1, SubSeqProperties
  <2>5. Len(SubSeq(recv, 1, ret)) = ret
      BY <1>1, <2>4
  <2>6. ASSUME NEW i \in 1 .. ret
        PROVE  SubSeq(recv, 1, ret)[i] = told + i
    <3>1. i \in 1 .. ret - 1 + 1 /\ 1 + i - 1 = i
        BY <1>1
    <3> QED
        BY <2>2, <2>4, <3>1
  <2> QED
      BY <1>1, <2>1, <2>4, <2>5, <2>6
<1>3. CASE onPc # "send"
  <2>1. InHand = <<>> /\ Taken = told
      BY <1>3 DEF InHand, Taken
  <2>2. InHand \in Seq(Numbers) /\ Len(InHand) = 0
      BY <2>1
  <2> QED
      BY <1>1, <2>1, <2>2
<1> QED
    BY <1>2, <1>3

LEMMA StretchIs ==
    ASSUME NEW from \in Nat, NEW to \in Nat, from <= to, NEW s \in Seq(Numbers),
           Len(s) = to - from, \A i \in 1 .. Len(s) : s[i] = from + i
    PROVE  s = Stretch(from, to)
<1>1. to - from \in Nat
    OBVIOUS
<1>2. /\ Stretch(from, to) \in Seq(Numbers) /\ Len(Stretch(from, to)) = to - from
      /\ \A i \in 1 .. (to - from) : Stretch(from, to)[i] = from + i
    BY <1>1, StretchProperties DEF Stretch
<1>3. \A i \in 1 .. Len(s) : s[i] = Stretch(from, to)[i]
    BY <1>2
<1> QED
    BY <1>2, <1>3, SeqEqual

LEMMA OrderFollows == IndInv => InOrder
<1> SUFFICES ASSUME IndInv PROVE InOrder
    OBVIOUS
<1> DEFINE hand == InHand
<1>1. told \in Nat /\ wrote \in Nat /\ Taken \in Nat /\ told <= Taken /\ Taken <= wrote
  <2>1. told \in Nat /\ wrote \in Nat /\ ret \in Nat
      BY Sizes DEF IndInv, TypeOK
  <2>2. Taken <= wrote
      BY DEF IndInv, Stream
  <2> QED
      BY <2>1, <2>2 DEF Taken
<1>2. /\ hand \in Seq(Numbers) /\ Len(hand) = Taken - told
      /\ \A i \in 1 .. Len(hand) : hand[i] = told + i
    BY HandIsNext
<1>3. pipe \in Seq(Numbers) /\ Len(pipe) \in Nat
    BY LenProperties DEF IndInv, TypeOK, Numbers
<1>h. InHand = hand
    OBVIOUS
<1> HIDE DEF hand
<1>4. ASSUME open PROVE hand \o pipe = Stretch(told, wrote)
  <2>1. Len(pipe) = wrote - Taken /\ \A i \in 1 .. Len(pipe) : pipe[i] = Taken + i
      BY <1>4 DEF IndInv, Stream
  <2>2. /\ hand \o pipe \in Seq(Numbers)
        /\ Len(hand \o pipe) = Len(hand) + Len(pipe)
        /\ \A i \in 1 .. Len(hand) + Len(pipe) :
              (hand \o pipe)[i] = IF i <= Len(hand) THEN hand[i] ELSE pipe[i - Len(hand)]
      BY <1>2, <1>3, ConcatProperties
  <2>3. Len(hand \o pipe) = wrote - told
      BY <1>1, <1>2, <2>1, <2>2
  <2>4. ASSUME NEW i \in 1 .. Len(hand \o pipe)
        PROVE  (hand \o pipe)[i] = told + i
    <3>1. CASE i <= Len(hand)
      <4>1. (hand \o pipe)[i] = hand[i] /\ i \in 1 .. Len(hand)
          BY <1>1, <1>2, <1>3, <2>2, <3>1
      <4> QED
          BY <1>2, <4>1
    <3>2. CASE ~(i <= Len(hand))
      <4>1. (hand \o pipe)[i] = pipe[i - Len(hand)] /\ i - Len(hand) \in 1 .. Len(pipe)
          BY <1>1, <1>2, <1>3, <2>2, <3>2
      <4>2. pipe[i - Len(hand)] = Taken + (i - Len(hand))
          BY <2>1, <4>1
      <4> QED
          BY <1>1, <1>2, <2>3, <4>1, <4>2
    <3> QED
        BY <3>1, <3>2
  <2>5. told <= wrote
      BY <1>1
  <2> DEFINE both == hand \o pipe
  <2>6. both \in Seq(Numbers) /\ Len(both) = wrote - told /\ \A i \in 1 .. Len(both) : both[i] = told + i
      BY <2>2, <2>3, <2>4
  <2> HIDE DEF both
  <2>7. both = Stretch(told, wrote)
      BY <1>1, <2>5, <2>6, StretchIs
  <2> QED
      BY <2>7 DEF both
<1>5. hand = Stretch(told, told + Len(hand))
  <2>1. Len(hand) \in Nat /\ told + Len(hand) \in Nat /\ told <= told + Len(hand)
        /\ Len(hand) = told + Len(hand) - told
      BY <1>1, <1>2
  <2> QED
      BY <1>1, <1>2, <2>1, StretchIs
<1> QED
    BY <1>h, <1>4, <1>5 DEF InOrder

\* The octets are broadcast in the order in which they were written, each of them
\* once (main.c:165).
THEOREM AlwaysInOrder == Spec => []InOrder
BY OrderFollows, Invariance, PTL

LEMMA BehindFollows == IndInv => BehindRead
<1> SUFFICES ASSUME IndInv PROVE TailIsOld /\ FullForEver
    BY DEF BehindRead
<1>1. TailIsOld
  <2> SUFFICES ASSUME onPc = "send", NEW i \in (ret + 1) .. Size
               PROVE  recv[i] \in {Nul, Junk} \cup 1 .. told
      BY DEF TailIsOld
  <2>1. ret \in Nat
      BY Sizes DEF IndInv, TypeOK
  <2>2. i \in 1 .. Size /\ ~(i <= ret)
      BY <2>1, Sizes
  <2> QED
      BY <2>2 DEF IndInv, Remains
<1>2. FullForEver
  <2> SUFFICES ASSUME longest = Size PROVE Strlen(recv) = Size
      BY DEF FullForEver
  <2> DEFINE Ends(n) == /\ \A i \in 1 .. n : recv[i] # Nul
                        /\ n = Size \/ recv[n + 1] = Nul
  <2>1. \A i \in 1 .. Size : recv[i] # Nul
      BY DEF IndInv, Remains
  <2>2. Size \in 0 .. Size /\ Ends(Size)
      BY <2>1, Sizes
  <2>3. \A n \in 0 .. Size : Ends(n) => n = Size
    <3> SUFFICES ASSUME NEW n \in 0 .. Size, n # Size PROVE recv[n + 1] # Nul
        OBVIOUS
    <3>1. n + 1 \in 1 .. Size
        BY Sizes
    <3> QED
        BY <2>1, <3>1
  <2>4. Strlen(recv) = CHOOSE n \in 0 .. Size : Ends(n)
      BY DEF Strlen
  <2> HIDE DEF Ends
  <2>5. Strlen(recv) \in 0 .. Size /\ Ends(Strlen(recv))
      BY <2>2, <2>4
  <2> QED
      BY <2>3, <2>5
<1> QED
    BY <1>1, <1>2

\* Behind what was read there is only what was broadcast before, and a reply that
\* fills recv takes its terminator away for good (main.c:165, 172).
THEOREM AlwaysBehindRead == Spec => []BehindRead
BY BehindFollows, Invariance, PTL

\* A reply that fits into recv and meets an empty pipe is never split
\* (main.c:165).
THEOREM AlwaysWholeInOne == Spec => []WholeInOne
<1>1. IndInv => WholeInOne
  <2> SUFFICES ASSUME IndInv, NEW r \in whole PROVE ~(r[1] < told /\ told < r[2])
      BY DEF WholeInOne
  <2>1. told \in Nat /\ r[1] \in Nat /\ r[2] \in Nat
      BY DEF IndInv, TypeOK
  <2>2. told <= r[1] \/ told >= r[2]
      BY DEF IndInv, Unsplit
  <2> QED
      BY <2>1, <2>2
<1> QED
    BY <1>1, Invariance, PTL

\* Only after a script has closed the pipe do the phones hear a reply again
\* (main.c:165, 287).
THEOREM OnlyAfterScript == Spec => RepeatsAfterScript
<1>1. ASSUME IndInv, [Next]_vars
      PROVE  [onPc = "send" /\ onPc' = "poll" /\ told' = told => ~open]_vars
  <2> SUFFICES ASSUME onPc = "send", onPc' = "poll", told' = told PROVE ~open
      OBVIOUS
  <2>1. Send
      BY <1>1 DEF Next, ServerNext, OnlineNext, Answer, Write, Script, Poll, Read, onlineVars,
                  vars
  <2>2. told \in Nat /\ ret \in Nat /\ told' = told + ret
      BY <1>1, <2>1, Sizes DEF IndInv, TypeOK, Send
  <2>3. ret = 0
      BY <2>2
  <2> QED
      BY <1>1, <2>3 DEF IndInv, Stream
<1> QED
    BY <1>1, Invariance, PTL DEF Spec, RepeatsAfterScript
=============================================================================
