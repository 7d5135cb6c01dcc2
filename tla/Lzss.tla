-------------------------------- MODULE Lzss --------------------------------
(***************************************************************************)
(* The settings codec of utility.c: Encode, with its search trees over the *)
(* ring of the last N octets, and Decode, run on what Encode has made.     *)
(* A text is chosen at the beginning; InsertNode is modelled loop turn by  *)
(* loop turn, everything else between two insertions in one step.          *)
(* The index 0 of the C arrays is the index 1 of input, code and codeBuf.  *)
(***************************************************************************)
EXTENDS Integers, Sequences

CONSTANTS
    N,          \* size of the ring
    F,          \* longest match
    THRESHOLD,  \* matches up to this are sent octet by octet
    Byte,       \* values of a flag octet: 256 in the code, for eight units
    K,          \* octets are 0 .. K - 1
    Space,      \* what the ring is filled with
    Text        \* the texts that are encoded

ASSUME LzssAssumption ==
    /\ N \in Nat /\ N <= 4096 /\ F \in Nat /\ 2 <= F /\ 2 * F <= N
    /\ THRESHOLD \in Nat /\ THRESHOLD < F /\ F - THRESHOLD <= 16
    /\ Byte \in {2, 4, 8, 16, 32, 64, 128, 256}
    /\ K \in 1 .. 256 /\ Space \in 0 .. K - 1
    /\ Text \subseteq Seq(0 .. K - 1)

VARIABLES
    pc,             \* where the program is
    input,          \* ucInput of Encode
    textBuf,        \* text_buf
    tree,           \* lson, rson and dad
    matchPosition,  \* match_position
    matchLength,    \* match_length
    s, r,           \* next octet to be overwritten, string to be sent
    len,            \* octets of the look-ahead
    ulPos,          \* octets read: of input by Encode, of code by Decode
    i, last,        \* loop counter and last_match_length
    codeBuf, mask,  \* units not yet in code, flag of the next one
    code,           \* ucOutput of Encode, ucInput of Decode
    node, p, cmp,   \* InsertNode: r, p and cmp
    back,           \* where InsertNode returns to
    flags,          \* Decode: flags not yet used
    from, left,     \* i + k and j + 1 - k: what is copied next, and how much still
    out             \* ucOutput of Decode

encodeVars == <<s, len, i, last, codeBuf, mask, code>>
matchVars == <<matchPosition, matchLength, node, p, cmp, back>>
decodeVars == <<flags, from, left, out>>
vars == <<pc, input, textBuf, tree, r, ulPos, encodeVars, matchVars, decodeVars>>

Octet == 0 .. K - 1
Junk == -1           \* memory nobody has written
Ring == 0 .. N - 1
NIL == N
Root(c) == N + 1 + c
Slot == 0 .. N + K  \* the nodes, NIL and the roots

Lower(a, b) == IF a < b THEN a ELSE b

-----------------------------------------------------------------------------
(* The trees                                                               *)

\* What lson, rson and dad may hold: no child of a node is a root.
Trees == [lson : [0 .. N -> 0 .. N], rson : [Slot -> 0 .. N], dad : [0 .. N -> Slot]]

\* malloc and memset, then InitTree: what memset leaves is 0.
EmptyTree ==
    [lson |-> [q \in 0 .. N |-> 0],
     rson |-> [q \in Slot |-> IF q > N THEN NIL ELSE 0],
     dad |-> [q \in 0 .. N |-> IF q < N THEN NIL ELSE 0]]

\* y takes the place of x below the parent of x.
Relink(t, x, y) ==
    LET d == t.dad[x] IN
    IF t.rson[d] = x
      THEN [t EXCEPT !.rson[d] = y, !.dad[y] = d, !.dad[x] = NIL]
      ELSE [t EXCEPT !.lson[d] = y, !.dad[y] = d, !.dad[x] = NIL]

\* y takes over the children and the place of x.
Replace(t, x, y) ==
    Relink([t EXCEPT !.lson[y] = t.lson[x], !.rson[y] = t.rson[x],
                     !.dad[t.lson[x]] = y, !.dad[t.rson[x]] = y], x, y)

\* The node reached from q by going right as long as there is one.
LastRight(t, q) ==
    LET down[k \in 0 .. N] ==
          IF k = 0 THEN q
          ELSE IF t.rson[down[k - 1]] = NIL THEN down[k - 1] ELSE t.rson[down[k - 1]]
    IN  down[N]

\* q, from the left of x, takes over the children of x.
Promote(t, x, q) ==
    LET u == IF q = t.lson[x] THEN t
             ELSE [t EXCEPT !.rson[t.dad[q]] = t.lson[q], !.dad[t.lson[q]] = t.dad[q],
                            !.lson[q] = t.lson[x], !.dad[t.lson[x]] = q]
    IN  [u EXCEPT !.rson[q] = t.rson[x], !.dad[t.rson[x]] = q]

\* Mutant: a node that is in no tree is taken out all the same.
DeleteNodeAlways(t, x) ==
    IF t.rson[x] = NIL THEN Relink(t, x, t.lson[x])
    ELSE IF t.lson[x] = NIL THEN Relink(t, x, t.rson[x])
    ELSE LET q == LastRight(t, t.lson[x]) IN Relink(Promote(t, x, q), x, q)

DeleteNode(t, x) ==
    IF t.dad[x] = NIL THEN t
    ELSE IF t.rson[x] = NIL THEN Relink(t, x, t.lson[x])
    ELSE IF t.lson[x] = NIL THEN Relink(t, x, t.rson[x])
    ELSE LET q == LastRight(t, t.lson[x]) IN Relink(Promote(t, x, q), x, q)

-----------------------------------------------------------------------------
(* InsertNode                                                              *)

\* Mutant: the node comes with the children it had.
InsertWithChildren(t, x, return) ==
    /\ node' = x
    /\ p' = Root(textBuf'[x])
    /\ cmp' = 1
    /\ tree' = t
    /\ matchLength' = 0
    /\ back' = return
    /\ pc' = "search"
    /\ UNCHANGED matchPosition

\* The call: from here the insertion of x works on the trees t.
Insert(t, x, return) ==
    /\ node' = x
    /\ p' = Root(textBuf'[x])
    /\ cmp' = 1
    /\ tree' = [t EXCEPT !.rson[x] = NIL, !.lson[x] = NIL]
    /\ matchLength' = 0
    /\ back' = return
    /\ pc' = "search"
    /\ UNCHANGED matchPosition

\* cmp is an unsigned short: a negative difference of octets is a large one.
Difference(a, b) == (a - b) % 65536
GoesRight == cmp >= 0
Child == IF GoesRight THEN tree.rson[p] ELSE tree.lson[p]

\* How many octets the strings at a and b have in common, the first unseen.
Common(a, b) ==
    CHOOSE n \in 1 .. F :
        /\ \A k \in 1 .. n - 1 : textBuf[a + k] = textBuf[b + k]
        /\ n = F \/ textBuf[a + n] # textBuf[b + n]

Returns == pc' = back /\ UNCHANGED <<input, textBuf, r, ulPos, encodeVars, node, p, back, decodeVars>>

\* Nothing on this side: the node is hung up there.
Attach ==
    /\ pc = "search" /\ Child = NIL
    /\ tree' = IF GoesRight THEN [tree EXCEPT !.rson[p] = node, !.dad[node] = p]
                            ELSE [tree EXCEPT !.lson[p] = node, !.dad[node] = p]
    /\ Returns
    /\ UNCHANGED <<matchPosition, matchLength, cmp>>

\* Mutant: the match is the node that was compared last.
ComparedLast(n) ==
    /\ cmp' = IF n < F THEN Difference(textBuf[node + n], textBuf[Child + n]) ELSE 0
    /\ matchLength' = n /\ matchPosition' = Child

\* The next node is compared; it may be the longest match so far.
Compared(n) ==
    /\ cmp' = IF n < F THEN Difference(textBuf[node + n], textBuf[Child + n]) ELSE 0
    /\ IF n > matchLength THEN matchLength' = n /\ matchPosition' = Child
                          ELSE UNCHANGED <<matchLength, matchPosition>>

Walk ==
    /\ pc = "search" /\ Child # NIL
    /\ Common(node, Child) < F
    /\ Compared(Common(node, Child))
    /\ p' = Child
    /\ UNCHANGED <<pc, input, textBuf, tree, r, ulPos, encodeVars, node, back, decodeVars>>

\* The whole string is there already: the node replaces the older one.
Supersede ==
    /\ pc = "search" /\ Child # NIL
    /\ Common(node, Child) = F
    /\ Compared(F)
    /\ tree' = Replace(tree, Child, node)
    /\ Returns

-----------------------------------------------------------------------------
(* Encode                                                                  *)

\* The ring is cleared and the first F octets of the text are its last ones.
Begin ==
    /\ pc = "begin"
    /\ LET n == Lower(F, Len(input)) IN
        /\ textBuf' = [q \in 0 .. N + F - 2 |->
                         IF q < N - F THEN Space
                         ELSE IF q < N - F + n THEN input[q - (N - F) + 1] ELSE 0]
        /\ len' = n /\ ulPos' = n
        /\ pc' = IF n = 0 THEN "coded" ELSE "prime"
    /\ tree' = EmptyTree
    /\ s' = 0 /\ r' = N - F
    /\ codeBuf' = <<0>> /\ mask' = 1 /\ code' = <<>>
    /\ i' = 1
    /\ UNCHANGED <<input, last, matchVars, decodeVars>>

\* The F strings before r are inserted, and then r's.
Prime ==
    /\ pc = "prime"
    /\ UNCHANGED <<input, textBuf, r, ulPos, s, len, last, codeBuf, mask, code, decodeVars>>
    /\ \/ i <= F /\ i' = i + 1 /\ Insert(tree, r - i, "prime")
       \/ i > F /\ UNCHANGED i /\ Insert(tree, r, "send")

\* The octets of position and length: eight bits, and four and four bits.
LowOctet(pos) == pos % 256

\* Mutant: a length that is one too much.
HighOctetLong(pos, n) == ((pos \div 256) % 16) * 16 + (n - THRESHOLD)

HighOctet(pos, n) == ((pos \div 256) % 16) * 16 + (n - (THRESHOLD + 1))

\* One unit: the octet at r, or a match that is long enough.
Send ==
    /\ pc = "send"
    /\ LET n == Lower(matchLength, len)
           one == n <= THRESHOLD
           buf == IF one THEN Append([codeBuf EXCEPT ![1] = @ + mask], textBuf[r])
                  ELSE codeBuf \o <<LowOctet(matchPosition), HighOctet(matchPosition, n)>>
           shifted == (2 * mask) % Byte
       IN  /\ last' = (IF one THEN 1 ELSE n) /\ matchLength' = last'
           /\ IF shifted = 0 THEN code' = code \o buf /\ codeBuf' = <<0>> /\ mask' = 1
                             ELSE code' = code /\ codeBuf' = buf /\ mask' = shifted
    /\ i' = 0
    /\ pc' = "shift"
    /\ UNCHANGED <<input, textBuf, tree, r, ulPos, s, len, matchPosition, node, p, cmp, back, decodeVars>>

\* The next place of the ring.
Following(q) == (q + 1) % N

\* Mutant: the first octets are not there again behind the ring.
StoredOnce(c) == [textBuf EXCEPT ![s] = c]

\* c is stored at s, and again behind the ring, where strings are compared.
Stored(c) ==
    [q \in DOMAIN textBuf |-> IF q = s \/ (s < F - 1 /\ q = s + N) THEN c ELSE textBuf[q]]

\* What was sent makes room for the next octet of the text.
ShiftIn ==
    /\ pc = "shift" /\ i < last /\ ulPos < Len(input)
    /\ textBuf' = Stored(input[ulPos + 1])
    /\ ulPos' = ulPos + 1
    /\ s' = Following(s) /\ r' = Following(r)
    /\ i' = i + 1
    /\ Insert(DeleteNode(tree, s), r', "shift")
    /\ UNCHANGED <<input, len, last, codeBuf, mask, code, decodeVars>>

\* After the end of the text only the look-ahead gets shorter.
Drain ==
    /\ pc = "shift" /\ i < last /\ ulPos >= Len(input)
    /\ s' = Following(s) /\ r' = Following(r)
    /\ len' = (len - 1) % 65536
    /\ i' = i + 1
    /\ UNCHANGED <<input, textBuf, ulPos, last, codeBuf, mask, code, decodeVars>>
    /\ \/ len' # 0 /\ Insert(DeleteNode(tree, s), r', "shift")
       \/ len' = 0 /\ tree' = DeleteNode(tree, s) /\ UNCHANGED <<pc, matchVars>>

\* The end of a turn of the loop: the next unit, or the units that are left.
Turn ==
    /\ pc = "shift" /\ i >= last
    /\ IF len > 0
         THEN pc' = "send" /\ UNCHANGED code
         ELSE pc' = "coded" /\ code' = IF Len(codeBuf) > 1 THEN code \o codeBuf ELSE code
    /\ UNCHANGED <<input, textBuf, tree, r, ulPos, s, len, i, last, codeBuf, mask, matchVars, decodeVars>>

-----------------------------------------------------------------------------
(* Decode                                                                  *)

\* Its buffer is new memory of which only the first N - F octets are written.
DecodeBegin ==
    /\ pc = "coded"
    /\ textBuf' = [q \in 0 .. N + F - 2 |-> IF q < N - F THEN Space ELSE Junk]
    /\ r' = N - F
    /\ flags' = 0 /\ ulPos' = 0 /\ out' = <<>> /\ from' = 0 /\ left' = 0
    /\ pc' = "decode"
    /\ UNCHANGED <<input, tree, encodeVars, matchVars>>

\* Flags are shifted; the ones above the octet count them.
FlagsUsed == ((flags \div 2) \div Byte) % 2 = 0
Read == IF FlagsUsed THEN ulPos + 1 ELSE ulPos
Flags == IF FlagsUsed THEN code[Read] + (Byte - 1) * Byte ELSE flags \div 2
Remains(n) == Read + n <= Len(code)
IsOctet == Flags % 2 = 1

\* c comes out, and goes into the ring.
Put(c) ==
    /\ out' = Append(out, c)
    /\ textBuf' = [textBuf EXCEPT ![r] = c]
    /\ r' = Following(r)

DecodeOctet ==
    /\ pc = "decode" /\ left = 0 /\ Remains(1) /\ IsOctet
    /\ Put(code[Read + 1])
    /\ flags' = Flags /\ ulPos' = Read + 1
    /\ UNCHANGED <<pc, input, tree, from, left, encodeVars, matchVars>>

\* Position and length, put together again.
DecodePair ==
    /\ pc = "decode" /\ left = 0 /\ Remains(2) /\ ~IsOctet
    /\ from' = code[Read + 1] + (code[Read + 2] \div 16) * 256
    /\ left' = (code[Read + 2] % 16) + THRESHOLD + 1
    /\ flags' = Flags /\ ulPos' = Read + 2
    /\ UNCHANGED <<pc, input, textBuf, tree, r, out, encodeVars, matchVars>>

\* One turn of the copying loop: what it has put into the ring it may copy again.
CopyOctet ==
    /\ pc = "decode" /\ left > 0
    /\ Put(textBuf[from % N])
    /\ from' = from + 1 /\ left' = left - 1
    /\ UNCHANGED <<pc, input, tree, ulPos, flags, encodeVars, matchVars>>

DecodeEnd ==
    /\ pc = "decode" /\ left = 0
    /\ \/ ~Remains(0)
       \/ Remains(0) /\ IsOctet /\ ~Remains(1)
       \/ Remains(0) /\ ~IsOctet /\ ~Remains(2)
    /\ pc' = "done"
    /\ UNCHANGED <<input, textBuf, tree, r, ulPos, encodeVars, matchVars, decodeVars>>

\* malloc fails: both functions return 0, as for a text of no octets.
NoMemory ==
    /\ pc \in {"begin", "coded"}
    /\ pc' = "refused"
    /\ UNCHANGED <<input, textBuf, tree, r, ulPos, encodeVars, matchVars, decodeVars>>

-----------------------------------------------------------------------------
Init ==
    /\ pc = "begin"
    /\ input \in Text
    /\ textBuf = [q \in 0 .. N + F - 2 |-> 0]
    /\ tree = EmptyTree
    /\ matchPosition = 0 /\ matchLength = 0
    /\ s = 0 /\ r = 0 /\ len = 0 /\ ulPos = 0 /\ i = 0 /\ last = 0
    /\ codeBuf = <<0>> /\ mask = 1 /\ code = <<>>
    /\ node = 0 /\ p = Root(0) /\ cmp = 1 /\ back = "prime"
    /\ flags = 0 /\ from = 0 /\ left = 0 /\ out = <<>>

Encode == Begin \/ Prime \/ Attach \/ Walk \/ Supersede \/ Send \/ ShiftIn \/ Drain \/ Turn
Decode == DecodeBegin \/ DecodeOctet \/ DecodePair \/ CopyOctet \/ DecodeEnd
Ended == pc \in {"done", "refused"} /\ UNCHANGED vars

Next == Encode \/ Decode \/ NoMemory \/ Ended

Spec == Init /\ [][Next]_vars

\* The program is one thread that nothing holds up.
FairSpec == Spec /\ WF_vars(Next)

-----------------------------------------------------------------------------
(* Properties                                                              *)

\* What the variables range over.
Lengths == 0 .. F
Turns == 0 .. F + 1
Words == 0 .. 65535
Units == Seq(0 .. 255)
Memory == 0 .. 255 \cup {Junk}
Buffers == [0 .. N + F - 2 -> Memory]

TypeOK ==
    /\ pc \in {"begin", "prime", "search", "send", "shift", "coded", "decode", "done", "refused"}
    /\ input \in Text /\ textBuf \in Buffers /\ tree \in Trees
    /\ matchPosition \in Ring /\ matchLength \in Lengths
    /\ s \in Ring /\ r \in Ring /\ len \in Lengths /\ ulPos \in Nat
    /\ i \in Turns /\ last \in Lengths
    /\ code \in Units /\ codeBuf \in Units /\ mask \in Nat
    /\ node \in Ring /\ p \in Slot /\ cmp \in Words /\ back \in {"prime", "send", "shift"}
    /\ flags \in Nat /\ from \in Nat /\ left \in Nat /\ out \in Seq(Memory)

Encoding == pc \in {"prime", "search", "send", "shift"}
Linked == {q \in Ring : tree.dad[q] # NIL}
Parents == Linked \cup {Root(c) : c \in Octet}
First(q) == IF q > N THEN q - (N + 1) ELSE textBuf[q]

\* The dad of a node and the child of a node are each other's inverse, a node
\* that is in no tree is nobody's child, and all nodes of a tree begin with the
\* octet of its root: DeleteNode has taken out every string before ShiftIn
\* overwrites its first octet (utility.c:2751).  All places are in the ring.
TreesSound ==
    /\ TypeOK
    /\ Encoding =>
        /\ \A q \in Linked :
             /\ tree.dad[q] \in Parents /\ First(tree.dad[q]) = textBuf[q]
             /\ q = tree.rson[tree.dad[q]] \/ (tree.dad[q] < N /\ q = tree.lson[tree.dad[q]])
        /\ \A q \in Parents :
             /\ tree.rson[q] # NIL => tree.rson[q] \in Linked /\ tree.dad[tree.rson[q]] = q
             /\ q < N /\ tree.lson[q] # NIL => tree.lson[q] \in Linked /\ tree.dad[tree.lson[q]] = q

\* The octet k places after place q of the ring, and how much of two strings is
\* the same, up to n octets.
At(q, k) == textBuf[(q + k) % N]
Alike(a, b, n) == \A k \in 0 .. n - 1 : At(a, k) = At(b, k)

\* Octets that have left the look-ahead, and the places before r whose strings
\* have been inserted: F spaces and what was read.
Past == ulPos - len
Window == {(r + N - k) % N : k \in 1 .. Lower(N - F, F + Past)}

\* What is sent is right: the look-ahead is the next len octets of the text, and
\* what InsertNode has found is, as far as it is inside the look-ahead, the same.
MatchReal ==
    pc = "send" =>
        /\ \A k \in 0 .. len - 1 : At(r, k) = input[ulPos - len + k + 1]
        /\ matchLength > 0 => matchPosition # r /\ Alike(matchPosition, r, Lower(matchLength, len))

\* InsertNode "returns the longest-match position and length"
\* (utility.c:2571-2572): no string of the window begins like more of the
\* look-ahead than the match does.  There is one exception, of one octet: of the
\* strings of F spaces that Encode begins with only the last to be inserted stays,
\* which is the first to be deleted (utility.c:2573-2574, 2719); when that one is
\* gone and others are not, a look-ahead of F spaces may be sent as F - 1.
MatchLongest ==
    pc = "send" => \A q \in Window, n \in 1 .. len :
        Alike(q, r, n) => \/ n <= matchLength
                          \/ /\ n = F /\ \A k \in 0 .. F - 1 : At(r, k) = Space
                             /\ Past \in N - 2 * F + 1 .. N - F - 1

\* Decode is "Just the reverse of Encode()" (utility.c:2778): whatever has come
\* out is the beginning of the text, nothing of it is read from memory that
\* was never written, and the end comes when all of it is there.
Copied == INSTANCE Copying WITH text <- input, got <- out, over <- pc \in {"done", "refused"}
Reverses == Copied!Spec

\* The functions return: every search, every turn of the loops ends.
Ends == <>(pc \in {"done", "refused"})
-----------------------------------------------------------------------------
(* The parts that make the properties above inductive.                     *)

\* The place d octets before r, how far before r a place is, and the place k
\* octets behind one.
Place(d) == IF d <= r THEN r - d ELSE r - d + N
Back(q) == IF q <= r THEN r - q ELSE r - q + N
Behind(q, k) == IF q + k < N THEN q + k ELSE q + k - N
Reach == Lower(N - F, F + Past)  \* the farthest place of the window

\* Where the program is in the text and in the ring.
Inserting == pc = "search" /\ back # "prime"
Phase ==
    /\ len <= ulPos /\ ulPos <= Len(input) /\ (len < F => ulPos = Len(input))
    /\ len > 0 \/ pc = "shift"
    /\ s = Behind(r, F)
    /\ Past < N + F => r = (IF Past < F THEN N - F + Past ELSE Past - F)
    /\ pc = "prime" => Past = 0 /\ i \in 1 .. F + 1
    /\ pc = "search" /\ back = "prime" => Past = 0 /\ i \in 2 .. F + 1 /\ node = r - (i - 1)
    /\ pc = "search" /\ back = "send" => Past = 0
    /\ Inserting \/ pc = "send" \/ (pc = "shift" /\ i > 0 /\ len > 0) => node = r
    /\ pc = "shift" \/ (pc = "search" /\ back = "shift") => last - i <= len /\ last > 0
    /\ pc = "search" /\ back = "shift" => i > 0

\* The units that are collected, and the flags of those.
Collected == mask \in {1, 2, 4, 8, 16, 32, 64, 128} /\ mask < Byte /\ codeBuf # <<>> /\ codeBuf[1] < mask

\* What is behind the ring is what is at its beginning; the look-ahead is text.
Doubled == \A q \in 0 .. F - 2 : q < ulPos - F => textBuf[N + q] = textBuf[q]
LookAhead == \A k \in 0 .. len - 1 : textBuf[Behind(r, k)] = input[Past + k + 1]

\* The strings that are inserted before the text begin with spaces.
Beginning == pc = "prime" \/ (pc = "search" /\ back = "prime")
Filled == Beginning => \A q \in 0 .. N - F - 1 : textBuf[q] = Space

\* cmp is never negative, so that every tree is a chain of right children.
Chains ==
    /\ \A q \in Linked :
         /\ tree.lson[q] = NIL /\ tree.dad[q] \in Parents
         /\ First(tree.dad[q]) = textBuf[q] /\ tree.rson[tree.dad[q]] = q
    /\ \A q \in Parents : tree.rson[q] # NIL => tree.rson[q] \in Linked /\ tree.dad[tree.rson[q]] = q

\* Which strings may be in the trees.
Places ==
    \A q \in Linked :
        /\ Back(q) <= Reach
        /\ pc = "prime" => Back(q) \in 1 .. i - 1
        /\ pc = "search" => Back(q) > 0
        /\ pc = "search" /\ back = "prime" => Back(q) < i - 1

\* Every node of a tree can be reached from its root.
Follows(T) == \A q \in T \cap Parents : tree.rson[q] # NIL => tree.rson[q] \in T
Reachable == \A T \in SUBSET Slot : {Root(c) : c \in Octet} \subseteq T /\ Follows(T) => Linked \subseteq T

\* The first n octets of two strings, as InsertNode compares them.
Same(a, b, n) == \A k \in 0 .. n - 1 : textBuf[a + k] = textBuf[b + k]

\* The string at q has no more in common with the node's than the match has.
NoLonger(q) == \A n \in 1 .. F : Same(q, node, n) => n <= matchLength

\* The node is not yet in a tree, and what has more in common with it than the
\* match is ahead.
Searching ==
    pc = "search" =>
        /\ tree.lson[node] = NIL /\ tree.rson[node] = NIL
        /\ p \in Parents /\ First(p) = textBuf[node] /\ (p \in Linked => NoLonger(p))
        /\ \A T \in SUBSET Slot : p \in T /\ Follows(T) =>
               \A q \in Linked : textBuf[q] = textBuf[node] => q \in T \/ NoLonger(q)

\* The string at r has been compared.
Compares == pc = "send" \/ (pc = "shift" /\ i > 0 /\ len > 0)
Found ==
    (Inserting \/ Compares) /\ matchLength > 0 =>
        Back(matchPosition) \in 1 .. N - F /\ Same(matchPosition, r, matchLength)

\* The strings of the window are there, or a later one that is the same; but of
\* those of F spaces that were there before the text one that is earlier, or none.
Spaces(q) == \A k \in 0 .. F - 1 : textBuf[q + k] = Space
Early(d) == d > Past /\ Spaces(Place(d))
Kept(d) == \E q \in Linked : Same(Place(d), q, F) /\ (Back(q) <= d \/ Early(d))
Lost(d) == Early(d) /\ Past > N - 2 * F
After == pc = "send" \/ (pc = "shift" /\ len > 0)
Represented ==
    /\ pc = "prime" => \A d \in 1 .. i - 1 : Kept(d)
    /\ pc = "search" /\ back = "prime" => \A d \in 1 .. i - 2 : Kept(d)
    /\ Inserting => \A d \in 1 .. Reach : Kept(d) \/ Lost(d)
    /\ After => \A d \in 0 .. Reach : Kept(d) \/ Lost(d)

\* There is a string of F - 1 spaces that is later than all of those.
Spared ==
    After \/ (pc = "search" /\ back = "shift") =>
        \A d \in 0 .. Reach : Early(d) => \E q \in Linked : Back(q) <= d /\ Same(Place(d), q, F - 1)

Longest ==
    Compares =>
        \A d \in 1 .. Reach, n \in 1 .. len :
            Same(Place(d), r, n) => \/ n <= matchLength
                                    \/ n = F /\ Spaces(r) /\ Past > N - 2 * F /\ Past < N - F

Written == [0 .. N + F - 2 -> Octet]

EncodeInv ==
    /\ textBuf \in Written
    /\ Phase /\ Collected /\ Doubled /\ LookAhead /\ Filled
    /\ Chains /\ Places /\ Reachable /\ Searching
    /\ Found /\ Represented /\ Spared /\ Longest

IndInv == TypeOK /\ (Encoding => EncodeInv)
=============================================================================
