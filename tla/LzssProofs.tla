----------------------------- MODULE LzssProofs -----------------------------
(***************************************************************************)
(* IndInv is an inductive invariant of Lzss, for every size of the ring,   *)
(* every alphabet and every set of texts: what Encode's search trees hold, *)
(* and what InsertNode finds with them.                                    *)
(***************************************************************************)
EXTENDS Lzss, SequenceTheorems, WellFoundedInduction, TLAPS

-----------------------------------------------------------------------------
(* Numbers                                                                 *)

\* A set of numbers has a least one.
LEMMA Least ==
    ASSUME NEW M \in SUBSET Nat, M # {}
    PROVE  \E m \in M : \A k \in M : m <= k
<1> DEFINE R == OpToRel(<, Nat)
<1>1. IsWellFoundedOn(R, Nat)
    BY NatLessThanWellFounded
<1>2. \A k, m \in Nat : k < m => <<k, m>> \in R
    BY DEF OpToRel
<1> HIDE DEF R
<1>3. PICK m \in M : \A k \in M : ~(<<k, m>> \in R)
    BY <1>1, WFMin
<1>4. \A k \in M : k \in Nat /\ m \in Nat /\ ~(k < m)
    BY <1>2, <1>3
<1> QED
    BY <1>4

\* Modulo the size of the ring.
LEMMA RingMod ==
    ASSUME NEW x \in 0 .. 2 * N - 1
    PROVE  x % N = IF x < N THEN x ELSE x - N
<1>1. N \in Nat /\ N > 0
    BY LzssAssumption
<1> QED
    BY <1>1

\* What is assumed of the sizes.
LEMMA Sizes ==
    /\ N \in Nat /\ F \in Nat /\ 2 <= F /\ 2 * F <= N /\ N <= 4096 /\ THRESHOLD \in Nat
    /\ K \in 1 .. 256 /\ Octet \subseteq 0 .. 255 /\ 0 \in Octet /\ Space \in Octet
BY LzssAssumption DEF Octet

-----------------------------------------------------------------------------
(* The trees                                                               *)

Roots == {Root(c) : c \in Octet}

\* Linked, Parents, Chains and Reachable of trees t over a ring b.
LinkedIn(t) == {q \in Ring : t.dad[q] # NIL}
ParentsIn(t) == LinkedIn(t) \cup Roots
FirstIn(b, q) == IF q > N THEN q - (N + 1) ELSE b[q]
ChainsIn(t, b) ==
    /\ \A q \in LinkedIn(t) :
         /\ t.lson[q] = NIL /\ t.dad[q] \in ParentsIn(t)
         /\ FirstIn(b, t.dad[q]) = b[q] /\ t.rson[t.dad[q]] = q
    /\ \A q \in ParentsIn(t) : t.rson[q] # NIL => t.rson[q] \in LinkedIn(t) /\ t.dad[t.rson[q]] = q
FollowsIn(t, T) == \A q \in T \cap ParentsIn(t) : t.rson[q] # NIL => t.rson[q] \in T
ReachableIn(t) == \A T \in SUBSET Slot : Roots \subseteq T /\ FollowsIn(t, T) => LinkedIn(t) \subseteq T
Forest(t, b) == t \in Trees /\ ChainsIn(t, b) /\ ReachableIn(t)

\* Nodes and roots are not each other.
LEMMA SlotProperties ==
    /\ Ring \subseteq Slot /\ Ring \subseteq 0 .. N /\ NIL \in 0 .. N /\ NIL \in Slot /\ NIL \notin Ring
    /\ Roots \subseteq Slot /\ \A c \in Octet : Root(c) \in Roots /\ Root(c) > N
    /\ \A q \in Roots : q \notin 0 .. N
    /\ \A t : ParentsIn(t) \subseteq Slot /\ NIL \notin ParentsIn(t)
<1>1. Ring \subseteq Slot /\ Ring \subseteq 0 .. N /\ NIL \in 0 .. N /\ NIL \in Slot /\ NIL \notin Ring
    BY Sizes DEF Ring, Slot, NIL
<1>2. \A c \in Octet : Root(c) \in Slot /\ Root(c) > N /\ Root(c) \in Int
    BY Sizes DEF Slot, Root, Octet
<1>3. Roots \subseteq Slot /\ \A q \in Roots : q \notin 0 .. N
    BY <1>2, Sizes DEF Roots
<1> QED
    BY <1>1, <1>2, <1>3 DEF Roots, ParentsIn, LinkedIn

\* No node is its own child.
LEMMA NotItsOwnChild ==
    ASSUME NEW t, NEW b, Forest(t, b), NEW x \in LinkedIn(t)
    PROVE  t.rson[x] # x
<1> SUFFICES ASSUME t.rson[x] = x PROVE FALSE
    OBVIOUS
<1> DEFINE T == Slot \ {x}
<1>1. x \in Ring /\ x # NIL /\ x \notin Roots
    BY SlotProperties DEF LinkedIn
<1>2. t.dad[x] = x
    BY <1>1 DEF Forest, ChainsIn, ParentsIn
<1>3. FollowsIn(t, T)
  <2> SUFFICES ASSUME NEW q \in T \cap ParentsIn(t), t.rson[q] # NIL PROVE t.rson[q] \in T
      BY DEF FollowsIn
  <2>1. t.rson[q] \in LinkedIn(t) /\ t.dad[t.rson[q]] = q
      BY DEF Forest, ChainsIn
  <2> QED
      BY <1>2, <2>1, SlotProperties DEF LinkedIn
<1>4. Roots \subseteq T
    BY <1>1, SlotProperties
<1>5. LinkedIn(t) \subseteq T
    BY <1>3, <1>4 DEF Forest, ReachableIn
<1> QED
    BY <1>5

\* What Relink does to a chain.
LEMMA RelinkProperties ==
    ASSUME NEW t \in Trees, NEW x \in Ring, NEW y \in 0 .. N, t.rson[t.dad[x]] = x
    PROVE  LET u == Relink(t, x, y) IN
           /\ u \in Trees
           /\ u.lson = t.lson
           /\ u.rson = [t.rson EXCEPT ![t.dad[x]] = y]
           /\ u.dad = [[t.dad EXCEPT ![y] = t.dad[x]] EXCEPT ![x] = NIL]
<1>1. t.dad[x] \in Slot /\ NIL \in Slot
    BY SlotProperties DEF Trees
<1>2. Relink(t, x, y) = [t EXCEPT !.rson[t.dad[x]] = y, !.dad[y] = t.dad[x], !.dad[x] = NIL]
    BY DEF Relink
<1> DEFINE rson == [t.rson EXCEPT ![t.dad[x]] = y]
           dad == [[t.dad EXCEPT ![y] = t.dad[x]] EXCEPT ![x] = NIL]
<1>3. Relink(t, x, y) = [lson |-> t.lson, rson |-> rson, dad |-> dad]
    BY <1>2 DEF Trees
<1>4. rson \in [Slot -> 0 .. N] /\ dad \in [0 .. N -> Slot]
    BY <1>1, SlotProperties DEF Trees
<1> HIDE DEF rson, dad
<1>5. Relink(t, x, y) \in Trees
  <2>1. t.lson \in [0 .. N -> 0 .. N]
      BY DEF Trees
  <2>2. [lson |-> t.lson, rson |-> rson, dad |-> dad] \in Trees
      BY <1>4, <2>1 DEF Trees
  <2> QED
      BY <1>3, <2>2
<1> QED
    BY <1>3, <1>5 DEF rson, dad

\* DeleteNode takes a node out of its chain.
LEMMA DeleteNodeIs ==
    ASSUME NEW t, NEW b, Forest(t, b), NEW x \in Ring
    PROVE  DeleteNode(t, x) = IF x \in LinkedIn(t) THEN Relink(t, x, t.rson[x]) ELSE t
<1>1. CASE x \notin LinkedIn(t)
    BY <1>1 DEF DeleteNode, LinkedIn
<1>2. CASE x \in LinkedIn(t)
  <2>1. t.dad[x] # NIL /\ t.lson[x] = NIL
      BY <1>2 DEF LinkedIn, Forest, ChainsIn
  <2> QED
      BY <1>2, <2>1 DEF DeleteNode
<1> QED
    BY <1>1, <1>2

LEMMA DeleteNodeProperties ==
    ASSUME NEW t, NEW b, Forest(t, b), NEW x \in Ring
    PROVE  Forest(DeleteNode(t, x), b) /\ LinkedIn(DeleteNode(t, x)) = LinkedIn(t) \ {x}
<1>1. CASE x \notin LinkedIn(t)
    BY <1>1, DeleteNodeIs
<1>2. CASE x \in LinkedIn(t)
  <2> DEFINE d == t.dad[x]
             y == t.rson[x]
             u == DeleteNode(t, x)
  <2>1. u = Relink(t, x, y)
      BY <1>2, DeleteNodeIs
  <2>2. /\ t \in Trees /\ d \in ParentsIn(t) /\ t.rson[d] = x /\ FirstIn(b, d) = b[x] /\ y \in 0 .. N
        /\ y # NIL => y \in LinkedIn(t) /\ t.dad[y] = x
      BY <1>2, SlotProperties DEF Forest, ChainsIn, Trees, ParentsIn
  <2>3. y # x
      BY <1>2, NotItsOwnChild
  <2>4. d # x
      BY <1>2, <2>2, <2>3
  <2>5. /\ u \in Trees /\ u.lson = t.lson /\ u.rson = [t.rson EXCEPT ![d] = y]
        /\ u.dad = [[t.dad EXCEPT ![y] = d] EXCEPT ![x] = NIL]
      BY <2>1, <2>2, RelinkProperties
  <2>6. d # NIL /\ d \in Slot /\ ParentsIn(t) \subseteq Slot
      BY <2>2, SlotProperties
  <2>7. /\ \A q \in Slot : u.rson[q] = IF q = d THEN y ELSE t.rson[q]
        /\ \A q \in Ring : u.dad[q] = IF q = x THEN NIL ELSE IF q = y THEN d ELSE t.dad[q]
      BY <2>2, <2>3, <2>5, <2>6, SlotProperties DEF Trees
  <2> HIDE DEF u, d, y
  <2>8. LinkedIn(u) = LinkedIn(t) \ {x}
    <3>1. y \in Ring => y \in LinkedIn(t)
        BY <2>2, SlotProperties
    <3> QED
        BY <2>6, <2>7, <3>1 DEF LinkedIn
  <2>9. ParentsIn(u) = ParentsIn(t) \ {x}
      BY <1>2, <2>8, SlotProperties DEF ParentsIn, LinkedIn
  <2>10. ChainsIn(u, b)
    <3>1. ASSUME NEW q \in LinkedIn(u)
          PROVE  /\ u.lson[q] = NIL /\ u.dad[q] \in ParentsIn(u)
                 /\ FirstIn(b, u.dad[q]) = b[q] /\ u.rson[u.dad[q]] = q
      <4>1. q \in LinkedIn(t) /\ q # x /\ q \in Ring
          BY <2>8, <3>1 DEF LinkedIn
      <4>2. /\ t.lson[q] = NIL /\ t.dad[q] \in ParentsIn(t)
            /\ FirstIn(b, t.dad[q]) = b[q] /\ t.rson[t.dad[q]] = q
          BY <4>1 DEF Forest, ChainsIn
      <4>3. CASE q = y
        <5>1. y # NIL
            BY <4>1, <4>3, SlotProperties
        <5>2. FirstIn(b, x) = b[x]
            BY Sizes DEF FirstIn, Ring
        <5>3. u.dad[q] = d /\ t.dad[q] = x
            BY <2>2, <2>7, <4>1, <4>3, <5>1
        <5> QED
            BY <2>2, <2>4, <2>5, <2>6, <2>7, <2>9, <4>2, <4>3, <5>2, <5>3
      <4>4. CASE q # y
        <5>1. u.dad[q] = t.dad[q]
            BY <2>7, <4>1, <4>4
        <5>2. t.dad[q] # x /\ t.dad[q] # d /\ t.dad[q] \in Slot
            BY <2>2, <2>6, <4>1, <4>2, <4>4 DEF y
        <5> QED
            BY <2>5, <2>7, <2>9, <4>2, <5>1, <5>2
      <4> QED
          BY <4>3, <4>4
    <3>2. ASSUME NEW q \in ParentsIn(u), u.rson[q] # NIL
          PROVE  u.rson[q] \in LinkedIn(u) /\ u.dad[u.rson[q]] = q
      <4>1. q \in ParentsIn(t) /\ q # x /\ q \in Slot
          BY <2>6, <2>9
      <4>2. CASE q = d
        <5>1. u.rson[q] = y /\ y \in LinkedIn(t) /\ y \in Ring
            BY <2>2, <2>7, <3>2, <4>1, <4>2 DEF LinkedIn
        <5> QED
            BY <2>3, <2>7, <2>8, <4>2, <5>1
      <4>3. CASE q # d
        <5>1. u.rson[q] = t.rson[q] /\ t.rson[q] \in LinkedIn(t) /\ t.dad[t.rson[q]] = q
            BY <2>7, <3>2, <4>1, <4>3 DEF Forest, ChainsIn
        <5>2. t.rson[q] # x /\ t.rson[q] # y /\ t.rson[q] \in Ring
            BY <2>2, <4>1, <4>3, <5>1, SlotProperties DEF d, LinkedIn
        <5> QED
            BY <2>7, <2>8, <5>1, <5>2
      <4> QED
          BY <4>2, <4>3
    <3> QED
        BY <3>1, <3>2 DEF ChainsIn
  <2>11. ReachableIn(u)
    <3> SUFFICES ASSUME NEW T \in SUBSET Slot, Roots \subseteq T, FollowsIn(u, T)
                 PROVE  LinkedIn(u) \subseteq T
        BY DEF ReachableIn
    <3> DEFINE T2 == (T \ {x}) \cup (IF d \in T THEN {x} ELSE {})
    <3>1. FollowsIn(t, T2)
      <4> SUFFICES ASSUME NEW q \in T2 \cap ParentsIn(t), t.rson[q] # NIL PROVE t.rson[q] \in T2
          BY DEF FollowsIn
      <4>1. t.rson[q] \in LinkedIn(t) /\ t.dad[t.rson[q]] = q /\ q \in Slot
          BY <2>6 DEF Forest, ChainsIn
      <4>2. CASE q = x
        <5>1. d \in T /\ d \in ParentsIn(u)
            BY <2>2, <2>4, <2>9, <4>2
        <5>2. u.rson[d] = y /\ y # NIL /\ y = t.rson[q]
            BY <2>6, <2>7, <4>2 DEF y
        <5>3. y \in T
            BY <5>1, <5>2 DEF FollowsIn
        <5> QED
            BY <2>3, <5>2, <5>3
      <4>3. CASE q # x
        <5>1. q \in T /\ q \in ParentsIn(u)
            BY <2>9, <4>3
        <5>2. CASE q = d
            BY <2>2, <5>1, <5>2
        <5>3. CASE q # d
          <6>1. u.rson[q] = t.rson[q] /\ t.rson[q] # x
              BY <2>7, <4>1, <5>3 DEF d
          <6>2. t.rson[q] \in T
              BY <5>1, <6>1 DEF FollowsIn
          <6> QED
              BY <6>1, <6>2
        <5> QED
            BY <5>2, <5>3
      <4> QED
          BY <4>2, <4>3
    <3>2. T2 \in SUBSET Slot /\ Roots \subseteq T2
        BY <1>2, SlotProperties DEF LinkedIn
    <3>3. LinkedIn(t) \subseteq T2
        BY <3>1, <3>2 DEF Forest, ReachableIn
    <3> QED
        BY <2>8, <3>3
  <2> QED
      BY <2>5, <2>8, <2>10, <2>11 DEF Forest, u
<1> QED
    BY <1>1, <1>2

\* InsertNode clears the children of a node, and hangs it up at the end of a chain.
ClearedIn(t, x) == [t EXCEPT !.rson[x] = NIL, !.lson[x] = NIL]
HungIn(t, d, x) == [t EXCEPT !.rson[d] = x, !.dad[x] = d]

LEMMA Fields ==
    ASSUME NEW t \in Trees, NEW x \in Ring, NEW d \in Slot
    PROVE  /\ ClearedIn(t, x) = [lson |-> [t.lson EXCEPT ![x] = NIL],
                                 rson |-> [t.rson EXCEPT ![x] = NIL], dad |-> t.dad]
           /\ HungIn(t, d, x) = [lson |-> t.lson, rson |-> [t.rson EXCEPT ![d] = x],
                                 dad |-> [t.dad EXCEPT ![x] = d]]
<1>1. ClearedIn(t, x) = [lson |-> [t.lson EXCEPT ![x] = NIL],
                         rson |-> [t.rson EXCEPT ![x] = NIL], dad |-> t.dad]
  <2>1. ClearedIn(t, x) = [t EXCEPT !.rson[x] = NIL, !.lson[x] = NIL]
      BY DEF ClearedIn
  <2> QED
      BY <2>1 DEF Trees
<1>2. HungIn(t, d, x) = [lson |-> t.lson, rson |-> [t.rson EXCEPT ![d] = x],
                         dad |-> [t.dad EXCEPT ![x] = d]]
  <2>1. HungIn(t, d, x) = [t EXCEPT !.rson[d] = x, !.dad[x] = d]
      BY DEF HungIn
  <2> QED
      BY <2>1 DEF Trees
<1> QED
    BY <1>1, <1>2

LEMMA ClearProperties ==
    ASSUME NEW t, NEW b, Forest(t, b), NEW x \in Ring, x \notin LinkedIn(t)
    PROVE  LET u == ClearedIn(t, x) IN
           Forest(u, b) /\ LinkedIn(u) = LinkedIn(t) /\ u.lson[x] = NIL /\ u.rson[x] = NIL
<1> DEFINE u == ClearedIn(t, x)
<1>1. t \in Trees /\ x \in Slot /\ x \in 0 .. N /\ NIL \in 0 .. N /\ x \notin Roots
    BY SlotProperties DEF Forest
<1>2. u = [lson |-> [t.lson EXCEPT ![x] = NIL], rson |-> [t.rson EXCEPT ![x] = NIL], dad |-> t.dad]
    BY <1>1, Fields
<1>3. u \in Trees
  <2>1. [t.lson EXCEPT ![x] = NIL] \in [0 .. N -> 0 .. N] /\ [t.rson EXCEPT ![x] = NIL] \in [Slot -> 0 .. N]
      BY <1>1 DEF Trees
  <2> QED
      BY <1>1, <1>2, <2>1 DEF Trees
<1>4. /\ u.dad = t.dad
      /\ \A q \in 0 .. N : u.lson[q] = IF q = x THEN NIL ELSE t.lson[q]
      /\ \A q \in Slot : u.rson[q] = IF q = x THEN NIL ELSE t.rson[q]
  <2> HIDE DEF u
  <2> QED
      BY <1>1, <1>2 DEF Trees
<1> HIDE DEF u
<1>5. LinkedIn(u) = LinkedIn(t) /\ ParentsIn(u) = ParentsIn(t) /\ x \notin ParentsIn(t)
    BY <1>1, <1>4 DEF LinkedIn, ParentsIn
<1>6. ParentsIn(t) \subseteq Slot /\ LinkedIn(t) \subseteq 0 .. N
    BY SlotProperties DEF LinkedIn
<1>7. \A q \in ParentsIn(t) : u.rson[q] = t.rson[q]
    BY <1>4, <1>5, <1>6
<1>8. ChainsIn(u, b)
    BY <1>4, <1>5, <1>6, <1>7 DEF Forest, ChainsIn
<1>9. ReachableIn(u)
    BY <1>5, <1>7 DEF Forest, ReachableIn, FollowsIn
<1> QED
    BY <1>1, <1>3, <1>4, <1>5, <1>8, <1>9 DEF Forest, u

\* Octets where no linked string begins do not matter to the trees.
LEMMA ForestOver ==
    ASSUME NEW t, NEW b, Forest(t, b), NEW c, \A q \in LinkedIn(t) : c[q] = b[q]
    PROVE  Forest(t, c)
<1>1. \A q \in ParentsIn(t) : FirstIn(c, q) = FirstIn(b, q)
  <2>1. \A q \in Roots : q > N
      BY SlotProperties DEF Roots
  <2> QED
      BY <2>1 DEF ParentsIn, FirstIn
<1> QED
    BY <1>1 DEF Forest, ChainsIn

\* A node without children, the end of a chain.
IsBare(t, x) == t.lson[x] = NIL /\ t.rson[x] = NIL
IsEnd(t, d) == t.rson[d] = NIL

\* A node that is hung up at the end of a chain belongs to it.
LEMMA HangProperties ==
    ASSUME NEW t, NEW b, Forest(t, b), NEW x \in Ring, x \notin LinkedIn(t), IsBare(t, x),
           NEW d \in ParentsIn(t), IsEnd(t, d), FirstIn(b, d) = b[x]
    PROVE  Forest(HungIn(t, d, x), b) /\ LinkedIn(HungIn(t, d, x)) = LinkedIn(t) \cup {x}
<1>0. t.lson[x] = NIL /\ t.rson[x] = NIL /\ t.rson[d] = NIL
    BY DEF IsBare, IsEnd
<1> DEFINE u == HungIn(t, d, x)
<1>1. /\ t \in Trees /\ x \in Slot /\ x \in 0 .. N /\ x # NIL /\ x \notin Roots /\ d \in Slot /\ d # NIL
      /\ ParentsIn(t) \subseteq Slot /\ LinkedIn(t) \subseteq 0 .. N
    BY SlotProperties DEF Forest, LinkedIn
<1>2. u = [lson |-> t.lson, rson |-> [t.rson EXCEPT ![d] = x], dad |-> [t.dad EXCEPT ![x] = d]]
    BY <1>0, <1>1, Fields
<1>3. u \in Trees
  <2>1. [t.rson EXCEPT ![d] = x] \in [Slot -> 0 .. N] /\ [t.dad EXCEPT ![x] = d] \in [0 .. N -> Slot]
      BY <1>0, <1>1 DEF Trees
  <2> QED
      BY <1>0, <1>1, <1>2, <2>1 DEF Trees
<1>4. /\ u.lson = t.lson
      /\ \A q \in Slot : u.rson[q] = IF q = d THEN x ELSE t.rson[q]
      /\ \A q \in 0 .. N : u.dad[q] = IF q = x THEN d ELSE t.dad[q]
  <2> HIDE DEF u
  <2> QED
      BY <1>0, <1>1, <1>2 DEF Trees
<1> HIDE DEF u
<1>5. LinkedIn(u) = LinkedIn(t) \cup {x} /\ ParentsIn(u) = ParentsIn(t) \cup {x} /\ x \notin ParentsIn(t) /\ x # d
  <2>1. Ring \subseteq 0 .. N
      BY SlotProperties
  <2>2. LinkedIn(u) = LinkedIn(t) \cup {x}
      BY <1>0, <1>1, <1>4, <2>1 DEF LinkedIn
  <2> QED
      BY <1>0, <1>1, <2>2 DEF ParentsIn
<1>6. ChainsIn(u, b)
  <2>1. ASSUME NEW q \in LinkedIn(u)
        PROVE  /\ u.lson[q] = NIL /\ u.dad[q] \in ParentsIn(u)
               /\ FirstIn(b, u.dad[q]) = b[q] /\ u.rson[u.dad[q]] = q
    <3>1. CASE q = x
        BY <1>0, <1>1, <1>4, <1>5, <3>1
    <3>2. CASE q # x
      <4>1. q \in LinkedIn(t) /\ q \in 0 .. N
          BY <1>0, <1>1, <1>5, <2>1, <3>2
      <4>2. t.lson[q] = NIL /\ t.dad[q] \in ParentsIn(t) /\ FirstIn(b, t.dad[q]) = b[q] /\ t.rson[t.dad[q]] = q
          BY <4>1 DEF Forest, ChainsIn
      <4>3. q # NIL
          BY <4>1, SlotProperties DEF LinkedIn
      <4>4. t.dad[q] # d /\ u.dad[q] = t.dad[q] /\ t.dad[q] \in Slot
          BY <1>0, <1>1, <1>4, <3>2, <4>1, <4>2, <4>3
      <4> QED
          BY <1>4, <1>5, <4>2, <4>4
    <3> QED
        BY <3>1, <3>2
  <2>2. ASSUME NEW q \in ParentsIn(u), u.rson[q] # NIL
        PROVE  u.rson[q] \in LinkedIn(u) /\ u.dad[u.rson[q]] = q
    <3>1. CASE q = x
        BY <1>0, <1>1, <1>4, <1>5, <2>2, <3>1
    <3>2. CASE q = d
        BY <1>0, <1>1, <1>4, <1>5, <3>2
    <3>3. CASE q # x /\ q # d
      <4>1. q \in ParentsIn(t) /\ u.rson[q] = t.rson[q]
          BY <1>0, <1>1, <1>4, <1>5, <2>2, <3>3
      <4>2. t.rson[q] \in LinkedIn(t) /\ t.dad[t.rson[q]] = q
          BY <2>2, <4>1 DEF Forest, ChainsIn
      <4> QED
          BY <1>0, <1>1, <1>4, <1>5, <4>1, <4>2
    <3> QED
        BY <3>1, <3>2, <3>3
  <2> QED
      BY <2>1, <2>2 DEF ChainsIn
<1>7. ReachableIn(u)
  <2> SUFFICES ASSUME NEW T \in SUBSET Slot, Roots \subseteq T, FollowsIn(u, T)
               PROVE  LinkedIn(u) \subseteq T
      BY DEF ReachableIn
  <2> DEFINE T2 == T \ {x}
  <2>1. FollowsIn(t, T2)
    <3> SUFFICES ASSUME NEW q \in T2 \cap ParentsIn(t), t.rson[q] # NIL PROVE t.rson[q] \in T2
        BY DEF FollowsIn
    <3>1. q # d /\ q \in Slot
        BY <1>0, <1>1
    <3>2. t.rson[q] \in LinkedIn(t)
        BY <1>0 DEF Forest, ChainsIn
    <3>3. u.rson[q] = t.rson[q] /\ q \in T \cap ParentsIn(u)
        BY <1>4, <1>5, <3>1
    <3> QED
        BY <3>2, <3>3 DEF FollowsIn
  <2>2. Roots \subseteq T2 /\ T2 \in SUBSET Slot
      BY <1>0, <1>1
  <2>3. LinkedIn(t) \subseteq T2
      BY <2>1, <2>2 DEF Forest, ReachableIn
  <2>4. d \in T /\ d \in ParentsIn(u) /\ u.rson[d] = x
      BY <1>0, <1>1, <1>4, <1>5, <2>3 DEF ParentsIn
  <2>5. x \in T
      BY <1>0, <1>1, <2>4 DEF FollowsIn
  <2> QED
      BY <1>5, <2>3, <2>5
<1> QED
    BY <1>3, <1>5, <1>6, <1>7 DEF Forest, u

\* What Replace does to a chain.
LEMMA ReplaceIs ==
    ASSUME NEW t \in Trees, NEW x \in Ring, NEW y \in Ring, x # y, t.rson[x] # x, t.lson[x] = NIL,
           t.dad[x] # y, t.rson[t.dad[x]] = x
    PROVE  LET u == Replace(t, x, y) IN
           /\ u \in Trees
           /\ u.lson = [t.lson EXCEPT ![y] = NIL]
           /\ u.rson = [[t.rson EXCEPT ![y] = t.rson[x]] EXCEPT ![t.dad[x]] = y]
           /\ \A q \in Ring : u.dad[q] = IF q = x THEN NIL ELSE IF q = y THEN t.dad[x]
                                         ELSE IF q = t.rson[x] THEN y ELSE t.dad[q]
<1> DEFINE z == t.rson[x]
           lson == [t.lson EXCEPT ![y] = NIL]
           rson == [t.rson EXCEPT ![y] = z]
           dad == [[t.dad EXCEPT ![NIL] = y] EXCEPT ![z] = y]
           v == [lson |-> lson, rson |-> rson, dad |-> dad]
<1>1. /\ x \in Slot /\ y \in Slot /\ x \in 0 .. N /\ y \in 0 .. N /\ NIL \in 0 .. N /\ NIL \in Slot /\ NIL \notin Ring
      /\ z \in 0 .. N /\ t.dad[x] \in Slot
    BY SlotProperties DEF Trees
<1>2. Replace(t, x, y) = Relink([t EXCEPT !.lson[y] = t.lson[x], !.rson[y] = t.rson[x],
                                          !.dad[t.lson[x]] = y, !.dad[t.rson[x]] = y], x, y)
    BY DEF Replace
<1>3. Replace(t, x, y) = Relink(v, x, y)
  <2> DEFINE w == [t EXCEPT !.lson[y] = t.lson[x], !.rson[y] = t.rson[x],
                            !.dad[t.lson[x]] = y, !.dad[t.rson[x]] = y]
  <2>1. ASSUME NEW a, a = w PROVE a = v
      BY <2>1 DEF Trees
  <2> QED
      BY <1>2, <2>1
<1>4. v \in Trees
  <2>1. lson \in [0 .. N -> 0 .. N] /\ rson \in [Slot -> 0 .. N] /\ dad \in [0 .. N -> Slot]
      BY <1>1 DEF Trees
  <2> HIDE DEF lson, rson, dad
  <2> QED
      BY <2>1 DEF Trees
<1>5. v.dad[x] = t.dad[x] /\ v.rson[v.dad[x]] = x
    BY <1>1 DEF Trees
<1>6. v.lson = lson /\ v.rson = rson /\ v.dad = dad
    OBVIOUS
<1> HIDE DEF v
<1>7. LET u == Relink(v, x, y) IN
      /\ u \in Trees /\ u.lson = v.lson /\ u.rson = [v.rson EXCEPT ![v.dad[x]] = y]
      /\ u.dad = [[v.dad EXCEPT ![y] = v.dad[x]] EXCEPT ![x] = NIL]
    BY <1>1, <1>4, <1>5, RelinkProperties
<1>8. \A q \in Ring : Relink(v, x, y).dad[q] =
          IF q = x THEN NIL ELSE IF q = y THEN t.dad[x] ELSE IF q = t.rson[x] THEN y ELSE t.dad[q]
  <2> DEFINE u == Relink(v, x, y)
  <2>1. u.dad = [[dad EXCEPT ![y] = t.dad[x]] EXCEPT ![x] = NIL]
      BY <1>5, <1>6, <1>7
  <2>2. dad \in [0 .. N -> Slot] /\ Ring \subseteq 0 .. N
      BY <1>1, SlotProperties DEF Trees
  <2>3. \A q \in Ring : dad[q] = IF q = z THEN y ELSE t.dad[q]
      BY <1>1, <2>2 DEF Trees
  <2> HIDE DEF u, dad
  <2>4. \A q \in Ring : u.dad[q] = IF q = x THEN NIL ELSE IF q = y THEN t.dad[x] ELSE dad[q]
      BY <1>1, <2>1, <2>2
  <2> QED
      BY <2>3, <2>4 DEF u
<1> QED
    BY <1>3, <1>5, <1>6, <1>7, <1>8

\* A node takes the place of another one that begins with the same octet.
LEMMA ReplaceProperties ==
    ASSUME NEW t, NEW b, Forest(t, b), NEW x \in LinkedIn(t), NEW y \in Ring, y \notin LinkedIn(t), b[x] = b[y]
    PROVE  Forest(Replace(t, x, y), b) /\ LinkedIn(Replace(t, x, y)) = (LinkedIn(t) \ {x}) \cup {y}
<1> DEFINE u == Replace(t, x, y)
           d == t.dad[x]
           z == t.rson[x]
<1>1. /\ t \in Trees /\ x \in Ring /\ x # y /\ t.lson[x] = NIL /\ d \in ParentsIn(t) /\ FirstIn(b, d) = b[x]
      /\ t.rson[d] = x /\ (z # NIL => z \in LinkedIn(t) /\ t.dad[z] = x)
    BY DEF Forest, ChainsIn, LinkedIn, ParentsIn
<1>2. z # x /\ z # y /\ d # x /\ d # y
  <2>1. z # x
      BY NotItsOwnChild
  <2>2. y # NIL /\ y \notin Roots
      BY SlotProperties
  <2> QED
      BY <1>1, <2>1, <2>2 DEF ParentsIn
<1>3. /\ u \in Trees
      /\ u.lson = [t.lson EXCEPT ![y] = NIL]
      /\ u.rson = [[t.rson EXCEPT ![y] = z] EXCEPT ![d] = y]
      /\ \A q \in Ring : u.dad[q] = IF q = x THEN NIL ELSE IF q = y THEN d ELSE IF q = z THEN y ELSE t.dad[q]
    BY <1>1, <1>2, ReplaceIs
<1>4. /\ x \in Slot /\ y \in Slot /\ x \notin Roots /\ y \notin Roots /\ x # NIL /\ y # NIL /\ d # NIL
      /\ ParentsIn(t) \subseteq Slot /\ LinkedIn(t) \subseteq Ring /\ Ring \subseteq 0 .. N /\ NIL \notin Ring
      /\ z \in 0 .. N /\ y \in 0 .. N
    BY <1>1, SlotProperties DEF LinkedIn, Trees
<1>5. /\ \A q \in 0 .. N : u.lson[q] = IF q = y THEN NIL ELSE t.lson[q]
      /\ \A q \in Slot : u.rson[q] = IF q = d THEN y ELSE IF q = y THEN z ELSE t.rson[q]
  <2>1. d \in Slot
      BY <1>1, <1>4
  <2>2. t.lson \in [0 .. N -> 0 .. N] /\ t.rson \in [Slot -> 0 .. N]
      BY <1>1 DEF Trees
  <2> HIDE DEF u, d, z
  <2> QED
      BY <1>3, <1>4, <2>1, <2>2
<1> HIDE DEF u, d, z
<1>6. LinkedIn(u) = (LinkedIn(t) \ {x}) \cup {y}
  <2>1. z \in Ring => z \in LinkedIn(t)
      BY <1>1, <1>4
  <2> QED
      BY <1>2, <1>3, <1>4, <2>1 DEF LinkedIn
<1>7. ParentsIn(u) = (ParentsIn(t) \ {x}) \cup {y} /\ y \notin ParentsIn(t)
    BY <1>4, <1>6 DEF ParentsIn
<1>8. ChainsIn(u, b)
  <2>1. FirstIn(b, y) = b[y] /\ FirstIn(b, x) = b[x]
      BY <1>1, Sizes DEF FirstIn, Ring
  <2>2. ASSUME NEW q \in LinkedIn(u)
        PROVE  /\ u.lson[q] = NIL /\ u.dad[q] \in ParentsIn(u)
               /\ FirstIn(b, u.dad[q]) = b[q] /\ u.rson[u.dad[q]] = q
    <3>1. CASE q = y
      <4>1. u.dad[q] = d /\ u.rson[d] = y /\ u.lson[q] = NIL
          BY <1>1, <1>3, <1>4, <1>5, <3>1
      <4> QED
          BY <1>1, <1>2, <1>7, <3>1, <4>1
    <3>2. CASE q # y
      <4>1. q \in LinkedIn(t) /\ q # x /\ q \in Ring /\ q \in 0 .. N
          BY <1>4, <1>6, <2>2, <3>2
      <4>2. t.lson[q] = NIL /\ t.dad[q] \in ParentsIn(t) /\ FirstIn(b, t.dad[q]) = b[q] /\ t.rson[t.dad[q]] = q
          BY <4>1 DEF Forest, ChainsIn
      <4>3. u.lson[q] = NIL
          BY <1>5, <3>2, <4>1, <4>2
      <4>4. CASE q = z
        <5>1. u.dad[q] = y /\ t.dad[q] = x
            BY <1>1, <1>3, <1>4, <3>2, <4>1, <4>4
        <5>2. u.rson[y] = q
            BY <1>2, <1>4, <1>5, <4>4
        <5> QED
            BY <1>7, <2>1, <4>2, <4>3, <5>1, <5>2
      <4>5. CASE q # z
        <5>1. u.dad[q] = t.dad[q] /\ t.dad[q] # x /\ t.dad[q] # d /\ t.dad[q] # y /\ t.dad[q] \in Slot
            BY <1>1, <1>3, <1>4, <1>7, <3>2, <4>1, <4>2, <4>5 DEF z
        <5> QED
            BY <1>5, <1>7, <4>2, <4>3, <5>1
      <4> QED
          BY <4>4, <4>5
    <3> QED
        BY <3>1, <3>2
  <2>3. ASSUME NEW q \in ParentsIn(u), u.rson[q] # NIL
        PROVE  u.rson[q] \in LinkedIn(u) /\ u.dad[u.rson[q]] = q
    <3>1. CASE q = y
      <4>1. u.rson[q] = z /\ z # NIL
          BY <1>2, <1>4, <1>5, <2>3, <3>1
      <4> QED
          BY <1>1, <1>2, <1>3, <1>4, <1>6, <3>1, <4>1
    <3>2. CASE q = d
        BY <1>1, <1>2, <1>3, <1>4, <1>5, <1>6, <3>2
    <3>3. CASE q # y /\ q # d
      <4>1. q \in ParentsIn(t) /\ q # x /\ u.rson[q] = t.rson[q]
          BY <1>4, <1>5, <1>7, <2>3, <3>3
      <4>2. t.rson[q] \in LinkedIn(t) /\ t.dad[t.rson[q]] = q
          BY <2>3, <4>1 DEF Forest, ChainsIn
      <4>3. t.rson[q] # x /\ t.rson[q] # z /\ t.rson[q] # y
          BY <1>1, <1>4, <3>3, <4>1, <4>2 DEF d
      <4> QED
          BY <1>3, <1>4, <1>6, <4>1, <4>2, <4>3
    <3> QED
        BY <3>1, <3>2, <3>3
  <2> QED
      BY <2>2, <2>3 DEF ChainsIn
<1>9. ReachableIn(u)
  <2> SUFFICES ASSUME NEW T \in SUBSET Slot, Roots \subseteq T, FollowsIn(u, T)
               PROVE  LinkedIn(u) \subseteq T
      BY DEF ReachableIn
  <2> DEFINE T2 == (T \ {x, y}) \cup (IF y \in T THEN {x} ELSE {})
  <2>1. FollowsIn(t, T2)
    <3> SUFFICES ASSUME NEW q \in T2 \cap ParentsIn(t), t.rson[q] # NIL PROVE t.rson[q] \in T2
        BY DEF FollowsIn
    <3>1. t.rson[q] \in LinkedIn(t) /\ t.dad[t.rson[q]] = q /\ q \in Slot
        BY <1>4 DEF Forest, ChainsIn
    <3>2. CASE q = x
      <4>1. y \in T /\ y \in ParentsIn(u) /\ u.rson[y] = z /\ z = t.rson[q]
          BY <1>2, <1>4, <1>5, <1>7, <3>2 DEF z
      <4>2. z \in T
          BY <4>1 DEF FollowsIn
      <4> QED
          BY <1>2, <4>1, <4>2
    <3>3. CASE q # x
      <4>1. q \in T /\ q \in ParentsIn(u)
          BY <1>7, <3>3
      <4>2. CASE q = d
        <5>1. u.rson[q] = y /\ t.rson[q] = x
            BY <1>1, <1>5, <3>1, <4>2
        <5>2. y \in T
            BY <1>4, <4>1, <5>1 DEF FollowsIn
        <5> QED
            BY <5>1, <5>2
      <4>3. CASE q # d
        <5>1. q # y /\ u.rson[q] = t.rson[q] /\ t.rson[q] # x /\ t.rson[q] # y
            BY <1>5, <1>7, <3>1, <4>3 DEF d
        <5>2. t.rson[q] \in T
            BY <4>1, <5>1 DEF FollowsIn
        <5> QED
            BY <5>1, <5>2
      <4> QED
          BY <4>2, <4>3
    <3> QED
        BY <3>2, <3>3
  <2>2. T2 \in SUBSET Slot /\ Roots \subseteq T2
      BY <1>4
  <2>3. LinkedIn(t) \subseteq T2
      BY <2>1, <2>2 DEF Forest, ReachableIn
  <2>4. y \in T
      BY <2>3
  <2> QED
      BY <1>6, <2>3, <2>4
<1> QED
    BY <1>3, <1>6, <1>8, <1>9 DEF Forest, u

\* What begins with an octet is reached from the root of that octet.
LEMMA OnwardFromRoot ==
    ASSUME NEW t, NEW b, Forest(t, b), NEW c \in Octet, NEW T \in SUBSET Slot, Root(c) \in T, FollowsIn(t, T)
    PROVE  \A q \in LinkedIn(t) : b[q] = c => q \in T
<1> DEFINE T2 == T \cup {z \in Slot : FirstIn(b, z) # c}
<1>1. \A q \in LinkedIn(t) : FirstIn(b, q) = b[q]
    BY Sizes DEF LinkedIn, Ring, FirstIn
<1>2. FollowsIn(t, T2)
  <2> SUFFICES ASSUME NEW q \in T2 \cap ParentsIn(t), t.rson[q] # NIL PROVE t.rson[q] \in T2
      BY DEF FollowsIn
  <2>1. t.rson[q] \in LinkedIn(t) /\ t.dad[t.rson[q]] = q
      BY DEF Forest, ChainsIn
  <2>2. t.rson[q] \in Slot
      BY <2>1, SlotProperties DEF LinkedIn
  <2>3. FirstIn(b, t.rson[q]) = FirstIn(b, q)
      BY <1>1, <2>1 DEF Forest, ChainsIn
  <2>4. q \in T => t.rson[q] \in T
      BY DEF FollowsIn
  <2> QED
      BY <2>2, <2>3, <2>4
<1>3. Roots \subseteq T2
  <2> SUFFICES ASSUME NEW e \in Octet PROVE Root(e) \in T2
      BY DEF Roots
  <2>1. Root(e) > N /\ Root(e) \in Slot
      BY SlotProperties DEF Roots
  <2>2. FirstIn(b, Root(e)) = e
      BY <2>1, Sizes DEF FirstIn, Root, Octet
  <2> QED
      BY <2>1, <2>2
<1>4. LinkedIn(t) \subseteq T2
    BY <1>2, <1>3 DEF Forest, ReachableIn
<1> QED
    BY <1>1, <1>4

-----------------------------------------------------------------------------
(* What the invariant says of the trees                                    *)

LEMMA ForestNow ==
    ASSUME IndInv, Encoding
    PROVE  /\ Forest(tree, textBuf) /\ Linked = LinkedIn(tree) /\ Parents = ParentsIn(tree)
           /\ Linked \subseteq Ring
           /\ \A q : First(q) = FirstIn(textBuf, q)
           /\ \A T : Follows(T) <=> FollowsIn(tree, T)
<1>1. Linked = LinkedIn(tree) /\ Parents = ParentsIn(tree) /\ Linked \subseteq Ring
    BY DEF Linked, LinkedIn, Parents, ParentsIn, Roots
<1>2. /\ \A q : First(q) = FirstIn(textBuf, q)
      /\ \A T : Follows(T) <=> FollowsIn(tree, T)
    BY <1>1 DEF First, FirstIn, Follows, FollowsIn
<1>3. ChainsIn(tree, textBuf)
    BY <1>1, <1>2 DEF IndInv, EncodeInv, Chains, ChainsIn
<1>4. ReachableIn(tree)
    BY <1>1, <1>2 DEF IndInv, EncodeInv, Reachable, ReachableIn, Roots
<1>5. tree \in Trees
    BY DEF IndInv, TypeOK
<1> QED
    BY <1>1, <1>2, <1>3, <1>4, <1>5 DEF Forest

LEMMA ForestThen ==
    /\ Linked' = LinkedIn(tree') /\ Parents' = ParentsIn(tree') /\ Linked' \subseteq Ring
    /\ \A q : First(q)' = FirstIn(textBuf', q)
    /\ \A T : Follows(T)' <=> FollowsIn(tree', T)
    /\ Forest(tree', textBuf') => Chains' /\ Reachable'
<1>1. Linked' = LinkedIn(tree') /\ Parents' = ParentsIn(tree') /\ Linked' \subseteq Ring
    BY DEF Linked, LinkedIn, Parents, ParentsIn, Roots
<1>2. /\ \A q : First(q)' = FirstIn(textBuf', q)
      /\ \A T : Follows(T)' <=> FollowsIn(tree', T)
    BY <1>1 DEF First, FirstIn, Follows, FollowsIn
<1>3. ChainsIn(tree', textBuf') => Chains'
    BY <1>1, <1>2 DEF Chains, ChainsIn
<1>4. ReachableIn(tree') => Reachable'
    BY <1>1, <1>2 DEF Reachable, ReachableIn, Roots
<1> QED
    BY <1>1, <1>2, <1>3, <1>4 DEF Forest

\* The trees of InitTree are empty.
LEMMA EmptyForest ==
    ASSUME NEW b
    PROVE  Forest(EmptyTree, b) /\ LinkedIn(EmptyTree) = {}
<1>1. EmptyTree \in Trees
    BY SlotProperties, Sizes DEF EmptyTree, Trees, NIL, Slot
<1>2. \A q \in Ring : EmptyTree.dad[q] = NIL
    BY Sizes DEF EmptyTree, Ring
<1>3. \A q \in Roots : EmptyTree.rson[q] = NIL
  <2>1. \A q \in Roots : q \in Slot /\ q > N
      BY SlotProperties DEF Roots
  <2> QED
      BY <2>1 DEF EmptyTree
<1>4. LinkedIn(EmptyTree) = {} /\ ParentsIn(EmptyTree) = Roots
    BY <1>2 DEF LinkedIn, ParentsIn
<1> QED
    BY <1>1, <1>3, <1>4 DEF Forest, ChainsIn, ReachableIn

-----------------------------------------------------------------------------
(* Begin, Send, Turn and the steps of Decode                               *)

\* The numbers of a state.
LEMMA Numbers ==
    ASSUME IndInv
    PROVE  /\ r \in Int /\ 0 <= r /\ r < N /\ s \in Int /\ 0 <= s /\ s < N
           /\ node \in Int /\ 0 <= node /\ node < N
           /\ matchPosition \in Int /\ 0 <= matchPosition /\ matchPosition < N
           /\ len \in Int /\ 0 <= len /\ len <= F /\ matchLength \in Int /\ 0 <= matchLength /\ matchLength <= F
           /\ last \in Int /\ 0 <= last /\ last <= F /\ i \in Int /\ 0 <= i /\ i <= F + 1
           /\ ulPos \in Int /\ 0 <= ulPos /\ mask \in Int /\ 0 <= mask /\ cmp >= 0
<1>1. \A x \in Ring : x \in Int /\ 0 <= x /\ x < N
    BY Sizes DEF Ring
<1>2. \A x \in Lengths : x \in Int /\ 0 <= x /\ x <= F
    BY Sizes DEF Lengths
<1>3. \A x \in Turns : x \in Int /\ 0 <= x /\ x <= F + 1
    BY Sizes DEF Turns
<1>4. cmp >= 0
    BY DEF IndInv, TypeOK, Words
<1>5. ulPos \in Int /\ 0 <= ulPos /\ mask \in Int /\ 0 <= mask
    BY DEF IndInv, TypeOK
<1>6. r \in Ring /\ s \in Ring /\ node \in Ring /\ matchPosition \in Ring
    BY DEF IndInv, TypeOK
<1>7. len \in Lengths /\ matchLength \in Lengths /\ last \in Lengths /\ i \in Turns
    BY DEF IndInv, TypeOK
<1> QED
    BY <1>1, <1>2, <1>3, <1>4, <1>5, <1>6, <1>7

\* Octets are among what the buffers may hold.
LEMMA WrittenBuffers == Written \subseteq Buffers
<1>1. Octet \subseteq Memory
    BY Sizes DEF Memory
<1> QED
    BY <1>1 DEF Written, Buffers

LEMMA InitInv ==
    ASSUME Init
    PROVE  IndInv
<1>1. textBuf \in Buffers
    BY DEF Init, Buffers, Memory
<1>2. tree \in Trees
    BY EmptyForest DEF Init, Forest
<1>3. p \in Slot
    BY SlotProperties, Sizes DEF Init, Roots
<1>4. <<0>> \in Units /\ <<>> \in Units /\ <<>> \in Seq(Memory)
    BY DEF Units
<1>5. 0 \in Ring /\ 0 \in Lengths /\ 0 \in Turns /\ 1 \in Words
    BY Sizes DEF Ring, Lengths, Turns, Words
<1>6. TypeOK
    BY <1>1, <1>2, <1>3, <1>4, <1>5 DEF Init, TypeOK
<1> QED
    BY <1>6 DEF Init, Encoding, IndInv

LEMMA TextProperties ==
    ASSUME input \in Text
    PROVE  Len(input) \in Nat /\ \A k \in 1 .. Len(input) : input[k] \in Octet
<1>1. input \in Seq(Octet)
    BY LzssAssumption DEF Octet
<1> QED
    BY <1>1

LEMMA BeginInv ==
    ASSUME IndInv, Begin
    PROVE  IndInv'
<1> DEFINE n == Lower(F, Len(input))
<1>1. /\ input \in Text /\ Len(input) \in Nat /\ \A k \in 1 .. Len(input) : input[k] \in Octet
    BY TextProperties DEF IndInv, TypeOK
<1>2. n \in 0 .. F /\ n <= Len(input) /\ (n < F => n = Len(input))
    BY <1>1, Sizes DEF Lower
<1>3. /\ textBuf' = [q \in 0 .. N + F - 2 |->
                       IF q < N - F THEN Space
                       ELSE IF q < N - F + n THEN input[q - (N - F) + 1] ELSE 0]
      /\ len' = n /\ ulPos' = n /\ pc' = (IF n = 0 THEN "coded" ELSE "prime")
      /\ tree' = EmptyTree /\ s' = 0 /\ r' = N - F /\ codeBuf' = <<0>> /\ mask' = 1 /\ code' = <<>> /\ i' = 1
      /\ UNCHANGED <<input, last, matchVars, decodeVars>>
    BY DEF Begin
<1> HIDE DEF n
<1>4. textBuf' \in Written
  <2>1. ASSUME NEW q \in 0 .. N + F - 2
        PROVE  (IF q < N - F THEN Space ELSE IF q < N - F + n THEN input[q - (N - F) + 1] ELSE 0) \in Octet
    <3>1. ASSUME ~(q < N - F), q < N - F + n PROVE q - (N - F) + 1 \in 1 .. Len(input)
        BY <1>1, <1>2, <3>1, Sizes
    <3> QED
        BY <1>1, <3>1, Sizes
  <2> QED
      BY <1>3, <2>1 DEF Written
<1>5. TypeOK'
  <2>1. textBuf' \in Buffers
      BY <1>4, WrittenBuffers
  <2>2. tree' \in Trees
      BY <1>3, EmptyForest DEF Forest
  <2>3. <<0>> \in Units /\ <<>> \in Units
      BY DEF Units
  <2>4. s' \in Ring /\ r' \in Ring /\ len' \in Lengths /\ ulPos' \in Nat /\ i' \in Turns /\ mask' \in Nat
      BY <1>2, <1>3, Sizes DEF Ring, Lengths, Turns
  <2>5. pc' \in {"prime", "coded"}
      BY <1>3
  <2> QED
      BY <1>3, <2>1, <2>2, <2>3, <2>4, <2>5 DEF IndInv, TypeOK, matchVars, decodeVars
<1>6. CASE n = 0
    BY <1>3, <1>5, <1>6 DEF IndInv, Encoding
<1>7. CASE n # 0
  <2>1. pc' = "prime" /\ Past' = 0 /\ Linked' = {}
      BY <1>2, <1>3, <1>7, EmptyForest, ForestThen DEF Past
  <2>2. Phase'
    <3>1. s' = Behind(r', F)
        BY <1>3, Sizes DEF Behind
    <3>2. input' = input /\ len' <= ulPos' /\ ulPos' <= Len(input) /\ (len' < F => ulPos' = Len(input)) /\ len' > 0
        BY <1>1, <1>2, <1>3, <1>7
    <3>3. r' = N - F + Past' /\ Past' < F /\ i' \in 1 .. F + 1
        BY <1>3, <2>1, Sizes
    <3> QED
        BY <2>1, <3>1, <3>2, <3>3 DEF Phase, Inserting, Behind
  <2>3. Collected'
    <3>1. 1 < Byte /\ <<0>>[1] = 0 /\ <<0>> # <<>>
        BY LzssAssumption
    <3> QED
        BY <1>3, <3>1 DEF Collected
  <2>4. Doubled'
      BY <1>2, <1>3, Sizes DEF Doubled
  <2>5. LookAhead'
    <3> SUFFICES ASSUME NEW k \in 0 .. n - 1
                 PROVE  textBuf'[Behind(r', k)] = input'[Past' + k + 1]
        BY <1>3 DEF LookAhead, Behind
    <3>1. Behind(r', k) = N - F + k
        BY <1>2, <1>3, Sizes DEF Behind
    <3>2. N - F + k \in 0 .. N + F - 2 /\ ~(N - F + k < N - F) /\ N - F + k < N - F + n
          /\ (N - F + k) - (N - F) + 1 = k + 1
        BY <1>2, Sizes
    <3>3. textBuf'[N - F + k] = input[k + 1]
        BY <1>3, <3>2
    <3> QED
        BY <1>3, <2>1, <3>1, <3>3 DEF decodeVars
  <2>6. Filled'
      BY <1>3, Sizes DEF Filled
  <2>7. Chains' /\ Reachable'
      BY <1>3, EmptyForest, ForestThen
  <2>8. Places' /\ Searching' /\ Found' /\ Represented' /\ Spared' /\ Longest'
    <3>1. ~Compares' /\ ~Inserting' /\ ~After'
        BY <2>1 DEF Compares, Inserting, After
    <3>2. Represented'
      <4>1. 1 .. i' - 1 = {}
          BY <1>3
      <4> QED
          BY <2>1, <3>1, <4>1 DEF Represented
    <3> QED
        BY <2>1, <3>1, <3>2 DEF Places, Searching, Found, Spared, Longest
  <2> QED
      BY <1>4, <1>5, <2>2, <2>3, <2>4, <2>5, <2>6, <2>7, <2>8 DEF IndInv, EncodeInv
<1> QED
    BY <1>6, <1>7

\* What Put does to the ring of Decode.
LEMMA PutProperties ==
    ASSUME IndInv, NEW c \in Memory, Put(c)
    PROVE  textBuf' \in Buffers /\ r' \in Ring /\ out' \in Seq(Memory)
<1>1. textBuf \in Buffers /\ r \in Ring /\ out \in Seq(Memory)
    BY DEF IndInv, TypeOK
<1>2. textBuf' \in Buffers
    BY <1>1 DEF Buffers, Put
<1>3. r' \in Ring
    BY <1>1, Sizes DEF Put, Following, Ring
<1>4. out' \in Seq(Memory)
    BY <1>1 DEF Put
<1> QED
    BY <1>2, <1>3, <1>4

\* The flags and the place that are used next.
LEMMA ReadProperties ==
    ASSUME IndInv, NEW n \in 1 .. 2, Remains(n)
    PROVE  /\ Read \in Nat /\ Flags \in Nat /\ Read + n \in Nat
           /\ \A k \in 1 .. n : code[Read + k] \in 0 .. 255
<1>1. code \in Seq(0 .. 255) /\ ulPos \in Nat /\ flags \in Nat
    BY DEF IndInv, TypeOK, Units
<1>2. Byte \in Nat /\ Byte > 0
    BY LzssAssumption
<1>3. Read \in Nat /\ (FlagsUsed => Read \in 1 .. Len(code))
    BY <1>1 DEF Read, Remains
<1>4. \A k \in 1 .. n : Read + k \in 1 .. Len(code)
    BY <1>1, <1>3 DEF Remains
<1>5. \A k \in 1 .. Len(code) : code[k] \in 0 .. 255
    BY <1>1, ElementOfSeq
<1>6. Flags \in Nat
  <2>1. CASE FlagsUsed
    <3>1. code[Read] \in 0 .. 255
        BY <1>3, <1>5, <2>1
    <3>2. (Byte - 1) * Byte \in Nat
        BY <1>2
    <3> QED
        BY <2>1, <3>1, <3>2 DEF Flags
  <2>2. CASE ~FlagsUsed
      BY <1>1, <2>2 DEF Flags
  <2> QED
      BY <2>1, <2>2
<1>7. \A k \in 1 .. n : code[Read + k] \in 0 .. 255
    BY <1>4, <1>5
<1> QED
    BY <1>3, <1>6, <1>7

LEMMA DecodeInv ==
    ASSUME IndInv, Decode \/ NoMemory \/ Ended
    PROVE  IndInv'
<1>1. TypeOK
    BY DEF IndInv
<1>2. CASE DecodeBegin
  <2>1. textBuf' \in Buffers
      BY <1>2, Sizes DEF DecodeBegin, Buffers, Memory
  <2>2. r' \in Ring
      BY <1>2, Sizes DEF DecodeBegin, Ring
  <2>3. /\ pc' = "decode" /\ flags' = 0 /\ ulPos' = 0 /\ out' = <<>> /\ from' = 0 /\ left' = 0
        /\ UNCHANGED <<input, tree, encodeVars, matchVars>>
      BY <1>2 DEF DecodeBegin
  <2>4. out' \in Seq(Memory)
      BY <2>3
  <2>5. TypeOK'
      BY <1>1, <2>1, <2>2, <2>3, <2>4 DEF TypeOK, encodeVars, matchVars
  <2> QED
      BY <2>3, <2>5 DEF IndInv, Encoding
<1>3. CASE DecodeOctet
  <2>1. /\ pc' = "decode" /\ Put(code[Read + 1]) /\ Remains(1) /\ flags' = Flags /\ ulPos' = Read + 1
        /\ UNCHANGED <<input, tree, from, left, encodeVars, matchVars>>
      BY <1>3 DEF DecodeOctet
  <2>2. code[Read + 1] \in Memory /\ Flags \in Nat /\ Read + 1 \in Nat
      BY <2>1, ReadProperties DEF Memory
  <2>3. textBuf' \in Buffers /\ r' \in Ring /\ out' \in Seq(Memory)
      BY <2>1, <2>2, PutProperties
  <2>4. TypeOK'
      BY <1>1, <2>1, <2>2, <2>3 DEF TypeOK, encodeVars, matchVars
  <2> QED
      BY <2>1, <2>4 DEF IndInv, Encoding
<1>4. CASE DecodePair
  <2>1. /\ pc' = "decode" /\ Remains(2) /\ flags' = Flags /\ ulPos' = Read + 2
        /\ from' = code[Read + 1] + (code[Read + 2] \div 16) * 256
        /\ left' = (code[Read + 2] % 16) + THRESHOLD + 1
        /\ UNCHANGED <<input, textBuf, tree, r, out, encodeVars, matchVars>>
      BY <1>4 DEF DecodePair
  <2>2. code[Read + 1] \in 0 .. 255 /\ code[Read + 2] \in 0 .. 255 /\ Flags \in Nat /\ Read + 2 \in Nat
      BY <2>1, ReadProperties
  <2>3. from' \in Nat /\ left' \in Nat
    <3>1. \A c \in 0 .. 255 : (c \div 16) * 256 \in Nat /\ c % 16 \in Nat
        OBVIOUS
    <3>2. (code[Read + 2] \div 16) * 256 \in Nat /\ code[Read + 2] % 16 \in Nat /\ code[Read + 1] \in Nat
        BY <2>2, <3>1
    <3> QED
        BY <2>1, <3>2, Sizes
  <2>4. TypeOK'
      BY <1>1, <2>1, <2>2, <2>3 DEF TypeOK, encodeVars, matchVars
  <2> QED
      BY <2>1, <2>4 DEF IndInv, Encoding
<1>5. CASE CopyOctet
  <2>1. /\ pc' = "decode" /\ left > 0 /\ Put(textBuf[from % N]) /\ from' = from + 1 /\ left' = left - 1
        /\ UNCHANGED <<input, tree, ulPos, flags, encodeVars, matchVars>>
      BY <1>5 DEF CopyOctet
  <2>2. from \in Nat /\ left \in Nat /\ textBuf \in Buffers
      BY <1>1 DEF TypeOK
  <2>3. from % N \in 0 .. N + F - 2
      BY <2>2, Sizes
  <2>4. textBuf[from % N] \in Memory
      BY <2>2, <2>3 DEF Buffers
  <2>5. textBuf' \in Buffers /\ r' \in Ring /\ out' \in Seq(Memory)
      BY <2>1, <2>4, PutProperties
  <2>6. from' \in Nat /\ left' \in Nat
      BY <2>1, <2>2
  <2>7. TypeOK'
      BY <1>1, <2>1, <2>5, <2>6 DEF TypeOK, encodeVars, matchVars
  <2> QED
      BY <2>1, <2>7 DEF IndInv, Encoding
<1>6. CASE DecodeEnd \/ NoMemory
  <2>1. /\ pc' \in {"done", "refused"}
        /\ UNCHANGED <<input, textBuf, tree, r, ulPos, encodeVars, matchVars, decodeVars>>
      BY <1>6 DEF DecodeEnd, NoMemory
  <2>2. TypeOK'
      BY <1>1, <2>1 DEF TypeOK, encodeVars, matchVars, decodeVars
  <2> QED
      BY <2>1, <2>2 DEF IndInv, Encoding
<1>7. CASE Ended
  <2>1. pc \in {"done", "refused"} /\ UNCHANGED vars
      BY <1>7 DEF Ended
  <2>2. TypeOK' /\ pc' = pc
      BY <1>1, <2>1 DEF TypeOK, vars, encodeVars, matchVars, decodeVars
  <2> QED
      BY <2>1, <2>2 DEF IndInv, Encoding
<1> QED
    BY <1>2, <1>3, <1>4, <1>5, <1>6, <1>7 DEF Decode

\* Where the ring stays as it is, so does what is said of its places.
LEMMA RingStays ==
    ASSUME textBuf' = textBuf, r' = r, ulPos' = ulPos, len' = len, input' = input
    PROVE  /\ Past' = Past /\ Reach' = Reach
           /\ \A q : Back(q)' = Back(q) /\ Place(q)' = Place(q) /\ Spaces(q)' = Spaces(q)
           /\ \A q, k : Behind(q, k)' = Behind(q, k)
           /\ \A a, b, n : Same(a, b, n)' = Same(a, b, n)
           /\ \A d : Early(d)' = Early(d) /\ Lost(d)' = Lost(d)
           /\ Doubled' = Doubled /\ LookAhead' = LookAhead
<1>1. Past' = Past /\ Reach' = Reach
    BY DEF Past, Reach, Lower
<1>2. \A q : Back(q)' = Back(q) /\ Place(q)' = Place(q) /\ Spaces(q)' = Spaces(q)
    BY DEF Back, Place, Spaces
<1>3. \A q, k : Behind(q, k)' = Behind(q, k)
    BY DEF Behind
<1>4. \A a, b, n : Same(a, b, n)' = Same(a, b, n)
    BY DEF Same
<1>5. \A d : Early(d)' = Early(d) /\ Lost(d)' = Lost(d)
    BY <1>1, <1>2 DEF Early, Lost
<1>6. Doubled' = Doubled /\ LookAhead' = LookAhead
    BY <1>1 DEF Doubled, LookAhead, Behind
<1> QED
    BY <1>1, <1>2, <1>3, <1>4, <1>5, <1>6

\* Where ring and trees stay as they are, so does what is said of the trees.
LEMMA TreesStay ==
    ASSUME textBuf' = textBuf, r' = r, ulPos' = ulPos, len' = len, input' = input, tree' = tree
    PROVE  /\ Linked' = Linked /\ Parents' = Parents
           /\ \A T : Follows(T)' = Follows(T)
           /\ \A q : First(q)' = First(q)
           /\ \A d : Kept(d)' = Kept(d)
           /\ Chains' = Chains /\ Reachable' = Reachable
<1>1. Linked' = Linked /\ Parents' = Parents
    BY DEF Linked, Parents
<1>2. (\A T : Follows(T)' = Follows(T)) /\ (\A q : First(q)' = First(q))
    BY <1>1 DEF Follows, First
<1>3. \A d : Kept(d)' = Kept(d)
    BY <1>1, RingStays DEF Kept
<1>4. Chains' = Chains
    BY <1>1 DEF Chains, First
<1>5. Reachable' = Reachable
    BY <1>1 DEF Reachable, Follows
<1> QED
    BY <1>1, <1>2, <1>3, <1>4, <1>5

\* Sequences of octets.
LEMMA UnitsProperties ==
    /\ <<0>> \in Units
    /\ \A a, b \in Units : a \o b \in Units
    /\ \A a \in Units, c \in 0 .. 255 : Append(a, c) \in Units
    /\ \A a \in Units, c \in 0 .. 255 : a # <<>> => [a EXCEPT ![1] = c] \in Units
    /\ \A c, d \in 0 .. 255 : <<c, d>> \in Units
<1> DEFINE S == 0 .. 255
<1>1. 0 \in S
    OBVIOUS
<1> HIDE DEF S
<1>2. <<0>> \in Seq(S)
    BY <1>1
<1>3. \A a, b \in Seq(S) : a \o b \in Seq(S)
    OBVIOUS
<1>4. \A a \in Seq(S), c \in S : Append(a, c) \in Seq(S)
    OBVIOUS
<1>5. \A a \in Seq(S), c \in S : a # <<>> => [a EXCEPT ![1] = c] \in Seq(S)
    BY ExceptSeq
<1>6. \A c, d \in S : <<c, d>> \in Seq(S)
    OBVIOUS
<1> QED
    BY <1>2, <1>3, <1>4, <1>5, <1>6 DEF S, Units

LEMMA TurnInv ==
    ASSUME IndInv, Turn
    PROVE  IndInv'
<1>1. /\ pc = "shift" /\ i >= last
      /\ UNCHANGED <<input, textBuf, tree, r, ulPos, s, len, i, last, codeBuf, mask, matchVars, decodeVars>>
      /\ (IF len > 0 THEN pc' = "send" /\ UNCHANGED code
          ELSE pc' = "coded" /\ code' = IF Len(codeBuf) > 1 THEN code \o codeBuf ELSE code)
    BY DEF Turn
<1>2. TypeOK /\ EncodeInv
    BY <1>1 DEF IndInv, Encoding
<1>3. TypeOK'
  <2>1. code' \in Units
    <3>1. code \in Units /\ codeBuf \in Units
        BY <1>2 DEF TypeOK
    <3> QED
        BY <1>1, <3>1, UnitsProperties
  <2> QED
      BY <1>1, <1>2, <2>1 DEF TypeOK, matchVars, decodeVars
<1>4. CASE ~(len > 0)
    BY <1>1, <1>3, <1>4 DEF IndInv, Encoding
<1>5. CASE len > 0
  <2>1. pc' = "send" /\ i > 0
    <3>1. last > 0 /\ i \in Int /\ last \in Int
        BY <1>1, <1>2, Numbers DEF EncodeInv, Phase
    <3> QED
        BY <1>1, <1>5, <3>1
  <2>2. /\ textBuf' = textBuf /\ r' = r /\ ulPos' = ulPos /\ len' = len /\ input' = input /\ tree' = tree
        /\ s' = s /\ i' = i /\ last' = last /\ codeBuf' = codeBuf /\ mask' = mask /\ node' = node
        /\ matchLength' = matchLength /\ matchPosition' = matchPosition
      BY <1>1 DEF matchVars
  <2>3. Phase'
      BY <1>1, <1>2, <1>5, <2>1, <2>2, RingStays DEF EncodeInv, Phase, Inserting, Behind
  <2>4. Collected' /\ Doubled' /\ LookAhead' /\ Filled' /\ Chains' /\ Reachable' /\ (textBuf \in Written)'
      BY <1>2, <2>1, <2>2, RingStays, TreesStay DEF EncodeInv, Collected, Filled, Beginning, Written
  <2>5. Places' /\ Searching'
      BY <1>2, <2>1, <2>2, RingStays, TreesStay DEF EncodeInv, Places, Searching
  <2>6. Compares /\ After /\ Compares' /\ After' /\ ~Inserting'
      BY <1>1, <1>5, <2>1, <2>2 DEF Compares, After, Inserting
  <2>7. Found'
      BY <1>2, <2>2, <2>6, RingStays DEF EncodeInv, Found
  <2>8. Represented'
      BY <1>2, <2>1, <2>2, <2>6, RingStays, TreesStay DEF EncodeInv, Represented
  <2>9. Spared'
      BY <1>2, <2>1, <2>2, <2>6, RingStays, TreesStay DEF EncodeInv, Spared
  <2>10. Longest'
      BY <1>2, <2>2, <2>6, RingStays DEF EncodeInv, Longest
  <2> QED
      BY <1>3, <2>3, <2>4, <2>5, <2>7, <2>8, <2>9, <2>10 DEF IndInv, EncodeInv
<1> QED
    BY <1>4, <1>5

LEMMA SendInv ==
    ASSUME IndInv, Send
    PROVE  IndInv'
<1> DEFINE n == Lower(matchLength, len)
           one == n <= THRESHOLD
           buf == IF one THEN Append([codeBuf EXCEPT ![1] = @ + mask], textBuf[r])
                  ELSE codeBuf \o <<LowOctet(matchPosition), HighOctet(matchPosition, n)>>
           shifted == (2 * mask) % Byte
<1>1. /\ pc = "send" /\ last' = (IF one THEN 1 ELSE n) /\ matchLength' = last' /\ i' = 0 /\ pc' = "shift"
      /\ IF shifted = 0 THEN code' = code \o buf /\ codeBuf' = <<0>> /\ mask' = 1
                        ELSE code' = code /\ codeBuf' = buf /\ mask' = shifted
      /\ UNCHANGED <<input, textBuf, tree, r, ulPos, s, len, matchPosition, node, p, cmp, back, decodeVars>>
    BY DEF Send
<1>2. TypeOK /\ EncodeInv
    BY <1>1 DEF IndInv, Encoding
<1>3. len > 0 /\ n \in 0 .. F /\ n <= len /\ last' \in 1 .. F /\ last' <= len
  <2>1. len > 0 /\ len \in Int /\ len <= F /\ matchLength \in Int /\ 0 <= matchLength
      BY <1>1, <1>2, Numbers DEF EncodeInv, Phase
  <2>2. n \in Int /\ 0 <= n /\ n <= len
      BY <2>1 DEF Lower
  <2> HIDE DEF n
  <2> QED
      BY <1>1, <2>1, <2>2, Sizes
<1>4. codeBuf \in Units /\ codeBuf # <<>> /\ code \in Units /\ textBuf[r] \in 0 .. 255
  <2>1. r \in 0 .. N + F - 2
      BY Numbers, Sizes
  <2>2. codeBuf \in Units /\ codeBuf # <<>> /\ code \in Units
      BY <1>2 DEF TypeOK, EncodeInv, Collected
  <2>3. textBuf \in Written
      BY <1>2 DEF EncodeInv
  <2>4. textBuf[r] \in Octet
      BY <2>1, <2>3 DEF Written
  <2>5. textBuf[r] \in 0 .. 255
    <3>1. Octet \subseteq 0 .. 255
        BY Sizes
    <3> QED
        BY <2>4, <3>1
  <2> QED
      BY <2>2, <2>5
<1>5. /\ codeBuf[1] \in 0 .. 255 /\ codeBuf[1] < mask /\ mask \in 1 .. 128
      /\ shifted = 0 \/ (shifted = 2 * mask /\ shifted \in {1, 2, 4, 8, 16, 32, 64, 128} /\ shifted < Byte)
  <2>1. mask \in {1, 2, 4, 8, 16, 32, 64, 128} /\ mask < Byte /\ codeBuf[1] < mask
      BY <1>2 DEF EncodeInv, Collected
  <2>2. codeBuf \in Seq(0 .. 255) /\ 1 \in 1 .. Len(codeBuf)
      BY <1>4 DEF Units
  <2>3. codeBuf[1] \in 0 .. 255
      BY <2>2, ElementOfSeq
  <2>4. Byte \in {2, 4, 8, 16, 32, 64, 128, 256}
      BY LzssAssumption
  <2> QED
      BY <2>1, <2>3, <2>4
<1>6. buf \in Units /\ buf # <<>> /\ buf[1] < 2 * mask
  <2>1. CASE one
    <3> DEFINE a == [codeBuf EXCEPT ![1] = codeBuf[1] + mask]
    <3>1. codeBuf[1] + mask \in 0 .. 255 /\ codeBuf[1] + mask < 2 * mask
      <4>1. \A x \in 0 .. 255, y \in 1 .. 128 : x < y => x + y \in 0 .. 255 /\ x + y < 2 * y
          OBVIOUS
      <4> QED
          BY <1>5, <4>1
    <3>2. a \in Units
        BY <1>4, <3>1, UnitsProperties
    <3>3. 1 \in 1 .. Len(codeBuf) /\ DOMAIN codeBuf = 1 .. Len(codeBuf)
        BY <1>4 DEF Units
    <3>4. a[1] = codeBuf[1] + mask /\ DOMAIN a = 1 .. Len(codeBuf)
        BY <3>3
    <3>5. buf = Append(a, textBuf[r])
        BY <2>1
    <3> HIDE DEF a
    <3>6. a \in Seq(0 .. 255) /\ Len(a) \in Nat /\ DOMAIN a = 1 .. Len(a)
        BY <3>2 DEF Units
    <3>7. 1 \in 1 .. Len(a)
        BY <3>3, <3>4, <3>6
    <3>8. buf \in Units
        BY <1>4, <3>2, <3>5, UnitsProperties
    <3>9. buf[1] = a[1] /\ buf # <<>>
        BY <1>4, <3>5, <3>6, <3>7
    <3> QED
        BY <3>1, <3>4, <3>8, <3>9
  <2>2. CASE ~one
    <3> DEFINE b == <<LowOctet(matchPosition), HighOctet(matchPosition, n)>>
    <3>1. LowOctet(matchPosition) \in 0 .. 255
        BY Numbers DEF LowOctet
    <3>2. HighOctet(matchPosition, n) \in 0 .. 255
      <4>1. n - (THRESHOLD + 1) \in 0 .. 15
        <5>1. F - THRESHOLD <= 16 /\ THRESHOLD \in Nat /\ F \in Nat
            BY LzssAssumption
        <5> HIDE DEF n
        <5> QED
            BY <1>3, <2>2, <5>1
      <4>2. (matchPosition \div 256) % 16 \in 0 .. 15
        <5>1. matchPosition \in Nat
            BY Numbers
        <5> QED
            BY <5>1
      <4> HIDE DEF n
      <4>3. \A x, y \in 0 .. 15 : x * 16 + y \in 0 .. 255
          OBVIOUS
      <4> QED
          BY <4>1, <4>2, <4>3 DEF HighOctet
    <3>3. b \in Units
        BY <3>1, <3>2, UnitsProperties
    <3>4. buf = codeBuf \o b
        BY <2>2
    <3> HIDE DEF b, buf
    <3>5. buf \in Units
        BY <1>4, <3>3, <3>4, UnitsProperties
    <3>6. buf[1] = codeBuf[1] /\ buf # <<>>
      <4>1. codeBuf \in Seq(0 .. 255) /\ b \in Seq(0 .. 255) /\ 1 \in 1 .. Len(codeBuf)
          BY <1>4, <3>3 DEF Units
      <4> QED
          BY <3>4, <4>1
    <3>7. codeBuf[1] < 2 * mask
        BY <1>5
    <3> QED
        BY <3>5, <3>6, <3>7
  <2> QED
      BY <2>1, <2>2
<1> HIDE DEF n, one, buf, shifted
<1>7. /\ code' \in Units /\ codeBuf' \in Units /\ Collected'
  <2>1. CASE shifted = 0
    <3>1. <<0>>[1] = 0 /\ <<0>> # <<>> /\ 1 < Byte
        BY LzssAssumption
    <3>2. code' = code \o buf /\ codeBuf' = <<0>> /\ mask' = 1
        BY <1>1, <2>1
    <3>3. code' \in Units /\ codeBuf' \in Units
        BY <1>4, <1>6, <3>2, UnitsProperties
    <3> QED
        BY <3>1, <3>2, <3>3 DEF Collected
  <2>2. CASE shifted # 0
      BY <1>1, <1>4, <1>5, <1>6, <2>2 DEF Collected
  <2> QED
      BY <2>1, <2>2
<1>8. /\ textBuf' = textBuf /\ r' = r /\ ulPos' = ulPos /\ len' = len /\ input' = input /\ tree' = tree
      /\ s' = s /\ node' = node /\ matchPosition' = matchPosition
    BY <1>1
<1>9. TypeOK'
  <2>1. i' \in Turns /\ last' \in Lengths /\ matchLength' \in Lengths /\ mask' \in Nat
    <3>1. mask' \in Nat
        BY <1>7 DEF Collected
    <3> QED
        BY <1>1, <1>3, <3>1, Sizes DEF Turns, Lengths
  <2> QED
      BY <1>1, <1>2, <1>7, <2>1 DEF TypeOK, decodeVars
<1>10. Phase'
  <2>1. last' - i' <= len' /\ last' > 0 /\ ~(i' > 0)
      BY <1>1, <1>3, <1>8
  <2> QED
      BY <1>1, <1>2, <1>3, <1>8, <2>1, RingStays DEF EncodeInv, Phase, Inserting, Behind
<1>11. Doubled' /\ LookAhead' /\ Filled' /\ Chains' /\ Reachable' /\ (textBuf \in Written)'
    BY <1>1, <1>2, <1>8, RingStays, TreesStay DEF EncodeInv, Filled, Beginning, Written
<1>12. Places' /\ Searching'
    BY <1>1, <1>2, <1>8, RingStays, TreesStay DEF EncodeInv, Places, Searching
<1>13. After /\ After' /\ ~Inserting' /\ ~Compares'
    BY <1>1, <1>3, <1>8 DEF After, Compares, Inserting
<1>14. Found' /\ Longest'
    BY <1>13 DEF Found, Longest
<1>15. Represented'
    BY <1>1, <1>2, <1>8, <1>13, RingStays, TreesStay DEF EncodeInv, Represented
<1>16. Spared'
    BY <1>1, <1>2, <1>8, <1>13, RingStays, TreesStay DEF EncodeInv, Spared
<1> QED
    BY <1>7, <1>9, <1>10, <1>11, <1>12, <1>14, <1>15, <1>16 DEF IndInv, EncodeInv

-----------------------------------------------------------------------------
(* The call of InsertNode                                                  *)

\* The search begins at the root, from which everything that begins with the
\* same octet is ahead.
LEMMA InsertProperties ==
    ASSUME NEW t, NEW x \in Ring, NEW return, Forest(t, textBuf'), x \notin LinkedIn(t), textBuf' \in Written,
           Insert(t, x, return)
    PROVE  /\ node' = x /\ pc' = "search" /\ matchLength' = 0 /\ back' = return /\ matchPosition' = matchPosition
           /\ cmp' \in Words /\ p' \in Slot /\ tree' \in Trees
           /\ Linked' = LinkedIn(t) /\ Chains' /\ Reachable' /\ Searching'
<1>1. /\ node' = x /\ pc' = "search" /\ matchLength' = 0 /\ back' = return /\ matchPosition' = matchPosition
      /\ cmp' = 1 /\ p' = Root(textBuf'[x]) /\ tree' = ClearedIn(t, x)
    BY DEF Insert, ClearedIn
<1>2. textBuf'[x] \in Octet
  <2>1. x \in 0 .. N + F - 2
      BY Sizes DEF Ring
  <2> QED
      BY <2>1 DEF Written
<1>3. p' \in Roots /\ p' \in Slot /\ p' > N /\ cmp' \in Words
  <2>1. 1 \in Words
      BY DEF Words
  <2> QED
      BY <1>1, <1>2, <2>1, SlotProperties
<1>4. Forest(tree', textBuf') /\ LinkedIn(tree') = LinkedIn(t) /\ tree'.lson[x] = NIL /\ tree'.rson[x] = NIL
    BY <1>1, ClearProperties
<1>5. Linked' = LinkedIn(t) /\ Parents' = LinkedIn(t) \cup Roots /\ Chains' /\ Reachable' /\ tree' \in Trees
    BY <1>4, ForestThen DEF Forest, ParentsIn
<1>6. First(p)' = textBuf'[x]
    BY <1>1, <1>2, <1>3, Sizes, ForestThen DEF FirstIn, Root, Octet
<1>7. p' \notin Linked'
    BY <1>3, <1>5, SlotProperties DEF LinkedIn
<1>8. ASSUME NEW T \in SUBSET Slot, p' \in T, Follows(T)', NEW q \in Linked', textBuf'[q] = textBuf'[x]
      PROVE  q \in T
  <2>1. FollowsIn(tree', T)
      BY <1>8, ForestThen
  <2>2. q \in LinkedIn(tree')
      BY <1>8, ForestThen
  <2> QED
      BY <1>1, <1>2, <1>4, <1>8, <2>1, <2>2, OnwardFromRoot
<1>9. Searching'
    BY <1>1, <1>3, <1>4, <1>5, <1>6, <1>7, <1>8 DEF Searching
<1> QED
    BY <1>1, <1>3, <1>5, <1>9

LEMMA PrimeInv ==
    ASSUME IndInv, Prime
    PROVE  IndInv'
<1>1. /\ pc = "prime" /\ UNCHANGED <<input, textBuf, r, ulPos, s, len, last, codeBuf, mask, code, decodeVars>>
      /\ \/ i <= F /\ i' = i + 1 /\ Insert(tree, r - i, "prime")
         \/ i > F /\ UNCHANGED i /\ Insert(tree, r, "send")
    BY DEF Prime
<1>2. TypeOK /\ EncodeInv /\ Encoding
    BY <1>1 DEF IndInv, Encoding
<1>3. Past = 0 /\ i \in 1 .. F + 1 /\ r = N - F /\ len > 0
  <2>1. Past = 0 /\ i \in 1 .. F + 1 /\ len > 0 /\ (Past < N + F => r = (IF Past < F THEN N - F + Past ELSE Past - F))
      BY <1>1, <1>2 DEF EncodeInv, Phase
  <2> QED
      BY <2>1, Sizes
<1>4. /\ textBuf' = textBuf /\ r' = r /\ ulPos' = ulPos /\ len' = len /\ input' = input
      /\ s' = s /\ last' = last /\ codeBuf' = codeBuf /\ mask' = mask /\ code' = code
    BY <1>1
<1>5. Forest(tree, textBuf') /\ Linked = LinkedIn(tree) /\ Linked \subseteq Ring /\ textBuf' \in Written
    BY <1>2, <1>4, ForestNow DEF EncodeInv
<1>6. Reach = F
    BY <1>3, Sizes DEF Reach, Lower
<1>7. \A q \in Linked : Back(q) \in 1 .. i - 1
    BY <1>1, <1>2 DEF EncodeInv, Places
<1>8. \A d \in 0 .. F : r - d \in Ring /\ Back(r - d) = d /\ Place(d) = r - d
    BY <1>3, Sizes DEF Ring, Back, Place
<1>9. ASSUME NEW x \in Ring, NEW return \in {"prime", "send"}, x \notin LinkedIn(tree), Insert(tree, x, return),
             i' \in Turns, Phase', Places', Represented'
      PROVE  IndInv'
  <2>1. /\ node' = x /\ pc' = "search" /\ matchLength' = 0 /\ back' = return /\ matchPosition' = matchPosition
        /\ cmp' \in Words /\ p' \in Slot /\ tree' \in Trees
        /\ Linked' = LinkedIn(tree) /\ Chains' /\ Reachable' /\ Searching'
      BY <1>5, <1>9, InsertProperties
  <2>2. TypeOK'
    <3>1. 0 \in Lengths
        BY Sizes DEF Lengths
    <3> QED
        BY <1>1, <1>2, <1>4, <1>9, <2>1, <3>1 DEF TypeOK, decodeVars
  <2>3. Collected' /\ Doubled' /\ LookAhead' /\ Filled'
      BY <1>1, <1>2, <1>4, RingStays DEF EncodeInv, Collected, Filled, Beginning
  <2>4. Found' /\ Spared' /\ Longest'
      BY <1>9, <2>1 DEF Found, Compares, Spared, After, Longest
  <2> QED
      BY <1>5, <1>9, <2>1, <2>2, <2>3, <2>4 DEF IndInv, EncodeInv
<1>10. ASSUME NEW x, NEW return, Insert(tree, x, return)
       PROVE  node' = x /\ pc' = "search" /\ back' = return /\ Linked' = Linked
  <2>1. tree'.dad = tree.dad
    <3>1. tree \in Trees /\ tree' = ClearedIn(tree, x)
        BY <1>2, <1>10 DEF TypeOK, Insert, ClearedIn
    <3>2. ClearedIn(tree, x).dad = tree.dad
        BY <3>1 DEF Trees, ClearedIn
    <3> QED
        BY <3>1, <3>2
  <2> QED
      BY <1>10, <2>1 DEF Insert, Linked
<1>11. CASE i <= F /\ i' = i + 1 /\ Insert(tree, r - i, "prime")
  <2>1. node' = r - i /\ pc' = "search" /\ back' = "prime" /\ Linked' = Linked
      BY <1>10, <1>11
  <2>2. r - i \in Ring /\ r - i \notin LinkedIn(tree) /\ i' \in Turns
    <3>1. i \in 0 .. F /\ i' = i + 1 /\ i' \in 0 .. F + 1
        BY <1>3, <1>11, Sizes
    <3>2. r - i \in Ring /\ Back(r - i) = i
        BY <1>8, <3>1
    <3> QED
        BY <1>3, <1>5, <1>7, <3>1, <3>2 DEF Turns
  <2>3. Phase'
    <3>1. i' \in 2 .. F + 1 /\ node' = r' - (i' - 1)
        BY <1>3, <1>4, <1>11, <2>1, Sizes
    <3>2. ~Inserting'
        BY <2>1 DEF Inserting
    <3> QED
        BY <1>2, <1>3, <1>4, <2>1, <3>1, <3>2, RingStays DEF EncodeInv, Phase, Behind
  <2>4. Places'
    <3>1. \A q \in Linked : Back(q) > 0 /\ Back(q) < i' - 1 /\ Back(q) <= Reach
        BY <1>3, <1>6, <1>7, <1>11, Sizes
    <3> QED
        BY <1>4, <2>1, <3>1, RingStays DEF Places
  <2>5. Represented'
    <3>1. \A d : Kept(d)' = Kept(d)
        BY <1>4, <2>1, RingStays DEF Kept
    <3>2. i' - 2 = i - 1
        BY <1>3, <1>11
    <3>3. \A d \in 1 .. i - 1 : Kept(d)
        BY <1>1, <1>2 DEF EncodeInv, Represented
    <3> QED
        BY <2>1, <3>1, <3>2, <3>3 DEF Represented, Inserting, After
  <2> QED
      BY <1>9, <1>11, <2>2, <2>3, <2>4, <2>5
<1>12. CASE i > F /\ UNCHANGED i /\ Insert(tree, r, "send")
  <2>1. node' = r /\ pc' = "search" /\ back' = "send" /\ Linked' = Linked /\ i' = i /\ i = F + 1
      BY <1>3, <1>10, <1>12, Sizes
  <2>2. r \in Ring /\ r \notin LinkedIn(tree) /\ i' \in Turns
    <3>1. r \in Ring /\ Back(r) = 0
        BY <1>3, Sizes DEF Ring, Back
    <3> QED
        BY <1>2, <1>5, <1>7, <2>1, <3>1 DEF TypeOK
  <2>3. Phase'
      BY <1>2, <1>3, <1>4, <2>1, RingStays DEF EncodeInv, Phase, Behind, Inserting
  <2>4. Places'
    <3>1. \A q \in Linked : Back(q) > 0 /\ Back(q) <= Reach
        BY <1>3, <1>6, <1>7, <2>1, Sizes
    <3> QED
        BY <1>4, <2>1, <3>1, RingStays DEF Places
  <2>5. Represented'
    <3>1. \A d : Kept(d)' = Kept(d)
        BY <1>4, <2>1, RingStays DEF Kept
    <3>2. Reach' = F /\ F = i - 1
        BY <1>4, <1>6, <2>1, RingStays, Sizes
    <3>3. \A d \in 1 .. i - 1 : Kept(d)
        BY <1>1, <1>2 DEF EncodeInv, Represented
    <3> QED
        BY <2>1, <3>1, <3>2, <3>3 DEF Represented, Inserting, After
  <2> QED
      BY <1>9, <1>12, <2>2, <2>3, <2>4, <2>5
<1> QED
    BY <1>1, <1>11, <1>12

-----------------------------------------------------------------------------
(* The search of InsertNode                                                *)

\* cmp is never negative: the child is always the right one, it is a node of the
\* same tree, and not the one that is inserted.
LEMMA ChildProperties ==
    ASSUME IndInv, pc = "search"
    PROVE  /\ GoesRight /\ Child = tree.rson[p] /\ p \in Parents /\ node \in Ring /\ node \notin Linked
           /\ tree.lson[node] = NIL /\ tree.rson[node] = NIL /\ First(p) = textBuf[node]
           /\ Child # NIL => /\ Child \in Linked /\ Child # node /\ Child \in Ring
                             /\ textBuf[Child] = textBuf[node] /\ Back(Child) > 0 /\ Back(Child) <= Reach
<1>1. TypeOK /\ EncodeInv /\ Encoding
    BY DEF IndInv, Encoding
<1>2. GoesRight /\ Child = tree.rson[p]
    BY Numbers DEF GoesRight, Child
<1>3. p \in Parents /\ First(p) = textBuf[node] /\ tree.lson[node] = NIL /\ tree.rson[node] = NIL
    BY <1>1 DEF EncodeInv, Searching
<1>4. node \in Ring
    BY <1>1 DEF TypeOK
<1>5. node \notin Linked
  <2>1. \A q \in Linked : Back(q) > 0 /\ (back = "prime" => Back(q) < i - 1)
      BY <1>1 DEF EncodeInv, Places
  <2>2. CASE back = "prime"
    <3>1. node = r - (i - 1) /\ i \in 2 .. F + 1
        BY <1>1, <2>2 DEF EncodeInv, Phase
    <3>2. Back(node) = i - 1
        BY <3>1, Numbers DEF Back
    <3> QED
        BY <2>1, <2>2, <3>1, <3>2
  <2>3. CASE back # "prime"
    <3>1. node = r
        BY <1>1, <2>3 DEF EncodeInv, Phase, Inserting
    <3>2. Back(node) = 0
        BY <3>1, Numbers DEF Back
    <3> QED
        BY <2>1, <3>2
  <2> QED
      BY <2>2, <2>3
<1>6. ASSUME Child # NIL
      PROVE  /\ Child \in Linked /\ Child \in Ring /\ textBuf[Child] = textBuf[node]
             /\ Back(Child) > 0 /\ Back(Child) <= Reach
  <2>1. Child \in Linked /\ tree.dad[Child] = p
      BY <1>1, <1>2, <1>3, <1>6 DEF EncodeInv, Chains
  <2>2. First(p) = textBuf[Child]
      BY <1>1, <2>1 DEF EncodeInv, Chains
  <2>3. Back(Child) > 0 /\ Back(Child) <= Reach
      BY <1>1, <2>1 DEF EncodeInv, Places
  <2> QED
      BY <1>3, <2>1, <2>2, <2>3, ForestNow, <1>1
<1> QED
    BY <1>2, <1>3, <1>4, <1>5, <1>6

\* What two strings that begin alike have in common, and no more.
LEMMA CommonProperties ==
    ASSUME NEW a, NEW b, textBuf[a] = textBuf[b], a \in Int, b \in Int
    PROVE  /\ Common(a, b) \in 1 .. F
           /\ Same(a, b, Common(a, b)) /\ Same(b, a, Common(a, b))
           /\ \A n \in 1 .. F : Same(b, a, n) => n <= Common(a, b)
<1> DEFINE M == {n \in 1 .. F : n = F \/ textBuf[a + n] # textBuf[b + n]}
           Is(n) == /\ \A k \in 1 .. n - 1 : textBuf[a + k] = textBuf[b + k]
                    /\ n = F \/ textBuf[a + n] # textBuf[b + n]
<1>1. F \in 1 .. F /\ F \in Nat
    BY Sizes
<1>2. M \in SUBSET Nat /\ M # {}
    BY <1>1
<1> HIDE DEF M
<1>3. PICK m \in M : \A k \in M : m <= k
    BY <1>2, Least
<1>4. m \in 1 .. F /\ Is(m)
  <2>1. m \in 1 .. F /\ (m = F \/ textBuf[a + m] # textBuf[b + m])
      BY <1>3 DEF M
  <2>2. ASSUME NEW k \in 1 .. m - 1 PROVE textBuf[a + k] = textBuf[b + k]
    <3>1. k \in 1 .. F /\ ~(m <= k)
        BY <1>1, <2>1
    <3>2. k \notin M
        BY <1>3, <3>1
    <3> QED
        BY <3>1, <3>2 DEF M
  <2> QED
      BY <2>1, <2>2
<1>5. Common(a, b) = CHOOSE n \in 1 .. F : Is(n)
    BY DEF Common
<1> DEFINE c == Common(a, b)
<1> HIDE DEF Is
<1>6. c \in 1 .. F /\ Is(c)
    BY <1>4, <1>5
<1> HIDE DEF c
<1>7. Same(a, b, c) /\ Same(b, a, c)
  <2> SUFFICES ASSUME NEW k \in 0 .. c - 1 PROVE textBuf[a + k] = textBuf[b + k]
      BY DEF Same
  <2>1. CASE k = 0
      BY <2>1
  <2>2. CASE k # 0
    <3>1. k \in 1 .. c - 1
        BY <1>1, <1>6, <2>2
    <3> QED
        BY <1>6, <3>1 DEF Is
  <2> QED
      BY <2>1, <2>2
<1>8. ASSUME NEW n \in 1 .. F, Same(b, a, n), ~(n <= c) PROVE FALSE
  <2>1. c \in 0 .. n - 1 /\ c # F
      BY <1>1, <1>6, <1>8
  <2>2. textBuf[b + c] = textBuf[a + c]
      BY <1>8, <2>1 DEF Same
  <2> QED
      BY <1>6, <2>1, <2>2 DEF Is
<1> QED
    BY <1>6, <1>7, <1>8 DEF c

\* An unsigned short.
LEMMA WordOf ==
    ASSUME NEW x \in Int
    PROVE  x % 65536 \in Words
BY SMT DEF Words

\* What one comparison leaves: the match is at least as long as what has been compared.
LEMMA ComparedProperties ==
    ASSUME IndInv, pc = "search", Child # NIL, NEW n \in 1 .. F, Same(Child, node, n), Compared(n)
    PROVE  /\ cmp' \in Words /\ matchLength' \in Lengths /\ matchPosition' \in Ring
           /\ n <= matchLength' /\ matchLength <= matchLength'
           /\ \/ matchLength' = matchLength /\ matchPosition' = matchPosition
              \/ matchLength' = n /\ matchPosition' = Child
<1>1. TypeOK /\ EncodeInv
    BY DEF IndInv, Encoding
<1>2. cmp' = (IF n < F THEN Difference(textBuf[node + n], textBuf[Child + n]) ELSE 0)
    BY DEF Compared
<1>3. Child \in Ring /\ node \in Ring
    BY ChildProperties
<1>4. cmp' \in Words
  <2>1. CASE n < F
    <3>1. \A x \in Ring : x + n \in 0 .. N + F - 2
        BY <2>1, Sizes DEF Ring
    <3>2. textBuf[node + n] \in Octet /\ textBuf[Child + n] \in Octet
        BY <1>1, <1>3, <3>1 DEF EncodeInv, Written
    <3>3. \A x \in Int : x % 65536 \in Words
        BY WordOf
    <3>4. \A a, b \in Octet : a - b \in Int
        BY DEF Octet
    <3>5. \A a, b \in Octet : Difference(a, b) \in Words
        BY <3>3, <3>4 DEF Difference
    <3> QED
        BY <1>2, <2>1, <3>2, <3>5
  <2>2. CASE ~(n < F)
      BY <1>2, <2>2 DEF Words
  <2> QED
      BY <2>1, <2>2
<1>5. /\ n > matchLength => matchLength' = n /\ matchPosition' = Child
      /\ ~(n > matchLength) => matchLength' = matchLength /\ matchPosition' = matchPosition
    BY DEF Compared
<1>6. matchLength \in Lengths /\ matchPosition \in Ring /\ n \in Lengths
    BY <1>1, Sizes DEF TypeOK, Lengths
<1>7. matchLength \in Int
    BY Numbers
<1> QED
    BY <1>3, <1>4, <1>5, <1>6, <1>7

LEMMA WalkInv ==
    ASSUME IndInv, Walk
    PROVE  IndInv'
<1> DEFINE n == Common(node, Child)
<1>1. /\ pc = "search" /\ Child # NIL /\ n < F /\ Compared(n) /\ p' = Child
      /\ UNCHANGED <<pc, input, textBuf, tree, r, ulPos, encodeVars, node, back, decodeVars>>
    BY DEF Walk
<1>2. TypeOK /\ EncodeInv
    BY <1>1 DEF IndInv, Encoding
<1>3. /\ textBuf' = textBuf /\ r' = r /\ ulPos' = ulPos /\ len' = len /\ input' = input /\ tree' = tree
      /\ s' = s /\ last' = last /\ codeBuf' = codeBuf /\ mask' = mask /\ code' = code /\ i' = i
      /\ pc' = "search" /\ back' = back /\ node' = node
    BY <1>1 DEF encodeVars
<1>4. /\ Child = tree.rson[p] /\ p \in Parents /\ node \in Ring /\ node \notin Linked
      /\ tree.lson[node] = NIL /\ tree.rson[node] = NIL
      /\ Child \in Linked /\ Child # node /\ Child \in Ring
      /\ textBuf[Child] = textBuf[node] /\ Back(Child) > 0 /\ Back(Child) <= Reach
    BY <1>1, ChildProperties
<1>5. n \in 1 .. F /\ Same(Child, node, n) /\ \A m \in 1 .. F : Same(Child, node, m) => m <= n
  <2>1. Child \in Int /\ node \in Int
      BY <1>4, Sizes DEF Ring
  <2> QED
      BY <1>4, <2>1, CommonProperties
<1> HIDE DEF n
<1>6. /\ cmp' \in Words /\ matchLength' \in Lengths /\ matchPosition' \in Ring
      /\ n <= matchLength' /\ matchLength <= matchLength'
      /\ \/ matchLength' = matchLength /\ matchPosition' = matchPosition
         \/ matchLength' = n /\ matchPosition' = Child
    BY <1>1, <1>5, ComparedProperties
<1>7. matchLength \in Int /\ matchLength' \in Int /\ n \in Int
  <2>1. \A x \in Lengths : x \in Int
      BY DEF Lengths
  <2> QED
      BY <1>2, <1>5, <1>6, <2>1 DEF TypeOK
<1>8. TypeOK'
  <2>1. p' \in Slot
      BY <1>1, <1>4, SlotProperties
  <2> QED
      BY <1>1, <1>2, <1>3, <1>6, <2>1 DEF TypeOK, decodeVars
<1>9. Phase'
    BY <1>1, <1>2, <1>3, RingStays DEF EncodeInv, Phase, Inserting, Behind
<1>10. Collected' /\ Doubled' /\ LookAhead' /\ Filled' /\ Chains' /\ Reachable' /\ (textBuf \in Written)'
    BY <1>1, <1>2, <1>3, RingStays, TreesStay DEF EncodeInv, Collected, Filled, Beginning, Written
<1>11. Places'
    BY <1>1, <1>2, <1>3, RingStays, TreesStay DEF EncodeInv, Places
<1>12. Searching'
  <2>1. \A q : NoLonger(q) => NoLonger(q)'
    <3> SUFFICES ASSUME NEW q, NoLonger(q), NEW m \in 1 .. F, Same(q, node, m) PROVE m <= matchLength'
        BY <1>3, RingStays DEF NoLonger
    <3>1. m <= matchLength /\ m \in Int
        BY DEF NoLonger
    <3> QED
        BY <1>6, <1>7, <3>1
  <2>2. ASSUME NEW m \in 1 .. F, Same(Child, node, m) PROVE m <= matchLength'
    <3>1. m <= n /\ m \in Int
        BY <1>5, <2>2
    <3> QED
        BY <1>6, <1>7, <3>1
  <2>3. First(Child) = textBuf[node]
      BY <1>4, Sizes DEF First, Ring
  <2>4. ASSUME NEW T \in SUBSET Slot, Child \in T, Follows(T), NEW q \in Linked, textBuf[q] = textBuf[node]
        PROVE  q \in T \/ NoLonger(q)'
    <3> DEFINE T2 == T \cup {p}
    <3>1. T2 \in SUBSET Slot /\ p \in T2
        BY <1>2 DEF TypeOK
    <3>2. Follows(T2)
        BY <1>4, <2>4 DEF Follows
    <3>3. q \in T2 \/ NoLonger(q)
        BY <1>1, <1>2, <2>4, <3>1, <3>2 DEF EncodeInv, Searching
    <3>4. q = p => NoLonger(q)
        BY <1>1, <1>2, <2>4 DEF EncodeInv, Searching
    <3> QED
        BY <2>1, <3>3, <3>4
  <2>5. /\ Linked' = Linked /\ Parents' = Parents /\ (\A T : Follows(T)' = Follows(T))
        /\ First(p)' = First(Child) /\ p' = Child
      BY <1>1, <1>3, TreesStay DEF First
  <2>6. NoLonger(p)'
    <3>1. \A m : Same(p, node, m)' => Same(Child, node, m)
        BY <1>3, <2>5 DEF Same
    <3> QED
        BY <2>2, <3>1 DEF NoLonger
  <2>7. Child \in Parents
      BY <1>4 DEF Parents
  <2> QED
      BY <1>3, <1>4, <2>3, <2>4, <2>5, <2>6, <2>7 DEF Searching
<1>13. Found'
  <2> SUFFICES ASSUME Inserting \/ Compares, matchLength' > 0
               PROVE  Back(matchPosition') \in 1 .. N - F /\ Same(matchPosition', r, matchLength')
      BY <1>1, <1>3, RingStays DEF Found, Inserting, Compares, Back, Same
  <2>1. Inserting /\ node = r
      BY <1>1, <1>2 DEF Compares, EncodeInv, Phase
  <2>2. CASE matchLength' = matchLength /\ matchPosition' = matchPosition
      BY <1>2, <2>1, <2>2 DEF EncodeInv, Found
  <2>3. CASE matchLength' = n /\ matchPosition' = Child
    <3>1. Back(Child) \in 1 .. N - F
      <4>1. Reach <= N - F /\ Reach \in Int
          BY Numbers, Sizes DEF Reach, Lower, Past
      <4>2. Back(Child) \in Int
          BY <1>4, Sizes, Numbers DEF Back, Ring
      <4> QED
          BY <1>4, <4>1, <4>2, Sizes
    <3> QED
        BY <1>5, <2>1, <2>3, <3>1
  <2> QED
      BY <1>6, <2>2, <2>3
<1>14. Represented' /\ Spared'
    BY <1>1, <1>2, <1>3, RingStays, TreesStay DEF EncodeInv, Represented, Spared, Inserting, After
<1>15. Longest'
    BY <1>1, <1>3 DEF Longest, Compares
<1> QED
    BY <1>8, <1>9, <1>10, <1>11, <1>12, <1>13, <1>14, <1>15 DEF IndInv, EncodeInv

\* Two of the first strings that are the same are strings of spaces: each octet of
\* the later one is before the text, or is one of its own earlier octets again.
LEMMA SpacesRepeat ==
    ASSUME IndInv, Beginning, NEW j \in 1 .. F, NEW m \in 1 .. j - 1, Same(r - m, r - j, F)
    PROVE  Spaces(r - m) /\ Spaces(r - j)
<1>1. EncodeInv /\ r = N - F
  <2>1. EncodeInv
      BY DEF IndInv, Encoding, Beginning
  <2>2. Past = 0 /\ (Past < N + F => r = (IF Past < F THEN N - F + Past ELSE Past - F))
      BY <2>1 DEF EncodeInv, Phase, Beginning
  <2> QED
      BY <2>1, <2>2, Sizes
<1>2. \A q \in 0 .. N - F - 1 : textBuf[q] = Space
    BY <1>1 DEF EncodeInv, Filled
<1>3. \A k \in 0 .. F - 1 : textBuf[r - m + k] = textBuf[r - j + k]
    BY DEF Same
<1> DEFINE M == {k \in 0 .. F - 1 : textBuf[r - m + k] # Space}
<1>4. M = {}
  <2> SUFFICES ASSUME M # {} PROVE FALSE
      OBVIOUS
  <2>1. M \in SUBSET Nat
      OBVIOUS
  <2> HIDE DEF M
  <2>2. PICK e \in M : \A k \in M : e <= k
      BY <2>1, Least
  <2>3. e \in 0 .. F - 1 /\ textBuf[r - m + e] # Space
      BY <2>2 DEF M
  <2>4. textBuf[r - j + e] # Space
      BY <1>3, <2>3
  <2>5. e >= j - m
    <3> SUFFICES ASSUME e < j - m PROVE FALSE
        BY <2>3, Sizes
    <3>1. r - j + e \in 0 .. N - F - 1
        BY <1>1, <2>3, Sizes
    <3> QED
        BY <1>2, <2>4, <3>1
  <2>6. e - (j - m) \in 0 .. F - 1 /\ e - (j - m) < e
      BY <2>3, <2>5, Sizes
  <2>7. e - (j - m) \notin M
      BY <2>2, <2>3, <2>6
  <2>8. textBuf[r - m + (e - (j - m))] = Space
      BY <2>6, <2>7 DEF M
  <2>9. r - m + (e - (j - m)) = r - j + e
      BY <1>1, <2>3, Sizes
  <2> QED
      BY <2>4, <2>8, <2>9
<1>5. \A k \in 0 .. F - 1 : textBuf[r - m + k] = Space
    BY <1>4
<1> QED
    BY <1>3, <1>5 DEF Spaces

\* InsertNode has returned: the node is in a tree, and it is all that has come; what
\* has gone was the same string.
Inserted ==
    /\ pc = "search" /\ pc' = back /\ node \in Linked' /\ Linked' \subseteq Linked \cup {node}
    /\ \A q \in Linked : q \in Linked' \/ Same(q, node, F)
    /\ textBuf' = textBuf /\ r' = r /\ ulPos' = ulPos /\ len' = len /\ input' = input
    /\ s' = s /\ last' = last /\ codeBuf' = codeBuf /\ mask' = mask /\ code' = code /\ i' = i
    /\ back' = back /\ node' = node

\* The node is one place farther than all that was inserted before the text, or it
\* is at r.
LEMMA NodeProperties ==
    ASSUME IndInv, pc = "search"
    PROVE  /\ back = "prime" => /\ Past = 0 /\ r = N - F /\ i \in 2 .. F + 1 /\ node = r - (i - 1)
                                /\ Back(node) = i - 1 /\ Place(i - 1) = node
           /\ back # "prime" => node = r /\ Back(node) = 0 /\ Place(0) = node
           /\ back = "send" => Past = 0
           /\ Past \in Int /\ Reach \in Int /\ Reach <= N - F /\ (Past = 0 => Reach = F) /\ (Past >= 0 => Reach >= F)
           /\ Past >= 0 /\ len > 0
<1>1. EncodeInv
    BY DEF IndInv, Encoding
<1>2. Past \in Int /\ Past >= 0 /\ Reach \in Int /\ Reach <= N - F /\ (Past = 0 => Reach = F) /\ (Past >= 0 => Reach >= F)
  <2>1. len <= ulPos
      BY <1>1 DEF EncodeInv, Phase
  <2> QED
      BY <2>1, Numbers, Sizes DEF Past, Reach, Lower
<1>3. len > 0
    BY <1>1 DEF EncodeInv, Phase
<1>4. CASE back = "prime"
  <2>1. Past = 0 /\ i \in 2 .. F + 1 /\ node = r - (i - 1)
        /\ (Past < N + F => r = (IF Past < F THEN N - F + Past ELSE Past - F))
      BY <1>1, <1>4 DEF EncodeInv, Phase
  <2>2. r = N - F
      BY <2>1, Sizes
  <2> QED
      BY <1>2, <1>3, <1>4, <2>1, <2>2, Sizes DEF Back, Place
<1>5. CASE back # "prime"
  <2>1. node = r /\ (back = "send" => Past = 0)
      BY <1>1, <1>5 DEF EncodeInv, Phase, Inserting
  <2> QED
      BY <1>2, <1>3, <1>5, <2>1, Numbers DEF Back, Place
<1> QED
    BY <1>4, <1>5

\* What was there, or the same later, or of those of spaces one, is so still.
LEMMA KeptReturns ==
    ASSUME IndInv, Inserted, NEW d \in 0 .. Reach, Kept(d)
    PROVE  Kept(d)'
<1>1. EncodeInv
    BY DEF IndInv, Encoding, Inserted
<1>2. PICK q \in Linked : Same(Place(d), q, F) /\ (Back(q) <= d \/ Early(d))
    BY DEF Kept
<1>3. d \in Int /\ d >= 0
    BY NodeProperties DEF Inserted
<1>4. \A z \in Linked' : Same(Place(d), z, F) /\ (Back(z) <= d \/ Early(d)) => Kept(d)'
    BY RingStays DEF Kept, Inserted
<1>5. CASE q \in Linked'
    BY <1>2, <1>4, <1>5
<1>6. CASE q \notin Linked'
  <2>1. Same(q, node, F) /\ Same(Place(d), node, F)
      BY <1>2, <1>6 DEF Inserted, Same
  <2>2. CASE back # "prime"
      BY <1>3, <1>4, <2>1, <2>2, NodeProperties DEF Inserted
  <2>3. CASE back = "prime"
    <3>1. Back(q) > 0 /\ Back(q) < i - 1
        BY <1>1, <2>3 DEF EncodeInv, Places, Inserted
    <3>2. r = N - F /\ i \in 2 .. F + 1 /\ node = r - (i - 1)
        BY <2>3, NodeProperties DEF Inserted
    <3>3. q = r - Back(q) /\ Back(q) \in 1 .. (i - 1) - 1 /\ i - 1 \in 1 .. F
      <4>1. q \in Int /\ 0 <= q /\ q < N
          BY Sizes DEF Linked, Ring
      <4> QED
          BY <3>1, <3>2, <4>1, Sizes DEF Back
    <3>4. Same(r - Back(q), r - (i - 1), F)
        BY <2>1, <3>2, <3>3
    <3>5. Spaces(q)
        BY <2>3, <3>3, <3>4, SpacesRepeat DEF Beginning, Inserted
    <3>6. Spaces(Place(d))
        BY <1>2, <3>5 DEF Spaces, Same
    <3>7. d > 0 \/ d = 0
        BY <1>3
    <3>8. CASE d > 0
      <4>1. Early(d)
          BY <2>3, <3>6, <3>8, NodeProperties DEF Early, Inserted
      <4> QED
          BY <1>4, <2>1, <4>1 DEF Inserted
    <3>9. CASE d = 0
      <4>1. ~(d > Past)
          BY <2>3, <3>9, NodeProperties DEF Inserted
      <4>2. Back(q) <= 0 \/ Early(d)
          BY <1>2, <3>9
      <4> QED
          BY <3>1, <3>3, <4>1, <4>2 DEF Early
    <3> QED
        BY <3>7, <3>8, <3>9
  <2> QED
      BY <2>2, <2>3
<1> QED
    BY <1>5, <1>6

\* All that Represented says when InsertNode returns.
LEMMA RepresentedReturns ==
    ASSUME IndInv, Inserted
    PROVE  Represented'
<1>1. EncodeInv /\ pc = "search" /\ pc' = back /\ back \in {"prime", "send", "shift"}
    BY DEF IndInv, TypeOK, Encoding, Inserted
<1>2. Reach' = Reach /\ i' = i /\ \A d : Lost(d)' = Lost(d)
    BY RingStays DEF Inserted
<1>3. \A n : Same(Place(n), node, F) /\ Back(node) <= n => Kept(n)'
    BY RingStays DEF Kept, Inserted
<1>4. Same(node, node, F)
    BY DEF Same
<1>5. CASE back = "prime"
  <2>1. i \in 2 .. F + 1 /\ Reach = F /\ Back(node) = i - 1 /\ Place(i - 1) = node
      BY <1>1, <1>5, NodeProperties
  <2>2. \A d \in 1 .. i - 2 : Kept(d)
      BY <1>1, <1>5 DEF EncodeInv, Represented
  <2>3. \A d \in 1 .. i - 2 : Kept(d)'
    <3>1. \A d \in 1 .. i - 2 : d \in 0 .. Reach
        BY <2>1, Sizes
    <3> QED
        BY <2>2, <3>1, KeptReturns
  <2>4. \A d \in 1 .. i - 1 : d \in 1 .. i - 2 \/ d = i - 1
      BY <2>1
  <2>5. \A d \in 1 .. i - 1 : Kept(d)'
    <3> SUFFICES ASSUME NEW d \in 1 .. i - 1 PROVE Kept(d)'
        OBVIOUS
    <3>1. CASE d \in 1 .. i - 2
        BY <2>3, <3>1
    <3>2. CASE d = i - 1
      <4>1. Same(Place(d), node, F) /\ Back(node) <= d
          BY <1>4, <2>1, <3>2
      <4> QED
          BY <1>3, <4>1
    <3> QED
        BY <2>4, <3>1, <3>2
  <2> QED
      BY <1>1, <1>2, <1>5, <2>5 DEF Represented, Inserting, After
<1>6. CASE back # "prime"
  <2>1. Back(node) = 0 /\ Place(0) = node /\ Reach \in Int /\ Reach >= 0
      BY <1>1, <1>6, NodeProperties, Sizes
  <2>2. \A d \in 1 .. Reach : Kept(d) \/ Lost(d)
      BY <1>1, <1>6 DEF EncodeInv, Represented, Inserting
  <2>3. \A d \in 1 .. Reach : Kept(d)' \/ Lost(d)'
    <3>1. \A d \in 1 .. Reach : d \in 0 .. Reach
        BY <2>1
    <3> QED
        BY <1>2, <2>2, <3>1, KeptReturns
  <2>4. \A d \in 0 .. Reach : d \in 1 .. Reach \/ d = 0
      BY <2>1
  <2>5. \A d \in 0 .. Reach : Kept(d)' \/ Lost(d)'
    <3> SUFFICES ASSUME NEW d \in 0 .. Reach PROVE Kept(d)' \/ Lost(d)'
        OBVIOUS
    <3>1. CASE d = 0
      <4>1. Same(Place(d), node, F) /\ Back(node) <= d
          BY <1>4, <2>1, <3>1
      <4> QED
          BY <1>3, <4>1
    <3>2. CASE d \in 1 .. Reach
        BY <2>3, <3>2
    <3> QED
        BY <2>4, <3>1, <3>2
  <2> QED
      BY <1>1, <1>2, <1>6, <2>5 DEF Represented, Inserting
<1> QED
    BY <1>5, <1>6

\* A later string of F - 1 spaces is there: when the text begins, the one that is
\* one place behind the latest string of F spaces.
LEMMA SparedReturns ==
    ASSUME IndInv, Inserted
    PROVE  Spared'
<1>1. EncodeInv /\ pc = "search" /\ pc' = back /\ back \in {"prime", "send", "shift"}
    BY DEF IndInv, TypeOK, Encoding, Inserted
<1>2. Past' = Past /\ Reach' = Reach /\ \A d : Early(d)' = Early(d) /\ Place(d)' = Place(d) /\ Back(d)' = Back(d)
    BY RingStays DEF Inserted
<1>3. ASSUME NEW d \in 0 .. Reach, Early(d), NEW q \in Linked', Back(q) <= d, Same(Place(d), q, F - 1)
      PROVE  \E z \in Linked' : Back(z)' <= d /\ Same(Place(d), z, F - 1)'
  <2>1. Back(q)' <= d /\ Same(Place(d), q, F - 1)'
      BY <1>2, <1>3, RingStays DEF Inserted
  <2> QED
      BY <2>1
<1>4. CASE back = "prime"
    BY <1>1, <1>4 DEF Spared, After
<1>5. CASE back = "shift"
  <2>1. Back(node) = 0
      BY <1>1, <1>5, NodeProperties
  <2>2. \A d \in 0 .. Reach : Early(d) => \E q \in Linked : Back(q) <= d /\ Same(Place(d), q, F - 1)
      BY <1>1, <1>5 DEF EncodeInv, Spared
  <2>3. ASSUME NEW d \in 0 .. Reach, Early(d)
        PROVE  \E q \in Linked' : Back(q) <= d /\ Same(Place(d), q, F - 1)
    <3>1. PICK q \in Linked : Back(q) <= d /\ Same(Place(d), q, F - 1)
        BY <2>2, <2>3
    <3>2. CASE q \in Linked'
        BY <3>1, <3>2
    <3>3. CASE q \notin Linked'
      <4>1. Same(q, node, F)
          BY <3>3 DEF Inserted
      <4>2. \A k \in 0 .. (F - 1) - 1 : k \in 0 .. F - 1
          BY Sizes
      <4>3. Same(Place(d), node, F - 1)
          BY <3>1, <4>1, <4>2 DEF Same
      <4> QED
          BY <2>1, <4>3 DEF Inserted
    <3> QED
        BY <3>2, <3>3
  <2> QED
      BY <1>1, <1>2, <1>3, <1>5, <2>3 DEF Spared
<1>6. CASE back = "send"
  <2>1. Past = 0 /\ Reach = F /\ r = node /\ Reach <= N - F /\ r \in Int
      BY <1>1, <1>6, NodeProperties, Numbers
  <2>2. \A d \in 0 .. Reach : Kept(d)' \/ Lost(d)'
    <3>1. Represented' /\ pc' = "send"
        BY <1>1, <1>6, RepresentedReturns
    <3> QED
        BY <1>2, <3>1 DEF Represented, After
  <2>3. \A d : Lost(d)' => Early(d)
      BY <1>2 DEF Lost
  <2>4. \A d \in 0 .. F : Place(d) = r - d
    <3>1. r = N - F
      <4>1. Past < N + F => r = (IF Past < F THEN N - F + Past ELSE Past - F)
          BY <1>1 DEF EncodeInv, Phase
      <4> QED
          BY <2>1, <4>1, Sizes
    <3> QED
        BY <3>1, Sizes DEF Place
  <2>5. ASSUME NEW d \in 0 .. Reach, Early(d)
        PROVE  \E q \in Linked' : Back(q) <= d /\ Same(Place(d), q, F - 1)
    <3>1. d \in 1 .. F /\ Spaces(r - d)
        BY <2>1, <2>4, <2>5, Sizes DEF Early
    <3> DEFINE M == {e \in 1 .. F : Spaces(r - e)}
    <3>2. M \in SUBSET Nat /\ d \in M
        BY <3>1, Sizes
    <3> HIDE DEF M
    <3>3. PICK e \in M : \A k \in M : e <= k
        BY <3>2, Least
    <3>4. e \in 1 .. F /\ Spaces(r - e) /\ e <= d /\ e - 1 \in 0 .. F
        BY <3>2, <3>3, Sizes DEF M
    <3>5. ~Early(e - 1)
      <4>1. CASE e - 1 = 0
          BY <2>1, <4>1 DEF Early
      <4>2. CASE e - 1 # 0
        <5>1. e - 1 \in 1 .. F /\ ~(e <= e - 1)
            BY <3>4, <4>2
        <5>2. ~Spaces(r - (e - 1))
            BY <3>3, <5>1 DEF M
        <5> QED
            BY <2>4, <3>4, <5>2 DEF Early, Spaces
      <4> QED
          BY <4>1, <4>2
    <3>6. Kept(e - 1)'
        BY <2>1, <2>2, <2>3, <3>4, <3>5
    <3>7. PICK q \in Linked' : Same(r - (e - 1), q, F) /\ Back(q) <= e - 1
      <4>1. PICK q \in Linked' : Same(Place(e - 1), q, F)' /\ (Back(q)' <= e - 1 \/ Early(e - 1)')
          BY <3>6 DEF Kept
      <4>2. Place(e - 1)' = r - (e - 1) /\ Back(q)' = Back(q) /\ ~Early(e - 1)'
          BY <1>2, <2>4, <3>4, <3>5
      <4>3. Same(r - (e - 1), q, F)
          BY <4>1, <4>2, RingStays DEF Inserted, Same
      <4> QED
          BY <4>1, <4>2, <4>3
    <3>8. Same(r - d, q, F - 1)
      <4> SUFFICES ASSUME NEW k \in 0 .. (F - 1) - 1 PROVE textBuf[r - d + k] = textBuf[q + k]
          BY DEF Same
      <4>1. k \in 0 .. F - 1 /\ k + 1 \in 0 .. F - 1
          BY Sizes
      <4>2. textBuf[r - d + k] = Space
          BY <3>1, <4>1 DEF Spaces
      <4>3. textBuf[r - e + (k + 1)] = Space
          BY <3>4, <4>1 DEF Spaces
      <4>4. r - e + (k + 1) = r - (e - 1) + k
          BY <2>1, <3>4
      <4>5. textBuf[r - (e - 1) + k] = textBuf[q + k]
          BY <3>7, <4>1 DEF Same
      <4> QED
          BY <4>2, <4>3, <4>4, <4>5
    <3>9. Back(q) <= d
      <4>1. q \in Int
          BY Sizes DEF Linked, Ring
      <4>2. Back(q) \in Int
          BY <2>1, <4>1, Sizes DEF Back
      <4> QED
          BY <3>1, <3>4, <3>7, <4>2
    <3> QED
        BY <2>4, <3>1, <3>8, <3>9 DEF Same
  <2> QED
      BY <1>1, <1>2, <1>3, <1>6, <2>5 DEF Spared
<1> QED
    BY <1>1, <1>4, <1>5, <1>6

\* No string of the window is longer than the match, the exception aside.
LEMMA LongestReturns ==
    ASSUME IndInv, Inserted,
           matchLength' = F \/ (matchLength' = matchLength /\ \A q \in Linked : NoLonger(q))
    PROVE  Longest'
<1>1. EncodeInv /\ pc = "search" /\ pc' = back /\ back \in {"prime", "send", "shift"}
    BY DEF IndInv, TypeOK, Encoding, Inserted
<1>2. Reach' = Reach /\ len' = len /\ Past' = Past /\ r' = r /\ F \in Int /\ len \in Int /\ len <= F
    BY Numbers, Sizes, RingStays DEF Inserted
<1>3. CASE back = "prime"
    BY <1>1, <1>3 DEF Longest, Compares
<1>4. CASE back # "prime"
  <2>1. node = r /\ Reach <= N - F /\ (back = "send" => Past = 0) /\ Past \in Int /\ Reach \in Int /\ Reach >= F
      BY <1>1, <1>4, NodeProperties
  <2>2. ASSUME NEW d \in 1 .. Reach, NEW n \in 1 .. len, Same(Place(d), r, n)
        PROVE  \/ n <= matchLength'
               \/ n = F /\ Spaces(r) /\ Past > N - 2 * F /\ Past < N - F
    <3>1. n \in 1 .. F /\ d \in 0 .. Reach
        BY <1>2, <2>1
    <3>2. CASE matchLength' = F
        BY <1>2, <3>1, <3>2
    <3>3. CASE matchLength' = matchLength /\ \A q \in Linked : NoLonger(q)
      <4>1. \A q \in Linked : Same(q, r, n) => n <= matchLength'
          BY <2>1, <3>1, <3>3 DEF NoLonger
      <4>2. Kept(d) \/ Lost(d)
          BY <1>1, <1>4 DEF EncodeInv, Represented, Inserting
      <4>3. CASE Kept(d)
        <5>1. PICK q \in Linked : Same(Place(d), q, F)
            BY <4>3 DEF Kept
        <5>2. \A k \in 0 .. n - 1 : k \in 0 .. F - 1
            BY <1>2, <3>1
        <5>3. Same(q, r, n)
            BY <2>2, <5>1, <5>2 DEF Same
        <5> QED
            BY <4>1, <5>3
      <4>4. CASE Lost(d)
        <5>1. Early(d) /\ Past > N - 2 * F /\ d > Past /\ Spaces(Place(d))
            BY <4>4 DEF Lost, Early
        <5>2. back = "shift" /\ Past < N - F
          <6>1. N - 2 * F >= 0 /\ N \in Int
              BY Sizes
          <6>2. Past # 0
              BY <1>2, <5>1, <6>1
          <6>3. back = "shift"
              BY <1>1, <1>4, <2>1, <6>2
          <6>4. d \in Int /\ d <= Reach
              BY <2>1
          <6> QED
              BY <1>2, <2>1, <5>1, <6>1, <6>3, <6>4
        <5>3. PICK q \in Linked : Same(Place(d), q, F - 1)
            BY <1>1, <3>1, <5>1, <5>2 DEF EncodeInv, Spared
        <5>4. CASE n = F
          <6>1. Spaces(r)
              BY <2>2, <5>1, <5>4 DEF Spaces, Same
          <6> QED
              BY <5>1, <5>2, <5>4, <6>1
        <5>5. CASE n # F
          <6>1. \A k \in 0 .. n - 1 : k \in 0 .. (F - 1) - 1
              BY <1>2, <3>1, <5>5
          <6>2. Same(q, r, n)
              BY <2>2, <5>3, <6>1 DEF Same
          <6> QED
              BY <4>1, <6>2
        <5> QED
            BY <5>4, <5>5
      <4> QED
          BY <4>2, <4>3, <4>4
    <3> QED
        BY <3>2, <3>3
  <2>3. \A d, n : Same(Place(d), r, n)' = Same(Place(d), r, n)
      BY RingStays DEF Inserted, Same
  <2>4. Spaces(r)' = Spaces(r)
      BY DEF Inserted, Spaces
  <2> QED
      BY <1>2, <2>2, <2>3, <2>4 DEF Longest
<1> QED
    BY <1>3, <1>4

\* InsertNode returns.
LEMMA ReturnInv ==
    ASSUME IndInv, Inserted, Forest(tree', textBuf'), p' = p, UNCHANGED decodeVars,
           cmp' \in Words, matchLength' \in Lengths, matchPosition' \in Ring,
           matchLength' = F \/ (matchLength' = matchLength /\ \A q \in Linked : NoLonger(q)),
           Inserting /\ matchLength' > 0 =>
               Back(matchPosition') \in 1 .. N - F /\ Same(matchPosition', r, matchLength')
    PROVE  IndInv'
<1>1. TypeOK /\ EncodeInv /\ pc = "search" /\ pc' = back /\ back \in {"prime", "send", "shift"}
    BY DEF IndInv, TypeOK, Encoding, Inserted
<1>2. /\ textBuf' = textBuf /\ r' = r /\ ulPos' = ulPos /\ len' = len /\ input' = input
      /\ s' = s /\ last' = last /\ codeBuf' = codeBuf /\ mask' = mask /\ code' = code /\ i' = i
      /\ back' = back /\ node' = node
    BY DEF Inserted
<1>3. Chains' /\ Reachable' /\ tree' \in Trees
    BY ForestThen DEF Forest
<1>4. TypeOK'
    BY <1>1, <1>2, <1>3 DEF TypeOK, decodeVars
<1>5. Phase'
  <2>1. CASE back = "prime"
    <3>1. i' \in 1 .. F + 1 /\ Past' = 0
        BY <1>1, <1>2, <2>1, NodeProperties, RingStays, Sizes
    <3> QED
        BY <1>1, <1>2, <2>1, <3>1, RingStays DEF EncodeInv, Phase, Inserting, Behind
  <2>2. CASE back # "prime"
      BY <1>1, <1>2, <2>2, NodeProperties, RingStays DEF EncodeInv, Phase, Inserting, Behind
  <2> QED
      BY <2>1, <2>2
<1>6. Collected' /\ Doubled' /\ LookAhead' /\ Filled' /\ (textBuf \in Written)'
    BY <1>1, <1>2, RingStays DEF EncodeInv, Collected, Filled, Beginning, Written
<1>7. Places'
  <2>1. Reach' = Reach /\ \A q : Back(q)' = Back(q)
      BY <1>2, RingStays
  <2>2. \A q \in Linked : Back(q) > 0 /\ Back(q) <= Reach /\ (back = "prime" => Back(q) < i - 1)
      BY <1>1 DEF EncodeInv, Places
  <2>3. \A q \in Linked : Back(q) \in Int
      BY Numbers, Sizes DEF Back, Linked, Ring
  <2>4. CASE back = "prime"
    <3>1. i \in 2 .. F + 1 /\ Back(node) = i - 1 /\ Reach = F
        BY <1>1, <2>4, NodeProperties
    <3>2. \A q \in Linked \cup {node} : Back(q) \in 1 .. i - 1 /\ Back(q) <= Reach
      <4>1. \A q \in Linked : Back(q) \in 1 .. i - 1
          BY <2>2, <2>3, <2>4, <3>1
      <4>2. i - 1 \in 1 .. i - 1 /\ i - 1 <= Reach
          BY <3>1, Sizes
      <4> QED
          BY <2>2, <3>1, <4>1, <4>2
    <3>3. \A q \in Linked' : Back(q)' \in 1 .. i' - 1 /\ Back(q)' <= Reach'
        BY <1>2, <2>1, <3>2 DEF Inserted
    <3> QED
        BY <1>1, <2>4, <3>3 DEF Places
  <2>5. CASE back # "prime"
    <3>1. Back(node) <= Reach
        BY <1>1, <2>5, NodeProperties, Sizes
    <3>2. \A q \in Linked' : Back(q)' <= Reach'
        BY <2>1, <2>2, <3>1 DEF Inserted
    <3> QED
        BY <1>1, <2>5, <3>2 DEF Places
  <2> QED
      BY <2>4, <2>5
<1>8. Searching'
    BY <1>1 DEF Searching
<1>9. Found'
  <2>1. Inserting' \/ Compares' => Inserting
      BY <1>1 DEF Inserting, Compares
  <2>2. Back(matchPosition)' = Back(matchPosition') /\ (Same(matchPosition, r, matchLength)' <=> Same(matchPosition', r, matchLength'))
      BY <1>2 DEF Back, Same
  <2> QED
      BY <2>1, <2>2 DEF Found
<1> QED
    BY <1>3, <1>4, <1>5, <1>6, <1>7, <1>8, <1>9, RepresentedReturns, SparedReturns, LongestReturns DEF IndInv, EncodeInv

\* Where nothing is ahead nothing is longer than the match.
LEMMA AttachInv ==
    ASSUME IndInv, Attach
    PROVE  IndInv'
<1>1. /\ pc = "search" /\ Child = NIL
      /\ tree' = (IF GoesRight THEN [tree EXCEPT !.rson[p] = node, !.dad[node] = p]
                               ELSE [tree EXCEPT !.lson[p] = node, !.dad[node] = p])
      /\ pc' = back /\ UNCHANGED <<input, textBuf, r, ulPos, encodeVars, node, p, back, decodeVars>>
      /\ UNCHANGED <<matchPosition, matchLength, cmp>>
    BY DEF Attach, Returns
<1>2. TypeOK /\ EncodeInv /\ Encoding
    BY <1>1 DEF IndInv, Encoding
<1>3. /\ GoesRight /\ Child = tree.rson[p] /\ p \in Parents /\ node \in Ring /\ node \notin Linked
      /\ tree.lson[node] = NIL /\ tree.rson[node] = NIL /\ First(p) = textBuf[node]
    BY <1>1, ChildProperties
<1>4. /\ Forest(tree, textBuf) /\ Linked = LinkedIn(tree) /\ Parents = ParentsIn(tree) /\ Linked \subseteq Ring
      /\ First(p) = FirstIn(textBuf, p)
    BY <1>2, ForestNow
<1>5. tree' = HungIn(tree, p, node) /\ textBuf' = textBuf
    BY <1>1, <1>3 DEF HungIn
<1>6. Forest(tree', textBuf') /\ Linked' = Linked \cup {node}
  <2>1. Forest(HungIn(tree, p, node), textBuf) /\ LinkedIn(HungIn(tree, p, node)) = LinkedIn(tree) \cup {node}
    <3>1. /\ node \notin LinkedIn(tree) /\ p \in ParentsIn(tree)
          /\ tree.rson[p] = NIL /\ FirstIn(textBuf, p) = textBuf[node]
        BY <1>1, <1>3, <1>4
    <3>2. IsBare(tree, node) /\ IsEnd(tree, p)
        BY <1>3, <3>1 DEF IsBare, IsEnd
    <3>3. node \in Ring /\ Forest(tree, textBuf)
        BY <1>3, <1>4
    <3> QED
        BY <3>1, <3>2, <3>3, HangProperties
  <2> QED
      BY <1>4, <1>5, <2>1, ForestThen
<1>7. Inserted
    BY <1>1, <1>6 DEF Inserted, encodeVars
<1>8. \A q \in Linked : NoLonger(q)
  <2> SUFFICES ASSUME NEW q \in Linked PROVE NoLonger(q)
      OBVIOUS
  <2>1. CASE textBuf[q] = textBuf[node]
    <3> DEFINE T == {p}
    <3>1. T \in SUBSET Slot /\ p \in T
        BY <1>2 DEF TypeOK
    <3>2. Follows(T)
        BY <1>1, <1>3 DEF Follows
    <3>3. q \in T \/ NoLonger(q)
        BY <1>1, <1>2, <2>1, <3>1, <3>2 DEF EncodeInv, Searching
    <3>4. p \in Linked => NoLonger(p)
        BY <1>1, <1>2 DEF EncodeInv, Searching
    <3> QED
        BY <3>3, <3>4
  <2>2. CASE textBuf[q] # textBuf[node]
    <3> SUFFICES ASSUME NEW n \in 1 .. F, Same(q, node, n) PROVE FALSE
        BY DEF NoLonger
    <3>1. 0 \in 0 .. n - 1 /\ q + 0 = q /\ node + 0 = node
        BY <1>3, <1>4, Sizes DEF Ring
    <3>2. textBuf[q + 0] = textBuf[node + 0]
        BY <3>1 DEF Same
    <3> QED
        BY <2>2, <3>1, <3>2
  <2> QED
      BY <2>1, <2>2
<1>9. Inserting /\ matchLength' > 0 =>
          Back(matchPosition') \in 1 .. N - F /\ Same(matchPosition', r, matchLength')
    BY <1>1, <1>2 DEF EncodeInv, Found
<1>10. cmp' \in Words /\ matchLength' \in Lengths /\ matchPosition' \in Ring /\ matchLength' = matchLength
    BY <1>1, <1>2 DEF TypeOK
<1> QED
    BY <1>1, <1>6, <1>7, <1>8, <1>9, <1>10, ReturnInv

\* A string that is the same up to its end is the longest there is.
LEMMA SupersedeInv ==
    ASSUME IndInv, Supersede
    PROVE  IndInv'
<1>1. /\ pc = "search" /\ Child # NIL /\ Common(node, Child) = F /\ Compared(F)
      /\ tree' = Replace(tree, Child, node)
      /\ pc' = back /\ UNCHANGED <<input, textBuf, r, ulPos, encodeVars, node, p, back, decodeVars>>
    BY DEF Supersede, Returns
<1>2. TypeOK /\ EncodeInv /\ Encoding
    BY <1>1 DEF IndInv, Encoding
<1>3. /\ node \in Ring /\ node \notin Linked
      /\ Child \in Linked /\ Child # node /\ Child \in Ring
      /\ textBuf[Child] = textBuf[node] /\ Back(Child) > 0 /\ Back(Child) <= Reach
    BY <1>1, ChildProperties
<1>4. Same(Child, node, F) /\ F \in 1 .. F
  <2>1. Child \in Int /\ node \in Int
      BY <1>3, Sizes DEF Ring
  <2> QED
      BY <1>1, <1>3, <2>1, CommonProperties
<1>5. Forest(tree', textBuf') /\ Linked' = (Linked \ {Child}) \cup {node}
  <2>1. Forest(tree, textBuf) /\ Linked = LinkedIn(tree)
      BY <1>2, ForestNow
  <2>2. /\ Forest(Replace(tree, Child, node), textBuf)
        /\ LinkedIn(Replace(tree, Child, node)) = (LinkedIn(tree) \ {Child}) \cup {node}
      BY <1>3, <2>1, ReplaceProperties
  <2> QED
      BY <1>1, <2>1, <2>2, ForestThen
<1>6. Inserted
    BY <1>1, <1>4, <1>5 DEF Inserted, encodeVars
<1>7. /\ cmp' \in Words /\ matchLength' \in Lengths /\ matchPosition' \in Ring
      /\ F <= matchLength'
      /\ \/ matchLength' = matchLength /\ matchPosition' = matchPosition
         \/ matchLength' = F /\ matchPosition' = Child
    BY <1>1, <1>4, ComparedProperties
<1>8. matchLength' = F
    BY <1>7, Sizes DEF Lengths
<1>9. ASSUME Inserting
      PROVE  Back(matchPosition') \in 1 .. N - F /\ Same(matchPosition', r, matchLength')
  <2>1. node = r
      BY <1>2, <1>9 DEF EncodeInv, Phase
  <2>2. CASE matchLength' = matchLength /\ matchPosition' = matchPosition
      BY <1>2, <1>8, <1>9, <2>2, Sizes DEF EncodeInv, Found
  <2>3. CASE matchLength' = F /\ matchPosition' = Child
    <3>1. Back(Child) \in 1 .. N - F
      <4>1. Reach <= N - F /\ Reach \in Int
          BY <1>1, NodeProperties
      <4>2. Back(Child) \in Int
          BY <1>3, Sizes, Numbers DEF Back, Ring
      <4> QED
          BY <1>3, <4>1, <4>2, Sizes
    <3> QED
        BY <1>4, <2>1, <2>3, <3>1
  <2> QED
      BY <1>7, <2>2, <2>3
<1> QED
    BY <1>1, <1>5, <1>6, <1>7, <1>8, <1>9, ReturnInv

-----------------------------------------------------------------------------
(* The next place of the ring                                              *)

\* One octet of the look-ahead has become part of the window, whose strings are
\* what they were, except for the one at s.
Advanced ==
    /\ pc = "shift" /\ i < last /\ s' = Following(s) /\ r' = Following(r) /\ Past' = Past + 1
    /\ i' = i + 1 /\ last' = last /\ input' = input /\ codeBuf' = codeBuf /\ mask' = mask /\ code' = code
    /\ \A q \in Ring, k \in 0 .. F - 1 : Back(q) <= N - F - 1 => textBuf'[q + k] = textBuf[q + k]

LEMMA AdvanceProperties ==
    ASSUME IndInv, pc = "shift", s' = Following(s), r' = Following(r), Past' = Past + 1
    PROVE  /\ r' \in Ring /\ s' \in Ring /\ s \in Ring /\ r' = Behind(r, 1) /\ s' = Behind(r', F)
           /\ \A q \in Ring : Back(q) \in Int /\ Back(q) >= 0
           /\ \A q \in Ring : Back(q) <= N - F - 1 => Back(q)' = Back(q) + 1
           /\ \A q \in Ring : q # s /\ Back(q) <= N - F => Back(q) <= N - F - 1
           /\ Back(s) = N - F
           /\ \A d \in 0 .. N - F - 1 : Place(d + 1)' = Place(d) /\ Place(d) \in Ring /\ Back(Place(d)) = d
           /\ Past \in Int /\ Past >= 0 /\ Reach \in Int /\ Reach' \in Int /\ Reach <= N - F /\ Reach' <= N - F
           /\ Reach' <= Reach + 1 /\ (Reach < N - F => Reach' = Reach + 1) /\ Reach <= Reach'
           /\ Reach >= N - F => Past >= N - 2 * F
           /\ \A k \in 0 .. F - 1 : Behind(r', k) = Behind(r, k + 1)
           /\ Past' < N + F => r' = (IF Past' < F THEN N - F + Past' ELSE Past' - F)
<1>1. /\ r \in Int /\ 0 <= r /\ r < N /\ s \in Int /\ 0 <= s /\ s < N /\ Past \in Int /\ Past >= 0
      /\ s = (IF r + F < N THEN r + F ELSE r + F - N)
      /\ Past < N + F => r = (IF Past < F THEN N - F + Past ELSE Past - F)
  <2>1. EncodeInv
      BY DEF IndInv, Encoding
  <2>2. len <= ulPos /\ s = Behind(r, F) /\ (Past < N + F => r = (IF Past < F THEN N - F + Past ELSE Past - F))
      BY <2>1 DEF EncodeInv, Phase
  <2> QED
      BY <2>2, Numbers DEF Past, Behind
<1>2. N \in Int /\ F \in Int /\ 2 <= F /\ 2 * F <= N
    BY Sizes
<1>3. r' = (IF r + 1 < N THEN r + 1 ELSE 0) /\ s' = (IF s + 1 < N THEN s + 1 ELSE 0)
  <2>1. \A x \in 0 .. 2 * N - 1 : x % N = IF x < N THEN x ELSE x - N
      BY RingMod
  <2>2. r + 1 \in 0 .. 2 * N - 1 /\ s + 1 \in 0 .. 2 * N - 1
      BY <1>1, <1>2
  <2>3. r + 1 - N = 0 \/ r + 1 < N
      BY <1>1, <1>2
  <2>4. s + 1 - N = 0 \/ s + 1 < N
      BY <1>1, <1>2
  <2> QED
      BY <1>1, <1>2, <2>1, <2>2, <2>3, <2>4 DEF Following
<1>4. r' \in Ring /\ s' \in Ring /\ s \in Ring
    BY <1>1, <1>2, <1>3 DEF Ring
<1>5. r' = Behind(r, 1) /\ s' = Behind(r', F) /\ \A k \in 0 .. F - 1 : Behind(r', k) = Behind(r, k + 1)
    BY <1>1, <1>2, <1>3 DEF Behind
<1>6. \A q \in Ring : q \in Int /\ 0 <= q /\ q < N
    BY <1>2 DEF Ring
<1>7. /\ \A q \in Ring : Back(q) \in Int /\ Back(q) >= 0
      /\ \A q \in Ring : q # s /\ Back(q) <= N - F => Back(q) <= N - F - 1
      /\ Back(s) = N - F
    BY <1>1, <1>2, <1>6 DEF Back
<1>8. \A q \in Ring : Back(q) <= N - F - 1 => Back(q)' = Back(q) + 1
    BY <1>1, <1>2, <1>3, <1>6 DEF Back
<1>9. \A d \in 0 .. N - F - 1 : Place(d + 1)' = Place(d) /\ Place(d) \in Ring /\ Back(Place(d)) = d
    BY <1>1, <1>2, <1>3 DEF Place, Back, Ring
<1>10. /\ Reach = (IF F + Past < N - F THEN F + Past ELSE N - F)
       /\ Reach' = (IF F + Past + 1 < N - F THEN F + Past + 1 ELSE N - F)
  <2>1. Reach' = Lower(N - F, F + Past')
      BY DEF Reach, Lower
  <2> QED
      BY <1>1, <1>2, <2>1 DEF Reach, Lower
<1>11. /\ Reach \in Int /\ Reach' \in Int /\ Reach <= N - F /\ Reach' <= N - F
       /\ Reach' <= Reach + 1 /\ (Reach < N - F => Reach' = Reach + 1) /\ Reach <= Reach'
       /\ Reach >= N - F => Past >= N - 2 * F
    BY <1>1, <1>2, <1>10
<1>12. Past' < N + F => r' = (IF Past' < F THEN N - F + Past' ELSE Past' - F)
    BY <1>1, <1>2, <1>3
<1> QED
    BY <1>1, <1>4, <1>5, <1>7, <1>8, <1>9, <1>11, <1>12

\* The string at s is out of the trees before its first octet is overwritten, and
\* the next string is not yet in them.
LEMMA AdvanceTrees ==
    ASSUME IndInv, Advanced
    PROVE  LET t == DeleteNode(tree, s) IN
           /\ Forest(t, textBuf') /\ LinkedIn(t) = Linked \ {s} /\ r' \notin LinkedIn(t)
           /\ \A q \in Linked \ {s} : q \in Ring /\ Back(q) >= 0 /\ Back(q) <= N - F - 1 /\ Back(q)' = Back(q) + 1
                                      /\ Back(q)' > 0 /\ Back(q)' <= Reach'
<1> DEFINE t == DeleteNode(tree, s)
<1>1. /\ r' \in Ring /\ s \in Ring
      /\ \A q \in Ring : Back(q) \in Int /\ Back(q) >= 0
      /\ \A q \in Ring : Back(q) <= N - F - 1 => Back(q)' = Back(q) + 1
      /\ \A q \in Ring : q # s /\ Back(q) <= N - F => Back(q) <= N - F - 1
      /\ Reach \in Int /\ Reach' \in Int /\ Reach <= N - F /\ (Reach < N - F => Reach' = Reach + 1) /\ Reach <= Reach'
    BY AdvanceProperties DEF Advanced
<1>2. EncodeInv /\ Encoding
    BY DEF IndInv, Encoding, Advanced
<1>3. Forest(tree, textBuf) /\ Linked = LinkedIn(tree) /\ Linked \subseteq Ring
    BY <1>2, ForestNow
<1>4. Forest(t, textBuf) /\ LinkedIn(t) = Linked \ {s}
    BY <1>1, <1>3, DeleteNodeProperties
<1> HIDE DEF t
<1>5. \A q \in Linked : Back(q) <= Reach
    BY <1>2 DEF EncodeInv, Places
<1>6. ASSUME NEW q \in Linked \ {s}
      PROVE  /\ q \in Ring /\ Back(q) >= 0 /\ Back(q) <= N - F - 1 /\ Back(q)' = Back(q) + 1
             /\ Back(q)' > 0 /\ Back(q)' <= Reach'
  <2>1. q \in Ring /\ q # s /\ Back(q) <= Reach
      BY <1>3, <1>5
  <2>2. Back(q) \in Int /\ Back(q) >= 0 /\ Back(q) <= N - F
      BY <1>1, <2>1, Sizes
  <2>3. Back(q) <= N - F - 1 /\ Back(q)' = Back(q) + 1
      BY <1>1, <2>1, <2>2
  <2>4. Back(q) + 1 <= Reach'
      BY <1>1, <2>1, <2>2, <2>3, Sizes
  <2> QED
      BY <2>1, <2>2, <2>3, <2>4
<1>7. \A q \in LinkedIn(t) : textBuf'[q] = textBuf[q]
  <2> SUFFICES ASSUME NEW q \in Linked \ {s} PROVE textBuf'[q] = textBuf[q]
      BY <1>4
  <2>1. q \in Ring /\ Back(q) <= N - F - 1 /\ 0 \in 0 .. F - 1
      BY <1>6, Sizes
  <2>2. textBuf'[q + 0] = textBuf[q + 0]
      BY <2>1 DEF Advanced
  <2>3. q + 0 = q
      BY <2>1, Sizes DEF Ring
  <2> QED
      BY <2>2, <2>3
<1>8. Forest(t, textBuf')
    BY <1>4, <1>7, ForestOver
<1>9. r' \notin LinkedIn(t)
  <2> SUFFICES ASSUME r' \in Linked \ {s} PROVE FALSE
      BY <1>4
  <2>1. Back(r') <= N - F - 1
      BY <1>6
  <2>2. r \in Int /\ 0 <= r /\ r < N /\ r' \in Int /\ r' \in 0 .. N - 1
      BY <1>1, Numbers, Sizes DEF Ring
  <2>3. r' = Behind(r, 1)
      BY AdvanceProperties DEF Advanced
  <2>4. Back(r') = N - 1
      BY <2>2, <2>3, Sizes DEF Back, Behind
  <2> QED
      BY <2>1, <2>4, Sizes
<1> QED
    BY <1>4, <1>6, <1>8, <1>9 DEF t

\* What the trees stand for when the next string is about to be inserted.
LEMMA AdvanceInserts ==
    ASSUME IndInv, Advanced, pc' = "search", back' = "shift", Linked' = Linked \ {s}
    PROVE  Places' /\ Represented' /\ Spared'
<1>1. EncodeInv /\ After
  <2>1. EncodeInv
      BY DEF IndInv, Encoding, Advanced
  <2>2. last - i <= len
      BY <2>1 DEF EncodeInv, Phase, Advanced
  <2>3. len > 0
      BY <2>2, Numbers DEF Advanced
  <2> QED
      BY <2>1, <2>3 DEF After, Advanced
<1>2. /\ \A d \in 0 .. N - F - 1 : Place(d + 1)' = Place(d) /\ Place(d) \in Ring /\ Back(Place(d)) = d
      /\ Past \in Int /\ Past >= 0 /\ Reach \in Int /\ Reach' \in Int /\ Reach <= N - F /\ Reach' <= N - F
      /\ Reach' <= Reach + 1 /\ (Reach >= N - F => Past >= N - 2 * F) /\ Back(s) = N - F
    BY AdvanceProperties DEF Advanced
<1>3. \A q \in Linked' : /\ q \in Ring /\ q \in Linked /\ Back(q) <= N - F - 1 /\ Back(q)' = Back(q) + 1
                         /\ Back(q)' > 0 /\ Back(q)' <= Reach' /\ Back(q) \in Int
  <2>1. \A q \in Ring : Back(q) \in Int
      BY AdvanceProperties DEF Advanced
  <2> QED
      BY <2>1, AdvanceTrees
<1>4. Places'
    BY <1>3 DEF Places
<1>5. N \in Int /\ F \in Int /\ 2 <= F /\ 2 * F <= N
    BY Sizes
\* Strings of the window, and strings that are in the trees, are what they were.
<1>6. ASSUME NEW d \in 0 .. N - F - 1, NEW q \in Linked', NEW n \in 0 .. F, Same(Place(d), q, n)
      PROVE  Same(Place(d + 1), q, n)'
  <2>1. Place(d + 1)' = Place(d)
      BY <1>2
  <2> SUFFICES ASSUME NEW k \in 0 .. n - 1
               PROVE  textBuf'[Place(d) + k] = textBuf'[q + k]
      BY <2>1 DEF Same
  <2>2. k \in 0 .. F - 1
      BY <1>5, <1>6
  <2>3. textBuf'[Place(d) + k] = textBuf[Place(d) + k]
    <3>1. Place(d) \in Ring /\ Back(Place(d)) <= N - F - 1
        BY <1>2, <1>5
    <3> QED
        BY <2>2, <3>1 DEF Advanced
  <2>4. textBuf'[q + k] = textBuf[q + k]
      BY <1>3, <2>2 DEF Advanced
  <2>5. textBuf[Place(d) + k] = textBuf[q + k]
      BY <1>6 DEF Same
  <2> QED
      BY <2>3, <2>4, <2>5
<1>7. ASSUME NEW d \in 0 .. N - F - 1
      PROVE  Early(d + 1)' = Early(d)
  <2>1. Place(d + 1)' = Place(d) /\ Place(d) \in Ring /\ Back(Place(d)) <= N - F - 1
      BY <1>2, <1>5
  <2>2. \A k \in 0 .. F - 1 : textBuf'[Place(d) + k] = textBuf[Place(d) + k]
      BY <2>1 DEF Advanced
  <2>3. (d + 1 > Past') = (d > Past)
      BY <1>2, <1>5 DEF Advanced
  <2>4. Spaces(Place(d + 1))' = Spaces(Place(d))
      BY <2>1, <2>2 DEF Spaces
  <2> QED
      BY <2>3, <2>4 DEF Early
<1>8. \A d \in 1 .. Reach' : d - 1 \in 0 .. N - F - 1 /\ d - 1 \in 0 .. Reach /\ (d - 1) + 1 = d
    BY <1>2, <1>5
<1>9. Represented'
  <2> SUFFICES ASSUME NEW d \in 1 .. Reach' PROVE Kept(d)' \/ Lost(d)'
      BY DEF Represented, After
  <2> DEFINE e == d - 1
  <2>1. e \in 0 .. N - F - 1 /\ e \in 0 .. Reach /\ e + 1 = d
      BY <1>8
  <2> HIDE DEF e
  <2>2. Kept(e) \/ Lost(e)
      BY <1>1, <2>1 DEF EncodeInv, Represented
  <2>3. Early(d)' = Early(e)
      BY <1>7, <2>1
  <2>4. CASE Lost(e)
    <3>1. Early(e) /\ Past > N - 2 * F
        BY <2>4 DEF Lost
    <3>2. Past' > N - 2 * F
        BY <1>2, <1>5, <3>1 DEF Advanced
    <3> QED
        BY <2>3, <3>1, <3>2 DEF Lost
  <2>5. CASE Kept(e)
    <3>1. PICK q \in Linked : Same(Place(e), q, F) /\ (Back(q) <= e \/ Early(e))
        BY <2>5 DEF Kept
    <3>2. CASE q = s
      <4>1. Early(e)
          BY <1>2, <1>5, <2>1, <3>1, <3>2
      <4>2. Past >= N - 2 * F
        <5>1. Back(s) <= Reach
            BY <1>1, <3>2 DEF EncodeInv, Places
        <5> QED
            BY <1>2, <5>1
      <4>3. Past' > N - 2 * F
          BY <1>2, <1>5, <4>2 DEF Advanced
      <4> QED
          BY <2>3, <4>1, <4>3 DEF Lost
    <3>3. CASE q # s
      <4>1. q \in Linked'
          BY <3>3
      <4>2. F \in 0 .. F
          BY <1>5
      <4>3. Same(Place(d), q, F)'
          BY <1>6, <2>1, <3>1, <4>1, <4>2
      <4>4. Back(q)' <= d \/ Early(d)'
          BY <1>3, <2>1, <2>3, <3>1, <4>1
      <4> QED
          BY <4>1, <4>3, <4>4 DEF Kept
    <3> QED
        BY <3>2, <3>3
  <2> QED
      BY <2>2, <2>4, <2>5
<1>10. Spared'
  <2> SUFFICES ASSUME NEW d \in 0 .. Reach', Early(d)'
               PROVE  \E q \in Linked' : Back(q)' <= d /\ Same(Place(d), q, F - 1)'
      BY DEF Spared
  <2>1. d \in 1 .. Reach'
    <3>1. d > Past'
        BY DEF Early
    <3> QED
        BY <1>2, <3>1 DEF Advanced
  <2> DEFINE e == d - 1
  <2>2. e \in 0 .. N - F - 1 /\ e \in 0 .. Reach /\ e + 1 = d
      BY <1>8, <2>1
  <2> HIDE DEF e
  <2>3. Early(e)
      BY <1>7, <2>2
  <2>4. PICK q \in Linked : Back(q) <= e /\ Same(Place(e), q, F - 1)
      BY <1>1, <2>2, <2>3 DEF EncodeInv, Spared
  <2>5. q \in Linked'
      BY <1>2, <1>5, <2>2, <2>4
  <2>6. F - 1 \in 0 .. F
      BY <1>5
  <2>7. Same(Place(d), q, F - 1)'
      BY <1>6, <2>2, <2>4, <2>5, <2>6
  <2>8. Back(q)' <= d
      BY <1>3, <2>2, <2>4, <2>5
  <2> QED
      BY <2>5, <2>7, <2>8
<1> QED
    BY <1>4, <1>9, <1>10

\* Where the program is when the next string is about to be inserted, or, at the
\* end of the text, no other is.
Proceeds ==
    /\ \/ pc' = "search" /\ back' = "shift" /\ node' = r' /\ len' > 0
       \/ pc' = "shift" /\ len' = 0
    /\ len' \in Int /\ len' <= ulPos' /\ ulPos' <= Len(input) /\ (len' < F => ulPos' = Len(input))
    /\ last - (i + 1) <= len'

LEMMA AdvancePhase ==
    ASSUME IndInv, Advanced, Proceeds
    PROVE  Phase'
<1>1. s' = Behind(r', F) /\ (Past' < N + F => r' = (IF Past' < F THEN N - F + Past' ELSE Past' - F))
    BY AdvanceProperties DEF Advanced
<1>2. last > 0
    BY DEF IndInv, Encoding, EncodeInv, Phase, Advanced
<1>3. i' > 0 /\ last' - i' <= len' /\ last' > 0
    BY <1>2, Numbers DEF Advanced, Proceeds
<1>4. input' = input /\ Behind(r, F)' = Behind(r', F)
    BY DEF Advanced, Behind
<1> QED
    BY <1>1, <1>3, <1>4 DEF Phase, Inserting, Proceeds

\* Until the last of the units that were sent is replaced, i is below last.
LEMMA ShiftNumbers ==
    ASSUME IndInv, pc = "shift", i < last
    PROVE  /\ TypeOK /\ EncodeInv /\ Encoding
           /\ len \in Int /\ 0 < len /\ len <= F /\ last - i <= len /\ len <= ulPos /\ ulPos <= Len(input)
           /\ (len < F => ulPos = Len(input)) /\ ulPos \in Nat /\ i + 1 \in Turns
<1>1. TypeOK /\ EncodeInv /\ Encoding
    BY DEF IndInv, Encoding
<1>2. last - i <= len /\ len <= ulPos /\ ulPos <= Len(input) /\ (len < F => ulPos = Len(input))
    BY <1>1 DEF EncodeInv, Phase
<1>3. len \in Int /\ 0 < len /\ len <= F
    BY <1>2, Numbers
<1>4. i + 1 \in Turns /\ ulPos \in Nat
    BY <1>1, Numbers, Sizes DEF Turns, TypeOK
<1> QED
    BY <1>1, <1>2, <1>3, <1>4

\* What is common to the two ways in which the next string is inserted.
LEMMA AdvanceInv ==
    ASSUME IndInv, Advanced, Insert(DeleteNode(tree, s), r', "shift"), textBuf' \in Written,
           len' \in Lengths, ulPos' \in Nat, len' > 0, UNCHANGED decodeVars,
           Phase', Doubled', LookAhead'
    PROVE  IndInv'
<1> DEFINE t == DeleteNode(tree, s)
<1>1. Forest(t, textBuf') /\ LinkedIn(t) = Linked \ {s} /\ r' \notin LinkedIn(t)
    BY AdvanceTrees
<1>2. r' \in Ring /\ s' \in Ring
    BY AdvanceProperties DEF Advanced
<1>3. Insert(t, r', "shift")
    OBVIOUS
<1> HIDE DEF t
<1>4. /\ node' = r' /\ pc' = "search" /\ matchLength' = 0 /\ back' = "shift" /\ matchPosition' = matchPosition
      /\ cmp' \in Words /\ p' \in Slot /\ tree' \in Trees
      /\ Linked' = LinkedIn(t) /\ Chains' /\ Reachable' /\ Searching'
    BY <1>1, <1>2, <1>3, InsertProperties
<1>5. TypeOK /\ EncodeInv /\ i + 1 \in Turns
    BY ShiftNumbers DEF Advanced
<1>6. TypeOK'
  <2>1. 0 \in Lengths /\ i' \in Turns
      BY <1>5, Sizes DEF Lengths, Advanced
  <2>2. textBuf' \in Buffers
      BY WrittenBuffers
  <2> QED
      BY <1>2, <1>4, <1>5, <2>1, <2>2 DEF TypeOK, Advanced, decodeVars
<1>7. Collected' /\ Filled'
    BY <1>4, <1>5 DEF EncodeInv, Collected, Filled, Beginning, Advanced
<1>8. Places' /\ Represented' /\ Spared'
    BY <1>1, <1>4, AdvanceInserts
<1>9. Found' /\ Longest'
    BY <1>4 DEF Found, Longest, Compares
<1> QED
    BY <1>4, <1>6, <1>7, <1>8, <1>9 DEF IndInv, EncodeInv

\* The octet that was stored belongs to the look-ahead, and no string of the window
\* but the one at s has it.
LEMMA ShiftInInv ==
    ASSUME IndInv, ShiftIn
    PROVE  IndInv'
<1> DEFINE c == input[ulPos + 1]
<1>1. /\ pc = "shift" /\ i < last /\ ulPos < Len(input) /\ textBuf' = Stored(c) /\ ulPos' = ulPos + 1
      /\ s' = Following(s) /\ r' = Following(r) /\ i' = i + 1
      /\ Insert(DeleteNode(tree, s), r', "shift")
      /\ UNCHANGED <<input, len, last, codeBuf, mask, code, decodeVars>>
    BY DEF ShiftIn
<1>2. /\ TypeOK /\ EncodeInv /\ len = F /\ F <= ulPos /\ ulPos \in Nat
      /\ Past = ulPos - F /\ last - i <= F /\ Len(input) \in Nat /\ input \in Text
  <2>1. TypeOK /\ EncodeInv /\ len \in Int /\ len <= F /\ len <= ulPos /\ (len < F => ulPos = Len(input))
        /\ ulPos \in Nat /\ last - i <= len
      BY <1>1, ShiftNumbers
  <2>2. input \in Text /\ Len(input) \in Nat
      BY <2>1, TextProperties DEF TypeOK
  <2>3. len = F
      BY <1>1, <2>1, <2>2, Sizes
  <2> QED
      BY <2>1, <2>2, <2>3 DEF Past
<1>3. c \in Octet
  <2>1. ulPos + 1 \in 1 .. Len(input)
      BY <1>1, <1>2
  <2> QED
      BY <1>2, <2>1, TextProperties
<1>4. Past' = Past + 1
    BY <1>1, <1>2, Sizes DEF Past
<1>5. N \in Int /\ F \in Int /\ 2 <= F /\ 2 * F <= N
    BY Sizes
<1>6. /\ r \in Int /\ 0 <= r /\ r < N /\ s \in Int /\ 0 <= s /\ s < N
      /\ s = (IF r + F < N THEN r + F ELSE r + F - N)
      /\ Past < N + F => r = (IF Past < F THEN N - F + Past ELSE Past - F)
    BY <1>2, Numbers DEF EncodeInv, Phase, Behind
<1> HIDE DEF c
<1>7. /\ textBuf \in Written /\ textBuf' \in Written
      /\ \A q \in 0 .. N + F - 2 : textBuf'[q] = IF q = s \/ (s < F - 1 /\ q = s + N) THEN c ELSE textBuf[q]
  <2>1. textBuf \in Written
      BY <1>2 DEF EncodeInv
  <2>2. DOMAIN textBuf = 0 .. N + F - 2
      BY <2>1 DEF Written
  <2>3. textBuf' = [q \in 0 .. N + F - 2 |-> IF q = s \/ (s < F - 1 /\ q = s + N) THEN c ELSE textBuf[q]]
      BY <1>1, <2>2 DEF Stored
  <2>4. \A q \in 0 .. N + F - 2 : textBuf[q] \in Octet
      BY <2>1 DEF Written
  <2> QED
      BY <1>3, <2>1, <2>3, <2>4 DEF Written
<1>8. Advanced
  <2>1. ASSUME NEW q \in Ring, NEW k \in 0 .. F - 1, Back(q) <= N - F - 1
        PROVE  textBuf'[q + k] = textBuf[q + k]
    <3>1. q \in Int /\ 0 <= q /\ q < N
        BY <1>5 DEF Ring
    <3>2. q + k \in 0 .. N + F - 2
        BY <1>5, <3>1
    <3>3. q + k # s /\ q + k # s + N
        BY <1>5, <1>6, <2>1, <3>1 DEF Back
    <3> QED
        BY <1>7, <3>2, <3>3
  <2> QED
      BY <1>1, <1>4, <2>1 DEF Advanced
<1>9. node' = r' /\ pc' = "search" /\ back' = "shift"
    BY <1>1 DEF Insert
<1>10. len' = F /\ F > 0 /\ len' \in Lengths /\ ulPos' \in Nat
    BY <1>1, <1>2, <1>5 DEF Lengths
<1>11. Phase'
  <2>1. len' <= ulPos' /\ ulPos' <= Len(input) /\ last - (i + 1) <= len' /\ len' \in Int /\ len' > 0 /\ ~(len' < F)
      BY <1>1, <1>2, <1>5, <1>10, Numbers
  <2>2. Proceeds
      BY <1>9, <2>1 DEF Proceeds
  <2> QED
      BY <1>8, <2>2, AdvancePhase
<1>12. Doubled'
  <2> SUFFICES ASSUME NEW q \in 0 .. F - 2, q < ulPos' - F PROVE textBuf'[N + q] = textBuf'[q]
      BY DEF Doubled
  <2>1. N + q \in 0 .. N + F - 2 /\ q \in 0 .. N + F - 2 /\ N + q # s
      BY <1>5, <1>6
  <2>2. CASE q = s
    <3>1. textBuf'[q] = c /\ textBuf'[N + q] = c
        BY <1>5, <1>6, <1>7, <2>1, <2>2
    <3> QED
        BY <3>1
  <2>3. CASE q # s
    <3>1. textBuf'[q] = textBuf[q] /\ textBuf'[N + q] = textBuf[N + q]
        BY <1>5, <1>6, <1>7, <2>1, <2>3
    <3>2. q < ulPos - F
        BY <1>1, <1>2, <1>5, <1>6, <2>3
    <3> QED
        BY <1>2, <3>1, <3>2 DEF EncodeInv, Doubled
  <2> QED
      BY <2>2, <2>3
<1>13. LookAhead'
  <2> SUFFICES ASSUME NEW k \in 0 .. F - 1 PROVE textBuf'[Behind(r', k)] = input[Past' + k + 1]
      BY <1>1, <1>10 DEF LookAhead, Behind
  <2>1. Behind(r', k) = Behind(r, k + 1)
      BY <1>8, AdvanceProperties DEF Advanced
  <2>2. CASE k = F - 1
    <3>1. Behind(r, k + 1) = s /\ s \in 0 .. N + F - 2
        BY <1>5, <1>6, <2>2 DEF Behind
    <3>2. Past' + k + 1 = ulPos + 1
        BY <1>2, <1>4, <1>5, <2>2
    <3> QED
        BY <1>7, <2>1, <3>1, <3>2 DEF c
  <2>3. CASE k # F - 1
    <3>1. k + 1 \in 0 .. F - 1
        BY <1>5, <2>3
    <3>2. textBuf[Behind(r, k + 1)] = input[Past + (k + 1) + 1]
        BY <1>2, <3>1 DEF EncodeInv, LookAhead
    <3>3. Behind(r, k + 1) \in 0 .. N + F - 2 /\ Behind(r, k + 1) # s /\ Behind(r, k + 1) # s + N
        BY <1>5, <1>6, <3>1 DEF Behind
    <3>4. Past + (k + 1) + 1 = Past' + k + 1
        BY <1>2, <1>4, <1>5
    <3> QED
        BY <1>7, <2>1, <3>2, <3>3, <3>4
  <2> QED
      BY <2>2, <2>3
<1>14. len' > 0 /\ UNCHANGED decodeVars
    BY <1>1, <1>10
<1> QED
    BY <1>1, <1>7, <1>8, <1>10, <1>11, <1>12, <1>13, <1>14, AdvanceInv

\* At the end of the text the look-ahead gets shorter, and what was at its
\* beginning becomes part of the window.
LEMMA DrainInv ==
    ASSUME IndInv, Drain
    PROVE  IndInv'
<1>1. /\ pc = "shift" /\ i < last /\ s' = Following(s) /\ r' = Following(r)
      /\ len' = (len - 1) % 65536 /\ i' = i + 1 /\ ~(ulPos < Len(input))
      /\ UNCHANGED <<input, textBuf, ulPos, last, codeBuf, mask, code, decodeVars>>
      /\ \/ len' # 0 /\ Insert(DeleteNode(tree, s), r', "shift")
         \/ len' = 0 /\ tree' = DeleteNode(tree, s) /\ UNCHANGED <<pc, matchVars>>
  <2>1. TypeOK
      BY DEF IndInv
  <2>2. ulPos \in Nat /\ input \in Text
      BY <2>1 DEF TypeOK
  <2>3. Len(input) \in Nat
      BY <2>2, TextProperties
  <2> QED
      BY <2>2, <2>3 DEF Drain
<1>2. /\ TypeOK /\ EncodeInv /\ Encoding /\ len \in Int /\ 0 < len /\ len <= F /\ last - i <= len /\ len <= ulPos
      /\ ulPos <= Len(input) /\ ulPos \in Nat /\ i + 1 \in Turns
    BY <1>1, ShiftNumbers
<1>3. Len(input) \in Nat /\ ulPos = Len(input)
  <2>1. Len(input) \in Nat
      BY <1>2, TextProperties DEF TypeOK
  <2> QED
      BY <1>1, <1>2, <2>1
<1>4. N \in Int /\ F \in Int /\ 2 <= F /\ 2 * F <= N /\ N <= 4096
    BY Sizes, LzssAssumption
<1>5. len' = len - 1
    BY <1>1, <1>2, <1>4
<1>6. Past' = Past + 1 /\ Past = ulPos - len
    BY <1>1, <1>2, <1>5 DEF Past
<1>7. Advanced
    BY <1>1, <1>6 DEF Advanced
<1>8. len' \in Lengths /\ ulPos' \in Nat /\ textBuf' \in Written /\ UNCHANGED decodeVars
  <2>1. textBuf \in Written
      BY <1>2 DEF EncodeInv
  <2> QED
      BY <1>1, <1>2, <1>4, <1>5, <2>1 DEF Lengths
<1>9. Phase'
  <2>1. /\ len' \in Int /\ len' <= ulPos' /\ ulPos' <= Len(input) /\ ulPos' = Len(input)
        /\ last - (i + 1) <= len' /\ (len' # 0 => len' > 0)
      BY <1>1, <1>2, <1>3, <1>5, Numbers
  <2>2. Proceeds
      BY <1>1, <2>1 DEF Proceeds, Insert
  <2> QED
      BY <1>7, <2>2, AdvancePhase
<1>10. Doubled'
    BY <1>1, <1>2 DEF EncodeInv, Doubled
<1>11. LookAhead'
  <2> SUFFICES ASSUME NEW k \in 0 .. len - 2 PROVE textBuf[Behind(r', k)] = input[Past' + k + 1]
      BY <1>1, <1>2, <1>5 DEF LookAhead, Behind
  <2>1. k \in 0 .. F - 1 /\ k + 1 \in 0 .. len - 1
      BY <1>2, <1>4
  <2>2. Behind(r', k) = Behind(r, k + 1)
      BY <1>7, <2>1, AdvanceProperties DEF Advanced
  <2>3. textBuf[Behind(r, k + 1)] = input[Past + (k + 1) + 1]
      BY <1>2, <2>1 DEF EncodeInv, LookAhead
  <2>4. Past + (k + 1) + 1 = Past' + k + 1
      BY <1>2, <1>6
  <2> QED
      BY <2>2, <2>3, <2>4
<1>12. CASE len' # 0
  <2>1. len' > 0
      BY <1>2, <1>5, <1>12
  <2>2. Insert(DeleteNode(tree, s), r', "shift")
      BY <1>1, <1>12
  <2> QED
      BY <1>7, <1>8, <1>9, <1>10, <1>11, <2>1, <2>2, AdvanceInv
<1>13. CASE len' = 0
  <2>1. tree' = DeleteNode(tree, s) /\ pc' = pc /\ UNCHANGED matchVars
      BY <1>1, <1>13
  <2>2. /\ Forest(tree', textBuf') /\ LinkedIn(tree') = Linked \ {s}
        /\ \A q \in Linked \ {s} : Back(q)' <= Reach'
      BY <1>7, <2>1, AdvanceTrees
  <2>3. Chains' /\ Reachable' /\ tree' \in Trees /\ Linked' = Linked \ {s}
      BY <2>2, ForestThen DEF Forest
  <2>4. TypeOK'
    <3>1. s' \in Ring /\ r' \in Ring
        BY <1>7, AdvanceProperties DEF Advanced
    <3>2. textBuf' \in Buffers /\ i' \in Turns
        BY <1>1, <1>2, <1>8, WrittenBuffers
    <3> QED
        BY <1>1, <1>2, <1>8, <2>1, <2>3, <3>1, <3>2 DEF TypeOK, matchVars, decodeVars
  <2>5. Collected' /\ Filled'
      BY <1>1, <1>2, <2>1 DEF EncodeInv, Collected, Filled, Beginning
  <2>6. Places'
      BY <1>1, <2>1, <2>2, <2>3 DEF Places
  <2>7. pc' = "shift" /\ ~(len' > 0)
      BY <1>1, <1>13, <2>1
  <2>8. Searching' /\ Found' /\ Represented' /\ Spared' /\ Longest'
      BY <2>7 DEF Searching, Found, Represented, Spared, Longest, After, Compares, Inserting
  <2> QED
      BY <1>8, <1>9, <1>10, <1>11, <2>3, <2>4, <2>5, <2>6, <2>8 DEF IndInv, EncodeInv
<1> QED
    BY <1>12, <1>13

-----------------------------------------------------------------------------
(* The theorems                                                            *)

\* A step that changes nothing.
LEMMA StutterInv ==
    ASSUME IndInv, UNCHANGED vars
    PROVE  IndInv'
<1>1. /\ pc' = pc /\ input' = input /\ textBuf' = textBuf /\ tree' = tree /\ r' = r /\ ulPos' = ulPos
      /\ s' = s /\ len' = len /\ i' = i /\ last' = last /\ codeBuf' = codeBuf /\ mask' = mask /\ code' = code
      /\ matchPosition' = matchPosition /\ matchLength' = matchLength /\ node' = node /\ p' = p /\ cmp' = cmp
      /\ back' = back /\ UNCHANGED decodeVars
    BY DEF vars, encodeVars, matchVars
<1>2. TypeOK'
    BY <1>1 DEF IndInv, TypeOK, decodeVars
<1>3. CASE ~Encoding
    BY <1>1, <1>2, <1>3 DEF IndInv, Encoding
<1>4. CASE Encoding
  <2>1. EncodeInv
      BY <1>4 DEF IndInv
  <2>2. Phase'
      BY <1>1, <2>1, RingStays DEF EncodeInv, Phase, Inserting, Behind
  <2>3. Collected' /\ Doubled' /\ LookAhead' /\ Filled' /\ Chains' /\ Reachable' /\ (textBuf \in Written)'
      BY <1>1, <2>1, RingStays, TreesStay DEF EncodeInv, Collected, Filled, Beginning, Written
  <2>4. Places'
      BY <1>1, <2>1, RingStays, TreesStay DEF EncodeInv, Places
  <2>5. \A q : NoLonger(q)' = NoLonger(q)
      BY <1>1, RingStays DEF NoLonger
  <2>6. Searching'
      BY <1>1, <2>1, <2>5, TreesStay DEF EncodeInv, Searching
  <2>7. Compares' = Compares /\ After' = After /\ Inserting' = Inserting
      BY <1>1 DEF Compares, After, Inserting
  <2>8. Found'
      BY <1>1, <2>1, <2>7, RingStays DEF EncodeInv, Found
  <2>9. Represented'
      BY <1>1, <2>1, <2>7, RingStays, TreesStay DEF EncodeInv, Represented
  <2>10. Spared'
      BY <1>1, <2>1, <2>7, RingStays, TreesStay DEF EncodeInv, Spared
  <2>11. Longest'
      BY <1>1, <2>1, <2>7, RingStays DEF EncodeInv, Longest
  <2> QED
      BY <1>2, <2>2, <2>3, <2>4, <2>6, <2>8, <2>9, <2>10, <2>11 DEF IndInv, EncodeInv
<1> QED
    BY <1>3, <1>4

\* IndInv is invariant.
THEOREM Invariance == Spec => []IndInv
<1>1. Init => IndInv
    BY InitInv
<1>2. IndInv /\ [Next]_vars => IndInv'
  <2> SUFFICES ASSUME IndInv, [Next]_vars PROVE IndInv'
      OBVIOUS
  <2>1. CASE Encode
      BY <2>1, BeginInv, PrimeInv, AttachInv, WalkInv, SupersedeInv, SendInv, ShiftInInv, DrainInv, TurnInv DEF Encode
  <2>2. CASE Decode \/ NoMemory \/ Ended
      BY <2>2, DecodeInv
  <2>3. CASE UNCHANGED vars
      BY <2>3, StutterInv
  <2> QED
      BY <2>1, <2>2, <2>3 DEF Next
<1> QED
    BY <1>1, <1>2, PTL DEF Spec

\* Every variable has its type: what Encode keeps in its unsigned shorts and
\* octets fits there.
THEOREM TypeCorrect == Spec => []TypeOK
<1>1. IndInv => TypeOK
    BY DEF IndInv
<1> QED
    BY <1>1, Invariance, PTL

\* The trees are sound in every state of Encode: no node that DeleteNode has taken
\* out is still somebody's child, and no tree holds a string with another first
\* octet (utility.c:2751).
THEOREM TreesAreSound == Spec => []TreesSound
<1>1. IndInv => TreesSound
  <2> SUFFICES ASSUME IndInv, Encoding
               PROVE  /\ \A q \in Linked :
                           /\ tree.dad[q] \in Parents /\ First(tree.dad[q]) = textBuf[q]
                           /\ q = tree.rson[tree.dad[q]] \/ (tree.dad[q] < N /\ q = tree.lson[tree.dad[q]])
                      /\ \A q \in Parents :
                           /\ tree.rson[q] # NIL => tree.rson[q] \in Linked /\ tree.dad[tree.rson[q]] = q
                           /\ q < N /\ tree.lson[q] # NIL => tree.lson[q] \in Linked /\ tree.dad[tree.lson[q]] = q
      BY DEF IndInv, TreesSound
  <2>1. Chains
      BY DEF IndInv, EncodeInv
  <2>2. \A q \in Parents : q < N => q \in Linked
    <3>1. \A c \in Octet : ~(Root(c) < N)
        BY Sizes DEF Root, Octet
    <3> QED
        BY <3>1 DEF Parents
  <2>3. \A q \in Parents : q < N => tree.lson[q] = NIL
      BY <2>1, <2>2 DEF Chains
  <2> QED
      BY <2>1, <2>3 DEF Chains
<1> QED
    BY <1>1, Invariance, PTL

\* The strings that InsertNode compares go on behind the end of the ring; what is
\* there is what is at its beginning, as far as it matters for the look-ahead.
LEMMA Straight ==
    ASSUME IndInv, pc = "send", NEW q \in Ring, Back(q) <= N - F, NEW k \in 0 .. len - 1
    PROVE  At(q, k) = textBuf[q + k] /\ At(q, k) = textBuf[Behind(q, k)]
<1>1. /\ r \in Int /\ 0 <= r /\ r < N /\ len \in Int /\ len <= F /\ ulPos \in Int
      /\ Past \in Int /\ 0 <= Past /\ Past = ulPos - len /\ (Past < F => r = N - F + Past)
  <2>1. Phase
      BY DEF IndInv, Encoding, EncodeInv
  <2>2. /\ r \in Int /\ 0 <= r /\ r < N /\ len \in Int /\ len <= F /\ ulPos \in Int
        /\ len <= ulPos /\ (Past < N + F => r = (IF Past < F THEN N - F + Past ELSE Past - F))
      BY <2>1, Numbers DEF Phase
  <2> QED
      BY <2>2, Sizes DEF Past
<1>2. N \in Int /\ F \in Int /\ 2 <= F /\ 2 * F <= N
    BY Sizes
<1>3. q \in Int /\ 0 <= q /\ q < N /\ k \in Int /\ 0 <= k /\ k < len
    BY <1>1, <1>2 DEF Ring
<1>4. At(q, k) = textBuf[Behind(q, k)]
  <2>1. q + k \in 0 .. 2 * N - 1
      BY <1>1, <1>2, <1>3
  <2>2. \A x \in 0 .. 2 * N - 1 : x % N = IF x < N THEN x ELSE x - N
      BY RingMod
  <2>3. (q + k) % N = Behind(q, k)
      BY <1>1, <1>2, <1>3, <2>1, <2>2 DEF Behind
  <2> QED
      BY <2>3 DEF At
<1>5. textBuf[Behind(q, k)] = textBuf[q + k]
  <2>1. CASE q + k < N
      BY <2>1 DEF Behind
  <2>2. CASE ~(q + k < N)
    <3> DEFINE j == q + k - N
    <3>1. j \in 0 .. F - 2 /\ N + j = q + k /\ Behind(q, k) = j
        BY <1>1, <1>2, <1>3, <2>2 DEF Behind
    <3>2. j < ulPos - F
      <4>1. CASE Past < F
          BY <1>1, <1>2, <1>3, <4>1 DEF Back
      <4>2. CASE ~(Past < F)
          BY <1>1, <1>2, <1>3, <4>2
      <4> QED
          BY <4>1, <4>2
    <3> HIDE DEF j
    <3>3. textBuf[N + j] = textBuf[j]
        BY <3>1, <3>2 DEF IndInv, Encoding, EncodeInv, Doubled
    <3> QED
        BY <3>1, <3>3
  <2> QED
      BY <2>1, <2>2
<1> QED
    BY <1>4, <1>5

\* What is sent is right: the look-ahead is the next octets of the text, and the
\* match is the same as far as it is inside the look-ahead (utility.c:2727-2738).
THEOREM MatchIsReal == Spec => []MatchReal
<1>1. IndInv => MatchReal
  <2> SUFFICES ASSUME IndInv, pc = "send"
               PROVE  /\ \A k \in 0 .. len - 1 : At(r, k) = input[ulPos - len + k + 1]
                      /\ matchLength > 0 => matchPosition # r /\ Alike(matchPosition, r, Lower(matchLength, len))
      BY DEF MatchReal
  <2>1. /\ r \in Ring /\ Back(r) = 0 /\ Back(r) <= N - F /\ matchPosition \in Ring
        /\ matchLength \in Int /\ len \in Int /\ EncodeInv
      BY Numbers, Sizes DEF IndInv, Encoding, TypeOK, Back
  <2>2. \A k \in 0 .. len - 1 : At(r, k) = input[ulPos - len + k + 1]
    <3> SUFFICES ASSUME NEW k \in 0 .. len - 1 PROVE At(r, k) = input[ulPos - len + k + 1]
        OBVIOUS
    <3>1. At(r, k) = textBuf[Behind(r, k)]
        BY <2>1, Straight
    <3>2. textBuf[Behind(r, k)] = input[Past + k + 1]
        BY <2>1 DEF EncodeInv, LookAhead
    <3> QED
        BY <3>1, <3>2 DEF Past
  <2>3. ASSUME matchLength > 0
        PROVE  matchPosition # r /\ Alike(matchPosition, r, Lower(matchLength, len))
    <3>1. Back(matchPosition) \in 1 .. N - F /\ Same(matchPosition, r, matchLength)
        BY <2>1, <2>3 DEF EncodeInv, Found, Compares
    <3>2. matchPosition # r /\ Back(matchPosition) <= N - F
        BY <2>1, <3>1, Sizes
    <3>3. ASSUME NEW k \in 0 .. Lower(matchLength, len) - 1
          PROVE  At(matchPosition, k) = At(r, k)
      <4>1. k \in 0 .. matchLength - 1 /\ k \in 0 .. len - 1
          BY <2>1 DEF Lower
      <4>2. At(matchPosition, k) = textBuf[matchPosition + k]
          BY <2>1, <3>2, <4>1, Straight
      <4>3. At(r, k) = textBuf[r + k]
          BY <2>1, <4>1, Straight
      <4> QED
          BY <3>1, <4>1, <4>2, <4>3 DEF Same
    <3> QED
        BY <3>2, <3>3 DEF Alike
  <2> QED
      BY <2>2, <2>3
<1> QED
    BY <1>1, Invariance, PTL

\* InsertNode returns the longest match of the window (utility.c:2571-2572), but for
\* one octet of a look-ahead of F spaces while the first of the strings of F spaces
\* are being deleted (utility.c:2573-2574, 2719).
THEOREM MatchIsLongest == Spec => []MatchLongest
<1>1. IndInv => MatchLongest
  <2> SUFFICES ASSUME IndInv, pc = "send", NEW q \in Window, NEW n \in 1 .. len, Alike(q, r, n)
               PROVE  \/ n <= matchLength
                      \/ /\ n = F /\ \A k \in 0 .. F - 1 : At(r, k) = Space
                         /\ Past \in N - 2 * F + 1 .. N - F - 1
      BY DEF MatchLongest
  <2>1. /\ r \in Ring /\ r \in Int /\ 0 <= r /\ r < N /\ Back(r) <= N - F
        /\ len \in Int /\ len <= F /\ Past \in Int /\ EncodeInv
      BY Numbers, Sizes DEF IndInv, Encoding, TypeOK, Back, Past
  <2>2. N \in Int /\ F \in Int /\ 2 <= F /\ 2 * F <= N
      BY Sizes
  <2>3. PICK d \in 1 .. Reach : q = (r + N - d) % N
      BY DEF Window, Reach
  <2>4. d \in Int /\ 1 <= d /\ d <= N - F
      BY <2>1, <2>2, <2>3 DEF Reach, Lower
  <2>5. q = Place(d)
    <3>1. r + N - d \in 0 .. 2 * N - 1
        BY <2>1, <2>2, <2>4
    <3>2. \A x \in 0 .. 2 * N - 1 : x % N = IF x < N THEN x ELSE x - N
        BY RingMod
    <3>3. (r + N - d) % N = IF r + N - d < N THEN r + N - d ELSE r + N - d - N
        BY <2>1, <2>2, <2>4, <3>1, <3>2
    <3> QED
        BY <2>1, <2>2, <2>3, <2>4, <3>3 DEF Place
  <2>6. q \in Ring /\ Back(q) <= N - F
      BY <2>1, <2>2, <2>4, <2>5 DEF Place, Back, Ring
  <2>7. Same(Place(d), r, n)
    <3> SUFFICES ASSUME NEW k \in 0 .. n - 1 PROVE textBuf[q + k] = textBuf[r + k]
        BY <2>5 DEF Same
    <3>1. k \in 0 .. len - 1
        BY <2>1
    <3>2. At(q, k) = textBuf[q + k]
        BY <2>6, <3>1, Straight
    <3>3. At(r, k) = textBuf[r + k]
        BY <2>1, <3>1, Straight
    <3> QED
        BY <3>2, <3>3 DEF Alike
  <2>8. n <= matchLength \/ (n = F /\ Spaces(r) /\ Past > N - 2 * F /\ Past < N - F)
      BY <2>1, <2>3, <2>7 DEF EncodeInv, Longest, Compares
  <2>9. ASSUME n = F, Spaces(r), Past > N - 2 * F, Past < N - F
        PROVE  /\ \A k \in 0 .. F - 1 : At(r, k) = Space
               /\ Past \in N - 2 * F + 1 .. N - F - 1
    <3>1. ASSUME NEW k \in 0 .. F - 1
          PROVE  At(r, k) = Space
      <4>1. k \in 0 .. len - 1
          BY <2>1, <2>2, <2>9
      <4>2. At(r, k) = textBuf[r + k]
          BY <2>1, <4>1, Straight
      <4> QED
          BY <2>9, <4>2 DEF Spaces
    <3>2. Past \in N - 2 * F + 1 .. N - F - 1
        BY <2>1, <2>2, <2>9
    <3> QED
        BY <3>1, <3>2
  <2> QED
      BY <2>8, <2>9
<1> QED
    BY <1>1, Invariance, PTL
==============================================================================
