------------------------------ MODULE MacAddress ------------------------------
(***************************************************************************)
(* calc_mac and what set_mac_addr makes of its results (router_dev.c): the *)
(* hardware addresses of the four interfaces, computed from the one that a *)
(* client sends.  An address is its six octets.  The copies are made by    *)
(* strcpy, which stops behind the first zero octet and, where there is     *)
(* none, goes on behind the source.                                        *)
(***************************************************************************)
EXTENDS Integers, Sequences

Octet == 0 .. 255
Address == [1 .. 6 -> Octet]
Nics == 1 .. 4   \* NIC0, NIC1, WLAN0_WLAN, WLAN1_WLAN, in the order of the calls

\* Mutant: the step is half of an octet's range.
DerivedFar(base, n) == [base EXCEPT ![4] = (base[4] + 128 * n) % 256]

\* addr[3] += 0x10 once more for each address, in an unsigned char.
Derived(base, n) == [base EXCEPT ![4] = (base[4] + 16 * n) % 256]

HasZero(m) == \E i \in 1 .. 6 : m[i] = 0

\* strcpy(to, m): what is behind the first zero octet stays.
CopyToZero(m, to) ==
    [i \in 1 .. 6 |-> IF \E j \in 1 .. (i - 1) : m[j] = 0 THEN to[i] ELSE m[i]]

\* The address that interface n gets.  Without a zero octet the copy is right if
\* the octet behind mac0 is zero, and the terminator that each strcpy then writes
\* behind its array of six octets (router_dev.c:1569) falls on padding or on an
\* array that is still to be written (`ends`); otherwise it runs over the other
\* arrays, this one's source included, and anything may come out.
Copied(base, n, ends, junk) ==
    LET m == Derived(base, n) IN
    IF HasZero(m) THEN CopyToZero(m, junk) ELSE IF ends THEN m ELSE junk

\* Nothing of that happens.
Tidy(base, ends) == ends /\ \A n \in Nics : ~HasZero(Derived(base, n))
=============================================================================
