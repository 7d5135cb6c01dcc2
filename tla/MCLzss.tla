------------------------------- MODULE MCLzss -------------------------------
(***************************************************************************)
(* Model checking Lzss: a ring of eight octets, which are 0, as memset     *)
(* leaves it, and 1, the space; every text shorter than a bound.           *)
(***************************************************************************)
EXTENDS Lzss

MaxText == 11
Short == UNION {[1 .. n -> 0 .. 1] : n \in 0 .. MaxText}
=============================================================================
