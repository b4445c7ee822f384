----------------------------- MODULE ZixRingNew -----------------------------
(* zix_ring_new: the ring in use, and beside it the function that chose    *)
(* its size.                                                               *)
EXTENDS ZixRing, NextPowerOfTwo

(* zix_ring_new makes rings of at least the size asked for whose masks     *)
(* are what ZixRing takes them for: in a ring of any size that it chooses  *)
(* and that has these heads, "& size_mask" is the remainder of each sum    *)
(* the two threads mask (zix/ring.cpp:118, 134, 185, 202, 218).            *)
SizeIsRoundedUp ==
  /\ RoundedUp
  /\ \A size \in ChosenSizes :
       size >= Size =>
         \A x \in { write_head - read_head + size, read_head - write_head + size,
                    read_head + rn, write_head + wn } :
           And(x, size - 1) = x % size
=============================================================================
