---------------------------- MODULE ZixRingHeads ----------------------------
(***************************************************************************)
(* Index arithmetic of the zix ring buffer (zix/ring.cpp).                 *)
(*                                                                         *)
(* A ring of Size bytes is described by two indices: read_head (r) and     *)
(* write_head (w).  The operators below are the inline helpers of the C    *)
(* code.  All of its sums are of values below 2 * Size, and Size is a      *)
(* power of two that divides 2^32, so the 32-bit wrap-around of            *)
(* (w - r + size) is undone by the mask and plain integers describe it.    *)
(***************************************************************************)
EXTENDS Integers

CONSTANT Size       \* ring->size, in bytes

(* zix_ring_new rounds every request up to a power of two; "x & size_mask" *)
(* is a remainder only because of it.                                      *)
ASSUME SizeAssumption ==
  /\ Size \in Nat \ {0}
  /\ \E k \in 0 .. 31 : Size = 2^k

Mask(x) == x % Size

Capacity == Size - 1

-----------------------------------------------------------------------------
(* Plausible bugs of the helpers below.                                    *)

(* The slot that tells a full ring from an empty one forgotten.            *)
FullRingWriteSpace(r, w) ==
  IF r = w THEN Size ELSE IF r < w THEN Mask(r - w + Size) ELSE r - w

(* The mask forgotten where a block ends at the end of buf.                *)
UnmaskedHeadAfterWrite(w, n) ==
  IF w + n <= Size THEN w + n ELSE n - (Size - w)
-----------------------------------------------------------------------------

ReadSpace(r, w) ==
  IF r < w THEN w - r ELSE Mask(w - r + Size)

WriteSpace(r, w) ==
  IF r = w THEN Size - 1
  ELSE IF r < w THEN Mask(r - w + Size) - 1
  ELSE (r - w) - 1

(* The k-th byte copied from or to head h: one memcpy up to the end of     *)
(* buf, a second one from its beginning.                                   *)
Slot(h, k) == IF h + k < Size THEN h + k ELSE k - (Size - h)

(* The head after a copy of n bytes: zix_ring_read and zix_ring_skip mask  *)
(* the sum, zix_ring_write does so only when it did not wrap.              *)
HeadAfterRead(r, n) == Mask(r + n)

HeadAfterWrite(w, n) ==
  IF w + n <= Size THEN Mask(w + n) ELSE n - (Size - w)
=============================================================================
