--------------------------- MODULE NextPowerOfTwo ---------------------------
(***************************************************************************)
(* next_power_of_two of zix/ring.cpp: why the size of a ring satisfies     *)
(* SizeAssumption of ZixRingHeads.  A uint32_t is the set of the positions *)
(* of its 1 bits; "size |= size >> k" is then a union.                     *)
(***************************************************************************)
EXTENDS Integers

CONSTANT Width       \* bits of a uint32_t: 32, fewer for TLC

ASSUME WidthAssumption == Width \in 1 .. 32

Power(k) == 2^k

Bits(n) == {b \in 0 .. Width - 1 : (n \div Power(b)) % 2 = 1}

Weight(S, b) == IF b \in S THEN Power(b) ELSE 0

(* At k, what the bits of S below position k are worth together.           *)
SumBelow(S) ==
  LET sum[k \in 0 .. Width] == IF k = 0 THEN 0 ELSE sum[k - 1] + Weight(S, k - 1)
  IN  sum

Value(S) == SumBelow(S)[Width]

(* size |= size >> k                                                       *)
Smear(S, k) == S \cup {b - k : b \in {c \in S : c >= k}}

(* Plausible bug: one of the five lines forgotten.                         *)
SmearFour(S) == Smear(Smear(Smear(Smear(S, 1), 2), 8), 16)

SmearAll(S) == Smear(Smear(Smear(Smear(Smear(S, 1), 2), 4), 8), 16)

next_power_of_two(size) ==
  (Value(SmearAll(Bits((size - 1) % Power(Width)))) + 1) % Power(Width)

(* The sizes zix_ring_new chooses: at least the request, less than twice   *)
(* it, and a power of two.  A request of 0 or of more than the largest     *)
(* power of two of a uint32_t gives a ring of size 0.                      *)
RoundedUp ==
  \A size \in 0 .. Power(Width) - 1 :
    LET p == next_power_of_two(size) IN
    IF size \in 1 .. Power(Width - 1)
    THEN size <= p /\ p < 2 * size /\ \E k \in 0 .. Width - 1 : p = Power(k)
    ELSE p = 0

ChosenSizes == {next_power_of_two(size) : size \in 1 .. Power(Width - 1)}

(* x & y                                                                   *)
And(x, y) == Value(Bits(x) \cap Bits(y))
=============================================================================
