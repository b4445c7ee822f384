----------------------------- MODULE ByteStream -----------------------------
(***************************************************************************)
(* What a byte ring promises its single writer and its single reader: a    *)
(* bounded, loss-free, ordered stream.  Byte number i of the stream is     *)
(* represented by the number i, so handing out a block in order means      *)
(* handing out consecutive numbers that start at the number of bytes       *)
(* already consumed.                                                       *)
(***************************************************************************)
EXTENDS Integers

CONSTANTS Room,        \* the most bytes the stream can hold
          Blocks       \* the block sizes the two ends ask for

VARIABLES sent,        \* bytes put so far
          rcvd,        \* bytes taken out so far
          got          \* the block handed out last

vars == <<sent, rcvd, got>>

Block(n) == [k \in 0 .. n - 1 |-> rcvd + k]

Init == sent = 0 /\ rcvd = 0 /\ got = [k \in {} |-> 0]

Put(n) ==
  /\ sent + n - rcvd <= Room
  /\ sent' = sent + n
  /\ UNCHANGED <<rcvd, got>>

Get(n) ==
  /\ n <= sent - rcvd
  /\ got' = Block(n)
  /\ rcvd' = rcvd + n
  /\ UNCHANGED sent

Peek(n) ==
  /\ n <= sent - rcvd
  /\ got' = Block(n)
  /\ UNCHANGED <<sent, rcvd>>

Drop(n) ==
  /\ n <= sent - rcvd
  /\ rcvd' = rcvd + n
  /\ UNCHANGED <<sent, got>>

Clear ==
  /\ rcvd' = sent
  /\ UNCHANGED <<sent, got>>

Next ==
  \/ \E n \in Blocks : Put(n) \/ Get(n) \/ Peek(n) \/ Drop(n)
  \/ Clear

Spec == Init /\ [][Next]_vars
=============================================================================
