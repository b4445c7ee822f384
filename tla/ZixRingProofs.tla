--------------------------- MODULE ZixRingProofs ----------------------------
(***************************************************************************)
(* The ring buffer is a loss-free ordered byte stream, for every size,     *)
(* every set of block sizes and any number of bytes, when the loads of the *)
(* reader are not reordered; and why its size is a power of two.           *)
(***************************************************************************)
EXTENDS ZixRingNew, FiniteSetTheorems, WellFoundedInduction, TLAPS

InRing == sent - rcvd

(* The masks undone: plain arithmetic on indices below Size.               *)
LEMMA SlotArithmetic ==
  ASSUME NEW h \in Indices, NEW k \in Indices
  PROVE  /\ Slot(h, k) = IF h + k < Size THEN h + k ELSE h + k - Size
         /\ Slot(h, k) \in Indices
BY SizeAssumption DEF Slot, Indices

LEMMA ReadSpaceArithmetic ==
  ASSUME NEW r \in Indices, NEW w \in Indices
  PROVE  /\ ReadSpace(r, w) = IF r <= w THEN w - r ELSE w - r + Size
         /\ ReadSpace(r, w) \in 0 .. Capacity
BY SizeAssumption DEF ReadSpace, Mask, Indices, Capacity

LEMMA WriteSpaceArithmetic ==
  ASSUME NEW r \in Indices, NEW w \in Indices
  PROVE  WriteSpace(r, w) = Capacity - ReadSpace(r, w)
BY SizeAssumption DEF WriteSpace, ReadSpace, Mask, Indices, Capacity

LEMMA SpacesAreIntegers ==
  ASSUME NEW r \in Indices, NEW w \in Indices
  PROVE  ReadSpace(r, w) \in Int /\ WriteSpace(r, w) \in Int
BY ReadSpaceArithmetic, WriteSpaceArithmetic, SizeAssumption DEF Capacity

LEMMA HeadArithmetic ==
  ASSUME NEW h \in Indices, NEW n \in Indices
  PROVE  HeadAfterRead(h, n) = Slot(h, n) /\ HeadAfterWrite(h, n) = Slot(h, n)
<1>1. HeadAfterRead(h, n) = Slot(h, n)
  BY SizeAssumption DEF HeadAfterRead, Slot, Mask, Indices
<1>2. HeadAfterWrite(h, n) = Slot(h, n)
  BY SizeAssumption DEF HeadAfterWrite, Slot, Mask, Indices
<1> QED BY <1>1, <1>2

(* Advancing a head by n bytes moves n bytes from one space to the other.  *)
LEMMA ReleaseMovesSpace ==
  ASSUME NEW r \in Indices, NEW w \in Indices, NEW n \in Nat, n <= ReadSpace(r, w)
  PROVE  /\ HeadAfterRead(r, n) \in Indices
         /\ ReadSpace(HeadAfterRead(r, n), w) = ReadSpace(r, w) - n
<1>1. n \in Indices
  BY ReadSpaceArithmetic, SizeAssumption DEF Indices, Capacity
<1> DEFINE h == HeadAfterRead(r, n)
<1>2. h = (IF r + n < Size THEN r + n ELSE r + n - Size) /\ h \in Indices
  BY <1>1, HeadArithmetic, SlotArithmetic
<1>3. ReadSpace(r, w) = IF r <= w THEN w - r ELSE w - r + Size
  BY ReadSpaceArithmetic
<1>4. ReadSpace(h, w) = IF h <= w THEN w - h ELSE w - h + Size
  BY <1>2, ReadSpaceArithmetic
<1> HIDE DEF h
<1>5. ReadSpace(h, w) = ReadSpace(r, w) - n
  BY <1>2, <1>3, <1>4, SizeAssumption DEF Indices, Capacity
<1> QED BY <1>2, <1>5 DEF h

LEMMA PublishMovesSpace ==
  ASSUME NEW r \in Indices, NEW w \in Indices, NEW n \in Nat,
         n <= Capacity - ReadSpace(r, w)
  PROVE  /\ HeadAfterWrite(w, n) \in Indices
         /\ ReadSpace(r, HeadAfterWrite(w, n)) = ReadSpace(r, w) + n
<1>1. n \in Indices
  BY ReadSpaceArithmetic, SizeAssumption DEF Indices, Capacity
<1> DEFINE h == HeadAfterWrite(w, n)
<1>2. h = (IF w + n < Size THEN w + n ELSE w + n - Size) /\ h \in Indices
  BY <1>1, HeadArithmetic, SlotArithmetic
<1>3. ReadSpace(r, w) = IF r <= w THEN w - r ELSE w - r + Size
  BY ReadSpaceArithmetic
<1>4. ReadSpace(r, h) = IF r <= h THEN h - r ELSE h - r + Size
  BY <1>2, ReadSpaceArithmetic
<1> HIDE DEF h
<1>5. ReadSpace(r, h) = ReadSpace(r, w) + n
  BY <1>2, <1>3, <1>4, SizeAssumption DEF Indices, Capacity
<1> QED BY <1>2, <1>5 DEF h

(* Slots as seen from the two heads: the write head is the read head plus  *)
(* the bytes in the ring, and distinct offsets are distinct slots.         *)
LEMMA SlotFromReadHead ==
  ASSUME NEW r \in Indices, NEW w \in Indices, NEW k \in Nat,
         k + ReadSpace(r, w) \in Indices
  PROVE  Slot(w, k) = Slot(r, k + ReadSpace(r, w))
<1> DEFINE s == ReadSpace(r, w)
<1>1. s = (IF r <= w THEN w - r ELSE w - r + Size) /\ s \in 0 .. Capacity
  BY ReadSpaceArithmetic
<1>2. k + s \in Indices
  OBVIOUS
<1> HIDE DEF s
<1>3. k \in Indices
  BY <1>1, <1>2, SizeAssumption DEF Indices, Capacity
<1>4. Slot(w, k) = IF w + k < Size THEN w + k ELSE w + k - Size
  BY <1>3, SlotArithmetic
<1>5. Slot(r, k + s) = IF r + (k + s) < Size THEN r + (k + s) ELSE r + (k + s) - Size
  BY <1>2, SlotArithmetic
<1>6. Slot(w, k) = Slot(r, k + s)
  BY <1>1, <1>2, <1>3, <1>4, <1>5, SizeAssumption DEF Indices, Capacity
<1> QED BY <1>6 DEF s

LEMMA SlotInjective ==
  ASSUME NEW h \in Indices, NEW i \in Indices, NEW j \in Indices, i # j
  PROVE  Slot(h, i) # Slot(h, j)
<1>1. Slot(h, i) = IF h + i < Size THEN h + i ELSE h + i - Size
  BY SlotArithmetic
<1>2. Slot(h, j) = IF h + j < Size THEN h + j ELSE h + j - Size
  BY SlotArithmetic
<1> QED BY <1>1, <1>2, SizeAssumption DEF Indices

LEMMA SlotAfterRead ==
  ASSUME NEW r \in Indices, NEW n \in Indices, NEW k \in Nat, n + k \in Indices
  PROVE  Slot(HeadAfterRead(r, n), k) = Slot(r, n + k)
<1> DEFINE h == HeadAfterRead(r, n)
<1>1. k \in Indices
  BY SizeAssumption DEF Indices
<1>2. h = (IF r + n < Size THEN r + n ELSE r + n - Size) /\ h \in Indices
  BY HeadArithmetic, SlotArithmetic
<1> HIDE DEF h
<1>3. Slot(h, k) = IF h + k < Size THEN h + k ELSE h + k - Size
  BY <1>1, <1>2, SlotArithmetic
<1>4. Slot(r, n + k) = IF r + (n + k) < Size THEN r + (n + k) ELSE r + (n + k) - Size
  BY SlotArithmetic
<1>5. Slot(h, k) = Slot(r, n + k)
  BY <1>1, <1>2, <1>3, <1>4, SizeAssumption DEF Indices
<1> QED BY <1>5 DEF h
-----------------------------------------------------------------------------
(***************************************************************************)
(* The heads.  A thread that passed its space check keeps the right to its *)
(* bytes until it moves its own head: the other thread's moves only give   *)
(* it more room.                                                           *)
(***************************************************************************)
Claims ==
  /\ wpc = "copy" => wn <= Capacity - InRing
  /\ rpc = "copy" => rn <= InRing

CallsOK ==
  /\ wpc # "copy" => wtodo = {}
  /\ wpc # "idle" => wn \in Blocks
  /\ rpc # "idle" => rn \in Blocks

HeadsInv == TypeOK /\ CallsOK /\ HeadsCountBytes /\ StaleHeadsAreSafe /\ Claims

LEMMA HeadsInit == Init => HeadsInv
<1> SUFFICES ASSUME Init PROVE HeadsInv
  OBVIOUS
<1>1. 0 \in Indices
  BY SizeAssumption DEF Indices
<1>2. ReadSpace(0, 0) = 0 /\ WriteSpace(0, 0) = Capacity
  BY <1>1, ReadSpaceArithmetic, WriteSpaceArithmetic, SizeAssumption DEF Capacity
<1>3. TypeOK /\ CallsOK
  BY <1>1 DEF Init, TypeOK, CallsOK, Offsets, Unset
<1>4. HeadsCountBytes
  BY <1>2, SizeAssumption DEF Init, HeadsCountBytes, Capacity
<1>5. StaleHeadsAreSafe /\ Claims
  BY DEF Init, StaleHeadsAreSafe, Claims
<1> QED BY <1>3, <1>4, <1>5 DEF HeadsInv

LEMMA HeadsStep == HeadsInv /\ [Next]_vars => HeadsInv'
<1> SUFFICES ASSUME HeadsInv, [Next]_vars PROVE HeadsInv'
  OBVIOUS
<1> USE SizeAssumption, BlocksAssumption DEF HeadsInv, Capacity
<1>1. ASSUME NEW n \in Blocks, WriteLoad(n) PROVE HeadsInv'
  <2>1. TypeOK' /\ CallsOK'
    BY <1>1 DEF WriteLoad, TypeOK, CallsOK, reader, Offsets
  <2>2. HeadsCountBytes' /\ StaleHeadsAreSafe' /\ Claims'
    BY <1>1 DEF WriteLoad, TypeOK, reader, HeadsCountBytes, StaleHeadsAreSafe, Claims, InRing
  <2> QED BY <2>1, <2>2
<1>2. CASE WriteRefuse
  BY <1>2 DEF WriteRefuse, TypeOK, CallsOK, reader, HeadsCountBytes, StaleHeadsAreSafe, Claims, InRing
<1>3. CASE WriteAccept
  BY <1>3, SpacesAreIntegers DEF WriteAccept, TypeOK, CallsOK, reader, HeadsCountBytes, StaleHeadsAreSafe, Claims, InRing
<1>4. CASE WriteCopy
  <2>1. TypeOK' /\ CallsOK'
    <3>1. PICK k \in wtodo : /\ buf' = [buf EXCEPT ![Slot(write_head, k)] = sent + k]
                             /\ wtodo' = wtodo \ {k}
      BY <1>4 DEF WriteCopy
    <3>2. sent + k \in Nat
      BY <3>1 DEF TypeOK, Offsets
    <3>3. buf' \in [Indices -> Nat \cup {Unset}]
      BY <3>1, <3>2 DEF TypeOK
    <3> QED
      BY <1>4, <3>1, <3>3 DEF WriteCopy, TypeOK, CallsOK, reader
  <2>2. HeadsCountBytes' /\ StaleHeadsAreSafe' /\ Claims'
    BY <1>4 DEF WriteCopy, TypeOK, reader, HeadsCountBytes, StaleHeadsAreSafe, Claims, InRing
  <2> QED BY <2>1, <2>2
<1>5. CASE WritePublish
  <2>1. /\ write_head' \in Indices
        /\ ReadSpace(read_head, write_head') = InRing + wn
    BY <1>5, PublishMovesSpace
    DEF WritePublish, TypeOK, HeadsCountBytes, Claims, InRing
  <2>2. TypeOK' /\ CallsOK'
    BY <1>5, <2>1 DEF WritePublish, TypeOK, CallsOK, reader
  <2>3. HeadsCountBytes'
    BY <1>5, <2>1, WriteSpaceArithmetic
    DEF WritePublish, TypeOK, reader, HeadsCountBytes, Claims, InRing, Capacity
  <2>4. StaleHeadsAreSafe' /\ Claims'
    BY <1>5, SpacesAreIntegers DEF WritePublish, TypeOK, reader, StaleHeadsAreSafe, Claims, InRing
  <2> QED BY <2>2, <2>3, <2>4
<1>6. ASSUME NEW n \in Blocks, NEW op \in {"read", "peek", "skip"}, ReadBegin(op, n)
      PROVE HeadsInv'
  <2>1. TypeOK' /\ CallsOK'
    BY <1>6 DEF ReadBegin, TypeOK, CallsOK, writer, Offsets
  <2>2. HeadsCountBytes' /\ StaleHeadsAreSafe' /\ Claims'
    BY <1>6 DEF ReadBegin, TypeOK, writer, HeadsCountBytes, StaleHeadsAreSafe, Claims, InRing
  <2> QED BY <2>1, <2>2
<1>7. CASE ReadLoadHead
  BY <1>7 DEF ReadLoadHead, TypeOK, CallsOK, writer, HeadsCountBytes, StaleHeadsAreSafe, Claims, InRing
<1>8. CASE ReadRefuse
  BY <1>8 DEF ReadRefuse, TypeOK, CallsOK, writer, HeadsCountBytes, StaleHeadsAreSafe, Claims, InRing
<1>9. CASE ReadAccept
  BY <1>9, SpacesAreIntegers DEF ReadAccept, TypeOK, CallsOK, writer, HeadsCountBytes, StaleHeadsAreSafe, Claims, InRing
<1>10. CASE ReadCopy
  <2>1. TypeOK' /\ CallsOK'
    BY <1>10 DEF ReadCopy, TypeOK, CallsOK, writer, Offsets
  <2>2. HeadsCountBytes' /\ StaleHeadsAreSafe' /\ Claims'
    BY <1>10 DEF ReadCopy, TypeOK, writer, HeadsCountBytes, StaleHeadsAreSafe, Claims, InRing
  <2> QED BY <2>1, <2>2
<1>11. CASE ReadRelease
  <2>1. /\ read_head' \in Indices
        /\ ReadSpace(read_head', write_head) = InRing - rn
    BY <1>11, ReleaseMovesSpace
    DEF ReadRelease, TypeOK, HeadsCountBytes, Claims, InRing
  <2>2. TypeOK' /\ CallsOK'
    BY <1>11, <2>1 DEF ReadRelease, TypeOK, CallsOK, writer
  <2>3. HeadsCountBytes'
    BY <1>11, <2>1, WriteSpaceArithmetic
    DEF ReadRelease, TypeOK, writer, HeadsCountBytes, Claims, InRing, Capacity
  <2>4. StaleHeadsAreSafe' /\ Claims'
    BY <1>11, SpacesAreIntegers DEF ReadRelease, TypeOK, writer, StaleHeadsAreSafe, Claims, InRing, Capacity
  <2> QED BY <2>2, <2>3, <2>4
<1>12. CASE PeekReturn
  BY <1>12 DEF PeekReturn, TypeOK, CallsOK, writer, HeadsCountBytes, StaleHeadsAreSafe, Claims, InRing
<1>13. CASE Reset
  <2>1. 0 \in Indices
    BY DEF Indices
  <2>2. ReadSpace(0, 0) = 0 /\ WriteSpace(0, 0) = Capacity
    BY <2>1, ReadSpaceArithmetic, WriteSpaceArithmetic DEF Capacity
  <2> QED
    BY <1>13, <2>1, <2>2
    DEF Reset, TypeOK, CallsOK, HeadsCountBytes, StaleHeadsAreSafe, Claims, InRing, Capacity
<1>14. CASE UNCHANGED vars
  BY <1>14 DEF vars, writer, reader, TypeOK, CallsOK, HeadsCountBytes, StaleHeadsAreSafe, Claims, InRing
<1> QED
  BY <1>1, <1>2, <1>3, <1>4, <1>5, <1>6, <1>7, <1>8, <1>9, <1>10, <1>11, <1>12,
     <1>13, <1>14 DEF Next, WriterStep, ReaderStep
-----------------------------------------------------------------------------
(***************************************************************************)
(* The data.  The bytes in the ring, those the writer has copied ahead of  *)
(* its head and those the reader has copied out are the stream's bytes at  *)
(* their places.                                                           *)
(***************************************************************************)
Content == \A k \in Offsets(InRing) : buf[Slot(read_head, k)] = rcvd + k

Written ==
  wpc = "copy" => \A k \in Offsets(wn) \ wtodo : buf[Slot(write_head, k)] = sent + k

Fetched ==
  /\ rpc \in {"load", "check"} /\ rop # "skip" => rtodo = Offsets(rn)
  /\ rpc = "copy" /\ rop # "skip" => \A k \in Offsets(rn) \ rtodo : dst[k] = rcvd + k

RingInv == HeadsInv /\ Content /\ Written /\ Fetched

(* The writer's slots lie beyond the bytes in the ring.                    *)
LEMMA WriterSlots ==
  ASSUME HeadsInv, wpc = "copy", NEW i \in Offsets(wn)
  PROVE  /\ InRing + i \in Indices
         /\ Slot(write_head, i) = Slot(read_head, InRing + i)
<1>1. /\ InRing \in Nat /\ i \in Nat
      /\ InRing + i \in Indices
      /\ ReadSpace(read_head, write_head) = InRing
  BY SizeAssumption
  DEF HeadsInv, TypeOK, HeadsCountBytes, Claims, InRing, Offsets, Indices, Capacity
<1>2. i + ReadSpace(read_head, write_head) = InRing + i
  BY <1>1
<1> QED
  BY <1>1, <1>2, SlotFromReadHead DEF HeadsInv, TypeOK

LEMMA NoSlotRaceFollows == HeadsInv => NoSlotRace
<1> SUFFICES ASSUME HeadsInv, wpc = "copy", rpc = "copy",
                    NEW i \in Offsets(wn), NEW j \in Offsets(rn)
             PROVE  Slot(write_head, i) # Slot(read_head, j)
  BY DEF NoSlotRace
<1>1. /\ InRing + i \in Indices
      /\ Slot(write_head, i) = Slot(read_head, InRing + i)
  BY WriterSlots
<1>2. j \in Indices /\ j # InRing + i
  BY SizeAssumption
  DEF HeadsInv, TypeOK, HeadsCountBytes, Claims, InRing, Offsets, Indices, Capacity
<1>3. read_head \in Indices
  BY DEF HeadsInv, TypeOK
<1> QED BY <1>1, <1>2, <1>3, SlotInjective

LEMMA RingInit == Init => RingInv
<1> SUFFICES ASSUME Init PROVE RingInv
  OBVIOUS
<1>1. HeadsInv
  BY HeadsInit
<1>2. Content /\ Written /\ Fetched
  BY DEF Init, Content, Written, Fetched, InRing, Offsets
<1> QED BY <1>1, <1>2 DEF RingInv

LEMMA RingStep ==
  ASSUME LoadsInOrder
  PROVE  RingInv /\ [Next]_vars => RingInv'
<1> SUFFICES ASSUME RingInv, [Next]_vars PROVE Content' /\ Written' /\ Fetched'
  BY HeadsStep DEF RingInv
<1>h. HeadsInv
  BY DEF RingInv
<1> USE SizeAssumption, BlocksAssumption DEF RingInv
<1>1. ASSUME NEW n \in Blocks, WriteLoad(n) PROVE Content' /\ Written' /\ Fetched'
  BY <1>1 DEF WriteLoad, reader, Content, Written, Fetched, InRing
<1>2. CASE WriteRefuse
  BY <1>2 DEF WriteRefuse, reader, Content, Written, Fetched, InRing
<1>3. CASE WriteAccept
  BY <1>3 DEF WriteAccept, reader, Content, Written, Fetched, InRing
<1>4. CASE WriteCopy
  <2>1. PICK k \in wtodo : /\ buf' = [buf EXCEPT ![Slot(write_head, k)] = sent + k]
                           /\ wtodo' = wtodo \ {k}
    BY <1>4 DEF WriteCopy
  <2>2. /\ k \in Offsets(wn) /\ k \in Indices
        /\ InRing + k \in Indices
        /\ Slot(write_head, k) = Slot(read_head, InRing + k)
        /\ Slot(write_head, k) \in Indices
        /\ read_head \in Indices /\ write_head \in Indices
        /\ buf \in [Indices -> Nat \cup {Unset}]
    <3>1. k \in Offsets(wn) /\ wpc = "copy"
      BY <1>h, <1>4 DEF HeadsInv, TypeOK, WriteCopy
    <3>2. InRing + k \in Indices /\ Slot(write_head, k) = Slot(read_head, InRing + k)
      BY <1>h, <3>1, WriterSlots
    <3>3. k \in Indices
      BY <1>h, <3>1, <3>2 DEF HeadsInv, TypeOK, HeadsCountBytes, InRing, Offsets, Indices
    <3> QED
      BY <1>h, <3>1, <3>2, <3>3, SlotArithmetic DEF HeadsInv, TypeOK
  <2>3. Content'
    <3> SUFFICES ASSUME NEW j \in Offsets(InRing)
                 PROVE  buf'[Slot(read_head, j)] = rcvd + j
      BY <1>4 DEF WriteCopy, reader, Content, InRing
    <3>1. j \in Indices /\ j # InRing + k
      BY <1>h, <2>2 DEF HeadsInv, TypeOK, InRing, Offsets, Indices
    <3>2. Slot(read_head, j) # Slot(write_head, k) /\ Slot(read_head, j) \in Indices
      BY <2>2, <3>1, SlotInjective, SlotArithmetic
    <3> QED BY <2>1, <2>2, <3>2 DEF Content
  <2>4. Written'
    <3> SUFFICES ASSUME NEW i \in Offsets(wn) \ wtodo'
                 PROVE  buf'[Slot(write_head, i)] = sent + i
      BY <1>4 DEF WriteCopy, Written
    <3>1. CASE i = k
      BY <2>1, <2>2, <3>1
    <3>2. CASE i # k
      <4>1. i \in Offsets(wn) \ wtodo /\ i \in Indices
        BY <1>h, <1>4, <2>1, <3>2, WriterSlots
        DEF WriteCopy, HeadsInv, TypeOK, HeadsCountBytes, InRing, Offsets, Indices
      <4>2. Slot(write_head, i) # Slot(write_head, k) /\ Slot(write_head, i) \in Indices
        BY <2>2, <3>2, <4>1, SlotInjective, SlotArithmetic
      <4> QED BY <1>4, <2>1, <2>2, <4>1, <4>2 DEF WriteCopy, Written
    <3> QED BY <3>1, <3>2
  <2>5. Fetched'
    BY <1>4 DEF WriteCopy, reader, Fetched
  <2> QED BY <2>3, <2>4, <2>5
<1>5. CASE WritePublish
  <2>1. Content'
    <3>0. InRing' = InRing + wn /\ buf' = buf /\ read_head' = read_head /\ rcvd' = rcvd
      BY <1>h, <1>5 DEF WritePublish, reader, InRing, HeadsInv, TypeOK
    <3> SUFFICES ASSUME NEW j \in Offsets(InRing + wn)
                 PROVE  buf[Slot(read_head, j)] = rcvd + j
      BY <3>0 DEF Content
    <3>1. CASE j \in Offsets(InRing)
      BY <3>1 DEF Content
    <3>2. CASE j \notin Offsets(InRing)
      <4> DEFINE i == j - InRing
      <4>1. i \in Offsets(wn) /\ InRing + i = j /\ sent + i = rcvd + j
        BY <1>h, <3>2 DEF HeadsInv, TypeOK, HeadsCountBytes, InRing, Offsets
      <4> HIDE DEF i
      <4>2. wpc = "copy" /\ wtodo = {}
        BY <1>5 DEF WritePublish
      <4>3. Slot(write_head, i) = Slot(read_head, InRing + i)
        BY <1>h, <4>1, <4>2, WriterSlots
      <4>4. buf[Slot(write_head, i)] = sent + i
        BY <4>1, <4>2 DEF Written
      <4> QED BY <4>1, <4>3, <4>4
    <3> QED BY <3>1, <3>2
  <2>2. Written' /\ Fetched'
    BY <1>5 DEF WritePublish, reader, Written, Fetched
  <2> QED BY <2>1, <2>2
<1>6. ASSUME NEW n \in Blocks, NEW op \in {"read", "peek", "skip"}, ReadBegin(op, n)
      PROVE Content' /\ Written' /\ Fetched'
  BY <1>6 DEF ReadBegin, writer, Content, Written, Fetched, InRing
<1>7. CASE ReadLoadHead
  BY <1>7 DEF ReadLoadHead, writer, Content, Written, Fetched, InRing
<1>8. CASE ReadRefuse
  BY <1>8 DEF ReadRefuse, writer, Content, Written, Fetched, InRing
<1>9. CASE ReadAccept
  BY <1>9 DEF ReadAccept, writer, Content, Written, Fetched, InRing
<1>10. CASE ReadCopy
  <2>1. PICK k \in rtodo : /\ dst' = [dst EXCEPT ![k] = buf[Slot(read_head, k)]]
                           /\ rtodo' = rtodo \ {k}
    BY <1>10 DEF ReadCopy
  <2>2. rpc = "copy"
    BY <1>10 DEF ReadCopy
  <2>3. k \in Offsets(rn) /\ k \in Offsets(InRing)
    BY <1>h, <2>1, <2>2 DEF HeadsInv, TypeOK, Claims, InRing, Offsets
  <2>4. buf[Slot(read_head, k)] = rcvd + k
    BY <2>3 DEF Content
  <2>5. Content' /\ Written'
    BY <1>10 DEF ReadCopy, writer, Content, Written, InRing
  <2>6. Fetched'
    BY <1>h, <1>10, <2>1, <2>2, <2>3, <2>4 DEF ReadCopy, Fetched, HeadsInv, TypeOK
  <2> QED BY <2>5, <2>6
<1>11. CASE ReadRelease
  <2>1. Content'
    <3>0. /\ InRing' = InRing - rn /\ buf' = buf /\ rcvd' = rcvd + rn
          /\ read_head' = HeadAfterRead(read_head, rn)
      BY <1>h, <1>11 DEF ReadRelease, writer, InRing, HeadsInv, TypeOK
    <3> SUFFICES ASSUME NEW j \in Offsets(InRing - rn)
                 PROVE  buf[Slot(HeadAfterRead(read_head, rn), j)] = (rcvd + rn) + j
      BY <3>0 DEF Content
    <3>1. /\ rn \in Indices /\ rn + j \in Indices /\ rn + j \in Offsets(InRing) /\ j \in Nat
          /\ rcvd + (rn + j) = (rcvd + rn) + j
      BY <1>h, <1>11
      DEF ReadRelease, HeadsInv, TypeOK, HeadsCountBytes, Claims, InRing, Offsets, Indices, Capacity
    <3>2. Slot(HeadAfterRead(read_head, rn), j) = Slot(read_head, rn + j)
      BY <1>h, <3>1, SlotAfterRead DEF HeadsInv, TypeOK
    <3> QED BY <3>1, <3>2 DEF Content
  <2>2. Written' /\ Fetched'
    BY <1>11 DEF ReadRelease, writer, Written, Fetched
  <2> QED BY <2>1, <2>2
<1>12. CASE PeekReturn
  BY <1>12 DEF PeekReturn, writer, Content, Written, Fetched, InRing
<1>13. CASE Reset
  BY <1>h, <1>13 DEF Reset, Content, Written, Fetched, InRing, Offsets, HeadsInv, TypeOK
<1>14. CASE UNCHANGED vars
  BY <1>14 DEF vars, writer, reader, Content, Written, Fetched, InRing
<1> QED
  BY <1>1, <1>2, <1>3, <1>4, <1>5, <1>6, <1>7, <1>8, <1>9, <1>10, <1>11, <1>12,
     <1>13, <1>14 DEF Next, WriterStep, ReaderStep
-----------------------------------------------------------------------------
(* Every reachable state of the ring has the types of its C declarations,  *)
(* on any processor: zix_ring_read and zix_ring_write never index outside  *)
(* buf.                                                                    *)
THEOREM TypeCorrect == Spec => []TypeOK
<1>1. HeadsInv => TypeOK
  BY DEF HeadsInv
<1> QED BY <1>1, HeadsInit, HeadsStep, PTL DEF Spec

(* The two heads account for exactly the bytes in the ring.                *)
THEOREM HeadsAccurate == Spec => []HeadsCountBytes
<1>1. HeadsInv => HeadsCountBytes
  BY DEF HeadsInv
<1> QED BY <1>1, HeadsInit, HeadsStep, PTL DEF Spec

(* The space a thread computed from the other's old head is still there.   *)
THEOREM StaleHeadsHarmless == Spec => []StaleHeadsAreSafe
<1>1. HeadsInv => StaleHeadsAreSafe
  BY DEF HeadsInv
<1> QED BY <1>1, HeadsInit, HeadsStep, PTL DEF Spec

(* The reader's and the writer's memcpy never meet in a byte.              *)
THEOREM SlotsDisjoint == Spec => []NoSlotRace
<1> QED BY HeadsInit, HeadsStep, NoSlotRaceFollows, PTL DEF Spec

(* With loads in order, what zix_ring_read and zix_ring_peek have copied   *)
(* when they return is the next block of the stream.                       *)
THEOREM NextBlockIsRead ==
  ASSUME LoadsInOrder
  PROVE  Spec => []BlocksInOrder
<1>1. RingInv => BlocksInOrder
  BY DEF RingInv, Fetched, BlocksInOrder
<1>2. RingInv /\ [Next]_vars => RingInv'
  BY RingStep
<1> QED BY <1>1, <1>2, RingInit, PTL DEF Spec

(* A block that was copied out is the block the abstract stream hands out. *)
LEMMA DstIsBlock ==
  ASSUME RingInv, rpc = "copy", rtodo = {}, rop # "skip"
  PROVE  dst = Stream!Block(rn) /\ rn <= sent - rcvd
<1>1. dst = [k \in Offsets(rn) |-> dst[k]]
  BY DEF RingInv, HeadsInv, TypeOK
<1>2. \A k \in Offsets(rn) : dst[k] = rcvd + k
  BY DEF RingInv, Fetched
<1>3. rn <= sent - rcvd
  BY DEF RingInv, HeadsInv, Claims, InRing
<1> QED BY <1>1, <1>2, <1>3 DEF Stream!Block, Offsets

LEMMA StreamStep ==
  RingInv /\ [Next]_vars => [Stream!Next]_(Stream!vars)
<1> SUFFICES ASSUME RingInv, [Next]_vars PROVE [Stream!Next]_(Stream!vars)
  OBVIOUS
<1> USE DEF Stream!vars
<1>h. HeadsInv
  BY DEF RingInv
<1>1. CASE WritePublish
  <2>1. wn \in Blocks /\ sent + wn - rcvd <= Capacity
    BY <1>1, <1>h, SizeAssumption
    DEF WritePublish, HeadsInv, TypeOK, CallsOK, Claims, InRing, Capacity
  <2>2. Stream!Put(wn)
    BY <1>1, <2>1 DEF WritePublish, reader, Stream!Put
  <2> QED BY <2>1, <2>2 DEF Stream!Next
<1>2. CASE ReadRelease
  <2>1. rn \in Blocks /\ rn <= sent - rcvd
    BY <1>2, <1>h DEF ReadRelease, HeadsInv, CallsOK, Claims, InRing
  <2>2. CASE rop = "skip"
    <3>1. Stream!Drop(rn)
      BY <1>2, <2>1, <2>2 DEF ReadRelease, writer, Stream!Drop
    <3> QED BY <2>1, <3>1 DEF Stream!Next
  <2>3. CASE rop # "skip"
    <3>1. Stream!Get(rn)
      BY <1>2, <2>1, <2>3, DstIsBlock DEF ReadRelease, writer, Stream!Get
    <3> QED BY <2>1, <3>1 DEF Stream!Next
  <2> QED BY <2>2, <2>3
<1>3. CASE PeekReturn
  <2>1. rn \in Blocks /\ Stream!Peek(rn)
    BY <1>3, <1>h, DstIsBlock DEF PeekReturn, writer, HeadsInv, CallsOK, Stream!Peek
  <2> QED BY <2>1 DEF Stream!Next
<1>4. CASE Reset
  BY <1>4 DEF Reset, Stream!Clear, Stream!Next
<1>5. CASE UNCHANGED <<sent, rcvd, got>>
  BY <1>5
<1>6. ASSUME NEW n \in Blocks, WriteLoad(n) PROVE UNCHANGED <<sent, rcvd, got>>
  BY <1>6 DEF WriteLoad, reader
<1>7. ASSUME WriteRefuse \/ WriteAccept \/ WriteCopy PROVE UNCHANGED <<sent, rcvd, got>>
  BY <1>7 DEF WriteRefuse, WriteAccept, WriteCopy, reader
<1>8. ASSUME NEW n \in Blocks, NEW op \in {"read", "peek", "skip"}, ReadBegin(op, n)
      PROVE UNCHANGED <<sent, rcvd, got>>
  BY <1>8 DEF ReadBegin, writer
<1>9. ASSUME ReadLoadHead \/ ReadRefuse \/ ReadAccept \/ ReadCopy
      PROVE UNCHANGED <<sent, rcvd, got>>
  BY <1>9 DEF ReadLoadHead, ReadRefuse, ReadAccept, ReadCopy, writer
<1>10. ASSUME UNCHANGED vars PROVE UNCHANGED <<sent, rcvd, got>>
  BY <1>10 DEF vars, writer, reader
<1> QED
  BY <1>1, <1>2, <1>3, <1>4, <1>5, <1>6, <1>7, <1>8, <1>9, <1>10
  DEF Next, WriterStep, ReaderStep

(* With loads in order the ring implements the stream: nothing is lost,    *)
(* repeated, reordered or torn, for every interleaving of the two threads. *)
THEOREM RingImplementsStream ==
  ASSUME LoadsInOrder
  PROVE  Spec => StreamSpec
<1>1. Init => Stream!Init
  BY DEF Init, Stream!Init
<1>2. RingInv /\ [Next]_vars => RingInv'
  BY RingStep
<1> QED BY <1>1, <1>2, RingInit, StreamStep, PTL DEF Spec, StreamSpec, Stream!Spec
-----------------------------------------------------------------------------
(***************************************************************************)
(* Wait-freedom of the reader: what is left of its call in steps of its    *)
(* own, whether or not its loads are in order.                             *)
(***************************************************************************)
PositionsLeft ==
  CASE rpc = "load" -> 3 [] rpc = "check" -> 2 [] rpc = "copy" -> 1 [] OTHER -> 0

StepsLeft == IF rpc = "idle" THEN 0 ELSE PositionsLeft + Cardinality(rtodo)

LEMMA OffsetsFinite ==
  ASSUME NEW n \in Nat
  PROVE  IsFiniteSet(Offsets(n)) /\ Cardinality(Offsets(n)) = n
<1>1. 0 \in Int /\ n - 1 \in Int
  OBVIOUS
<1>2. IsFiniteSet(0 .. n - 1) /\ Cardinality(0 .. n - 1) = IF 0 > n - 1 THEN 0 ELSE (n - 1) - 0 + 1
  BY <1>1, FS_Interval
<1> QED BY <1>2 DEF Offsets

LEMMA TodoCounts ==
  ASSUME TypeOK
  PROVE  /\ Cardinality(rtodo) \in Nat
         /\ \A k \in rtodo : Cardinality(rtodo \ {k}) = Cardinality(rtodo) - 1
<1>1. IsFiniteSet(Offsets(rn))
  BY OffsetsFinite DEF TypeOK
<1>2. IsFiniteSet(rtodo)
  BY <1>1, FS_Subset DEF TypeOK
<1> QED BY <1>2, FS_CardinalityType, FS_RemoveElement

LEMMA ReaderStepCounts == TypeOK /\ ReaderStep => StepsLeft' < StepsLeft
<1> SUFFICES ASSUME TypeOK, ReaderStep PROVE StepsLeft' < StepsLeft
  OBVIOUS
<1>t. Cardinality(rtodo) \in Nat
  BY TodoCounts
<1> USE DEF StepsLeft, PositionsLeft
<1>1. CASE ReadLoadHead
  BY <1>1, <1>t DEF ReadLoadHead
<1>2. CASE ReadRefuse
  BY <1>2, <1>t DEF ReadRefuse
<1>3. CASE ReadAccept
  BY <1>3, <1>t DEF ReadAccept
<1>4. CASE ReadCopy
  <2>1. PICK k \in rtodo : rtodo' = rtodo \ {k}
    BY <1>4 DEF ReadCopy
  <2>2. Cardinality(rtodo') = Cardinality(rtodo) - 1
    BY <2>1, TodoCounts
  <2>3. rpc # "idle" /\ UNCHANGED rpc /\ PositionsLeft' = PositionsLeft
    BY <1>4 DEF ReadCopy
  <2>4. PositionsLeft \in Nat
    OBVIOUS
  <2>5. StepsLeft = PositionsLeft + Cardinality(rtodo)
    BY <2>3
  <2>6. StepsLeft' = PositionsLeft + Cardinality(rtodo')
    BY <2>3
  <2> QED BY <1>t, <2>2, <2>4, <2>5, <2>6
<1>5. CASE ReadRelease
  BY <1>5, <1>t DEF ReadRelease
<1>6. CASE PeekReturn
  BY <1>6, <1>t DEF PeekReturn
<1> QED BY <1>1, <1>2, <1>3, <1>4, <1>5, <1>6 DEF ReaderStep

LEMMA OthersDoNotDelay ==
  ASSUME \/ \E n \in Blocks : WriteLoad(n)
         \/ WriterStep \/ Reset
  PROVE  UNCHANGED StepsLeft
<1>1. UNCHANGED <<rpc, rtodo>>
  BY DEF WriteLoad, WriterStep, WriteRefuse, WriteAccept, WriteCopy, WritePublish, Reset, reader
<1> QED BY <1>1 DEF StepsLeft, PositionsLeft

LEMMA CallLength ==
  ASSUME NEW op \in {"read", "peek", "skip"}, NEW n \in Nat, ReadBegin(op, n)
  PROVE  StepsLeft' <= n + 3
<1>1. rpc' = "load" /\ rtodo' = IF op = "skip" THEN {} ELSE Offsets(n)
  BY DEF ReadBegin
<1>2. Cardinality(rtodo') <= n /\ Cardinality(rtodo') \in Nat
  BY <1>1, OffsetsFinite, FS_EmptySet
<1> QED BY <1>1, <1>2 DEF StepsLeft, PositionsLeft

(* "Realtime safe on both ends" (zix/ring.h): a call of the reader for n   *)
(* bytes is over after n + 3 steps of its own, however many steps the      *)
(* writer takes or does not take meanwhile.                                *)
THEOREM ReadsAreWaitFree ==
  Spec => [][ /\ ReaderStep => StepsLeft' < StepsLeft
              /\ WriterStep \/ Reset => StepsLeft' = StepsLeft
              /\ \A op \in {"read", "peek", "skip"}, n \in Blocks :
                   ReadBegin(op, n) => StepsLeft' <= n + 3 ]_vars
<1>1. TypeOK /\ [Next]_vars =>
        [ /\ ReaderStep => StepsLeft' < StepsLeft
          /\ WriterStep \/ Reset => StepsLeft' = StepsLeft
          /\ \A op \in {"read", "peek", "skip"}, n \in Blocks :
               ReadBegin(op, n) => StepsLeft' <= n + 3 ]_vars
  BY ReaderStepCounts, OthersDoNotDelay, CallLength, BlocksAssumption
<1> QED BY <1>1, TypeCorrect, PTL DEF Spec
-----------------------------------------------------------------------------
(* The size: five doublings fill 32 bits.                                  *)

(* The k highest positions up to m are in S, and nothing above m is.       *)
Filled(S, m, k) ==
  /\ S \subseteq 0 .. m
  /\ \A b \in 0 .. m : m - b < k => b \in S

LEMMA SmearDoubles ==
  ASSUME NEW m \in Nat, NEW k \in Nat, NEW S, Filled(S, m, k)
  PROVE  Filled(Smear(S, k), m, 2 * k)
<1>1. ASSUME NEW b \in Smear(S, k) PROVE b \in 0 .. m
  <2>1. CASE b \in S
    BY <2>1 DEF Filled
  <2>2. CASE b \notin S
    <3>1. PICK c \in S : c >= k /\ b = c - k
      BY <1>1, <2>2 DEF Smear
    <3>2. c \in 0 .. m
      BY <3>1 DEF Filled
    <3> QED BY <3>1, <3>2
  <2> QED BY <2>1, <2>2
<1>2. ASSUME NEW b \in 0 .. m, m - b < 2 * k PROVE b \in Smear(S, k)
  <2>1. CASE m - b < k
    BY <1>2, <2>1 DEF Smear, Filled
  <2>2. CASE k <= m - b
    <3>1. b + k \in 0 .. m /\ m - (b + k) < k
      BY <1>2, <2>2
    <3>2. b + k \in S /\ b + k >= k /\ (b + k) - k = b
      BY <3>1 DEF Filled
    <3> QED BY <3>2 DEF Smear
  <2> QED BY <1>2, <2>1, <2>2
<1> QED BY <1>1, <1>2 DEF Filled

LEMMA FilledWord ==
  ASSUME NEW m \in 0 .. 31, NEW S, Filled(S, m, 32)
  PROVE  S = 0 .. m
<1>1. S \subseteq 0 .. m
  BY DEF Filled
<1>2. ASSUME NEW b \in 0 .. m PROVE b \in S
  BY DEF Filled
<1> QED BY <1>1, <1>2

(* The five lines of next_power_of_two set every bit below the highest one *)
(* of a uint32_t, and no bit above it, so that adding one gives the next   *)
(* power of two.                                                           *)
THEOREM SmearFillsWord ==
  ASSUME NEW S, NEW m \in 0 .. Width - 1, S \subseteq 0 .. m, m \in S
  PROVE  SmearAll(S) = 0 .. m
<1> DEFINE A == Smear(S, 1)
           B == Smear(A, 2)
           C == Smear(B, 4)
           D == Smear(C, 8)
<1>1. m \in 0 .. 31
  BY WidthAssumption
<1>2. Filled(S, m, 1)
  BY <1>1 DEF Filled
<1>3. Filled(A, m, 2)
  BY <1>1, <1>2, SmearDoubles
<1>4. Filled(B, m, 4)
  BY <1>1, <1>3, SmearDoubles
<1>5. Filled(C, m, 8)
  BY <1>1, <1>4, SmearDoubles
<1>6. Filled(D, m, 16)
  BY <1>1, <1>5, SmearDoubles
<1>7. Filled(Smear(D, 16), m, 32)
  BY <1>1, <1>6, SmearDoubles
<1>8. Smear(D, 16) = 0 .. m
  BY <1>1, <1>7, FilledWord
<1> QED BY <1>8 DEF SmearAll
-----------------------------------------------------------------------------
(***************************************************************************)
(* What next_power_of_two returns.  The induction of the library takes a   *)
(* predicate; here it is over a set, from the well-foundedness of <.       *)
(***************************************************************************)

(* Induction, for a set instead of a predicate.                            *)
LEMMA SetInduction ==
  ASSUME NEW S, 0 \in S, \A n \in Nat : n \in S => n + 1 \in S
  PROVE  Nat \subseteq S
<1> DEFINE R == OpToRel(<, Nat)
           T == Nat \ S
<1>1. IsWellFoundedOn(R, Nat)
  BY NatLessThanWellFounded
<1>2. \A x, y \in Nat : <<x, y>> \in R <=> x < y
  BY DEF OpToRel
<1> HIDE DEF R
<1>3. SUFFICES ASSUME T # {} PROVE FALSE
  OBVIOUS
<1>4. T \subseteq Nat
  OBVIOUS
<1>5. PICK x \in T : \A y \in T : ~(<<y, x>> \in R)
  <2> HIDE DEF T
  <2> QED BY <1>1, <1>3, <1>4, WFMin
<1>6. x \in Nat /\ x # 0
  OBVIOUS
<1>7. x - 1 \in Nat /\ x - 1 < x /\ (x - 1) + 1 = x
  BY <1>6
<1>8. x - 1 \in S
  BY <1>2, <1>5, <1>6, <1>7
<1> QED BY <1>7, <1>8

(* The provers know 2^k for literals only; a word has at most 32 bits.     *)
LEMMA PowersListed ==
  /\ Power(0) = 1
  /\ Power(0) \in Nat \ {0} /\ Power(0 + 1) = 2 * Power(0)
  /\ Power(1) \in Nat \ {0} /\ Power(1 + 1) = 2 * Power(1)
  /\ Power(2) \in Nat \ {0} /\ Power(2 + 1) = 2 * Power(2)
  /\ Power(3) \in Nat \ {0} /\ Power(3 + 1) = 2 * Power(3)
  /\ Power(4) \in Nat \ {0} /\ Power(4 + 1) = 2 * Power(4)
  /\ Power(5) \in Nat \ {0} /\ Power(5 + 1) = 2 * Power(5)
  /\ Power(6) \in Nat \ {0} /\ Power(6 + 1) = 2 * Power(6)
  /\ Power(7) \in Nat \ {0} /\ Power(7 + 1) = 2 * Power(7)
  /\ Power(8) \in Nat \ {0} /\ Power(8 + 1) = 2 * Power(8)
  /\ Power(9) \in Nat \ {0} /\ Power(9 + 1) = 2 * Power(9)
  /\ Power(10) \in Nat \ {0} /\ Power(10 + 1) = 2 * Power(10)
  /\ Power(11) \in Nat \ {0} /\ Power(11 + 1) = 2 * Power(11)
  /\ Power(12) \in Nat \ {0} /\ Power(12 + 1) = 2 * Power(12)
  /\ Power(13) \in Nat \ {0} /\ Power(13 + 1) = 2 * Power(13)
  /\ Power(14) \in Nat \ {0} /\ Power(14 + 1) = 2 * Power(14)
  /\ Power(15) \in Nat \ {0} /\ Power(15 + 1) = 2 * Power(15)
  /\ Power(16) \in Nat \ {0} /\ Power(16 + 1) = 2 * Power(16)
  /\ Power(17) \in Nat \ {0} /\ Power(17 + 1) = 2 * Power(17)
  /\ Power(18) \in Nat \ {0} /\ Power(18 + 1) = 2 * Power(18)
  /\ Power(19) \in Nat \ {0} /\ Power(19 + 1) = 2 * Power(19)
  /\ Power(20) \in Nat \ {0} /\ Power(20 + 1) = 2 * Power(20)
  /\ Power(21) \in Nat \ {0} /\ Power(21 + 1) = 2 * Power(21)
  /\ Power(22) \in Nat \ {0} /\ Power(22 + 1) = 2 * Power(22)
  /\ Power(23) \in Nat \ {0} /\ Power(23 + 1) = 2 * Power(23)
  /\ Power(24) \in Nat \ {0} /\ Power(24 + 1) = 2 * Power(24)
  /\ Power(25) \in Nat \ {0} /\ Power(25 + 1) = 2 * Power(25)
  /\ Power(26) \in Nat \ {0} /\ Power(26 + 1) = 2 * Power(26)
  /\ Power(27) \in Nat \ {0} /\ Power(27 + 1) = 2 * Power(27)
  /\ Power(28) \in Nat \ {0} /\ Power(28 + 1) = 2 * Power(28)
  /\ Power(29) \in Nat \ {0} /\ Power(29 + 1) = 2 * Power(29)
  /\ Power(30) \in Nat \ {0} /\ Power(30 + 1) = 2 * Power(30)
  /\ Power(31) \in Nat \ {0} /\ Power(31 + 1) = 2 * Power(31)
BY DEF Power

LEMMA PowerDoubles ==
  ASSUME NEW k \in 0 .. 31
  PROVE  Power(k) \in Nat \ {0} /\ Power(k + 1) = 2 * Power(k)
<1>1. k \in {0, 1, 2, 3, 4, 5, 6, 7, 8, 9, 10, 11, 12, 13, 14, 15, 16, 17, 18, 19,
        20, 21, 22, 23, 24, 25, 26, 27, 28, 29, 30, 31}
  OBVIOUS
<1> QED BY <1>1, PowersListed

LEMMA PowerIs ==
  ASSUME NEW k \in 0 .. 32
  PROVE  Power(k) \in Nat \ {0}
<1>1. CASE k = 32
  <2>1. Power(31 + 1) = 2 * Power(31) /\ Power(31) \in Nat \ {0}
    BY PowerDoubles
  <2> QED BY <1>1, <2>1
<1>2. CASE k # 32
  <2>1. k \in 0 .. 31
    BY <1>2
  <2> QED BY <2>1, PowerDoubles
<1> QED BY <1>1, <1>2

LEMMA WeightIs ==
  ASSUME NEW S, NEW b \in 0 .. 31
  PROVE  Weight(S, b) \in Nat
BY PowerDoubles DEF Weight

(* The recursion has a solution.                                           *)
Sums(S, n, g) ==
  /\ g \in [0 .. n -> Nat] /\ g[0] = 0
  /\ \A k \in 0 .. n - 1 : g[k + 1] = g[k] + Weight(S, k)

LEMMA SumsExist ==
  ASSUME NEW S
  PROVE  \E g : Sums(S, Width, g)
<1> DEFINE Has == {n \in Nat : n <= Width => \E g : Sums(S, n, g)}
<1>1. 0 \in Has
  <2>1. Sums(S, 0, [k \in 0 .. 0 |-> 0])
    BY DEF Sums
  <2> QED BY <2>1
<1>2. ASSUME NEW n \in Nat, n \in Has PROVE n + 1 \in Has
  <2>1. SUFFICES ASSUME n + 1 <= Width PROVE \E g : Sums(S, n + 1, g)
    OBVIOUS
  <2>2. n \in 0 .. 31 /\ n <= Width
    BY <2>1, WidthAssumption
  <2>3. PICK g : Sums(S, n, g)
    BY <1>2, <2>2
  <2> DEFINE h == [k \in 0 .. n + 1 |-> IF k = n + 1 THEN g[n] + Weight(S, n) ELSE g[k]]
  <2>4. g[n] + Weight(S, n) \in Nat
    <3>1. n \in 0 .. n /\ Weight(S, n) \in Nat
      BY <2>2, WeightIs
    <3>2. g[n] \in Nat
      BY <2>3, <3>1 DEF Sums
    <3> QED BY <3>1, <3>2
  <2>5. h \in [0 .. n + 1 -> Nat] /\ h[0] = 0
    BY <2>3, <2>4 DEF Sums
  <2>6. ASSUME NEW k \in 0 .. n PROVE h[k + 1] = h[k] + Weight(S, k)
    <3>1. CASE k = n
      BY <3>1
    <3>2. CASE k # n
      <4>1. k \in 0 .. n - 1 /\ k + 1 # n + 1 /\ k + 1 \in 0 .. n + 1 /\ k \in 0 .. n + 1
        BY <3>2
      <4> QED BY <2>3, <4>1 DEF Sums
    <3> QED BY <3>1, <3>2
  <2>7. (n + 1) - 1 = n
    OBVIOUS
  <2>8. Sums(S, n + 1, h)
    <3> HIDE DEF h
    <3> QED BY <2>5, <2>6, <2>7 DEF Sums
  <2> QED BY <2>8
<1>3. Nat \subseteq Has
  <2> HIDE DEF Has
  <2> QED BY <1>1, <1>2, SetInduction
<1> QED BY <1>3, WidthAssumption

LEMMA SumBelowIs ==
  ASSUME NEW S
  PROVE  Sums(S, Width, SumBelow(S))
<1> DEFINE Step(g) == [k \in 0 .. Width |-> IF k = 0 THEN 0 ELSE g[k - 1] + Weight(S, k - 1)]
<1>1. PICK g : Sums(S, Width, g)
  BY SumsExist
<1>2. Width \in Nat
  BY WidthAssumption
<1>3. ASSUME NEW k \in 0 .. Width PROVE g[k] = Step(g)[k]
  <2>1. CASE k = 0
    BY <1>1, <2>1 DEF Sums
  <2>2. CASE k # 0
    <3>1. k - 1 \in 0 .. Width - 1 /\ (k - 1) + 1 = k
      BY <1>2, <2>2
    <3>2. g[(k - 1) + 1] = g[k - 1] + Weight(S, k - 1)
      BY <1>1, <3>1 DEF Sums
    <3> QED BY <2>2, <3>1, <3>2
  <2> QED BY <2>1, <2>2
<1>4. g = Step(g)
  <2>1. g = [k \in 0 .. Width |-> g[k]]
    BY <1>1 DEF Sums
  <2> QED BY <1>3, <2>1
<1>5. SumBelow(S) = CHOOSE f : f = Step(f)
  BY DEF SumBelow
<1>6. SumBelow(S) = Step(SumBelow(S))
  <2> HIDE DEF Step
  <2> QED BY <1>4, <1>5
<1> DEFINE f == SumBelow(S)
<1>7. f = Step(f)
  BY <1>6
<1> HIDE DEF f
<1>8. f[0] = 0
  BY <1>2, <1>7
<1>9. ASSUME NEW k \in 0 .. Width - 1 PROVE f[k + 1] = f[k] + Weight(S, k)
  <2>1. k + 1 \in 0 .. Width /\ k + 1 # 0 /\ (k + 1) - 1 = k
    BY <1>2
  <2> QED BY <1>7, <2>1
<1>10. ASSUME NEW k \in 0 .. Width PROVE f[k] \in Nat
  <2> DEFINE Good == {n \in Nat : n <= Width => f[n] \in Nat}
  <2>1. 0 \in Good
    BY <1>8
  <2>2. ASSUME NEW n \in Nat, n \in Good PROVE n + 1 \in Good
    <3>1. SUFFICES ASSUME n + 1 <= Width PROVE f[n + 1] \in Nat
      OBVIOUS
    <3>2. n \in 0 .. Width - 1 /\ n \in 0 .. 31 /\ n <= Width
      BY <1>2, <3>1, WidthAssumption
    <3>3. f[n] \in Nat /\ Weight(S, n) \in Nat
      BY <2>2, <3>2, WeightIs
    <3> QED BY <1>9, <3>2, <3>3
  <2>3. Nat \subseteq Good
    <3> HIDE DEF Good
    <3> QED BY <2>1, <2>2, SetInduction
  <2> QED BY <1>2, <2>3
<1>11. f \in [0 .. Width -> Nat]
  <2>1. f = [k \in 0 .. Width |-> f[k]]
    BY <1>7
  <2> QED BY <1>10, <2>1
<1> QED BY <1>8, <1>9, <1>11 DEF Sums, f

LEMMA DivIs ==
  ASSUME NEW q \in Nat \ {0}, NEW n \in Nat, NEW a \in Nat, NEW r \in 0 .. q - 1, n = a * q + r
  PROVE  n \div q = a /\ n % q = r
OBVIOUS

(* Division with remainder, and the remainder by twice as much: one more   *)
(* bit.                                                                    *)
LEMMA DivSplit ==
  ASSUME NEW q \in Nat \ {0}, NEW n \in Nat
  PROVE  \E a \in Nat, r \in 0 .. q - 1 : n = a * q + r /\ n \div q = a /\ n % q = r
<1> DEFINE Has == {m \in Nat : \E a \in Nat, r \in 0 .. q - 1 : m = a * q + r}
<1>1. 0 \in Has
  BY 0 = 0 * q + 0
<1>2. ASSUME NEW m \in Nat, m \in Has PROVE m + 1 \in Has
  <2>1. PICK a \in Nat, r \in 0 .. q - 1 : m = a * q + r
    BY <1>2
  <2>2. CASE r = q - 1
    <3>1. m + 1 = (a + 1) * q + 0 /\ 0 \in 0 .. q - 1 /\ a + 1 \in Nat /\ m + 1 \in Nat
      BY <2>1, <2>2
    <3>2. \E b \in Nat, s \in 0 .. q - 1 : m + 1 = b * q + s
      BY <3>1
    <3> QED BY <3>1, <3>2
  <2>3. CASE r # q - 1
    <3>1. r + 1 \in 0 .. q - 1
      BY <2>3
    <3>2. m + 1 = a * q + (r + 1)
      BY <2>1
    <3> QED BY <3>1, <3>2
  <2> QED BY <2>2, <2>3
<1>3. Nat \subseteq Has
  <2> HIDE DEF Has
  <2> QED BY <1>1, <1>2, SetInduction
<1>4. PICK a \in Nat, r \in 0 .. q - 1 : n = a * q + r
  BY <1>3
<1>5. n \div q = a /\ n % q = r
  BY <1>4, DivIs
<1> QED BY <1>4, <1>5

LEMMA DivSmall ==
  ASSUME NEW q \in Nat \ {0}, NEW n \in Nat, n < q
  PROVE  n \div q = 0
OBVIOUS

LEMMA DivOne ==
  ASSUME NEW q \in Nat \ {0}, NEW n \in Nat, q <= n, n < 2 * q
  PROVE  n \div q = 1 
OBVIOUS

LEMMA ModDouble ==
  ASSUME NEW q \in Nat \ {0}, NEW n \in Nat
  PROVE  n % (2 * q) = (n % q) + (IF (n \div q) % 2 = 1 THEN q ELSE 0)
<1>1. PICK a \in Nat, r \in 0 .. q - 1 : n = a * q + r /\ n \div q = a /\ n % q = r
  BY DivSplit
<1> DEFINE c == a \div 2
           d == a % 2
<1>2. c \in Nat /\ d \in {0, 1} /\ a = c * 2 + d
  OBVIOUS
<1> HIDE DEF c, d
<1>3. a * q = c * (2 * q) + d * q
  BY <1>1, <1>2
<1>4. d * q + r \in 0 .. 2 * q - 1
  BY <1>1, <1>2
<1>5. n % (2 * q) = d * q + r
  <2>1. n = c * (2 * q) + (d * q + r)
    <3> DEFINE x == c * (2 * q)
               y == d * q
    <3>1. x \in Nat /\ y \in Nat /\ a * q = x + y /\ n = a * q + r /\ r \in Nat
      BY <1>1, <1>2, <1>3
    <3> HIDE DEF x, y
    <3>2. n = x + (y + r)
      BY <3>1
    <3> QED BY <3>2 DEF x, y
  <2>2. 2 * q \in Nat \ {0}
    OBVIOUS
  <2> QED BY <1>2, <1>4, <2>1, <2>2, DivIs
<1>6. d * q = IF d = 1 THEN q ELSE 0
  BY <1>2
<1> QED BY <1>1, <1>5, <1>6 DEF d

(* The k lowest positions.                                                 *)
Low(k) == 0 .. k - 1

LEMMA PowerGrows ==
  ASSUME NEW a \in 0 .. 32, NEW b \in 0 .. 32, a <= b
  PROVE  Power(a) <= Power(b)
<1> DEFINE Good == {n \in Nat : a <= n /\ n <= 32 => Power(a) <= Power(n)}
<1>1. 0 \in Good
  <2>1. a <= 0 => a = 0
    OBVIOUS
  <2>2. Power(a) <= Power(a)
    BY PowerIs
  <2> QED BY <2>1, <2>2
<1>2. ASSUME NEW n \in Nat, n \in Good PROVE n + 1 \in Good
  <2>1. SUFFICES ASSUME a <= n + 1, n + 1 <= 32 PROVE Power(a) <= Power(n + 1)
    OBVIOUS
  <2>2. CASE a = n + 1
    <3>1. Power(a) \in Nat
      BY PowerIs
    <3> QED BY <2>2, <3>1
  <2>3. CASE a # n + 1
    <3>1. a <= n /\ n <= 32 /\ n \in 0 .. 31
      BY <2>1, <2>3
    <3>2. Power(a) <= Power(n)
      BY <1>2, <3>1
    <3>3. Power(n) \in Nat /\ Power(n + 1) = 2 * Power(n)
      BY <3>1, PowerDoubles
    <3>4. Power(a) \in Nat
      BY PowerIs
    <3> QED BY <3>2, <3>3, <3>4
  <2> QED BY <2>2, <2>3
<1>3. Nat \subseteq Good
  <2> HIDE DEF Good
  <2> QED BY <1>1, <1>2, SetInduction
<1> QED BY <1>3

LEMMA TwiceThePower ==
  ASSUME NEW a \in 0 .. 32, NEW b \in 0 .. 32, a < b
  PROVE  2 * Power(a) <= Power(b)
<1>1. a \in 0 .. 31 /\ a + 1 \in 0 .. 32 /\ a + 1 <= b
  OBVIOUS
<1>2. Power(a + 1) <= Power(b)
  BY <1>1, PowerGrows
<1>3. Power(a + 1) = 2 * Power(a)
  BY <1>1, PowerDoubles
<1> QED BY <1>2, <1>3

Even(q, n) == \E c \in Nat \ {0} : n = c * (2 * q)

LEMMA PowerIsEven ==
  ASSUME NEW b \in 0 .. 32, NEW k \in 0 .. 32, b < k
  PROVE  Even(Power(b), Power(k))
<1> DEFINE Good == {n \in Nat : b < n /\ n <= 32 => Even(Power(b), Power(n))}
<1>0. b \in 0 .. 31
  OBVIOUS
<1>1. 0 \in Good
  OBVIOUS
<1>2. ASSUME NEW n \in Nat, n \in Good PROVE n + 1 \in Good
  <2>1. SUFFICES ASSUME b < n + 1, n + 1 <= 32 PROVE Even(Power(b), Power(n + 1))
    OBVIOUS
  <2>2. n \in 0 .. 31
    BY <2>1
  <2>3. Power(n) \in Nat /\ Power(n + 1) = 2 * Power(n)
    BY <2>2, PowerDoubles
  <2>4. CASE b = n
    <3>1. Power(n + 1) = 1 * (2 * Power(b)) /\ 1 \in Nat \ {0}
      BY <2>3, <2>4
    <3> QED BY <3>1 DEF Even
  <2>5. CASE b # n
    <3>1. Even(Power(b), Power(n))
      BY <1>2, <2>1, <2>2, <2>5
    <3>2. PICK c \in Nat \ {0} : Power(n) = c * (2 * Power(b))
      BY <3>1 DEF Even
    <3>3. Power(b) \in Nat
      BY PowerIs
    <3>4. 2 * (c * (2 * Power(b))) = (2 * c) * (2 * Power(b)) /\ 2 * c \in Nat \ {0}
      BY <3>3
    <3>5. Power(n + 1) = (2 * c) * (2 * Power(b))
      BY <2>3, <3>2, <3>4
    <3> QED BY <3>4, <3>5 DEF Even
  <2> QED BY <2>4, <2>5
<1>3. Nat \subseteq Good
  <2> HIDE DEF Good
  <2> QED BY <1>1, <1>2, SetInduction
<1> QED BY <1>3

LEMMA OddQuotient ==
  ASSUME NEW q \in Nat \ {0}, NEW n \in Nat \ {0}, Even(q, n)
  PROVE  ((n - 1) \div q) % 2 = 1
<1>1. PICK c \in Nat \ {0} : n = c * (2 * q)
  BY DEF Even
<1>2. n - 1 = (2 * c - 1) * q + (q - 1)
  BY <1>1
<1>3. n - 1 \in Nat /\ 2 * c - 1 \in Nat /\ q - 1 \in 0 .. q - 1
  OBVIOUS
<1>4. (n - 1) \div q = 2 * c - 1
  BY <1>2, <1>3, DivIs
<1>5. (2 * c - 1) % 2 = 1
  OBVIOUS
<1> QED BY <1>4, <1>5

(* A power of two less one is a row of 1 bits, which is why it can be a    *)
(* mask: the masked bits of a number are worth its remainder.              *)
LEMMA OnesAreBits ==
  ASSUME NEW k \in 0 .. Width
  PROVE  Bits(Power(k) - 1) = Low(k)
<1>0. Width \in Nat /\ Width <= 32 /\ k \in 0 .. 32
  BY WidthAssumption
<1>1. Power(k) \in Nat \ {0}
  BY <1>0, PowerIs
<1>2. ASSUME NEW b \in 0 .. Width - 1
      PROVE  b \in Low(k) <=> ((Power(k) - 1) \div Power(b)) % 2 = 1
  <2>0. b \in 0 .. 32 /\ b \in Int
    BY <1>0
  <2>1. Power(b) \in Nat \ {0}
    BY <2>0, PowerIs
  <2>2. CASE b < k
    <3>1. Even(Power(b), Power(k))
      BY <1>0, <2>0, <2>2, PowerIsEven
    <3>2. ((Power(k) - 1) \div Power(b)) % 2 = 1
      BY <1>1, <2>1, <3>1, OddQuotient
    <3> QED BY <1>0, <2>0, <2>2, <3>2 DEF Low
  <2>3. CASE ~ (b < k)
    <3>1. Power(k) <= Power(b)
      BY <1>0, <2>0, <2>3, PowerGrows
    <3>2. Power(k) - 1 \in Nat /\ Power(k) - 1 < Power(b)
      BY <1>1, <2>1, <3>1
    <3>3. (Power(k) - 1) \div Power(b) = 0
      BY <2>1, <3>2, DivSmall
    <3>4. ((Power(k) - 1) \div Power(b)) % 2 # 1
      BY <3>3
    <3> QED BY <2>3, <3>4, <1>0, <2>0 DEF Low
  <2> QED BY <2>2, <2>3
<1>3. Low(k) \subseteq 0 .. Width - 1
  BY <1>0 DEF Low
<1> QED BY <1>2, <1>3 DEF Bits

LEMMA LowBits ==
  ASSUME NEW x \in Nat, NEW k \in 0 .. Width
  PROVE  Value(Bits(x) \cap Low(k)) = x % Power(k)
<1> DEFINE S == Bits(x) \cap Low(k)
           g == SumBelow(S)
           Good == {n \in Nat : n <= Width => g[n] = x % Power(IF n <= k THEN n ELSE k)}
<1>0. Width \in Nat /\ Width <= 32 /\ k \in 0 .. 32
  BY WidthAssumption
<1>1. Sums(S, Width, g)
  BY SumBelowIs
<1>2. 0 \in Good
  <2>1. x % 1 = 0 /\ 0 <= k
    BY <1>0
  <2>2. Power(0) = 1
    BY PowersListed
  <2>3. g[0] = 0
    BY <1>1 DEF Sums
  <2> QED BY <2>1, <2>2, <2>3
<1>3. ASSUME NEW n \in Nat, n \in Good PROVE n + 1 \in Good
  <2>1. SUFFICES ASSUME n + 1 <= Width
                 PROVE  g[n + 1] = x % Power(IF n + 1 <= k THEN n + 1 ELSE k)
    OBVIOUS
  <2>2. n \in 0 .. Width - 1 /\ n \in 0 .. 31 /\ n <= Width
    BY <1>0, <2>1
  <2>3. g[n] = x % Power(IF n <= k THEN n ELSE k)
    BY <1>3, <2>2
  <2>4. g[n + 1] = g[n] + Weight(S, n)
    BY <1>1, <2>2 DEF Sums
  <2> HIDE DEF g
  <2>5. CASE n + 1 <= k
    <3>1. n \in Low(k) /\ n <= k
      BY <1>0, <2>2, <2>5 DEF Low
    <3>2. Weight(S, n) = IF (x \div Power(n)) % 2 = 1 THEN Power(n) ELSE 0
      BY <2>2, <3>1 DEF Weight, Bits
    <3>3. Power(n) \in Nat \ {0} /\ Power(n + 1) = 2 * Power(n)
      BY <2>2, PowerDoubles
    <3>4. x % (2 * Power(n)) = (x % Power(n)) + (IF (x \div Power(n)) % 2 = 1 THEN Power(n) ELSE 0)
      BY <3>3, ModDouble
    <3>5. g[n + 1] = x % (2 * Power(n))
      BY <2>3, <2>4, <3>1, <3>2, <3>4
    <3> QED BY <2>5, <3>3, <3>5
  <2>6. CASE ~ (n + 1 <= k)
    <3>1. n \notin Low(k)
      BY <1>0, <2>2, <2>6 DEF Low
    <3>2. Weight(S, n) = 0
      BY <3>1 DEF Weight
    <3>3. Power(IF n <= k THEN n ELSE k) = Power(k)
      <4>1. n <= k => n = k
        BY <1>0, <2>2, <2>6
      <4> QED BY <4>1
    <3>4. Power(k) \in Nat \ {0}
      BY <1>0, PowerIs
    <3>5. x % Power(k) \in Int
      BY <3>4
    <3>6. (x % Power(k)) + 0 = x % Power(k)
      BY <3>5
    <3> QED BY <2>3, <2>4, <2>6, <3>2, <3>3, <3>6
  <2> QED BY <2>5, <2>6
<1>4. Nat \subseteq Good
  <2> HIDE DEF Good
  <2> QED BY <1>2, <1>3, SetInduction
<1>5. g[Width] = x % Power(k)
  <2>1. g[Width] = x % Power(IF Width <= k THEN Width ELSE k)
    BY <1>0, <1>4
  <2>2. Width <= k => Width = k
    BY <1>0
  <2> QED BY <2>1, <2>2
<1> QED BY <1>5 DEF Value

LEMMA LowBitsOfOnes ==
  ASSUME NEW k \in 0 .. Width
  PROVE  Value(Low(k)) = Power(k) - 1
<1>0. k \in 0 .. 32
  BY WidthAssumption
<1>1. Power(k) \in Nat \ {0}
  BY <1>0, PowerIs
<1>2. Power(k) - 1 \in Nat
  BY <1>1
<1>3. Value(Bits(Power(k) - 1) \cap Low(k)) = (Power(k) - 1) % Power(k)
  BY <1>2, LowBits
<1>4. Bits(Power(k) - 1) \cap Low(k) = Low(k)
  BY OnesAreBits
<1>5. (Power(k) - 1) % Power(k) = Power(k) - 1
  BY <1>1
<1> QED BY <1>3, <1>4, <1>5

LEMMA MaskIsRemainder ==
  ASSUME NEW x \in Nat, NEW k \in 0 .. Width
  PROVE  And(x, Power(k) - 1) = x % Power(k)
BY OnesAreBits, LowBits DEF And

(* Below the highest bit every bit is filled in, and one more carries.     *)
LEMMA HighestBit ==
  ASSUME NEW n \in Nat, n # 0, n < Power(Width)
  PROVE  \E m \in 0 .. Width - 1 : Power(m) <= n /\ n < Power(m + 1)
<1> DEFINE Good == {k \in Nat : k <= Width /\ n < Power(k)
                                  => \E m \in 0 .. Width - 1 : Power(m) <= n /\ n < Power(m + 1)}
<1>0. Width \in Nat /\ Width <= 32
  BY WidthAssumption
<1>1. 0 \in Good
  BY PowersListed
<1>2. ASSUME NEW k \in Nat, k \in Good PROVE k + 1 \in Good
  <2>1. SUFFICES ASSUME k + 1 <= Width, n < Power(k + 1)
                 PROVE  \E m \in 0 .. Width - 1 : Power(m) <= n /\ n < Power(m + 1)
    OBVIOUS
  <2>2. k \in 0 .. Width - 1 /\ k <= Width /\ k \in 0 .. 32
    BY <1>0, <2>1
  <2>3. CASE n < Power(k)
    BY <1>2, <2>2, <2>3
  <2>4. CASE ~ (n < Power(k))
    <3>1. Power(k) <= n
      BY <2>2, <2>4, PowerIs
    <3> QED BY <2>1, <2>2, <3>1
  <2> QED BY <2>3, <2>4
<1>3. Nat \subseteq Good
  <2> HIDE DEF Good
  <2> QED BY <1>1, <1>2, SetInduction
<1> QED BY <1>0, <1>3

LEMMA BitsUpToHighest ==
  ASSUME NEW n \in Nat, NEW m \in 0 .. Width - 1, Power(m) <= n, n < Power(m + 1)
  PROVE  m \in Bits(n) /\ Bits(n) \subseteq 0 .. m
<1>0. Width \in Nat /\ Width <= 32 /\ m \in 0 .. 31 /\ m + 1 \in 0 .. 32
  BY WidthAssumption
<1>1. Power(m) \in Nat \ {0} /\ Power(m + 1) = 2 * Power(m)
  BY <1>0, PowerDoubles
<1>2. n \div Power(m) = 1
  BY <1>1, DivOne
<1>3. m \in Bits(n)
  BY <1>2 DEF Bits
<1>4. ASSUME NEW b \in Bits(n) PROVE b \in 0 .. m
  <2>1. b \in 0 .. Width - 1 /\ (n \div Power(b)) % 2 = 1
    BY DEF Bits
  <2>2. b \in 0 .. 32 /\ b \in Int
    BY <1>0, <2>1
  <2>3. CASE m + 1 <= b
    <3>1. Power(m + 1) <= Power(b)
      BY <1>0, <2>2, <2>3, PowerGrows
    <3>2. Power(b) \in Nat \ {0}
      BY <2>2, PowerIs
    <3>3. n < Power(b)
      BY <1>1, <3>1, <3>2
    <3>4. n \div Power(b) = 0
      BY <3>2, <3>3, DivSmall
    <3> QED BY <2>1, <3>4
  <2>4. CASE ~ (m + 1 <= b)
    BY <1>0, <2>1, <2>2, <2>4
  <2> QED BY <2>3, <2>4
<1> QED BY <1>3, <1>4

LEMMA SmearedValue ==
  ASSUME NEW n \in Nat, NEW m \in 0 .. Width - 1, Power(m) <= n, n < Power(m + 1)
  PROVE  Value(SmearAll(Bits(n))) = Power(m + 1) - 1
<1>0. Width \in Nat /\ m + 1 \in 0 .. Width /\ (m + 1) - 1 = m
  BY WidthAssumption
<1>1. SmearAll(Bits(n)) = 0 .. m
  BY BitsUpToHighest, SmearFillsWord
<1>2. SmearAll(Bits(n)) = Low(m + 1)
  BY <1>0, <1>1 DEF Low
<1>3. Value(Low(m + 1)) = Power(m + 1) - 1
  BY <1>0, LowBitsOfOnes
<1> QED BY <1>2, <1>3

LEMMA SmearedZero ==
  Value(SmearAll(Bits(0))) = 0
<1>0. Width \in Nat /\ 0 \in 0 .. Width /\ Width <= 32
  BY WidthAssumption
<1>1. Bits(0) = {}
  <2>1. ASSUME NEW b \in 0 .. Width - 1 PROVE (0 \div Power(b)) % 2 = 0
    <3>1. b \in 0 .. 32
      BY <1>0
    <3>2. Power(b) \in Nat \ {0}
      BY <3>1, PowerIs
    <3>3. 0 \div Power(b) = 0
      BY <3>2, DivSmall
    <3> QED BY <3>3
  <2> QED BY <2>1 DEF Bits
<1>2. \A k : Smear({}, k) = {}
  BY DEF Smear
<1>3. SmearAll({}) = {}
  BY <1>2 DEF SmearAll
<1>4. Low(0) = {}
  BY DEF Low
<1>5. Value(Low(0)) = Power(0) - 1
  BY <1>0, LowBitsOfOnes
<1>6. Power(0) - 1 = 0
  BY PowersListed
<1> QED BY <1>1, <1>3, <1>4, <1>5, <1>6

(* n is size - 1 of the code.                                              *)
LEMMA Rounding ==
  ASSUME NEW n \in Nat, n # 0, n < Power(Width)
  PROVE  \E m \in 0 .. Width - 1 :
           /\ Power(m) <= n /\ n < Power(m + 1)
           /\ (Value(SmearAll(Bits(n))) + 1) % Power(Width)
                = IF m + 1 = Width THEN 0 ELSE Power(m + 1)
<1>0. Width \in Nat /\ Width <= 32 /\ Width \in 0 .. 32
  BY WidthAssumption
<1>1. PICK m \in 0 .. Width - 1 : Power(m) <= n /\ n < Power(m + 1)
  BY HighestBit
<1>2. m + 1 \in 0 .. 32
  BY <1>0
<1>3. Power(m + 1) \in Nat \ {0} /\ Power(Width) \in Nat \ {0}
  BY <1>0, <1>2, PowerIs
<1>4. Value(SmearAll(Bits(n))) = Power(m + 1) - 1
  BY <1>1, SmearedValue
<1>5. Value(SmearAll(Bits(n))) + 1 = Power(m + 1)
  BY <1>3, <1>4
<1>6. CASE m + 1 = Width
  <2>1. Power(Width) % Power(Width) = 0
    BY <1>3
  <2> QED BY <1>1, <1>5, <1>6, <2>1
<1>7. CASE m + 1 # Width
  <2>1. m + 1 < Width
    BY <1>0, <1>7
  <2>2. 2 * Power(m + 1) <= Power(Width)
    BY <1>0, <1>2, <2>1, TwiceThePower
  <2>3. Power(m + 1) < Power(Width)
    BY <1>3, <2>2
  <2>4. Power(m + 1) % Power(Width) = Power(m + 1)
    BY <1>3, <2>3
  <2> QED BY <1>1, <1>5, <1>7, <2>4
<1> QED BY <1>6, <1>7

Rounded(size, p) ==
  IF size \in 1 .. Power(Width - 1)
  THEN size <= p /\ p < 2 * size /\ \E k \in 0 .. Width - 1 : p = Power(k)
  ELSE p = 0

LEMMA SizeRounded ==
  ASSUME NEW size \in 0 .. Power(Width) - 1
  PROVE  Rounded(size, next_power_of_two(size))
<1> DEFINE n == (size - 1) % Power(Width)
           p == next_power_of_two(size)
<1>0. Width \in Nat /\ Width <= 32 /\ Width \in 0 .. 32 /\ Width - 1 \in 0 .. 31
      /\ (Width - 1) + 1 = Width /\ Width - 1 \in 0 .. Width - 1
  BY WidthAssumption
<1>1. Power(Width) \in Nat \ {0} /\ Power(Width - 1) \in Nat \ {0}
  BY <1>0, PowerIs
<1>2. Power(Width) = 2 * Power(Width - 1)
  BY <1>0, PowerDoubles
<1>3. p = (Value(SmearAll(Bits(n))) + 1) % Power(Width)
  BY DEF next_power_of_two
<1>4. CASE size = 0
  <2>1. n = Power(Width) - 1
    BY <1>1, <1>4
  <2>2. n \in Nat /\ n # 0 /\ n < Power(Width) /\ Power(Width - 1) <= n /\ n < Power((Width - 1) + 1)
    BY <1>0, <1>1, <1>2, <2>1
  <2> HIDE DEF n, p
  <2>3. Value(SmearAll(Bits(n))) = Power((Width - 1) + 1) - 1
    BY <1>0, <2>2, SmearedValue
  <2>4. Value(SmearAll(Bits(n))) + 1 = Power(Width)
    BY <1>0, <1>1, <2>3
  <2>5. Power(Width) % Power(Width) = 0
    BY <1>1
  <2>6. p = 0
    BY <1>3, <2>4, <2>5
  <2>7. size \notin 1 .. Power(Width - 1)
    BY <1>1, <1>4
  <2> QED BY <2>6, <2>7 DEF Rounded, p
<1>5. CASE size # 0
  <2>1. size \in Nat /\ size >= 1 /\ size < Power(Width)
    BY <1>1, <1>5
  <2>2. n = size - 1
    BY <1>1, <2>1
  <2>3. n \in Nat /\ n < Power(Width)
    BY <1>1, <2>1, <2>2
  <2> HIDE DEF n, p
  <2>4. CASE n = 0
    <3>1. size = 1
      BY <2>1, <2>2, <2>4
    <3>2. Value(SmearAll(Bits(n))) + 1 = 1
      BY <2>4, SmearedZero
    <3>3. 1 % Power(Width) = 1
      BY <1>1, <1>2
    <3>4. p = 1
      BY <1>3, <3>2, <3>3
    <3>5. 1 = Power(0) /\ 0 \in 0 .. Width - 1 /\ 1 \in 1 .. Power(Width - 1)
      BY <1>0, <1>1, PowersListed
    <3>6. \E k \in 0 .. Width - 1 : p = Power(k)
      BY <3>4, <3>5
    <3>7. size <= p /\ p < 2 * size
      BY <3>1, <3>4
    <3> QED BY <3>1, <3>5, <3>6, <3>7 DEF Rounded, p
  <2>5. CASE n # 0
    <3>1. PICK m \in 0 .. Width - 1 :
             /\ Power(m) <= n /\ n < Power(m + 1)
             /\ (Value(SmearAll(Bits(n))) + 1) % Power(Width)
                  = IF m + 1 = Width THEN 0 ELSE Power(m + 1)
      BY <2>3, <2>5, Rounding
    <3>2. m \in 0 .. 31 /\ m + 1 \in 0 .. 32 /\ m \in 0 .. 32
      BY <1>0
    <3>3. Power(m) \in Nat \ {0} /\ Power(m + 1) = 2 * Power(m)
      BY <3>2, PowerDoubles
    <3>4. CASE m + 1 = Width
      <4>1. m = Width - 1
        BY <1>0, <3>4
      <4>2. size \notin 1 .. Power(Width - 1)
        BY <1>1, <2>1, <2>2, <3>1, <4>1
      <4>3. p = 0
        BY <1>3, <3>1, <3>4
      <4> QED BY <4>2, <4>3 DEF Rounded, p
    <3>5. CASE m + 1 # Width
      <4>1. m + 1 \in 0 .. Width - 1 /\ m + 1 <= Width - 1 /\ Width - 1 \in 0 .. 32
        BY <1>0, <3>5
      <4>2. Power(m + 1) <= Power(Width - 1)
        BY <3>2, <4>1, PowerGrows
      <4>3. p = Power(m + 1)
        BY <1>3, <3>1, <3>5
      <4>4. size <= p /\ p < 2 * size
        BY <2>1, <2>2, <2>3, <3>1, <3>3, <4>3
      <4>5. size \in 1 .. Power(Width - 1)
        BY <1>1, <2>1, <3>3, <4>2, <4>3, <4>4
      <4>6. \E k \in 0 .. Width - 1 : p = Power(k)
        BY <4>1, <4>3
      <4> QED BY <4>4, <4>5, <4>6 DEF Rounded, p
    <3> QED BY <3>4, <3>5
  <2> QED BY <2>4, <2>5
<1> QED BY <1>1, <1>4, <1>5

(* next_power_of_two for every uint32_t of up to 32 bits.                  *)
THEOREM SizesRoundUp == RoundedUp
BY SizeRounded DEF RoundedUp, Rounded

LEMMA ChosenAreRound ==
  ASSUME NEW size \in ChosenSizes
  PROVE  \E k \in 0 .. Width : size = Power(k)
<1>0. Width \in Nat /\ Width - 1 \in 0 .. 31 /\ (Width - 1) + 1 = Width
  BY WidthAssumption
<1>1. Power(Width - 1) \in Nat \ {0} /\ Power(Width) = 2 * Power(Width - 1)
  BY <1>0, PowerDoubles
<1>2. PICK s \in 1 .. Power(Width - 1) : size = next_power_of_two(s)
  BY DEF ChosenSizes
<1>3. s \in 0 .. Power(Width) - 1
  BY <1>1
<1>4. Rounded(s, size)
  BY <1>2, <1>3, SizeRounded
<1>5. PICK k \in 0 .. Width - 1 : size = Power(k)
  BY <1>4 DEF Rounded
<1>6. k \in 0 .. Width
  BY <1>0
<1> QED BY <1>5, <1>6

LEMMA ChosenAreNat ==
  ASSUME NEW size \in ChosenSizes
  PROVE  size \in Nat
<1>1. PICK k \in 0 .. Width : size = Power(k)
  BY ChosenAreRound
<1>2. k \in 0 .. 32
  BY WidthAssumption
<1> QED BY <1>1, <1>2, PowerIs

LEMMA MasksAreRemainders ==
  ASSUME NEW size \in ChosenSizes, NEW x \in Nat
  PROVE  And(x, size - 1) = x % size
BY ChosenAreRound, MaskIsRemainder

(* zix_ring_new chooses powers of two of at least the size asked for, and  *)
(* the masks of every ring it makes are remainders.                        *)
THEOREM SizesAreRoundedUp == Spec => []SizeIsRoundedUp
<1>1. HeadsInv => SizeIsRoundedUp
  <2>1. SUFFICES ASSUME HeadsInv, NEW size \in ChosenSizes, size >= Size,
                        NEW x \in { write_head - read_head + size, read_head - write_head + size,
                                    read_head + rn, write_head + wn }
                 PROVE  And(x, size - 1) = x % size
    BY SizesRoundUp DEF SizeIsRoundedUp
  <2>2. write_head \in Indices /\ read_head \in Indices /\ rn \in Nat /\ wn \in Nat
    BY <2>1 DEF HeadsInv, TypeOK
  <2>3. size \in Nat
    BY ChosenAreNat
  <2>4. x \in Nat
    BY <2>1, <2>2, <2>3, SizeAssumption DEF Indices
  <2> QED BY <2>4, MasksAreRemainders
<1> QED BY <1>1, HeadsInit, HeadsStep, PTL DEF Spec
=============================================================================
