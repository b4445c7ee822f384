------------------------- MODULE UmpTransferProofs --------------------------
(***************************************************************************)
(* The transfers, for any number of them, any data and any buffer: types,  *)
(* what is heard and in which order, and the message in front.             *)
(***************************************************************************)
EXTENDS UmpTransfer, Cmidi2Proofs

(* Bytes left out in front, bytes to send, bytes of a full packet,         *)
(* packets.                                                                *)
Start(t) == IF Kind(t) = "sysex7" /\ Memory(t)[1] = 240 THEN 1 ELSE 0

Size(t) == IF Kind(t) = "mds" THEN ((Length(t) + 13) \div 14) * 14 ELSE Length(t) % 256

Radix(t) == CASE Kind(t) = "sysex7" -> 6 [] Kind(t) = "sysex8" -> 13 [] Kind(t) = "mds" -> 14

Total(t) == numPackets(t, 0)

Clipped(x, size) == IF x < size THEN x ELSE size

(* The bytes of the first k packets.                                       *)
Upto(t, k) == Clipped(k * Radix(t), Size(t))

(* What the loops send: only the first length % 256 bytes of a System      *)
(* Exclusive message, and whole payloads of a data set, with what follows  *)
(* it in memory, or zeros if there is only one.                            *)
Delivery == [t \in Transfers |->
  LET start == IF Kind(t) = "sysex7" /\ Memory(t)[1] = 240 THEN 2 ELSE 1
      size == IF Kind(t) = "mds" THEN ((Length(t) + 13) \div 14) * 14 ELSE Length(t) % 256
  IN  [i \in 1 .. size |-> IF Kind(t) = "mds" /\ Length(t) < i /\ Length(t) < 14 THEN 0
                           ELSE Memory(t)[start + i - 1]]]

(* The arguments of a transfer.                                            *)
LEMMA CallIs ==
  ASSUME NEW t \in Transfers
  PROVE  /\ Kind(t) \in {"sysex7", "sysex8", "mds"} /\ Call[t].group \in FourBits
         /\ Memory(t) \in Seq(Byte)
         /\ Kind(t) = "sysex8" => Call[t].id \in Byte
         /\ Kind(t) = "mds" => Call[t].id \in FourBits
<1>1. /\ Kind(t) \in {"sysex7", "sysex8", "mds"} /\ Call[t].group \in FourBits /\ Readable(t)
  BY CallAssumption
<1>2. Memory(t) \in Seq(Byte)
  BY <1>1 DEF Readable
<1>3. Kind(t) = "sysex8" => Call[t].id \in Byte
  BY <1>1 DEF Readable
<1>4. Kind(t) = "mds" => Call[t].id \in FourBits
  BY <1>1 DEF Readable
<1> QED BY <1>1, <1>2, <1>3, <1>4

(* The length of a System Exclusive message ends in front of 0xF7, and it  *)
(* leaves 0xF0 out.                                                        *)
LEMMA Sysex7Length ==
  ASSUME NEW t \in Transfers, Kind(t) = "sysex7"
  PROVE  Length(t) \in Nat /\ Start(t) + Length(t) < Len(Memory(t)) /\ Start(t) \in {0, 1}
<1> DEFINE src == Memory(t)
           Is(i) == src[i + 1] = 247 /\ \A k \in 1 .. i : src[k] # 247
           end == CHOOSE i \in 0 .. Len(src) - 1 : Is(i)
<1>1. Readable(t)
  BY CallAssumption
<1>2. PICK n \in 1 .. Len(src) : src[n] = 247 /\ \A k \in 1 .. n - 1 : src[k] # 247
  BY <1>1 DEF Readable
<1>3. Len(src) \in Nat
  BY CallIs
<1>4. n - 1 \in 0 .. Len(src) - 1 /\ (n - 1) + 1 = n
  BY <1>3
<1>5. Is(n - 1)
  BY <1>2, <1>4
<1>6. end \in 0 .. Len(src) - 1 /\ Is(end)
  <2> HIDE DEF Is
  <2> QED BY <1>4, <1>5
<1>7. Length(t) = end - Start(t)
  BY DEF Length, Start, sysex7_get_sysex_length
<1> HIDE DEF end
<1>8. Start(t) \in {0, 1} /\ (Start(t) = 1 => src[1] = 240)
  BY DEF Start
<1>9. end = 0 => src[1] = 247
  BY <1>6
<1>10. Start(t) = 1 => end # 0
  BY <1>8, <1>9, SMT
<1> QED BY <1>3, <1>6, <1>7, <1>8, <1>10

(* What a uint8_t makes of a length.                                       *)
LEMMA Mod256 ==
  ASSUME NEW x \in Nat
  PROVE  x % 256 \in 0 .. 255 /\ x % 256 <= x
BY SMT

(* Less added is less.                                                     *)
LEMMA AddLess ==
  ASSUME NEW a \in Nat, NEW b \in Nat, NEW c \in Nat, NEW d \in Nat, a + b <= d, c <= b
  PROVE  a + c <= d
OBVIOUS

(* The payloads of a Mixed Data Set, in whole ones.                        *)
LEMMA RoundedUp ==
  ASSUME NEW x \in Nat
  PROVE  /\ (x + 13) \div 14 \in Nat /\ ((x + 13) \div 14) * 14 \in Nat
         /\ x <= ((x + 13) \div 14) * 14 /\ ((x + 13) \div 14) * 14 < x + 14
         /\ (x + 13) \div 14 = x \div 14 + (IF x % 14 # 0 THEN 1 ELSE 0)
BY SMT

(* Lengths below a chunk are positive.                                     *)
LEMMA BelowChunkIs == \A x \in BelowChunk : x \in Nat /\ x >= 1
BY SMT DEF BelowChunk

(* What a transfer has to send is there to be read.                        *)
LEMMA LengthIs ==
  ASSUME NEW t \in Transfers
  PROVE  /\ Length(t) \in Nat /\ Size(t) \in Nat /\ Start(t) \in {0, 1}
         /\ Kind(t) # "mds" => /\ Size(t) = Length(t) % 256 /\ Size(t) \in 0 .. 255
                               /\ Start(t) + Size(t) <= Len(Memory(t))
         /\ Kind(t) = "mds" => /\ Length(t) \in BelowChunk /\ Start(t) = 0
                               /\ Length(t) >= 14 => Size(t) <= Len(Memory(t))
                               /\ Length(t) <= Len(Memory(t)) /\ Length(t) <= Size(t)
<1>1. Readable(t) /\ Kind(t) \in {"sysex7", "sysex8", "mds"}
  BY CallAssumption
<1>2. Len(Memory(t)) \in Nat
  BY CallIs
<1>3. CASE Kind(t) # "mds"
  <2>1. Length(t) \in Nat /\ Start(t) + Length(t) <= Len(Memory(t)) /\ Start(t) \in {0, 1}
    <3>1. CASE Kind(t) = "sysex7"
      BY <1>2, <3>1, Sysex7Length
    <3>2. CASE Kind(t) = "sysex8"
      BY <1>1, <1>2, <3>2 DEF Readable, Length, Start
    <3> QED BY <1>1, <1>3, <3>1, <3>2
  <2>2. Size(t) = Length(t) % 256
    BY <1>3 DEF Size
  <2>3. Size(t) \in 0 .. 255 /\ Size(t) <= Length(t)
    BY <2>1, <2>2, Mod256
  <2>4. Size(t) \in Nat
    BY <2>3
  <2>5. Start(t) + Size(t) <= Len(Memory(t))
    <3>1. Start(t) \in Nat
      BY <2>1
    <3> HIDE DEF Start
    <3> QED BY <1>2, <2>1, <2>3, <2>4, <3>1, AddLess
  <2> QED BY <1>3, <2>1, <2>2, <2>3, <2>4, <2>5
<1>4. CASE Kind(t) = "mds"
  <2>1. /\ Length(t) \in BelowChunk /\ Length(t) <= Len(Memory(t)) /\ Start(t) = 0
        /\ Length(t) >= 14 => ((Length(t) + 13) \div 14) * 14 <= Len(Memory(t))
    BY <1>1, <1>4 DEF Readable, Length, Start
  <2>2. Size(t) = ((Length(t) + 13) \div 14) * 14
    BY <1>4 DEF Size
  <2>3. Length(t) \in Nat
    BY <2>1, BelowChunkIs
  <2>4. Size(t) \in Nat /\ Length(t) <= Size(t)
    BY <2>2, <2>3, RoundedUp
  <2>5. Length(t) >= 14 => Size(t) <= Len(Memory(t))
    BY <2>1, <2>2
  <2> QED BY <1>4, <2>1, <2>3, <2>4, <2>5
<1> QED BY <1>3, <1>4

(* The i-th byte to deliver.                                               *)
Item(t, i) ==
  IF Kind(t) = "mds" /\ Length(t) < i /\ Length(t) < 14 THEN 0 ELSE Memory(t)[Start(t) + i]

(* What a transfer delivers is bytes.                                      *)
LEMMA ItemIsByte ==
  ASSUME NEW t \in Transfers, NEW i \in 1 .. Size(t)
  PROVE  Item(t, i) \in Byte
<1>1. Memory(t) \in Seq(Byte) /\ Len(Memory(t)) \in Nat
  BY CallIs
<1>2. Kind(t) # "mds" => Start(t) + i \in 1 .. Len(Memory(t))
  BY <1>1, LengthIs
<1>3. Kind(t) = "mds" /\ ~(Length(t) < i
      /\ Length(t) < 14) => Start(t) + i \in 1 .. Len(Memory(t))
  BY <1>1, LengthIs
<1>4. 0 \in Byte
  BY Seven0, Seven
<1> QED BY <1>1, <1>2, <1>3, <1>4, ElementOfSeq DEF Item

IsDelivery(t) ==
  /\ Delivery[t] \in Seq(Byte) /\ Len(Delivery[t]) = Size(t)
  /\ \A i \in 1 .. Size(t) : Delivery[t][i] = Item(t, i)

(* What a transfer is to send, byte by byte.                               *)
LEMMA DeliveryIs ==
  ASSUME NEW t \in Transfers
  PROVE  IsDelivery(t)
<1> DEFINE d == Delivery[t]
           start == IF Kind(t) = "sysex7" /\ Memory(t)[1] = 240 THEN 2 ELSE 1
           at(i) == IF Kind(t) = "mds" /\ Length(t) < i /\ Length(t) < 14 THEN 0
                    ELSE Memory(t)[start + i - 1]
<1>1. d = [i \in 1 .. Size(t) |-> at(i)]
  BY DEF Delivery, Size
<1>2. start - 1 = Start(t) /\ start \in Nat
  BY DEF Start
<1>3. ASSUME NEW i \in 1 .. Size(t) PROVE at(i) = Item(t, i)
  <2> HIDE DEF start
  <2>1. start + i - 1 = Start(t) + i
    BY <1>2, LengthIs
  <2> QED BY <2>1 DEF Item
<1> HIDE DEF d, at
<1>4. \A i \in 1 .. Size(t) : d[i] = Item(t, i)
  BY <1>1, <1>3
<1>5. d \in [1 .. Size(t) -> Byte]
  BY <1>1, <1>3, ItemIsByte
<1>6. d \in Seq(Byte) /\ Len(d) = Size(t)
  BY <1>5, LengthIs, Tabulated
<1> QED BY <1>4, <1>6 DEF d, IsDelivery

IsSequenceOfPackets(t) ==
  /\ Total(t) \in Nat /\ Total(t) >= 1
  /\ numChunks(t) = 1 /\ DOMAIN Packets[t] = {0}
  /\ DOMAIN Packets[t][0] = 0 .. Total(t) - 1
  /\ \A p \in 0 .. Total(t) - 1 : Packets[t][0][p] = PacketOf(t, 0, p)

(* The packets of a System Exclusive message: enough and not one too       *)
(* many.                                                                   *)
LEMMA SysexTotal ==
  ASSUME NEW radix \in {6, 13}, NEW numBytes \in 0 .. 255
  PROVE  /\ sysex_get_num_packets(numBytes, radix) \in Nat
            /\ sysex_get_num_packets(numBytes, radix) >= 1
         /\ numBytes <= sysex_get_num_packets(numBytes, radix) * radix
         /\ (sysex_get_num_packets(numBytes, radix) - 1) * radix <= numBytes
         /\ numBytes <= radix => sysex_get_num_packets(numBytes, radix) = 1
         /\ numBytes > radix => sysex_get_num_packets(numBytes, radix) > 1
<1>1. CASE radix = 6
  BY <1>1, SMT DEF sysex_get_num_packets
<1>2. CASE radix = 13
  BY <1>2, SMT DEF sysex_get_num_packets
<1> QED BY <1>1, <1>2

(* A transfer is one chunk, of at least one packet.                        *)
LEMMA TotalIs ==
  ASSUME NEW t \in Transfers
  PROVE  /\ numChunks(t) = 1 /\ Total(t) \in Nat /\ Total(t) >= 1
         /\ Kind(t) = "sysex7" => Radix(t) = 6 /\ Total(t) = sysex_get_num_packets(Size(t), 6)
         /\ Kind(t) = "sysex8" => Radix(t) = 13 /\ Total(t) = sysex_get_num_packets(Size(t), 13)
         /\ Kind(t) = "mds" => Radix(t) = 14 /\ Total(t) * 14 = Size(t)
<1>1. CASE Kind(t) = "sysex7"
  <2>1. Radix(t) = 6 /\ Total(t) = sysex_get_num_packets(Size(t), 6) /\ numChunks(t) = 1
    BY <1>1, LengthIs DEF Radix, Total, numPackets, numChunks
  <2> QED BY <1>1, <2>1, LengthIs, SysexTotal
<1>2. CASE Kind(t) = "sysex8"
  <2>1. Radix(t) = 13 /\ Total(t) = sysex_get_num_packets(Size(t), 13) /\ numChunks(t) = 1
    BY <1>2, LengthIs DEF Radix, Total, numPackets, numChunks
  <2> QED BY <1>2, <2>1, LengthIs, SysexTotal
<1>3. CASE Kind(t) = "mds"
  <2>1. Length(t) \in BelowChunk /\ Length(t) \in Nat /\ Length(t) >= 1
    BY <1>3, LengthIs, BelowChunkIs
  <2>2. Total(t) = mds_get_num_payloads(Length(t)) /\ numChunks(t) = 1
    BY <1>3, <2>1, OneChunk DEF Total, numPackets, numChunks
  <2>3. Total(t) = (Length(t) + 13) \div 14
    BY <2>1, <2>2, OneChunk, RoundedUp
  <2>4. Size(t) = Total(t) * 14
    BY <1>3, <2>3 DEF Size
  <2>5. Total(t) \in Nat /\ Length(t) <= Total(t) * 14
    BY <2>1, <2>3, RoundedUp
  <2> QED BY <1>3, <2>1, <2>2, <2>4, <2>5 DEF Radix
<1> QED BY <1>1, <1>2, <1>3, CallIs

(* What the rounds of the loops send.                                      *)
LEMMA SequenceOfPackets ==
  ASSUME NEW t \in Transfers
  PROVE  IsSequenceOfPackets(t)
<1>1. numChunks(t) = 1 /\ Total(t) \in Nat /\ Total(t) >= 1
  BY TotalIs
<1>2. 0 .. numChunks(t) - 1 = {0}
  BY <1>1
<1>3. Packets[t] = [c \in {0} |-> [p \in 0 .. numPackets(t, c) - 1 |-> PacketOf(t, c, p)]]
  BY <1>2 DEF Packets
<1> QED BY <1>1, <1>3 DEF IsSequenceOfPackets, Total

(* Multiplication by the size of a packet's data is monotonic.             *)
LEMMA Times ==
  ASSUME NEW r \in {6, 13, 14}, NEW a \in Nat, NEW b \in Int, a <= b
  PROVE  a * r <= b * r
<1>1. CASE r = 6
  BY <1>1
<1>2. CASE r = 13
  BY <1>2
<1>3. CASE r = 14
  BY <1>3
<1> QED BY <1>1, <1>2, <1>3

(* What is sent is never more than there is.                               *)
LEMMA Clip ==
  ASSUME NEW size \in Nat, NEW x \in Nat
  PROVE  /\ Clipped(x, size) \in 0 .. size
         /\ x <= size => Clipped(x, size) = x
         /\ size <= x => Clipped(x, size) = size
BY DEF Clipped

(* The bytes of the first k packets.                                       *)
LEMMA UptoIs ==
  ASSUME NEW t \in Transfers
  PROVE  /\ Upto(t, 0) = 0 /\ Upto(t, Total(t)) = Size(t) /\ Size(t) \in Nat
         /\ \A k \in Nat : Upto(t, k) \in 0 .. Size(t)
         /\ \A p \in 0 .. Total(t) - 1 : Upto(t, p) = p * Radix(t) /\ Upto(t, p) <= Upto(t, p + 1)
<1>1. /\ Radix(t) \in {6, 13, 14} /\ Radix(t) \in Nat /\ Size(t) \in Nat /\ Total(t) \in Nat
         /\ Total(t) >= 1
      /\ Size(t) <= Total(t) * Radix(t) /\ (Total(t) - 1) * Radix(t) <= Size(t)
  <2>1. CASE Kind(t) = "sysex7"
    <3> DEFINE total == sysex_get_num_packets(Size(t), 6)
    <3>1. Size(t) \in 0 .. 255 /\ Size(t) \in Nat
      BY <2>1, LengthIs
    <3>2. Total(t) = total /\ Radix(t) = 6
      BY <2>1, TotalIs
    <3>3. total \in Nat /\ total >= 1 /\ Size(t) <= total * 6 /\ (total - 1) * 6 <= Size(t)
      BY <3>1, SysexTotal
    <3> HIDE DEF total
    <3> QED BY <3>1, <3>2, <3>3
  <2>2. CASE Kind(t) = "sysex8"
    <3> DEFINE total == sysex_get_num_packets(Size(t), 13)
    <3>1. Size(t) \in 0 .. 255 /\ Size(t) \in Nat
      BY <2>2, LengthIs
    <3>2. Total(t) = total /\ Radix(t) = 13
      BY <2>2, TotalIs
    <3>3. total \in Nat /\ total >= 1 /\ Size(t) <= total * 13 /\ (total - 1) * 13 <= Size(t)
      BY <3>1, SysexTotal
    <3> HIDE DEF total
    <3> QED BY <3>1, <3>2, <3>3
  <2>3. CASE Kind(t) = "mds"
    BY <2>3, TotalIs, LengthIs
  <2> QED BY <2>1, <2>2, <2>3, CallIs
<1>2. ASSUME NEW k \in Nat PROVE k * Radix(t) \in Nat
      /\ Upto(t, k) = Clipped(k * Radix(t), Size(t))
  BY <1>1 DEF Upto
<1>3. ASSUME NEW k \in Nat PROVE Upto(t, k) \in 0 .. Size(t)
  <2>1. \A x \in Nat : Clipped(x, Size(t)) \in 0 .. Size(t)
    BY <1>1, Clip
  <2> QED BY <1>2, <2>1
<1>4. Upto(t, 0) = 0
  <2>1. 0 * Radix(t) = 0 /\ 0 <= Size(t)
    BY <1>1
  <2> QED BY <1>1, <1>2, <2>1, Clip
<1>5. Upto(t, Total(t)) = Size(t)
  <2>1. Total(t) * Radix(t) \in Nat
    BY <1>1, <1>2
  <2> QED BY <1>1, <1>2, <2>1, Clip
<1>6. ASSUME NEW p \in 0 .. Total(t) - 1
      PROVE  Upto(t, p) = p * Radix(t) /\ Upto(t, p) <= Upto(t, p + 1)
  <2>1. p \in Nat /\ p + 1 \in Nat /\ p <= Total(t) - 1
    BY <1>1
  <2>2. p * Radix(t) <= Size(t)
    <3>1. p * Radix(t) <= (Total(t) - 1) * Radix(t)
      BY <1>1, <2>1, Times
    <3> QED BY <1>1, <1>2, <2>1, <3>1
  <2>3. Upto(t, p) = p * Radix(t)
    BY <1>1, <1>2, <2>1, <2>2, Clip
  <2>4. p * Radix(t) <= (p + 1) * Radix(t)
    BY <1>1, <2>1, SMT
  <2>5. Upto(t, p + 1) = Size(t) \/ Upto(t, p + 1) = (p + 1) * Radix(t)
    BY <1>2, <2>1 DEF Clipped
  <2> QED BY <2>2, <2>3, <2>4, <2>5
<1> QED BY <1>1, <1>3, <1>4, <1>5, <1>6

(* What the next packet adds to them.                                      *)
LEMMA PacketHasIts ==
  ASSUME NEW t \in Transfers, NEW p \in 0 .. Total(t) - 1
  PROVE  /\ Kind(t) = "sysex7" => Upto(t, p + 1) = p * 6 + PacketSize(Size(t), 6, p)
         /\ Kind(t) = "sysex8" => Upto(t, p + 1) = p * 13 + PacketSize(Size(t), 13, p)
         /\ Kind(t) = "mds" => Upto(t, p + 1) = p * 14 + 14
<1>1. p \in Nat /\ p + 1 \in Nat /\ p + 1 <= Total(t) /\ Total(t) \in Nat /\ Size(t) \in Nat
  BY TotalIs, LengthIs
<1>2. CASE Kind(t) = "sysex7"
  <2>1. Upto(t, p + 1) = Clipped((p + 1) * 6, Size(t)) /\ Size(t) \in 0 .. 255
        /\ (p + 1) * 6 = p * 6 + 6
    BY <1>1, <1>2, TotalIs, LengthIs DEF Upto
  <2>2. PacketSize(Size(t), 6, p) = IF Size(t) - p * 6 < 6 THEN Size(t) - p * 6 ELSE 6
    BY <1>2, <2>1, TotalIs, PacketSizes
  <2>3. CASE Size(t) - p * 6 < 6
    BY <1>1, <1>2, <2>1, <2>2, <2>3, Clip
  <2>4. CASE ~(Size(t) - p * 6 < 6)
    BY <1>1, <1>2, <2>1, <2>2, <2>4, Clip
  <2> QED BY <2>3, <2>4
<1>3. CASE Kind(t) = "sysex8"
  <2>1. Upto(t, p + 1) = Clipped((p + 1) * 13, Size(t)) /\ Size(t) \in 0 .. 255
        /\ (p + 1) * 13 = p * 13 + 13
    BY <1>1, <1>3, TotalIs, LengthIs DEF Upto
  <2>2. PacketSize(Size(t), 13, p) = IF Size(t) - p * 13 < 13 THEN Size(t) - p * 13 ELSE 13
    BY <1>3, <2>1, TotalIs, PacketSizes
  <2>3. CASE Size(t) - p * 13 < 13
    BY <1>1, <1>3, <2>1, <2>2, <2>3, Clip
  <2>4. CASE ~(Size(t) - p * 13 < 13)
    BY <1>1, <1>3, <2>1, <2>2, <2>4, Clip
  <2> QED BY <2>3, <2>4
<1>4. CASE Kind(t) = "mds"
  <2>1. Upto(t, p + 1) = Clipped((p + 1) * 14, Size(t)) /\ (p + 1) * 14 = p * 14 + 14
        /\ Size(t) = Total(t) * 14
    BY <1>1, <1>4, TotalIs DEF Upto
  <2>2. (p + 1) * 14 <= Size(t)
    BY <1>1, <2>1
  <2>3. (p + 1) * 14 \in Nat
    BY <1>1
  <2> QED BY <1>1, <1>4, <2>1, <2>2, <2>3, Clip
<1> QED BY <1>2, <1>3, <1>4

SameBytes(ump, at, d, from, size) ==
  SubSeq(ump, at + 1, at + size) = SubSeq(d, from + 1, from + size)

(* Bytes of a packet that are those of the data, one by one, are so as a   *)
(* whole.                                                                  *)
LEMMA SameData ==
  ASSUME NEW d \in Seq(Byte), NEW ump \in Seq(Byte), NEW at \in Nat, NEW from \in Nat, NEW size \in Nat,
         at + size <= Len(ump), from + size <= Len(d), Holds(ump, at, d, from, size)
  PROVE  SameBytes(ump, at, d, from, size)
<1> DEFINE a == SubSeq(ump, at + 1, at + size)
           b == SubSeq(d, from + 1, from + size)
<1>1. Len(ump) \in Nat /\ Len(d) \in Nat
  BY LenProperties
<1>2. \A i \in at + 1 .. at + size : ump[i] \in Byte
  BY <1>1, ElementOfSeq
<1>3. /\ a \in Seq(Byte)
      /\ Len(a) = IF at + 1 <= at + size THEN (at + size) - (at + 1) + 1 ELSE 0
      /\ \A i \in 1 .. (at + size) - (at + 1) + 1 : a[i] = ump[(at + 1) + i - 1]
  BY <1>2, SubSeqProperties
<1>4. \A i \in from + 1 .. from + size : d[i] \in Byte
  BY <1>1, ElementOfSeq
<1>5. /\ b \in Seq(Byte)
      /\ Len(b) = IF from + 1 <= from + size THEN (from + size) - (from + 1) + 1 ELSE 0
      /\ \A i \in 1 .. (from + size) - (from + 1) + 1 : b[i] = d[(from + 1) + i - 1]
  BY <1>4, SubSeqProperties
<1> HIDE DEF a, b
<1>6. Len(a) = size /\ Len(b) = size
  BY <1>3, <1>5
<1>7. ASSUME NEW i \in 1 .. size PROVE a[i] = b[i]
  <2>0. ump[at + i] = d[from + i]
    BY DEF Holds
  <2>1. a[i] = ump[(at + 1) + i - 1] /\ (at + 1) + i - 1 = at + i
    BY <1>3
  <2>2. b[i] = d[(from + 1) + i - 1] /\ (from + 1) + i - 1 = from + i
    BY <1>5
  <2> QED BY <2>0, <2>1, <2>2
<1>8. a = b
  BY <1>3, <1>5, <1>6, <1>7, SeqEqual
<1> QED BY <1>8 DEF a, b, SameBytes

(* Where a transfer stands when the receiver has k of its packets.         *)
Stand(t, k) == IF k = 0 THEN "none" ELSE IF Kind(t) # "mds"
/\ k = Total(t) THEN "whole" ELSE "open"

(* What the packet p of a transfer is for the receiver.                    *)
Carries(ump, t, p) ==
  /\ ump \in Seq(Byte) /\ Len(ump) \in {8, 16}
     /\ Len(ump) = ump_get_num_bytes(get_message_type(ump))
  /\ get_message_type(ump) \in {SYSEX7, SYSEX8_MDS}
  /\ \A u \in Transfers : Belongs(ump, u) <=> u = t
  /\ DataOf(ump) = SubSeq(Delivery[t], Upto(t, p) + 1, Upto(t, p + 1))
  /\ Framing(ump, Stand(t, p)) = Stand(t, p + 1)

(* The status of the packets of a System Exclusive message takes the       *)
(* receiver from one to the next.                                          *)
LEMMA StandIs ==
  ASSUME NEW t \in Transfers, NEW p \in 0 .. Total(t) - 1, NEW radix \in {6, 13},
         Kind(t) # "mds", Size(t) \in 0 .. 255, Total(t) = sysex_get_num_packets(Size(t), radix),
         NEW ump, ~IsMds(ump), get_status_code(ump) = PacketStatus(Size(t), radix, p)
  PROVE  Framing(ump, Stand(t, p)) = Stand(t, p + 1)
<1>1. Total(t) \in Nat /\ Total(t) >= 1
  BY TotalIs
<1>2. CASE Size(t) <= radix
  <2>1. Total(t) = 1 /\ p = 0 /\ p + 1 = 1 /\ 1 # 0
    BY <1>2, SysexTotal
  <2>2. get_status_code(ump) = IN_ONE_UMP
    BY <1>2 DEF PacketStatus
  <2> QED BY <2>1, <2>2 DEF Framing, Stand, IN_ONE_UMP, START, CONTINUE, END
<1>3. CASE ~(Size(t) <= radix)
  <2>0. Size(t) > radix /\ p \in Nat
    BY <1>1, <1>3
  <2>1. Total(t) > 1
    BY <2>0, SysexTotal
  <2>2. get_status_code(ump) = IF p = 0 THEN START ELSE IF p = Total(t) - 1 THEN END ELSE CONTINUE
    BY <1>3 DEF PacketStatus
  <2>3. CASE p = 0
    <3>1. p + 1 # 0 /\ p + 1 # Total(t)
      BY <2>1, <2>3
    <3> QED BY <2>2, <2>3, <3>1 DEF Framing, Stand, IN_ONE_UMP, START
  <2>4. CASE p # 0 /\ p = Total(t) - 1
    <3>1. p + 1 # 0 /\ p + 1 = Total(t) /\ p # Total(t)
      BY <1>1, <2>4
    <3> QED BY <2>2, <2>4, <3>1 DEF Framing, Stand, IN_ONE_UMP, START, CONTINUE, END
  <2>5. CASE p # 0 /\ p # Total(t) - 1
    <3>1. p + 1 # 0 /\ p + 1 # Total(t) /\ p # Total(t)
      BY <1>1, <2>5
    <3> QED BY <2>2, <2>5, <3>1 DEF Framing, Stand, IN_ONE_UMP, START, CONTINUE, END
  <2> QED BY <2>3, <2>4, <2>5
<1> QED BY <1>2, <1>3

(* What the receiver makes of a packet of a System Exclusive message with  *)
(* 7 bits.                                                                 *)
LEMMA Sysex7Carries ==
  ASSUME NEW t \in Transfers, NEW p \in 0 .. Total(t) - 1, Kind(t) = "sysex7"
  PROVE  Carries(PacketOf(t, 0, p), t, p)
<1> DEFINE size == PacketSize(Size(t), 6, p)
           group == Call[t].group
           offset == IF Size(t) > 0 /\ Memory(t)[1] = 240 THEN 1 ELSE 0
           src == SubSeq(Memory(t), offset + 1, Len(Memory(t)))
           ump == PacketOf(t, 0, p)
<1>1. /\ Size(t) \in 0 .. 255 /\ Size(t) \in Nat /\ Start(t) \in {0, 1}
         /\ Start(t) + Size(t) <= Len(Memory(t))
      /\ Length(t) % 256 = Size(t)
  BY LengthIs
<1>2. Total(t) = sysex_get_num_packets(Size(t), 6) /\ Radix(t) = 6
  BY TotalIs
<1>0. p \in 0 .. sysex_get_num_packets(Size(t), 6) - 1
  BY <1>2
<1>3. Memory(t) \in Seq(Byte) /\ Len(Memory(t)) \in Nat /\ group \in FourBits
  BY CallIs
<1>4. offset \in {0, 1} /\ (Size(t) > 0 => offset = Start(t))
      /\ offset + Size(t) <= Len(Memory(t))
  <2>1. Size(t) > 0 => offset = Start(t)
    BY DEF Start
  <2>2. offset \in {0, 1}
    OBVIOUS
  <2>3. CASE Size(t) > 0
    BY <1>1, <1>3, <2>1, <2>2, <2>3
  <2>4. CASE ~(Size(t) > 0)
    <3>1. offset = 0 /\ Size(t) = 0
      BY <1>1, <2>4
    <3> QED BY <1>3, <2>2, <2>4, <3>1
  <2> QED BY <2>3, <2>4
<1>5. ump = sysex_get_packet_of(group, Size(t), src, p, SYSEX7, 6, <<>>)
  BY <1>1 DEF PacketOf, sysex7_get_packet_of
<1> HIDE DEF offset, ump
<1>6. /\ src \in Seq(Byte) /\ Len(src) = Len(Memory(t)) - offset
      /\ \A i \in 1 .. Len(Memory(t)) - offset : src[i] = Memory(t)[offset + i]
  <2>1. \A i \in offset + 1 .. Len(Memory(t)) : Memory(t)[i] \in Byte
    BY <1>3, <1>4, ElementOfSeq
  <2>2. /\ src \in Seq(Byte)
        /\ Len(src) = IF offset + 1 <= Len(Memory(t)) THEN Len(Memory(t)) - (offset + 1) + 1 ELSE 0
        /\ \A i \in 1 .. Len(Memory(t)) - (offset + 1) + 1 : src[i] = Memory(t)[(offset + 1) + i - 1]
    BY <1>3, <1>4, <2>1, SubSeqProperties
  <2> HIDE DEF src
  <2>3. Len(src) = Len(Memory(t)) - offset
    BY <1>1, <1>3, <1>4, <2>2
  <2>4. ASSUME NEW i \in 1 .. Len(Memory(t)) - offset
        PROVE  src[i] = Memory(t)[offset + i]
    <3>1. (offset + 1) + i - 1 = offset + i /\ i \in 1 .. Len(Memory(t)) - (offset + 1) + 1
      BY <1>3, <1>4
    <3> QED BY <2>2, <3>1
  <2> QED BY <2>2, <2>3, <2>4
<1> HIDE DEF src
<1>7. Size(t) <= Len(src)
  BY <1>1, <1>3, <1>4, <1>6
<1>8. IsPacket(ump, 8, 3, group) /\ get_status_code(ump) = PacketStatus(Size(t), 6, p)
      /\ get_channel(ump) = size /\ Holds(ump, 2, src, p * 6, size)
  <2>1. IsSysex7(ump, group, Size(t), src, p)
    BY <1>0, <1>1, <1>3, <1>5, <1>6, <1>7, Sysex7Packet
  <2> QED BY <2>1 DEF IsSysex7
<1>9. /\ size \in 0 .. 6 /\ p * 6 \in 0 .. Size(t) /\ p * 6 + size <= Size(t)
  <2>1. IsInside(Size(t), 6, p)
    BY <1>0, <1>1, PacketRange
  <2> QED BY <2>1 DEF IsInside
<1>10. Upto(t, p) = p * 6 /\ Upto(t, p + 1) = p * 6 + size
  BY <1>2, UptoIs, PacketHasIts
<1> HIDE DEF size
<1>11. ~IsMds(ump)
  BY <1>8 DEF IsPacket, IsMds, SYSEX8_MDS
<1>12. IsDelivery(t)
  BY DeliveryIs
<1>13. DataOf(ump) = SubSeq(Delivery[t], p * 6 + 1, p * 6 + size)
  <2>1. DataOf(ump) = SubSeq(ump, 2 + 1, 2 + size)
    <3>1. DataOf(ump) = SubSeq(ump, 3, 2 + size)
      BY <1>8, <1>11 DEF DataOf, IsPacket, SYSEX7
    <3> QED BY <3>1
  <2>2. ASSUME NEW i \in 1 .. size PROVE ump[2 + i] = Delivery[t][p * 6 + i]
    <3>1. ump[2 + i] = src[p * 6 + i]
      BY <1>8 DEF Holds
    <3>2. p * 6 + i \in 1 .. Size(t) /\ Size(t) > 0
      BY <1>1, <1>9
    <3>3. p * 6 + i \in 1 .. Len(Memory(t)) - offset
      BY <1>1, <1>3, <1>4, <3>2
    <3>4. src[p * 6 + i] = Memory(t)[offset + (p * 6 + i)]
      BY <1>6, <3>3
    <3>5. Delivery[t][p * 6 + i] = Item(t, p * 6 + i)
      BY <1>12, <3>2 DEF IsDelivery
    <3>6. Item(t, p * 6 + i) = Memory(t)[Start(t) + (p * 6 + i)]
      BY DEF Item
    <3> QED BY <1>4, <3>1, <3>2, <3>4, <3>5, <3>6
  <2>3. ump \in Seq(Byte) /\ Len(ump) = 8 /\ Delivery[t] \in Seq(Byte)
        /\ Len(Delivery[t]) = Size(t)
    BY <1>8, <1>12 DEF IsPacket, IsDelivery
  <2>4. SubSeq(ump, 2 + 1, 2 + size) = SubSeq(Delivery[t], p * 6 + 1, p * 6 + size)
    <3>1. 2 + size <= 8 /\ p * 6 + size <= Size(t) /\ 2 \in Nat /\ p * 6 \in Nat /\ size \in Nat
      BY <1>1, <1>9
    <3> DEFINE at == 2
               from == p * 6
    <3>2. /\ at \in Nat /\ from \in Nat /\ at + size <= Len(ump)
             /\ from + size <= Len(Delivery[t])
          /\ Holds(ump, at, Delivery[t], from, size)
      BY <2>2, <2>3, <3>1 DEF Holds
    <3>3. SameBytes(ump, at, Delivery[t], from, size)
      <4> HIDE DEF at, from
      <4> QED BY <2>3, <3>1, <3>2, SameData
    <3> QED BY <3>3 DEF SameBytes
  <2> QED BY <2>1, <2>4
<1>14. Framing(ump, Stand(t, p)) = Stand(t, p + 1)
  BY <1>1, <1>2, <1>8, <1>11, StandIs
<1>15. ASSUME NEW u \in Transfers PROVE Belongs(ump, u) <=> u = t
  <2>1. get_message_type(ump) = SYSEX7 /\ get_message_type(ump) # SYSEX8_MDS
        /\ get_group(ump) = group
    BY <1>8 DEF IsPacket, SYSEX7, SYSEX8_MDS
  <2>2. Kind(u) \in {"sysex7", "sysex8", "mds"}
    BY CallIs
  <2>3. Belongs(ump, u) <=> Call[u].group = group /\ Kind(u) = "sysex7"
    BY <1>11, <2>1, <2>2 DEF Belongs
  <2>4. u # t /\ Kind(u) = Kind(t) /\ Call[u].group = Call[t].group => Kind(u) # "sysex7"
    BY IdsAssumption
  <2> QED BY <2>3, <2>4
<1>16. 3 \in {SYSEX7, SYSEX8_MDS} /\ ump_get_num_bytes(3) = 8
  BY DEF SYSEX7, ump_get_num_bytes
<1> QED BY <1>8, <1>10, <1>13, <1>14, <1>15, <1>16 DEF ump, Carries, IsPacket

(* What the receiver makes of a packet of a System Exclusive message with  *)
(* 8 bits.                                                                 *)
LEMMA Sysex8Carries ==
  ASSUME NEW t \in Transfers, NEW p \in 0 .. Total(t) - 1, Kind(t) = "sysex8"
  PROVE  Carries(PacketOf(t, 0, p), t, p)
<1> DEFINE size == PacketSize(Size(t), 13, p)
           group == Call[t].group
           id == Call[t].id
           src == Memory(t)
           ump == PacketOf(t, 0, p)
<1>1. /\ Size(t) \in 0 .. 255 /\ Size(t) \in Nat /\ Start(t) = 0 /\ Size(t) <= Len(src)
      /\ Length(t) % 256 = Size(t)
  <2>1. Start(t) = 0
    BY DEF Start
  <2>2. Len(src) \in Nat
    BY CallIs
  <2> QED BY <2>1, <2>2, LengthIs
<1>2. Total(t) = sysex_get_num_packets(Size(t), 13) /\ Radix(t) = 13
  BY TotalIs
<1>0. p \in 0 .. sysex_get_num_packets(Size(t), 13) - 1
  BY <1>2
<1>3. src \in Seq(Byte) /\ Len(src) \in Nat /\ group \in FourBits /\ id \in Byte
  BY CallIs
<1>4. ump = sysex8_get_packet_of(group, id, Size(t), src, p)
  BY <1>1 DEF PacketOf
<1> HIDE DEF ump, src
<1>5. /\ IsPacket(ump, 16, 5, group) /\ get_status_code(ump) = PacketStatus(Size(t), 13, p)
      /\ ump[3] = id
      /\ get_channel(ump) = size + 1 /\ Holds(ump, 3, src, p * 13, size)
  <2>1. IsSysex8(ump, group, id, Size(t), src, p)
    BY <1>0, <1>1, <1>3, <1>4, Sysex8Packet
  <2> QED BY <2>1 DEF IsSysex8
<1>6. /\ size \in 0 .. 13 /\ p * 13 \in 0 .. Size(t) /\ p * 13 + size <= Size(t)
      /\ PacketStatus(Size(t), 13, p) \in 0 .. 3
  <2>1. IsInside(Size(t), 13, p)
    BY <1>0, <1>1, PacketRange
  <2> QED BY <2>1 DEF IsInside
<1>7. Upto(t, p) = p * 13 /\ Upto(t, p + 1) = p * 13 + size
  BY <1>2, UptoIs, PacketHasIts
<1>8. get_status_code(ump) \in 0 .. 3
  BY <1>5, <1>6
<1> HIDE DEF size
<1>9. ~IsMds(ump)
  BY <1>8 DEF IsMds, END
<1>10. IsDelivery(t)
  BY DeliveryIs
<1>11. DataOf(ump) = SubSeq(Delivery[t], p * 13 + 1, p * 13 + size)
  <2>1. DataOf(ump) = SubSeq(ump, 3 + 1, 3 + size)
    <3>1. get_message_type(ump) # SYSEX7 /\ get_channel(ump) = size + 1
      BY <1>5 DEF IsPacket, SYSEX7
    <3>2. DataOf(ump) = SubSeq(ump, 4, 2 + get_channel(ump))
      BY <1>9, <3>1 DEF DataOf
    <3>3. 2 + get_channel(ump) = 3 + size /\ 3 + 1 = 4
      BY <1>6, <3>1
    <3> QED BY <3>2, <3>3
  <2>2. ASSUME NEW i \in 1 .. size PROVE ump[3 + i] = Delivery[t][p * 13 + i]
    <3>1. ump[3 + i] = src[p * 13 + i]
      BY <1>5 DEF Holds
    <3>2. p * 13 + i \in 1 .. Size(t) /\ 0 + (p * 13 + i) = p * 13 + i
      BY <1>1, <1>6
    <3>3. Delivery[t][p * 13 + i] = Item(t, p * 13 + i)
      BY <1>10, <3>2 DEF IsDelivery
    <3>4. Item(t, p * 13 + i) = src[Start(t) + (p * 13 + i)]
      BY DEF Item, src
    <3> QED BY <1>1, <3>1, <3>2, <3>3, <3>4
  <2>3. ump \in Seq(Byte) /\ Len(ump) = 16 /\ Delivery[t] \in Seq(Byte)
        /\ Len(Delivery[t]) = Size(t)
    BY <1>5, <1>10 DEF IsPacket, IsDelivery
  <2>4. SubSeq(ump, 3 + 1, 3 + size) = SubSeq(Delivery[t], p * 13 + 1, p * 13 + size)
    <3>1. 3 + size <= 16 /\ p * 13 + size <= Size(t) /\ 3 \in Nat /\ p * 13 \in Nat
          /\ size \in Nat
      BY <1>1, <1>6
    <3> DEFINE at == 3
               from == p * 13
    <3>2. /\ at \in Nat /\ from \in Nat /\ at + size <= Len(ump)
             /\ from + size <= Len(Delivery[t])
          /\ Holds(ump, at, Delivery[t], from, size)
      BY <2>2, <2>3, <3>1 DEF Holds
    <3>3. SameBytes(ump, at, Delivery[t], from, size)
      <4> HIDE DEF at, from
      <4> QED BY <2>3, <3>1, <3>2, SameData
    <3> QED BY <3>3 DEF SameBytes
  <2> QED BY <2>1, <2>4
<1>12. Framing(ump, Stand(t, p)) = Stand(t, p + 1)
  BY <1>1, <1>2, <1>5, <1>9, StandIs
<1>13. ASSUME NEW u \in Transfers PROVE Belongs(ump, u) <=> u = t
  <2>1. get_message_type(ump) # SYSEX7 /\ get_message_type(ump) = SYSEX8_MDS
        /\ get_group(ump) = group
    BY <1>5 DEF IsPacket, SYSEX7, SYSEX8_MDS
  <2>2. Kind(u) \in {"sysex7", "sysex8", "mds"}
    BY CallIs
  <2>3. PACKET(ump, 2) = id
    BY <1>5 DEF PACKET
  <2>4. Belongs(ump, u) <=> Call[u].group = group /\ Kind(u) = "sysex8" /\ Call[u].id = id
    BY <1>9, <2>1, <2>2, <2>3 DEF Belongs
  <2>5. u # t /\ Kind(u) = Kind(t) /\ Call[u].group = Call[t].group => Call[u].id # Call[t].id
    BY IdsAssumption
  <2> QED BY <2>4, <2>5
<1>14. 5 \in {SYSEX7, SYSEX8_MDS} /\ ump_get_num_bytes(5) = 16
  BY DEF SYSEX8_MDS, ump_get_num_bytes
<1> QED BY <1>5, <1>7, <1>11, <1>12, <1>13, <1>14 DEF ump, Carries, IsPacket

(* What the receiver makes of a payload of a Mixed Data Set.               *)
LEMMA MdsCarries ==
  ASSUME NEW t \in Transfers, NEW p \in 0 .. Total(t) - 1, Kind(t) = "mds"
  PROVE  Carries(PacketOf(t, 0, p), t, p)
<1> DEFINE group == Call[t].group
           id == Call[t].id
           src == Memory(t)
           ump == PacketOf(t, 0, p)
           offset == p * 14
<1>1. /\ Length(t) \in BelowChunk /\ Start(t) = 0 /\ Length(t) <= Len(src) /\ Length(t) \in Nat
         /\ Size(t) \in Nat
      /\ Length(t) >= 14 => Size(t) <= Len(src)
      /\ Length(t) <= Size(t)
  BY LengthIs
<1>2. Total(t) \in Nat /\ Total(t) * 14 = Size(t) /\ Radix(t) = 14 /\ p \in Nat
      /\ p + 1 \in Nat /\ p + 1 <= Total(t)
  BY TotalIs
<1>3. src \in Seq(Byte) /\ Len(src) \in Nat /\ group \in FourBits /\ id \in FourBits
  BY CallIs
<1>4. offset \in Nat /\ offset + 14 <= Size(t) /\ 14 * (65536 * 0 + p) = offset
  BY <1>2, SMT
<1>5. Size(t) < Length(t) + 14
  BY <1>1, RoundedUp DEF Size
<1>6. ump = mds_get_payload_of(group, id, Length(t), src, offset)
  <2>1. ChunkSize(Length(t), 0) % 65536 = Length(t)
    BY <1>1, OneChunk
  <2> QED BY <1>4, <2>1 DEF PacketOf
<1>7. Length(t) < 14 => offset = 0
  <2>1. Length(t) < 14 => Total(t) * 14 < 28
    BY <1>1, <1>2, <1>5
  <2>2. Total(t) * 14 < 28 => p = 0
    BY <1>2
  <2>3. p = 0 => offset = 0
    OBVIOUS
  <2> QED BY <2>1, <2>2, <2>3
<1> HIDE DEF ump, src, offset
<1>8. /\ Length(t) < 14 => offset + Length(t) <= Len(src)
      /\ Length(t) >= 14 => offset + 14 <= Len(src)
  BY <1>1, <1>3, <1>4, <1>7
<1>9. /\ IsPacket(ump, 16, 5, group) /\ get_status_code(ump) = 9 /\ get_channel(ump) = id
      /\ \A i \in 1 .. 14 : ump[2 + i] = IF Length(t) < i
         /\ Length(t) < 14 THEN 0 ELSE src[offset + i]
  <2>1. IsPayload(ump, group, id, Length(t), src, offset)
    BY <1>1, <1>3, <1>4, <1>6, <1>8, MdsPayload
  <2> QED BY <2>1 DEF IsPayload
<1>10. Upto(t, p) = offset /\ Upto(t, p + 1) = offset + 14
  BY <1>2, UptoIs, PacketHasIts DEF offset
<1>11. IsMds(ump)
  BY <1>9 DEF IsPacket, IsMds, SYSEX8_MDS, END
<1>12. IsDelivery(t)
  BY DeliveryIs
<1>13. DataOf(ump) = SubSeq(Delivery[t], offset + 1, offset + 14)
  <2>1. DataOf(ump) = SubSeq(ump, 2 + 1, 2 + 14)
    BY <1>11 DEF DataOf
  <2>2. ASSUME NEW i \in 1 .. 14 PROVE ump[2 + i] = Delivery[t][offset + i]
    <3>1. ump[2 + i] = IF Length(t) < i /\ Length(t) < 14 THEN 0 ELSE src[offset + i]
      BY <1>9
    <3>2. offset + i \in 1 .. Size(t) /\ 0 + (offset + i) = offset + i
      BY <1>1, <1>4
    <3>3. Delivery[t][offset + i] = Item(t, offset + i)
      BY <1>12, <3>2 DEF IsDelivery
    <3>4. Item(t, offset + i) = IF Length(t) < offset + i
          /\ Length(t) < 14 THEN 0 ELSE src[offset + i]
      BY <1>1, <3>2 DEF Item, src
    <3>5. (Length(t) < offset + i /\ Length(t) < 14) <=> (Length(t) < i /\ Length(t) < 14)
      BY <1>1, <1>7
    <3> QED BY <3>1, <3>3, <3>4, <3>5
  <2>3. ump \in Seq(Byte) /\ Len(ump) = 16 /\ Delivery[t] \in Seq(Byte)
        /\ Len(Delivery[t]) = Size(t)
    BY <1>9, <1>12 DEF IsPacket, IsDelivery
  <2>4. SubSeq(ump, 2 + 1, 2 + 14) = SubSeq(Delivery[t], offset + 1, offset + 14)
    <3> DEFINE at == 2
               size == 14
    <3>1. /\ at \in Nat /\ offset \in Nat /\ size \in Nat
          /\ at + size <= Len(ump) /\ offset + size <= Len(Delivery[t])
          /\ Holds(ump, at, Delivery[t], offset, size)
      BY <1>4, <2>2, <2>3 DEF Holds
    <3>2. SameBytes(ump, at, Delivery[t], offset, size)
      <4> HIDE DEF at, size
      <4> QED BY <2>3, <3>1, SameData
    <3> QED BY <3>2 DEF SameBytes
  <2> QED BY <2>1, <2>4
<1>14. Framing(ump, Stand(t, p)) = Stand(t, p + 1)
  <2>1. Framing(ump, Stand(t, p)) = "open"
    BY <1>9, <1>11 DEF Framing, IN_ONE_UMP, START, CONTINUE, END
  <2>2. p + 1 # 0
    BY <1>2
  <2> QED BY <2>1, <2>2 DEF Stand
<1>15. ASSUME NEW u \in Transfers PROVE Belongs(ump, u) <=> u = t
  <2>1. get_message_type(ump) # SYSEX7 /\ get_group(ump) = group
    BY <1>9 DEF IsPacket, SYSEX7
  <2>2. Kind(u) \in {"sysex7", "sysex8", "mds"}
    BY CallIs
  <2>3. Belongs(ump, u) <=> Call[u].group = group /\ Kind(u) = "mds" /\ Call[u].id = id
    BY <1>9, <1>11, <2>1, <2>2 DEF Belongs
  <2>4. u # t /\ Kind(u) = Kind(t) /\ Call[u].group = Call[t].group => Call[u].id # Call[t].id
    BY IdsAssumption
  <2> QED BY <2>3, <2>4
<1>16. 5 \in {SYSEX7, SYSEX8_MDS} /\ ump_get_num_bytes(5) = 16
  BY DEF SYSEX8_MDS, ump_get_num_bytes
<1> QED BY <1>9, <1>10, <1>13, <1>14, <1>15, <1>16 DEF ump, Carries, IsPacket

(* Whatever the transfer, the getters find in each packet that it belongs  *)
(* to this transfer and to no other, the data that is next, and its        *)
(* place.                                                                  *)
LEMMA EachPacketCarries ==
  ASSUME NEW t \in Transfers, NEW p \in 0 .. Total(t) - 1
  PROVE  Carries(PacketOf(t, 0, p), t, p)
BY CallIs, Sysex7Carries, Sysex8Carries, MdsCarries
-----------------------------------------------------------------------------
(* A packet lies in the buffer behind `at`.                                *)
LiesIn(bytes, ump, at) ==
  /\ at + Len(ump) <= Len(bytes)
  /\ \A i \in 1 .. Len(ump) : bytes[at + i] = ump[i]

(* What is put behind a packet does not change it.                         *)
LEMMA StillLies ==
  ASSUME NEW bytes \in Seq(Byte), NEW more \in Seq(Byte), NEW ump \in Seq(Byte), NEW at \in Nat,
         LiesIn(bytes, ump, at)
  PROVE  LiesIn(bytes \o more, ump, at)
<1>1. Len(bytes) \in Nat /\ Len(more) \in Nat /\ Len(ump) \in Nat
  BY LenProperties
<1> DEFINE all == bytes \o more
<1>2. /\ Len(all) = Len(bytes) + Len(more)
      /\ \A i \in 1 .. Len(bytes) + Len(more) : all[i] = IF i <= Len(bytes) THEN bytes[i] ELSE more[i - Len(bytes)]
  BY ConcatProperties
<1> HIDE DEF all
<1>3. ASSUME NEW i \in 1 .. Len(ump) PROVE all[at + i] = ump[i]
  <2>1. at + i \in 1 .. Len(bytes) + Len(more) /\ at + i <= Len(bytes)
    BY <1>1 DEF LiesIn
  <2> QED BY <1>2, <2>1 DEF LiesIn
<1> QED BY <1>1, <1>2, <1>3 DEF LiesIn, all

(* A packet that is put into the buffer lies there.                        *)
LEMMA LiesBehind ==
  ASSUME NEW bytes \in Seq(Byte), NEW ump \in Seq(Byte)
  PROVE  LiesIn(bytes \o ump, ump, Len(bytes)) /\ Len(bytes \o ump) = Len(bytes) + Len(ump)
<1>1. Len(bytes) \in Nat /\ Len(ump) \in Nat
  BY LenProperties
<1> DEFINE all == bytes \o ump
<1>2. /\ Len(all) = Len(bytes) + Len(ump)
      /\ \A i \in 1 .. Len(bytes) + Len(ump) : all[i] = IF i <= Len(bytes) THEN bytes[i] ELSE ump[i - Len(bytes)]
  BY ConcatProperties
<1> HIDE DEF all
<1>3. ASSUME NEW i \in 1 .. Len(ump) PROVE all[Len(bytes) + i] = ump[i]
  <2>1. Len(bytes) + i \in 1 .. Len(bytes) + Len(ump) /\ ~(Len(bytes) + i <= Len(bytes))
        /\ Len(bytes) + i - Len(bytes) = i
    BY <1>1
  <2> QED BY <1>2, <2>1
<1> QED BY <1>1, <1>2, <1>3 DEF LiesIn, all

(* A packet that lies in the buffer is cut out of it.                      *)
LEMMA LiesAgain ==
  ASSUME NEW bytes \in Seq(Byte), NEW ump \in Seq(Byte), NEW at \in Nat, LiesIn(bytes, ump, at)
  PROVE  SubSeq(bytes, at + 1, at + Len(ump)) = ump
<1> DEFINE part == SubSeq(bytes, at + 1, at + Len(ump))
<1>1. Len(bytes) \in Nat /\ Len(ump) \in Nat /\ at + Len(ump) <= Len(bytes)
  BY LenProperties DEF LiesIn
<1>2. \A i \in at + 1 .. at + Len(ump) : bytes[i] \in Byte
  BY <1>1, ElementOfSeq
<1>3. /\ part \in Seq(Byte)
      /\ Len(part) = IF at + 1 <= at + Len(ump) THEN (at + Len(ump)) - (at + 1) + 1 ELSE 0
      /\ \A i \in 1 .. (at + Len(ump)) - (at + 1) + 1 : part[i] = bytes[(at + 1) + i - 1]
  BY <1>1, <1>2, SubSeqProperties
<1> HIDE DEF part
<1>4. Len(part) = Len(ump)
  BY <1>1, <1>3
<1>5. ASSUME NEW i \in 1 .. Len(ump) PROVE part[i] = ump[i]
  <2>1. part[i] = bytes[(at + 1) + i - 1] /\ (at + 1) + i - 1 = at + i
    BY <1>1, <1>3
  <2> QED BY <2>1 DEF LiesIn
<1>6. part = ump
  BY <1>3, <1>4, <1>5, SeqEqual
<1> QED BY <1>6 DEF part

(* The walk takes this packet.                                             *)
Walks(ump) == sequence_next(buffer, iter) = {iter + Len(ump)} /\ Ump = ump

(* The walk takes a packet that begins where it stands, and all of it.     *)
LEMMA WalkIs ==
  ASSUME wraps = TRUE, buffer \in Seq(Byte), iter \in Nat, NEW ump \in Seq(Byte), LiesIn(buffer, ump, iter),
         Len(ump) = ump_get_num_bytes(get_message_type(ump)), Len(ump) >= 1
  PROVE  Walks(ump)
<1>1. Len(ump) \in Nat
  BY LenProperties
<1>2. buffer[iter + 1] = ump[1]
  BY <1>1 DEF LiesIn
<1>3. buffer[iter + 1] \div 16 = get_message_type(ump)
  BY <1>2 DEF get_message_type
<1>4. sequence_next(buffer, iter) = {iter + Len(ump)}
  <2>1. read_types(buffer, iter) = {get_message_type(ump)}
    BY <1>3 DEF read_types
  <2> QED BY <2>1 DEF sequence_next
<1>5. SubSeq(buffer, iter + 1, iter + Len(ump)) = ump
  BY LiesAgain
<1>6. Ump = ump
  BY <1>3, <1>5 DEF Ump
<1> QED BY <1>4, <1>6 DEF Walks

IsMessage(m) ==
  /\ UmpOf(m) \in Seq(Byte) /\ Len(UmpOf(m)) \in {4, 8}
  /\ Len(UmpOf(m)) = ump_get_num_bytes(get_message_type(UmpOf(m)))
  /\ get_message_type(UmpOf(m)) \notin {SYSEX7, SYSEX8_MDS}
  /\ m # NoMessage

(* A message of one packet is no part of a transfer.                       *)
LEMMA MessageIs ==
  ASSUME NEW m \in Messages
  PROVE  IsMessage(m)
<1>1. UmpOf(m) \in Seq(Byte) /\ ReadsBack(UmpOf(m), m) /\ m.type \in {0, 1, 2, 4}
  BY MessagesReadBack
<1>2. get_message_type(UmpOf(m)) = m.type /\ Len(UmpOf(m)) = ump_get_num_bytes(m.type)
  BY <1>1 DEF ReadsBack
<1>3. ump_get_num_bytes(m.type) \in {4, 8}
  BY <1>1 DEF ump_get_num_bytes
<1>4. m.type \notin {SYSEX7, SYSEX8_MDS}
  BY <1>1 DEF SYSEX7, SYSEX8_MDS
<1>5. m # NoMessage
  BY <1>1 DEF NoMessage
<1> QED BY <1>1, <1>2, <1>3, <1>4, <1>5 DEF IsMessage

(* A packet that has been put into the buffer and the place behind it.     *)
Pack(q) == PacketOf(q.t, 0, q.p)

Behind(q) == q.at + Len(Pack(q))

Slots == [at : Nat, t : Transfers, p : Nat]

(* How many packets a loop has sent.                                       *)
SentCount(t) == IF chunk[t] = 0 THEN packet[t] ELSE Total(t)

(* Where a packet or the end of the buffer is to be found.                 *)
Follows(x) == x = Len(buffer) \/ \E q \in queued : q.at = x

(* The bytes of the message in front.                                      *)
FrontLen == IF message = NoMessage THEN 0 ELSE Len(UmpOf(message))

(* A packet has not been walked over yet.                                  *)
Waits(t, p) == \E q \in queued : q.t = t /\ q.p = p

(* The receiver has k packets of a transfer, and the others that have      *)
(* been sent are in the buffer.                                            *)
Heard(t, k) ==
  /\ heard[t] = SubSeq(Delivery[t], 1, Upto(t, k)) /\ framing[t] = Stand(t, k)
  /\ \A p \in Nat : Waits(t, p) <=> k <= p /\ p < SentCount(t)

(* The invariant: types, in full; the loops; the message in front; if the  *)
(* build cannot read the types, nothing is heard; otherwise the walk is    *)
(* not behind the end and stands in front of a packet, those in the buffer *)
(* are in the order in which they were sent, and for each transfer they    *)
(* are what has been sent and not been heard.                              *)
Types ==
  /\ chunk \in [Transfers -> {0, 1}] /\ packet \in [Transfers -> Nat]
  /\ buffer \in Seq(Byte) /\ Len(buffer) <= BufferSize /\ iter \in Nat
  /\ heard \in [Transfers -> Seq(Byte)] /\ framing \in [Transfers -> {"none", "open", "whole"}]
  /\ message \in Messages \cup {NoMessage} /\ queued \in SUBSET Slots /\ wraps \in BOOLEAN

LoopsOK == \A t \in Transfers : packet[t] \in 0 .. Total(t) /\ (chunk[t] = 1 => packet[t] = 0)

FrontOK == message # NoMessage => LiesIn(buffer, UmpOf(message), 0)

Silent == \A t \in Transfers : heard[t] = <<>> /\ framing[t] = "none"

(* A packet in the buffer is whole, the walk has not passed it, and what   *)
(* follows it is a packet or the end.                                      *)
Placed(q) ==
  /\ q.p \in 0 .. Total(q.t) - 1 /\ iter <= q.at /\ FrontLen <= q.at
  /\ LiesIn(buffer, Pack(q), q.at) /\ Follows(Behind(q))

InBuffer == iter <= Len(buffer)

QueuedOK == \A q \in queued : Placed(q)

NextOK == IF iter < FrontLen THEN iter = 0 /\ Follows(FrontLen) ELSE Follows(iter)

OrderOK == \A q, r \in queued :
  /\ q.at < r.at => Behind(q) <= r.at /\ (q.t = r.t => q.p < r.p)
  /\ q.at = r.at => q = r

HeardOK == \A t \in Transfers : \E k \in 0 .. SentCount(t) : Heard(t, k)

Walking == InBuffer /\ QueuedOK /\ NextOK /\ OrderOK /\ HeardOK

Inv == Types /\ LoopsOK /\ FrontOK /\ (~wraps => Silent) /\ (wraps => Walking)

(* Nothing has been sent: the invariant holds.                             *)
LEMMA InitInv == Init => Inv
<1> SUFFICES ASSUME Init PROVE Inv
  OBVIOUS
<1>1. Len(buffer) = 0 /\ iter = 0 /\ FrontLen = 0
  BY DEF Init, FrontLen
<1>2. Types
  BY <1>1, BufferAssumption DEF Init, Types
<1>3. LoopsOK /\ FrontOK /\ Silent
  BY <1>1, TotalIs DEF Init, LoopsOK, FrontOK, Silent
<1>4. InBuffer /\ QueuedOK /\ NextOK /\ OrderOK
  BY <1>1 DEF Init, InBuffer, QueuedOK, NextOK, OrderOK, Follows
<1>5. ASSUME NEW t \in Transfers PROVE Heard(t, 0) /\ 0 \in 0 .. SentCount(t)
  <2>1. SentCount(t) = 0
    BY DEF Init, SentCount
  <2>2. SubSeq(Delivery[t], 1, Upto(t, 0)) = <<>>
    BY UptoIs, SubSeqEmpty
  <2>3. \A p \in Nat : ~Waits(t, p)
    BY DEF Init, Waits
  <2>4. heard[t] = <<>> /\ framing[t] = "none" /\ Stand(t, 0) = "none"
    BY DEF Init, Stand
  <2>5. \A p \in Nat : Waits(t, p) <=> 0 <= p /\ p < SentCount(t)
    BY <2>1, <2>3
  <2>6. Heard(t, 0)
    BY <2>2, <2>4, <2>5 DEF Heard
  <2> QED BY <2>1, <2>6
<1> QED BY <1>2, <1>3, <1>4, <1>5 DEF Inv, Walking, HeardOK

(* What is known of a packet that lies in the buffer.                      *)
LEMMA QueuedHas ==
  ASSUME Types, QueuedOK, NEW q \in queued
  PROVE  /\ q \in Slots /\ q.at \in Nat /\ q.t \in Transfers /\ q.p \in 0 .. Total(q.t) - 1
            /\ q.p \in Nat
         /\ Carries(Pack(q), q.t, q.p)
         /\ Pack(q) \in Seq(Byte) /\ Len(Pack(q)) \in {8, 16}
         /\ Behind(q) \in Nat /\ q.at < Behind(q) /\ Behind(q) <= Len(buffer) /\ Placed(q)
<1>1. q \in Slots /\ Placed(q)
  BY DEF Types, QueuedOK
<1>2. q.at \in Nat /\ q.t \in Transfers /\ q.p \in Nat
  BY <1>1 DEF Slots
<1>3. q.p \in 0 .. Total(q.t) - 1
  BY <1>1 DEF Placed
<1>4. Carries(Pack(q), q.t, q.p)
  BY <1>2, <1>3, EachPacketCarries DEF Pack
<1>5. Pack(q) \in Seq(Byte) /\ Len(Pack(q)) \in {8, 16}
  BY <1>4 DEF Carries
<1>6. Behind(q) \in Nat /\ q.at < Behind(q)
  <2> DEFINE n == Len(Pack(q))
  <2>1. n \in {8, 16}
    BY <1>5
  <2> HIDE DEF n
  <2>2. q.at + n \in Nat /\ q.at < q.at + n
    BY <1>2, <2>1
  <2> QED BY <2>2 DEF Behind, n
<1>7. Behind(q) <= Len(buffer)
  BY <1>1 DEF Placed, LiesIn, Behind
<1> QED BY <1>1, <1>2, <1>3, <1>4, <1>5, <1>6, <1>7

(* The packet that a loop sends next.                                      *)
LEMMA StepTo ==
  ASSUME NEW t \in Transfers, Types, LoopsOK, ~Sent(t)
  PROVE  /\ chunk[t] = 0 /\ packet[t] \in 0 .. Total(t) /\ Total(t) \in Nat
         /\ packet[t] \in DOMAIN Packets[t][chunk[t]] <=> packet[t] < Total(t)
         /\ packet[t] < Total(t) => Packets[t][chunk[t]][packet[t]] = PacketOf(t, 0, packet[t])
<1>1. IsSequenceOfPackets(t)
  BY SequenceOfPackets
<1>2. chunk[t] = 0
  BY <1>1 DEF Sent, IsSequenceOfPackets
<1>3. packet[t] \in 0 .. Total(t) /\ Total(t) \in Nat
  BY <1>1 DEF LoopsOK, IsSequenceOfPackets
<1>4. packet[t] \in DOMAIN Packets[t][0] <=> packet[t] < Total(t)
  BY <1>1, <1>3 DEF IsSequenceOfPackets
<1>5. packet[t] < Total(t) => Packets[t][0][packet[t]] = PacketOf(t, 0, packet[t])
  BY <1>1, <1>3 DEF IsSequenceOfPackets
<1> QED BY <1>2, <1>3, <1>4, <1>5
-----------------------------------------------------------------------------
(* A packet is put behind those that lie in the buffer.                    *)
LEMMA ProcessInv ==
  ASSUME Inv, NEW t \in Transfers, Process(t)
  PROVE  Inv'
<1> DEFINE p == packet[t]
           ump == PacketOf(t, 0, packet[t])
           new == [at |-> Len(buffer), t |-> t, p |-> packet[t]]
<1>1. Types /\ LoopsOK /\ FrontOK /\ (~wraps => Silent) /\ (wraps => Walking)
  BY DEF Inv
<1>2. /\ ~Sent(t) /\ p \in DOMAIN Packets[t][chunk[t]]
      /\ Len(buffer) + Len(Packets[t][chunk[t]][p]) <= BufferSize
      /\ buffer' = buffer \o Packets[t][chunk[t]][p]
      /\ queued' = queued \cup {new} /\ packet' = [packet EXCEPT ![t] = @ + 1]
      /\ chunk' = chunk /\ iter' = iter /\ message' = message /\ heard' = heard
      /\ framing' = framing /\ wraps' = wraps
  BY DEF Process
<1>3. chunk[t] = 0 /\ p \in 0 .. Total(t) - 1 /\ p \in Nat /\ Total(t) \in Nat
  BY <1>1, <1>2, StepTo
<1>4. Len(buffer) + Len(ump) <= BufferSize /\ buffer' = buffer \o ump
  BY <1>1, <1>2, <1>3, StepTo
<1>5. ump \in Seq(Byte) /\ Len(ump) \in {8, 16}
  BY <1>3, EachPacketCarries DEF Carries
<1>6. buffer \in Seq(Byte) /\ Len(buffer) \in Nat /\ iter \in Nat
  BY <1>1, LenProperties DEF Types
<1>7. Len(buffer') = Len(buffer) + Len(ump) /\ LiesIn(buffer', ump, Len(buffer))
      /\ buffer' \in Seq(Byte)
  BY <1>4, <1>5, <1>6, LiesBehind, ConcatProperties
<1>8. Pack(new) = ump /\ new.at = Len(buffer) /\ new.t = t /\ new.p = p
      /\ Behind(new) = Len(buffer')
  BY <1>7 DEF Pack, Behind
<1>9. new \in Slots
  BY <1>3, <1>6 DEF Slots
<1> HIDE DEF ump, new
<1>10. Types'
  <2>1. packet' \in [Transfers -> Nat]
    BY <1>1, <1>2, <1>3 DEF Types
  <2>2. Len(buffer') <= BufferSize /\ iter' \in Nat
    BY <1>2, <1>4, <1>6, <1>7
  <2> QED BY <1>1, <1>2, <1>7, <1>9, <2>1, <2>2 DEF Types
<1>11. LoopsOK'
  <2>1. ASSUME NEW u \in Transfers
        PROVE  packet'[u] \in 0 .. Total(u) /\ (chunk[u] = 1 => packet'[u] = 0)
    <3>1. CASE u = t
      <4>1. packet'[u] = packet[t] + 1
        BY <1>1, <1>2, <3>1 DEF Types
      <4> QED BY <1>3, <3>1, <4>1
    <3>2. CASE u # t
      <4>1. packet'[u] = packet[u]
        BY <1>1, <1>2, <3>2 DEF Types
      <4> QED BY <1>1, <4>1 DEF LoopsOK
    <3> QED BY <3>1, <3>2
  <2> QED BY <1>2, <2>1 DEF LoopsOK
<1>13. FrontOK'
  <2>1. message # NoMessage => UmpOf(message) \in Seq(Byte)
    BY <1>1, MessageIs DEF Types, IsMessage
  <2>2. 0 \in Nat
    OBVIOUS
  <2> QED BY <1>1, <1>2, <1>4, <1>5, <1>6, <2>1, <2>2, StillLies DEF FrontOK
<1>14. ~wraps' => Silent'
  BY <1>1, <1>2 DEF Silent
<1>15. wraps' => Walking'
  <2> SUFFICES ASSUME wraps' PROVE Walking'
    OBVIOUS
  <2>1. InBuffer /\ QueuedOK /\ NextOK /\ OrderOK /\ HeardOK
    BY <1>1, <1>2 DEF Walking
  <2>0. InBuffer'
    BY <1>2, <1>5, <1>6, <1>7, <2>1 DEF InBuffer
  <2>2. FrontLen' = FrontLen
    BY <1>2 DEF FrontLen
  <2>3. ASSUME NEW x, Follows(x) PROVE Follows(x)'
    <3>1. CASE x = Len(buffer)
      BY <1>2, <1>8, <3>1 DEF Follows
    <3>2. CASE \E q \in queued : q.at = x
      BY <1>2, <3>2 DEF Follows
    <3> QED BY <2>3, <3>1, <3>2 DEF Follows
  <2>4. FrontLen <= Len(buffer)
    <3>1. CASE message = NoMessage
      BY <1>6, <3>1 DEF FrontLen
    <3>2. CASE message # NoMessage
      <4>1. Len(UmpOf(message)) \in {4, 8}
        BY <1>1, <3>2, MessageIs DEF Types, IsMessage
      <4>2. 0 + Len(UmpOf(message)) <= Len(buffer)
        BY <1>1, <3>2 DEF FrontOK, LiesIn
      <4> QED BY <1>6, <3>2, <4>1, <4>2 DEF FrontLen
    <3> QED BY <3>1, <3>2
  <2>5. QueuedOK'
    <3>1. ASSUME NEW q \in queued PROVE Placed(q)'
      <4>1. Placed(q) /\ q.at \in Nat /\ Pack(q) \in Seq(Byte)
        BY <1>1, <2>1, QueuedHas
      <4>2. LiesIn(buffer', Pack(q), q.at)
        BY <1>4, <1>5, <1>6, <4>1, StillLies DEF Placed
      <4>3. Follows(Behind(q))'
        BY <2>3, <4>1 DEF Placed
      <4> QED BY <1>2, <2>2, <4>1, <4>2, <4>3 DEF Placed
    <3>2. ASSUME NEW q, q = new PROVE Placed(q)'
      <4>0. /\ q.at = Len(buffer) /\ q.t = t /\ q.p = p /\ Pack(q) = ump
            /\ Behind(q) = Len(buffer')
        BY <1>8, <3>2
      <4>1. Follows(Behind(q))'
        BY <4>0 DEF Follows
      <4>2. iter <= q.at /\ FrontLen <= q.at
        BY <2>1, <2>4, <4>0 DEF InBuffer
      <4> QED BY <1>2, <1>3, <1>7, <2>2, <4>0, <4>1, <4>2 DEF Placed
    <3> QED BY <1>2, <3>1, <3>2 DEF QueuedOK
  <2>6. NextOK'
    BY <1>2, <2>1, <2>2, <2>3 DEF NextOK
  <2>7. ASSUME NEW q \in queued
        PROVE  q.at < new.at /\ Behind(q) <= new.at /\ (q.t = t => q.p < p) /\ q # new
    <3>1. q.at \in Nat /\ q.at < Behind(q) /\ Behind(q) <= Len(buffer) /\ Behind(q) \in Nat
          /\ q.p \in Nat
      BY <1>1, <2>1, QueuedHas
    <3>2. q.at < new.at /\ Behind(q) <= new.at
      BY <1>6, <1>8, <3>1
    <3>3. ASSUME q.t = t PROVE q.p < p
      <4>1. Waits(t, q.p)
        BY <3>3 DEF Waits
      <4>2. SentCount(t) = p
        BY <1>3 DEF SentCount
      <4>3. PICK k \in 0 .. SentCount(t) : Heard(t, k)
        BY <2>1 DEF HeardOK
      <4> QED BY <3>1, <4>1, <4>2, <4>3 DEF Heard
    <3>4. q # new
      BY <1>6, <1>8, <3>1, <3>2
    <3> QED BY <3>2, <3>3, <3>4
  <2>8. OrderOK'
    <3>1. ASSUME NEW q \in queued', NEW r \in queued'
          PROVE  /\ q.at < r.at => Behind(q) <= r.at /\ (q.t = r.t => q.p < r.p)
                 /\ q.at = r.at => q = r
      <4>1. CASE q \in queued /\ r \in queued
        BY <2>1, <4>1 DEF OrderOK
      <4>2. CASE q \in queued /\ r = new
        <5>1. q.at \in Nat
          BY <1>1, <2>1, <4>2, QueuedHas
        <5> QED BY <1>6, <1>8, <2>7, <4>2, <5>1
      <4>3. CASE q = new /\ r \in queued
        <5>1. r.at \in Nat
          BY <1>1, <2>1, <4>3, QueuedHas
        <5> QED BY <1>6, <1>8, <2>7, <4>3, <5>1
      <4>4. CASE q = new /\ r = new
        BY <1>6, <1>8, <4>4
      <4> QED BY <1>2, <4>1, <4>2, <4>3, <4>4
    <3> QED BY <3>1 DEF OrderOK, Behind
  <2>9. HeardOK'
    <3>1. ASSUME NEW u \in Transfers PROVE \E k \in 0 .. SentCount(u)' : Heard(u, k)'
      <4>1. PICK k \in 0 .. SentCount(u) : Heard(u, k)
        BY <2>1 DEF HeardOK
      <4>2. CASE u = t
        <5>1. SentCount(u) = p /\ SentCount(u)' = p + 1
          BY <1>1, <1>2, <1>3, <4>2 DEF SentCount, Types
        <5>2. ASSUME NEW n \in Nat PROVE Waits(u, n)' <=> k <= n /\ n < SentCount(u)'
          <6>1. Waits(u, n)' <=> Waits(u, n) \/ n = p
            BY <1>2, <1>8, <4>2 DEF Waits
          <6>2. Waits(u, n) <=> k <= n /\ n < p
            BY <4>1, <5>1 DEF Heard
          <6> QED BY <1>3, <4>1, <5>1, <6>1, <6>2
        <5>3. Heard(u, k)'
          BY <1>2, <4>1, <5>2 DEF Heard
        <5>4. k \in 0 .. SentCount(u)'
          BY <1>3, <4>1, <5>1
        <5> QED BY <5>3, <5>4
      <4>3. CASE u # t
        <5>1. SentCount(u)' = SentCount(u)
          BY <1>1, <1>2, <4>3 DEF SentCount, Types
        <5>2. ASSUME NEW n \in Nat PROVE Waits(u, n)' <=> Waits(u, n)
          BY <1>2, <1>8, <4>3 DEF Waits
        <5>3. Heard(u, k)'
          BY <1>2, <4>1, <5>1, <5>2 DEF Heard
        <5> QED BY <4>1, <5>1, <5>3
      <4> QED BY <4>2, <4>3
    <3> QED BY <3>1 DEF HeardOK
  <2> QED BY <2>0, <2>5, <2>6, <2>8, <2>9 DEF Walking
<1> QED BY <1>10, <1>11, <1>13, <1>14, <1>15 DEF Inv
-----------------------------------------------------------------------------
(* A loop that ends has sent all its packets.                              *)
LEMMA NextChunkInv ==
  ASSUME Inv, NEW t \in Transfers, NextChunk(t)
  PROVE  Inv'
<1>1. Types /\ LoopsOK /\ FrontOK /\ (~wraps => Silent) /\ (wraps => Walking)
  BY DEF Inv
<1>2. /\ ~Sent(t) /\ packet[t] \notin DOMAIN Packets[t][chunk[t]]
      /\ chunk' = [chunk EXCEPT ![t] = @ + 1] /\ packet' = [packet EXCEPT ![t] = 0]
      /\ buffer' = buffer /\ iter' = iter /\ message' = message /\ heard' = heard
      /\ framing' = framing /\ queued' = queued /\ wraps' = wraps
  BY DEF NextChunk
<1>3. chunk[t] = 0 /\ packet[t] = Total(t)
  BY <1>1, <1>2, StepTo
<1>4. Types'
  <2>1. chunk' = [chunk EXCEPT ![t] = 1]
    BY <1>2, <1>3
  <2>2. chunk' \in [Transfers -> {0, 1}] /\ packet' \in [Transfers -> Nat]
    BY <1>1, <1>2, <2>1 DEF Types
  <2> QED BY <1>1, <1>2, <2>2 DEF Types
<1>5. ASSUME NEW u \in Transfers
      PROVE  /\ packet'[u] \in 0 .. Total(u) /\ (chunk'[u] = 1 => packet'[u] = 0)
             /\ SentCount(u)' = SentCount(u)
  <2>1. CASE u = t
    <3>1. packet'[u] = 0 /\ chunk'[u] = 1
      BY <1>1, <1>2, <1>3, <2>1 DEF Types
    <3>2. 0 \in 0 .. Total(u)
      BY TotalIs
    <3> QED BY <1>3, <2>1, <3>1, <3>2 DEF SentCount
  <2>2. CASE u # t
    <3>1. packet'[u] = packet[u] /\ chunk'[u] = chunk[u]
      BY <1>1, <1>2, <2>2 DEF Types
    <3> QED BY <1>1, <3>1 DEF LoopsOK, SentCount
  <2> QED BY <2>1, <2>2
<1>6. LoopsOK' /\ FrontOK' /\ (~wraps' => Silent')
  BY <1>1, <1>2, <1>5 DEF LoopsOK, FrontOK, Silent
<1>7. ASSUME wraps' PROVE Walking'
  <2>1. InBuffer /\ QueuedOK /\ NextOK /\ OrderOK /\ HeardOK
    BY <1>1, <1>2, <1>7 DEF Walking
  <2>2. InBuffer' /\ QueuedOK' /\ NextOK' /\ OrderOK'
    BY <1>2, <2>1 DEF InBuffer, QueuedOK, Placed, NextOK, OrderOK, Follows, FrontLen, Behind
  <2>3. ASSUME NEW u \in Transfers PROVE \E k \in 0 .. SentCount(u)' : Heard(u, k)'
    <3>1. PICK k \in 0 .. SentCount(u) : Heard(u, k)
      BY <2>1 DEF HeardOK
    <3>2. Heard(u, k)' /\ SentCount(u)' = SentCount(u)
      BY <1>2, <1>5, <3>1 DEF Heard, Waits
    <3> QED BY <3>1, <3>2
  <2> QED BY <2>2, <2>3 DEF Walking, HeardOK
<1> QED BY <1>4, <1>6, <1>7 DEF Inv

(* At the end of the buffer no packet is left.                             *)
LEMMA NothingWaits ==
  ASSUME Types, QueuedOK, iter >= Len(buffer)
  PROVE  queued = {}
<1>1. Len(buffer) \in Nat /\ iter \in Nat
  BY LenProperties DEF Types
<1>2. ASSUME NEW q \in queued PROVE FALSE
  BY <1>1, QueuedHas DEF Placed
<1> QED BY <1>2

(* A message is put into the empty buffer.                                 *)
LEMMA SendMessageInv ==
  ASSUME Inv, NEW m \in Messages, SendMessage(m)
  PROVE  Inv'
<1>1. Types /\ LoopsOK /\ FrontOK /\ (~wraps => Silent) /\ (wraps => Walking)
  BY DEF Inv
<1>2. /\ buffer = <<>> /\ buffer' = UmpOf(m) /\ message' = m
      /\ chunk' = chunk /\ packet' = packet /\ iter' = iter /\ heard' = heard
      /\ framing' = framing /\ queued' = queued /\ wraps' = wraps
  BY DEF SendMessage
<1>3. UmpOf(m) \in Seq(Byte) /\ Len(UmpOf(m)) \in {4, 8} /\ m # NoMessage
  BY MessageIs DEF IsMessage
<1>4. Len(buffer) = 0 /\ iter \in Nat
  BY <1>1, <1>2 DEF Types
<1>5. FrontLen' = Len(UmpOf(m))
  BY <1>2, <1>3 DEF FrontLen
<1>6. Len(UmpOf(m)) \in Nat /\ Len(UmpOf(m)) > 0 /\ Len(UmpOf(m)) <= 8
  <2> DEFINE n == Len(UmpOf(m))
  <2>1. n \in {4, 8}
    BY <1>3
  <2> HIDE DEF n
  <2>2. n \in Nat /\ n > 0 /\ n <= 8
    BY <2>1, SMT
  <2> QED BY <2>2 DEF n
<1>7. Types'
  BY <1>1, <1>2, <1>3, <1>4, <1>6, BufferAssumption DEF Types
<1>8. LoopsOK' /\ (~wraps' => Silent')
  BY <1>1, <1>2, <1>4, <1>6 DEF LoopsOK, Silent
<1>9. FrontOK'
  <2>1. \A i \in 1 .. Len(UmpOf(m)) : UmpOf(m)[0 + i] = UmpOf(m)[i]
    BY <1>6
  <2>2. LiesIn(UmpOf(m), UmpOf(m), 0)
    BY <1>6, <2>1 DEF LiesIn
  <2> QED BY <1>2, <2>2 DEF FrontOK
<1>10. ASSUME wraps' PROVE Walking'
  <2>1. InBuffer /\ QueuedOK /\ NextOK /\ OrderOK /\ HeardOK
    BY <1>1, <1>2, <1>10 DEF Walking
  <2>0. iter = 0
    BY <1>4, <2>1 DEF InBuffer
  <2>2. queued = {}
    BY <1>1, <1>4, <2>1, NothingWaits
  <2>3. InBuffer' /\ QueuedOK' /\ OrderOK'
    BY <1>2, <1>6, <2>0, <2>2 DEF InBuffer, QueuedOK, OrderOK
  <2>4. NextOK'
    BY <1>2, <1>5, <1>6, <2>0 DEF NextOK, Follows
  <2>5. HeardOK'
    BY <1>2, <2>1 DEF HeardOK, Heard, Waits, SentCount
  <2> QED BY <2>3, <2>4, <2>5 DEF Walking
<1> QED BY <1>7, <1>8, <1>9, <1>10 DEF Inv

(* The buffer is freed when no packet is left in it.                       *)
LEMMA EndOfWalkInv ==
  ASSUME Inv, EndOfWalk
  PROVE  Inv'
<1>1. Types /\ LoopsOK /\ FrontOK /\ (~wraps => Silent) /\ (wraps => Walking)
  BY DEF Inv
<1>2. /\ iter >= Len(buffer) /\ buffer' = <<>> /\ iter' = 0 /\ message' = NoMessage
         /\ queued' = {}
      /\ chunk' = chunk /\ packet' = packet /\ heard' = heard
      /\ framing' = framing /\ wraps' = wraps
  BY DEF EndOfWalk
<1>3. Len(buffer') = 0 /\ FrontLen' = 0
  BY <1>2 DEF FrontLen
<1>4. Types'
  BY <1>1, <1>2, <1>3, BufferAssumption DEF Types
<1>5. LoopsOK' /\ FrontOK' /\ (~wraps' => Silent')
  BY <1>1, <1>2, <1>3 DEF LoopsOK, FrontOK, Silent
<1>6. ASSUME wraps' PROVE Walking'
  <2>1. QueuedOK /\ NextOK /\ OrderOK /\ HeardOK
    BY <1>1, <1>2, <1>6 DEF Walking
  <2>2. queued = {}
    BY <1>1, <1>2, <2>1, NothingWaits
  <2>3. InBuffer' /\ QueuedOK' /\ OrderOK' /\ NextOK'
    BY <1>2, <1>3 DEF InBuffer, QueuedOK, OrderOK, NextOK, Follows
  <2>4. HeardOK'
    BY <1>2, <2>1, <2>2 DEF HeardOK, Heard, Waits, SentCount
  <2> QED BY <2>3, <2>4 DEF Walking
<1> QED BY <1>4, <1>5, <1>6 DEF Inv

(* The data of a packet follows that of those before it.                   *)
LEMMA HeardGoesOn ==
  ASSUME NEW t \in Transfers, NEW p \in 0 .. Total(t) - 1
  PROVE  SubSeq(Delivery[t], 1, Upto(t, p)) \o SubSeq(Delivery[t], Upto(t, p) + 1, Upto(t, p + 1))
           = SubSeq(Delivery[t], 1, Upto(t, p + 1))
<1> DEFINE d == Delivery[t]
           k == Upto(t, p)
           n == Upto(t, p + 1)
<1>1. d \in Seq(Byte) /\ Len(d) = Size(t) /\ Size(t) \in Nat
  BY DeliveryIs, LengthIs DEF IsDelivery
<1>2. k \in 0 .. Size(t) /\ n \in 0 .. Size(t) /\ k <= n
  <2>1. p \in Nat /\ p + 1 \in Nat
    BY TotalIs
  <2> QED BY <2>1, UptoIs
<1> HIDE DEF d, k, n
<1>3. 1 \in 1 .. Len(d) + 1 /\ k \in 1 - 1 .. Len(d) /\ n \in k .. Len(d)
  BY <1>1, <1>2
<1>4. SubSeq(d, 1, k) \o SubSeq(d, k + 1, n) = SubSeq(d, 1, n)
  BY <1>1, <1>3, ConcatAdjacentSubSeq
<1> QED BY <1>4 DEF d, k, n

(* A walk over the message in front.                                       *)
LEMMA FrontWalk ==
  ASSUME Types, FrontOK, wraps, message # NoMessage, iter = 0
  PROVE  Walks(UmpOf(message)) /\ IsMessage(message) /\ FrontLen = Len(UmpOf(message))
<1>1. IsMessage(message)
  BY MessageIs DEF Types
<1>2. wraps = TRUE /\ buffer \in Seq(Byte) /\ iter \in Nat /\ LiesIn(buffer, UmpOf(message), iter)
  BY DEF Types, FrontOK
<1>3. /\ UmpOf(message) \in Seq(Byte) /\ Len(UmpOf(message)) \in {4, 8}
      /\ Len(UmpOf(message)) = ump_get_num_bytes(get_message_type(UmpOf(message)))
  BY <1>1 DEF IsMessage
<1>4. Walks(UmpOf(message))
  <2> DEFINE ump == UmpOf(message)
  <2>1. Len(ump) >= 1
    BY <1>3
  <2> HIDE DEF ump
  <2>2. Walks(ump)
    BY <1>2, <1>3, <2>1, WalkIs DEF ump
  <2> QED BY <2>2 DEF ump
<1> QED BY <1>1, <1>4 DEF FrontLen

(* A walk that comes upon a packet takes the packet.                       *)
LEMMA PacketWalk ==
  ASSUME Types, QueuedOK, wraps, NEW q \in queued, q.at = iter
  PROVE  Walks(Pack(q)) /\ sequence_next(buffer, iter) = {Behind(q)}
<1>1. /\ Carries(Pack(q), q.t, q.p) /\ Pack(q) \in Seq(Byte) /\ Len(Pack(q)) \in {8, 16}
         /\ Placed(q)
  BY QueuedHas
<1>2. wraps = TRUE /\ buffer \in Seq(Byte) /\ iter \in Nat /\ LiesIn(buffer, Pack(q), iter)
  BY <1>1, LenProperties DEF Types, Placed
<1>3. Len(Pack(q)) = ump_get_num_bytes(get_message_type(Pack(q)))
  BY <1>1 DEF Carries
<1>4. Walks(Pack(q))
  <2> DEFINE ump == Pack(q)
  <2>1. Len(ump) >= 1
    BY <1>1
  <2> HIDE DEF ump
  <2>2. Walks(ump)
    BY <1>1, <1>2, <1>3, <2>1, WalkIs DEF ump
  <2> QED BY <2>2 DEF ump
<1> QED BY <1>4 DEF Walks, Behind


(* The bytes of the first k packets, as a sequence.                        *)
LEMMA DeliveryBytes ==
  ASSUME NEW t \in Transfers, NEW k \in Nat
  PROVE  /\ SubSeq(Delivery[t], 1, Upto(t, k)) \in Seq(Byte)
         /\ Len(SubSeq(Delivery[t], 1, Upto(t, k))) = Upto(t, k) /\ Upto(t, k) \in Nat
<1> DEFINE d == Delivery[t]
           n == Upto(t, k)
<1>1. d \in Seq(Byte) /\ Len(d) = Size(t) /\ Size(t) \in Nat
  BY DeliveryIs, LengthIs DEF IsDelivery
<1>2. n \in 0 .. Size(t)
  BY UptoIs
<1> HIDE DEF d, n
<1>3. \A i \in 1 .. n : d[i] \in Byte
  BY <1>1, <1>2, ElementOfSeq
<1>4. SubSeq(d, 1, n) \in Seq(Byte) /\ Len(SubSeq(d, 1, n)) = IF 1 <= n THEN n - 1 + 1 ELSE 0
  BY <1>1, <1>2, <1>3, SubSeqProperties
<1>5. Len(SubSeq(d, 1, n)) = n /\ n \in Nat
  BY <1>1, <1>2, <1>4
<1> QED BY <1>4, <1>5 DEF d, n
-----------------------------------------------------------------------------
TakeNothing ==
  /\ heard' = heard /\ framing' = framing /\ chunk' = chunk /\ packet' = packet
     /\ buffer' = buffer
  /\ message' = message /\ wraps' = wraps

(* If the build cannot read the types, the walk goes on by any of the      *)
(* lengths there are, and nothing is heard.                                *)
LEMMA BlindTakeInv ==
  ASSUME Inv, Take, ~wraps
  PROVE  Inv'
<1>1. Types /\ LoopsOK /\ FrontOK /\ Silent
  BY DEF Inv
<1>2. /\ iter < Len(buffer) /\ TakeNothing /\ iter' \in sequence_next(buffer, iter)
      /\ queued' = {q \in queued : q.at # iter}
  BY DEF Take, TakeNothing
<1>3. PICK type \in FourBits : iter' = iter + ump_get_num_bytes(type)
  BY <1>2 DEF sequence_next, read_types
<1>4. ump_get_num_bytes(type) \in {4, 8, 16, 255}
  BY DEF ump_get_num_bytes
<1>5. iter' \in Nat
  BY <1>1, <1>3, <1>4 DEF Types
<1>6. Types'
  BY <1>1, <1>2, <1>5 DEF Types, TakeNothing
<1>7. LoopsOK' /\ FrontOK' /\ Silent' /\ ~wraps'
  BY <1>1, <1>2 DEF LoopsOK, FrontOK, Silent, TakeNothing
<1> QED BY <1>6, <1>7 DEF Inv

(* The receiver takes the message in front.                                *)
LEMMA FrontTakeInv ==
  ASSUME Inv, Take, wraps, iter < FrontLen
  PROVE  Inv'
<1>1. Types /\ LoopsOK /\ FrontOK /\ InBuffer /\ QueuedOK /\ NextOK /\ OrderOK /\ HeardOK
  BY DEF Inv, Walking
<1>2. iter = 0 /\ Follows(FrontLen)
  BY <1>1 DEF NextOK
<1>3. message # NoMessage
  BY <1>2 DEF FrontLen
<1>4. Walks(UmpOf(message)) /\ IsMessage(message) /\ FrontLen = Len(UmpOf(message))
  BY <1>1, <1>2, <1>3, FrontWalk
<1>5. Ump = UmpOf(message) /\ sequence_next(buffer, iter) = {0 + FrontLen}
  BY <1>2, <1>4 DEF Walks
<1>6. get_message_type(Ump) \notin {SYSEX7, SYSEX8_MDS}
  BY <1>4, <1>5 DEF IsMessage
<1>7. TakeNothing /\ iter' = 0 + FrontLen /\ queued' = {q \in queued : q.at # iter}
  BY <1>5, <1>6 DEF Take, TakeNothing
<1>8. FrontLen \in {4, 8}
  BY <1>4 DEF IsMessage
<1>9. iter' = FrontLen /\ FrontLen' = FrontLen /\ FrontLen > 0 /\ FrontLen \in Nat
  <2> DEFINE n == FrontLen
  <2> HIDE DEF n
  <2>1. n \in {4, 8}
    BY <1>8 DEF n
  <2>2. n > 0 /\ n \in Nat /\ 0 + n = n
    BY <2>1, SMT
  <2>3. FrontLen' = FrontLen
    BY <1>7 DEF FrontLen, TakeNothing
  <2> QED BY <1>7, <2>2, <2>3 DEF n
<1>10. queued' = queued
  <2>1. ASSUME NEW q \in queued PROVE q.at # iter
    <3>1. FrontLen <= q.at /\ q.at \in Nat
      BY <1>1, QueuedHas DEF Placed
    <3> QED BY <1>2, <1>9, <3>1
  <2> QED BY <1>7, <2>1
<1>11. FrontLen <= Len(buffer)
  <2>1. 0 + Len(UmpOf(message)) <= Len(buffer)
    BY <1>1, <1>3 DEF FrontOK, LiesIn
  <2> QED BY <1>4, <1>9, <2>1
<1>12. Types'
  BY <1>1, <1>7, <1>9, <1>10 DEF Types, TakeNothing
<1>13. LoopsOK' /\ FrontOK' /\ InBuffer' /\ wraps'
  BY <1>1, <1>7, <1>9, <1>11 DEF LoopsOK, FrontOK, InBuffer, TakeNothing
<1>14. QueuedOK'
  <2>1. ASSUME NEW q \in queued PROVE Placed(q)'
    <3>1. Placed(q)
      BY <1>1, QueuedHas
    <3> QED BY <1>7, <1>9, <1>10, <3>1 DEF Placed, Follows, TakeNothing
  <2> QED BY <1>10, <2>1 DEF QueuedOK
<1>15. Follows(FrontLen)'
  BY <1>2, <1>7, <1>9, <1>10 DEF Follows, TakeNothing
<1>16. NextOK'
  BY <1>9, <1>15 DEF NextOK
<1>17. OrderOK' /\ HeardOK'
  BY <1>1, <1>7, <1>10 DEF OrderOK, Behind, HeardOK, Heard, Waits, SentCount, TakeNothing
<1> QED BY <1>12, <1>13, <1>14, <1>16, <1>17 DEF Inv, Walking

(* The receiver takes a packet of a transfer: it is the next one of its    *)
(* transfer, and what is left stays in order.                              *)
LEMMA PacketTakeInv ==
  ASSUME Inv, Take, wraps, ~(iter < FrontLen)
  PROVE  Inv'
<1>1. Types /\ LoopsOK /\ FrontOK /\ InBuffer /\ QueuedOK /\ NextOK /\ OrderOK /\ HeardOK
  BY DEF Inv, Walking
<1>2. iter < Len(buffer) /\ Len(buffer) \in Nat /\ iter \in Nat
  BY <1>1, LenProperties DEF Take, Types
<1>3. PICK q \in queued : q.at = iter
  BY <1>1, <1>2 DEF NextOK, Follows
<1> DEFINE t == q.t
<1>4. /\ t \in Transfers /\ q.p \in 0 .. Total(t) - 1 /\ q.p \in Nat /\ Carries(Pack(q), t, q.p)
      /\ Behind(q) \in Nat /\ iter < Behind(q) /\ Behind(q) <= Len(buffer) /\ Placed(q)
      /\ Len(Pack(q)) \in {8, 16}
  BY <1>1, <1>3, QueuedHas
<1>5. Ump = Pack(q) /\ sequence_next(buffer, iter) = {Behind(q)} /\ Behind(q) = iter + Len(Pack(q))
  BY <1>1, <1>3, PacketWalk DEF Walks, Behind
<1>6. get_message_type(Ump) \in {SYSEX7, SYSEX8_MDS}
      /\ \A u \in Transfers : Belongs(Ump, u) <=> u = t
  BY <1>4, <1>5 DEF Carries
<1> HIDE DEF t
<1>7. /\ heard' = [heard EXCEPT ![t] = @ \o DataOf(Ump)]
         /\ framing' = [framing EXCEPT ![t] = Framing(Ump, @)]
      /\ iter' = Behind(q) /\ queued' = {r \in queued : r.at # iter}
      /\ chunk' = chunk /\ packet' = packet /\ buffer' = buffer /\ message' = message
         /\ wraps' = wraps
  BY <1>5, <1>6 DEF Take
<1>8. ASSUME NEW r \in queued
      PROVE  r \in queued' <=> r # q
  BY <1>1, <1>3, <1>7 DEF OrderOK
<1>9. queued' = queued \ {q}
  BY <1>3, <1>7, <1>8
<1>10. ASSUME NEW r \in queued, r # q
       PROVE  q.at < r.at /\ Behind(q) <= r.at /\ r.at \in Nat
  <2>1. r.at \in Nat /\ iter <= r.at
    BY <1>1, QueuedHas DEF Placed
  <2>2. r.at # iter
    BY <1>7, <1>8, <1>10
  <2>3. q.at < r.at
    BY <1>2, <1>3, <2>1, <2>2
  <2> QED BY <1>1, <2>1, <2>3 DEF OrderOK
<1>11. FrontLen' = FrontLen
  BY <1>7 DEF FrontLen
<1>12. ASSUME NEW x \in Nat, Follows(x), iter < x PROVE Follows(x)'
  BY <1>2, <1>3, <1>7, <1>9, <1>12 DEF Follows
<1>13. PICK k \in 0 .. SentCount(t) : Heard(t, k)
  BY <1>1, <1>4 DEF HeardOK, t
<1>14. k = q.p /\ q.p < SentCount(t) /\ SentCount(t) \in Nat
  <2>1. SentCount(t) \in Nat
    BY <1>1, <1>4, TotalIs DEF SentCount, Types
  <2>2. Waits(t, q.p)
    BY DEF Waits, t
  <2>3. k <= q.p /\ q.p < SentCount(t)
    BY <1>4, <1>13, <2>2 DEF Heard
  <2>4. k \in Nat
    BY <1>13, <2>1
  <2>5. Waits(t, k)
    <3>1. k <= k /\ k < SentCount(t)
      BY <1>4, <2>1, <2>3, <2>4
    <3> QED BY <1>13, <2>4, <3>1 DEF Heard
  <2>6. PICK r \in queued : r.t = t /\ r.p = k
    BY <2>5 DEF Waits
  <2>7. CASE r = q
    BY <2>1, <2>3, <2>6, <2>7
  <2>8. CASE r # q
    <3>1. q.at < r.at
      BY <1>10, <2>8
    <3>2. q.p < r.p
      BY <1>1, <1>3, <2>6, <3>1 DEF OrderOK, t
    <3> QED BY <1>4, <2>3, <2>4, <2>6, <3>2
  <2> QED BY <2>7, <2>8
<1>15. heard[t] = SubSeq(Delivery[t], 1, Upto(t, q.p)) /\ framing[t] = Stand(t, q.p)
  BY <1>13, <1>14 DEF Heard
<1>16. heard'[t] = SubSeq(Delivery[t], 1, Upto(t, q.p + 1))
  <2>1. heard'[t] = heard[t] \o DataOf(Ump)
    BY <1>1, <1>4, <1>7 DEF Types, t
  <2>2. DataOf(Ump) = SubSeq(Delivery[t], Upto(t, q.p) + 1, Upto(t, q.p + 1))
    BY <1>4, <1>5 DEF Carries, t
  <2>3. t \in Transfers /\ q.p \in 0 .. Total(t) - 1
    BY <1>4 DEF t
  <2> QED BY <1>15, <2>1, <2>2, <2>3, HeardGoesOn
<1>17. framing'[t] = Stand(t, q.p + 1)
  <2>1. framing'[t] = Framing(Ump, framing[t])
    BY <1>1, <1>4, <1>7 DEF Types, t
  <2> QED BY <1>4, <1>5, <1>15, <2>1 DEF Carries, t
<1>18. ASSUME NEW u \in Transfers, u # t PROVE heard'[u] = heard[u] /\ framing'[u] = framing[u]
  BY <1>1, <1>7, <1>18 DEF Types
<1>19. Types'
  <2>1. SubSeq(Delivery[t], 1, Upto(t, q.p + 1)) \in Seq(Byte)
    <3>1. q.p + 1 \in Nat /\ t \in Transfers
      BY <1>4 DEF t
    <3> QED BY <3>1, DeliveryBytes
  <2>2. Stand(t, q.p + 1) \in {"none", "open", "whole"}
    BY DEF Stand
  <2>3. heard' \in [Transfers -> Seq(Byte)]
    BY <1>1, <1>7, <1>16, <1>18, <2>1 DEF Types
  <2>4. framing' \in [Transfers -> {"none", "open", "whole"}]
    BY <1>1, <1>7, <1>17, <1>18, <2>2 DEF Types
  <2>5. iter' \in Nat
    BY <1>4, <1>7
  <2> QED BY <1>1, <1>7, <1>9, <2>3, <2>4, <2>5 DEF Types
<1>20. InBuffer'
  BY <1>4, <1>7 DEF InBuffer
<1>21. LoopsOK' /\ FrontOK' /\ wraps'
  BY <1>1, <1>7 DEF LoopsOK, FrontOK
<1>22. QueuedOK'
  <2>1. ASSUME NEW r \in queued, r # q PROVE Placed(r)'
    <3>1. Placed(r) /\ Behind(r) \in Nat /\ r.at < Behind(r)
      BY <1>1, QueuedHas
    <3>2. iter < Behind(r)
      BY <1>2, <1>3, <1>10, <2>1, <3>1
    <3>3. Follows(Behind(r))'
      BY <1>12, <3>1, <3>2 DEF Placed
    <3>4. iter' <= r.at
      BY <1>7, <1>10, <2>1
    <3> QED BY <1>7, <1>11, <3>1, <3>3, <3>4 DEF Placed
  <2> QED BY <1>9, <2>1 DEF QueuedOK
<1>23. NextOK'
  <2>1. Follows(iter)'
    <3>1. Follows(Behind(q))'
      BY <1>4, <1>12 DEF Placed
    <3> QED BY <1>7, <3>1 DEF Follows
  <2>2. ~(iter' < FrontLen')
    <3>1. FrontLen \in Nat
      BY <1>1, MessageIs, LenProperties DEF FrontLen, Types, IsMessage
    <3>2. FrontLen <= q.at
      BY <1>4 DEF Placed
    <3> QED BY <1>2, <1>3, <1>4, <1>7, <1>11, <3>1, <3>2
  <2> QED BY <2>1, <2>2 DEF NextOK
<1>24. OrderOK'
  BY <1>1, <1>9 DEF OrderOK, Behind
<1>25. HeardOK'
  <2>1. ASSUME NEW u \in Transfers PROVE \E n \in 0 .. SentCount(u)' : Heard(u, n)'
    <3>1. SentCount(u)' = SentCount(u)
      BY <1>7 DEF SentCount
    <3>2. CASE u # t
      <4>1. PICK n \in 0 .. SentCount(u) : Heard(u, n)
        BY <1>1 DEF HeardOK
      <4>2. ASSUME NEW p \in Nat PROVE Waits(u, p)' <=> Waits(u, p)
        BY <1>9, <3>2 DEF Waits, t
      <4>3. Heard(u, n)'
        BY <1>18, <3>1, <3>2, <4>1, <4>2 DEF Heard
      <4> QED BY <3>1, <4>1, <4>3
    <3>3. CASE u = t
      <4>1. ASSUME NEW p \in Nat PROVE Waits(t, p)' <=> Waits(t, p) /\ p # q.p
        <5>1. ASSUME NEW r \in queued, r # q, r.t = t PROVE r.p # q.p
          <6>1. q.at < r.at
            BY <1>10, <5>1
          <6>2. q.p < r.p
            BY <1>1, <1>3, <5>1, <6>1 DEF OrderOK, t
          <6>3. r.p \in Nat
            BY <1>1, QueuedHas
          <6> QED BY <1>4, <6>2, <6>3
        <5> QED BY <1>9, <5>1 DEF Waits, t
      <4>2. ASSUME NEW p \in Nat PROVE Waits(t, p)' <=> q.p + 1 <= p /\ p < SentCount(t)
        <5>1. Waits(t, p) <=> q.p <= p /\ p < SentCount(t)
          BY <1>13, <1>14 DEF Heard
        <5> QED BY <1>4, <4>1, <5>1
      <4>3. Heard(t, q.p + 1)'
        BY <1>16, <1>17, <3>1, <3>3, <4>2 DEF Heard
      <4>4. q.p + 1 \in 0 .. SentCount(t)
        BY <1>4, <1>14
      <4> QED BY <3>1, <3>3, <4>3, <4>4
    <3> QED BY <3>2, <3>3
  <2> QED BY <2>1 DEF HeardOK
<1> QED BY <1>19, <1>20, <1>21, <1>22, <1>23, <1>24, <1>25 DEF Inv, Walking

(* The inductive invariant holds in every state.                           *)
LEMMA InvHolds == Spec => []Inv
<1>1. Init => Inv
  BY InitInv
<1>2. Inv /\ [Next]_vars => Inv'
  <2> SUFFICES ASSUME Inv, [Next]_vars PROVE Inv'
    OBVIOUS
  <2>1. ASSUME NEW t \in Transfers, Process(t) PROVE Inv'
    BY <2>1, ProcessInv
  <2>2. ASSUME NEW t \in Transfers, NextChunk(t) PROVE Inv'
    BY <2>2, NextChunkInv
  <2>3. ASSUME NEW m \in Messages, SendMessage(m) PROVE Inv'
    BY <2>3, SendMessageInv
  <2>4. CASE Take
    <3>1. CASE ~wraps
      BY <2>4, <3>1, BlindTakeInv
    <3>2. CASE wraps /\ iter < FrontLen
      BY <2>4, <3>2, FrontTakeInv
    <3>3. CASE wraps /\ ~(iter < FrontLen)
      BY <2>4, <3>3, PacketTakeInv
    <3> QED BY <3>1, <3>2, <3>3
  <2>5. CASE EndOfWalk
    BY <2>5, EndOfWalkInv
  <2>6. CASE UNCHANGED vars
    <3>1. /\ chunk' = chunk /\ packet' = packet /\ buffer' = buffer /\ iter' = iter
             /\ message' = message
          /\ heard' = heard /\ framing' = framing /\ queued' = queued /\ wraps' = wraps
      BY <2>6 DEF vars
    <3>2. Types' <=> Types
      BY <3>1 DEF Types
    <3>3. (LoopsOK' <=> LoopsOK) /\ (InBuffer' <=> InBuffer) /\ (FrontOK' <=> FrontOK)
          /\ (Silent' <=> Silent)
      BY <3>1 DEF LoopsOK, InBuffer, FrontOK, Silent
    <3>4. (QueuedOK' <=> QueuedOK) /\ (NextOK' <=> NextOK)
      BY <3>1 DEF QueuedOK, Placed, NextOK, Follows, FrontLen
    <3>5. (OrderOK' <=> OrderOK)
      BY <3>1 DEF OrderOK, Behind
    <3>6. (HeardOK' <=> HeardOK)
      BY <3>1 DEF HeardOK, Heard, Waits, SentCount
    <3> QED BY <3>1, <3>2, <3>3, <3>4, <3>5, <3>6 DEF Inv, Walking
  <2> QED BY <2>1, <2>2, <2>3, <2>4, <2>5, <2>6 DEF Next
<1> QED BY <1>1, <1>2, PTL DEF Spec

(* No packet is out of its order of START, CONTINUE and END, and the       *)
(* buffer is never filled beyond its size.                                 *)
THEOREM TypeCorrect == Spec => []TypeOK
<1>1. Inv => TypeOK
  <2> SUFFICES ASSUME Inv PROVE TypeOK
    OBVIOUS
  <2>1. Types
    BY DEF Inv
  <2>2. chunk \in [Transfers -> Nat]
    <3>1. chunk \in [Transfers -> {0, 1}]
      BY <2>1 DEF Types
    <3>2. \A x \in {0, 1} : x \in Nat
      OBVIOUS
    <3> QED BY <3>1, <3>2
  <2> QED BY <2>1, <2>2 DEF Types, TypeOK
<1> QED BY <1>1, InvHolds, PTL

(* In a build that reads the types, the walk stands in front of a packet   *)
(* or at the end of the buffer: it never enters a packet in the middle and *)
(* never gets behind the end, whatever is in the buffer.                   *)
THEOREM WalkStaysInStep == Spec => []WalkInStep
<1>1. Inv => WalkInStep
  <2> SUFFICES ASSUME Inv, wraps
               PROVE  iter = 0 \/ iter = Len(buffer) \/ \E q \in queued : q.at = iter
    BY DEF WalkInStep
  <2>1. NextOK
    BY DEF Inv, Walking
  <2> QED BY <2>1 DEF NextOK, Follows
<1> QED BY <1>1, InvHolds, PTL
-----------------------------------------------------------------------------
(* What the client gave has the length that the loops work with, and its   *)
(* bytes are where the loops read them.                                    *)
IsData(t) ==
  /\ Data[t] \in Seq(Byte) /\ Len(Data[t]) = Length(t)
  /\ \A i \in 1 .. Length(t) : Data[t][i] = Memory(t)[Start(t) + i]

(* The 0xF7 that the client's data ends at is the one that the loop of     *)
(* sysex7_get_sysex_length stops at.                                       *)
LEMMA Sysex7Ends ==
  ASSUME NEW t \in Transfers, Kind(t) = "sysex7"
  PROVE  (CHOOSE i \in DOMAIN Memory(t) :
            Memory(t)[i] = 247 /\ \A k \in 1 .. i - 1 : Memory(t)[k] # 247) - 1
           = Start(t) + Length(t)
<1> DEFINE src == Memory(t)
           Ends(i) == src[i] = 247 /\ \A k \in 1 .. i - 1 : src[k] # 247
           Is(i) == src[i + 1] = 247 /\ \A k \in 1 .. i : src[k] # 247
           last == CHOOSE i \in DOMAIN src : Ends(i)
           end == CHOOSE i \in 0 .. Len(src) - 1 : Is(i)
<1>1. Readable(t)
  BY CallAssumption
<1>2. Len(src) \in Nat /\ DOMAIN src = 1 .. Len(src)
  BY CallIs, LenProperties
<1>3. PICK n \in 1 .. Len(src) : Ends(n)
  BY <1>1 DEF Readable
<1>4. last \in 1 .. Len(src) /\ Ends(last)
  <2> HIDE DEF Ends
  <2> QED BY <1>2, <1>3
<1>5. Is(n - 1) /\ n - 1 \in 0 .. Len(src) - 1
  BY <1>2, <1>3
<1>6. end \in 0 .. Len(src) - 1 /\ Is(end)
  <2> HIDE DEF Is
  <2> QED BY <1>5
<1>7. Length(t) = end - Start(t)
  BY DEF Length, Start, sysex7_get_sysex_length
<1> HIDE DEF last, end
<1>8. ~(last < end + 1)
  <2> SUFFICES ASSUME last < end + 1 PROVE FALSE
    OBVIOUS
  <2>1. last \in 1 .. end
    BY <1>2, <1>4, <1>6
  <2> QED BY <1>4, <1>6, <2>1
<1>9. ~(end + 1 < last)
  <2> SUFFICES ASSUME end + 1 < last PROVE FALSE
    OBVIOUS
  <2>1. end + 1 \in 1 .. last - 1
    BY <1>2, <1>4, <1>6
  <2> QED BY <1>4, <1>6, <2>1
<1>10. last - 1 = end
  BY <1>2, <1>4, <1>6, <1>8, <1>9
<1>11. end = Start(t) + Length(t)
  BY <1>6, <1>7, LengthIs
<1> QED BY <1>10, <1>11 DEF last

LEMMA DataIs ==
  ASSUME NEW t \in Transfers
  PROVE  IsData(t)
<1> DEFINE first == IF Kind(t) = "sysex7" /\ Memory(t)[1] = 240 THEN 2 ELSE 1
           last == IF Kind(t) # "sysex7" THEN Call[t].length
                   ELSE (CHOOSE i \in DOMAIN Memory(t) :
                           Memory(t)[i] = 247 /\ \A k \in 1 .. i - 1 : Memory(t)[k] # 247) - 1
<1>1. Data[t] = SubSeq(Memory(t), first, last)
  BY DEF Data
<1>2. first = Start(t) + 1
  BY DEF Start
<1>3. last = Start(t) + Length(t)
  <2>1. CASE Kind(t) = "sysex7"
    <3> HIDE DEF Start, Length
    <3> QED BY <2>1, Sysex7Ends
  <2>2. CASE Kind(t) # "sysex7"
    <3>1. last = Length(t)
      BY <2>2 DEF Length
    <3>2. Start(t) = 0 /\ Length(t) \in Nat
      BY <2>2, LengthIs DEF Start
    <3> QED BY <3>1, <3>2
  <2> QED BY <2>1, <2>2
<1> HIDE DEF first, last
<1>4. Start(t) \in {0, 1} /\ Length(t) \in Nat
  BY LengthIs
<1>5. Start(t) + Length(t) <= Len(Memory(t)) /\ Len(Memory(t)) \in Nat
  <2>1. Len(Memory(t)) \in Nat
    BY CallIs
  <2>2. CASE Kind(t) = "sysex7"
    BY <1>4, <2>1, <2>2, Sysex7Length
  <2>3. CASE Kind(t) = "sysex8"
    <3>1. Readable(t)
      BY CallAssumption
    <3>2. Call[t].length \in 0 .. Len(Memory(t))
      BY <2>3, <3>1 DEF Readable
    <3>3. Length(t) = Call[t].length /\ Start(t) = 0
      BY <2>3 DEF Length, Start
    <3> QED BY <2>1, <3>2, <3>3
  <2>4. CASE Kind(t) = "mds"
    BY <1>4, <2>1, <2>4, LengthIs
  <2> QED BY <2>1, <2>2, <2>3, <2>4, CallIs
<1>6. \A i \in first .. last : Memory(t)[i] \in Byte
  <2>1. \A i \in first .. last : i \in 1 .. Len(Memory(t))
    BY <1>2, <1>3, <1>4, <1>5
  <2> QED BY <2>1, CallIs, ElementOfSeq
<1>7. first \in Int /\ last \in Int
  BY <1>2, <1>3, <1>4
<1>8. /\ Data[t] \in Seq(Byte)
      /\ Len(Data[t]) = IF first <= last THEN last - first + 1 ELSE 0
      /\ \A i \in 1 .. last - first + 1 : Data[t][i] = Memory(t)[first + i - 1]
  BY <1>1, <1>6, <1>7, SubSeqProperties
<1>9. Len(Data[t]) = Length(t)
  BY <1>2, <1>3, <1>4, <1>8
<1>10. ASSUME NEW i \in 1 .. Length(t) PROVE Data[t][i] = Memory(t)[Start(t) + i]
  <2>1. i \in 1 .. last - first + 1 /\ first + i - 1 = Start(t) + i
    BY <1>2, <1>3, <1>4
  <2> QED BY <1>8, <2>1
<1> QED BY <1>8, <1>9, <1>10 DEF IsData

(* The first bytes of a sequence are a prefix of it.                       *)
LEMMA Prefix ==
  ASSUME NEW s \in Seq(Byte), NEW d \in Seq(Byte), Len(s) <= Len(d),
         \A i \in 1 .. Len(s) : s[i] = d[i]
  PROVE  IsPrefix(s, d) /\ s = SubSeq(d, 1, Len(s))
<1>1. Len(s) \in Nat /\ Len(d) \in Nat
  BY LenProperties
<1>2. \A i \in 1 .. Len(s) : d[i] \in Byte
  BY <1>1, ElementOfSeq
<1>3. /\ SubSeq(d, 1, Len(s)) \in Seq(Byte)
      /\ Len(SubSeq(d, 1, Len(s))) = IF 1 <= Len(s) THEN Len(s) - 1 + 1 ELSE 0
      /\ \A i \in 1 .. Len(s) - 1 + 1 : SubSeq(d, 1, Len(s))[i] = d[1 + i - 1]
  BY <1>1, <1>2, SubSeqProperties
<1> DEFINE u == SubSeq(d, 1, Len(s))
<1>4. u \in Seq(Byte) /\ Len(u) = Len(s) /\ \A i \in 1 .. Len(s) : u[i] = d[i]
  BY <1>1, <1>3
<1> HIDE DEF u
<1>5. \A i \in 1 .. Len(s) : s[i] = u[i]
  BY <1>4
<1>6. s = u
  BY <1>4, <1>5, SeqEqual
<1>7. SubSeq(s, 1, Len(s)) = s
  BY SubSeqFull
<1> QED BY <1>6, <1>7 DEF u, IsPrefix

(* What is heard of a transfer are the first bytes of what it sends.       *)
IsHeard(t, n) ==
  /\ heard[t] \in Seq(Byte) /\ Len(heard[t]) = n
  /\ \A i \in 1 .. n : heard[t][i] = Item(t, i)

LEMMA BytesHeard ==
  ASSUME NEW t \in Transfers, NEW k \in Nat, Heard(t, k)
  PROVE  IsHeard(t, Upto(t, k)) /\ Upto(t, k) \in 0 .. Size(t)
<1> DEFINE d == Delivery[t]
           n == Upto(t, k)
<1>1. d \in Seq(Byte) /\ Len(d) = Size(t) /\ \A i \in 1 .. Size(t) : d[i] = Item(t, i)
  BY DeliveryIs DEF IsDelivery
<1>2. n \in 0 .. Size(t) /\ n \in Nat /\ Size(t) \in Nat
  BY UptoIs, LengthIs
<1>3. heard[t] = SubSeq(d, 1, n)
  BY DEF Heard
<1> HIDE DEF d, n
<1>4. heard[t] \in Seq(Byte) /\ Len(heard[t]) = n
  BY <1>3, DeliveryBytes DEF d, n
<1>5. \A i \in 1 .. n : d[i] \in Byte
  BY <1>1, <1>2, ElementOfSeq
<1>6. \A i \in 1 .. n - 1 + 1 : heard[t][i] = d[1 + i - 1]
  BY <1>2, <1>3, <1>5, SubSeqProperties
<1>7. \A i \in 1 .. n : heard[t][i] = d[i]
  BY <1>2, <1>6
<1>8. \A i \in 1 .. n : heard[t][i] = Item(t, i)
  BY <1>1, <1>2, <1>7
<1> QED BY <1>2, <1>4, <1>8 DEF IsHeard, n

(* As long as no more is heard than the client gave, it is the beginning   *)
(* of that; after it, it is that and less than a payload behind it.        *)
LEMMA HeardIsData ==
  ASSUME NEW t \in Transfers, NEW n \in 0 .. Size(t), IsHeard(t, n)
  PROVE  /\ n <= Length(t) => /\ IsPrefix(heard[t], Data[t])
                              /\ heard[t] = SubSeq(Data[t], 1, n)
         /\ Kind(t) = "mds" /\ Length(t) <= n => Padded(t)
<1>1. /\ Data[t] \in Seq(Byte) /\ Len(Data[t]) = Length(t)
      /\ \A i \in 1 .. Length(t) : Data[t][i] = Memory(t)[Start(t) + i]
  BY DataIs DEF IsData
<1>2. /\ heard[t] \in Seq(Byte) /\ Len(heard[t]) = n
      /\ \A i \in 1 .. n : heard[t][i] = Item(t, i)
  BY DEF IsHeard
<1>3. Length(t) \in Nat /\ Size(t) \in Nat /\ n \in Nat
  BY LengthIs
<1>4. ASSUME NEW i \in 1 .. n, i <= Length(t) PROVE heard[t][i] = Data[t][i]
  <2>1. i \in 1 .. Length(t) /\ ~(Length(t) < i)
    BY <1>3, <1>4
  <2>2. Item(t, i) = Memory(t)[Start(t) + i]
    BY <2>1 DEF Item
  <2> QED BY <1>1, <1>2, <2>1, <2>2
<1>5. ASSUME n <= Length(t)
      PROVE  IsPrefix(heard[t], Data[t]) /\ heard[t] = SubSeq(Data[t], 1, n)
  <2>1. \A i \in 1 .. n : heard[t][i] = Data[t][i]
    BY <1>3, <1>4, <1>5
  <2> QED BY <1>1, <1>2, <1>5, <2>1, Prefix
<1>6. ASSUME Kind(t) = "mds", Length(t) <= n PROVE Padded(t)
  <2>1. \A i \in 1 .. Length(t) : Data[t][i] = heard[t][i]
    BY <1>3, <1>4, <1>6
  <2>2. IsPrefix(Data[t], heard[t])
    BY <1>1, <1>2, <1>6, <2>1, Prefix
  <2>3. Size(t) = ((Length(t) + 13) \div 14) * 14
    BY <1>6 DEF Size
  <2>4. Size(t) < Length(t) + 14
    BY <1>3, <2>3, RoundedUp
  <2>5. Len(heard[t]) < Len(Data[t]) + 14
    BY <1>1, <1>2, <1>3, <2>4
  <2> QED BY <1>6, <2>2, <2>5 DEF Padded
<1> QED BY <1>5, <1>6

(* However the loops of any number of transfers are interleaved, what is   *)
(* put together for a transfer is a prefix of what its client gave or, of  *)
(* a data set, that and less than a payload behind it.                     *)
THEOREM DataHeardInOrder == Spec => []HeardInOrder
<1>1. Inv => HeardInOrder
  <2> SUFFICES ASSUME Inv, wraps, NEW t \in Transfers
               PROVE  IsPrefix(heard[t], Data[t]) \/ Padded(t)
    BY DEF HeardInOrder
  <2>1. PICK k \in 0 .. SentCount(t) : Heard(t, k)
    BY DEF Inv, Walking, HeardOK
  <2>2. SentCount(t) \in Nat
    BY TotalIs DEF Inv, SentCount, Types
  <2>3. PICK n \in 0 .. Size(t) : IsHeard(t, n)
    BY <2>1, <2>2, BytesHeard
  <2>4. n \in Nat /\ Length(t) \in Nat
    BY LengthIs
  <2>5. Kind(t) # "mds" => n <= Length(t)
    <3>1. Kind(t) # "mds" => Size(t) <= Length(t) /\ Size(t) \in Nat
      BY LengthIs, Mod256 DEF Size
    <3> QED BY <2>4, <3>1
  <2> QED BY <2>3, <2>4, <2>5, HeardIsData
<1> QED BY <1>1, InvHolds, PTL

(* Everything that a transfer sends is heard once it is sent and read.     *)
LEMMA AllHeard ==
  ASSUME Inv, NEW t \in Transfers, wraps, buffer = <<>>, Sent(t)
  PROVE  IsHeard(t, Size(t)) /\ (Kind(t) # "mds" => framing[t] = "whole")
<1>1. Types /\ LoopsOK /\ QueuedOK /\ HeardOK
  BY DEF Inv, Walking
<1>2. IsSequenceOfPackets(t)
  BY SequenceOfPackets
<1>3. SentCount(t) = Total(t) /\ Total(t) \in Nat /\ Total(t) >= 1
  BY <1>2 DEF Sent, SentCount, IsSequenceOfPackets
<1>4. iter >= Len(buffer)
  BY <1>1 DEF Types
<1>5. queued = {}
  BY <1>1, <1>4, NothingWaits
<1>6. PICK k \in 0 .. SentCount(t) : Heard(t, k)
  BY <1>1 DEF HeardOK
<1>7. k = Total(t)
  <2>1. k \in Nat /\ ~Waits(t, k)
    BY <1>3, <1>5 DEF Waits
  <2>2. ~(k < SentCount(t))
    BY <1>6, <2>1 DEF Heard
  <2> QED BY <1>3, <2>2
<1>8. Upto(t, Total(t)) = Size(t)
  BY UptoIs
<1>9. IsHeard(t, Size(t))
  BY <1>3, <1>6, <1>7, <1>8, BytesHeard
<1>10. framing[t] = Stand(t, Total(t)) /\ Total(t) # 0
  BY <1>3, <1>6, <1>7 DEF Heard
<1> QED BY <1>9, <1>10 DEF Stand

(* A transfer that has been sent and read is there to the last byte that   *)
(* its client gave, and its last packet says so; a System Exclusive        *)
(* message, up to 255 bytes.                                               *)
THEOREM WhatIsSentIsHeard == Spec => []SentMeansHeard
<1>1. Inv => SentMeansHeard
  <2> SUFFICES ASSUME Inv, NEW t \in Transfers, wraps, buffer = <<>>, Sent(t), Fits(t)
               PROVE  Whole(t)
    BY DEF SentMeansHeard
  <2>1. IsHeard(t, Size(t)) /\ (Kind(t) # "mds" => framing[t] = "whole")
    BY AllHeard
  <2>2. Size(t) \in Nat /\ Length(t) \in Nat
    BY LengthIs
  <2>3. Data[t] \in Seq(Byte) /\ Len(Data[t]) = Length(t)
    BY DataIs DEF IsData
  <2>4. CASE Kind(t) = "mds"
    <3>1. Length(t) <= Size(t) /\ Size(t) \in 0 .. Size(t)
      BY <2>2, <2>4, LengthIs
    <3> QED BY <2>1, <2>4, <3>1, HeardIsData DEF Whole
  <2>5. CASE Kind(t) # "mds"
    <3>1. Size(t) = Length(t) % 256 /\ Length(t) <= 255
      BY <2>3, <2>5, LengthIs DEF Fits
    <3>2. Size(t) = Length(t) /\ Size(t) \in 0 .. Size(t)
      BY <2>2, <3>1, SMT
    <3>3. heard[t] = SubSeq(Data[t], 1, Len(Data[t]))
      BY <2>1, <2>2, <2>3, <3>2, HeardIsData
    <3>4. heard[t] = Data[t]
      BY <2>3, <3>3, SubSeqFull
    <3> QED BY <2>1, <2>5, <3>4 DEF Whole
  <2> QED BY <2>4, <2>5
<1> QED BY <1>1, InvHolds, PTL

(* What becomes of a System Exclusive message of more than 255 bytes: the  *)
(* first ones, as many as its length modulo 256, and its last packet says  *)
(* that this is all.                                                       *)
LongerIsCut == \A t \in Transfers :
  wraps /\ buffer = <<>> /\ Sent(t) /\ ~Fits(t) =>
    heard[t] = SubSeq(Data[t], 1, Len(Data[t]) % 256) /\ framing[t] = "whole"

(* sysex7_process and sysex8_process lose the rest of a longer message     *)
(* through the uint8_t num_bytes of sysex_get_packet_of, unseen by the     *)
(* receiver: Fits is needed in WhatIsSentIsHeard.                          *)
THEOREM LongMessagesAreCut == Spec => []LongerIsCut
<1>1. Inv => LongerIsCut
  <2> SUFFICES ASSUME Inv, NEW t \in Transfers, wraps, buffer = <<>>, Sent(t), ~Fits(t)
               PROVE  heard[t] = SubSeq(Data[t], 1, Len(Data[t]) % 256) /\ framing[t] = "whole"
    BY DEF LongerIsCut
  <2>1. Kind(t) # "mds"
    BY DEF Fits
  <2>2. IsHeard(t, Size(t)) /\ framing[t] = "whole"
    BY <2>1, AllHeard
  <2>3. Len(Data[t]) = Length(t) /\ Length(t) \in Nat
    BY DataIs, LengthIs DEF IsData
  <2>4. Size(t) = Len(Data[t]) % 256
    BY <2>1, <2>3, LengthIs
  <2>5. Size(t) <= Length(t) /\ Size(t) \in 0 .. Size(t)
    BY <2>3, <2>4, Mod256, LengthIs
  <2>6. heard[t] = SubSeq(Data[t], 1, Size(t))
    BY <2>2, <2>5, HeardIsData
  <2> QED BY <2>2, <2>4, <2>6
<1> QED BY <1>1, InvHolds, PTL

(* The walk comes upon a message of one packet with every argument that    *)
(* its constructor was given.                                              *)
THEOREM MessagesArriveAsMade == Spec => []GettersReadBack
<1>1. Inv => GettersReadBack
  <2> SUFFICES ASSUME Inv, wraps, message # NoMessage, iter = 0 PROVE ReadsBack(Ump, message)
    BY DEF GettersReadBack
  <2>1. Types /\ FrontOK
    BY DEF Inv
  <2>2. Ump = UmpOf(message)
    BY <2>1, FrontWalk DEF Walks
  <2>3. message \in Messages
    BY <2>1 DEF Types
  <2> QED BY <2>2, <2>3, MessagesReadBack
<1> QED BY <1>1, InvHolds, PTL

(* What the walk comes upon, if it is a packet of a transfer, belongs to   *)
(* exactly one of the transfers that are interleaved.                      *)
ItsTransferIsKnown ==
  wraps /\ iter < Len(buffer) /\ get_message_type(Ump) \in {SYSEX7, SYSEX8_MDS} =>
    \E t \in Transfers : \A u \in Transfers : Belongs(Ump, u) <=> u = t

(* The group, the kind and the id in a packet tell the receiver which      *)
(* transfer it continues: there always is one, so that the walk of         *)
(* CMIDI2_UMP_SEQUENCE_FOREACH never waits at a packet, and never a second.*)
THEOREM EachPacketHasItsTransfer == Spec => []ItsTransferIsKnown
<1>1. Inv => ItsTransferIsKnown
  <2> SUFFICES ASSUME Inv, wraps, iter < Len(buffer),
                      get_message_type(Ump) \in {SYSEX7, SYSEX8_MDS}
               PROVE  \E t \in Transfers : \A u \in Transfers : Belongs(Ump, u) <=> u = t
    BY DEF ItsTransferIsKnown
  <2>1. Types /\ FrontOK /\ QueuedOK /\ NextOK
    BY DEF Inv, Walking
  <2>2. ~(iter < FrontLen)
    <3> SUFFICES ASSUME iter < FrontLen PROVE FALSE
      OBVIOUS
    <3>1. iter = 0 /\ Follows(FrontLen)
      BY <2>1 DEF NextOK
    <3>2. message # NoMessage
      BY <3>1 DEF FrontLen
    <3>3. Walks(UmpOf(message)) /\ IsMessage(message)
      BY <2>1, <3>1, <3>2, FrontWalk
    <3> QED BY <3>3 DEF Walks, IsMessage
  <2>3. PICK q \in queued : q.at = iter
    BY <2>1, <2>2 DEF NextOK, Follows
  <2>4. q.t \in Transfers /\ Carries(Pack(q), q.t, q.p)
    BY <2>1, QueuedHas
  <2>5. Ump = Pack(q)
    BY <2>1, <2>3, PacketWalk DEF Walks
  <2>6. \A u \in Transfers : Belongs(Ump, u) <=> u = q.t
    BY <2>4, <2>5 DEF Carries
  <2> QED BY <2>4, <2>6
<1> QED BY <1>1, InvHolds, PTL
=============================================================================
