---------------------------- MODULE Cmidi2Proofs ----------------------------
(***************************************************************************)
(* What the constructors and the getters of cmidi2.h do, whatever their    *)
(* arguments: a message of one packet is read back as it was made, and the *)
(* packets of a longer one cover its data, for every length that a         *)
(* uint8_t, or for a Mixed Data Set a uint16_t, can pass on.               *)
(***************************************************************************)
EXTENDS Cmidi2Sysex, Cmidi2Messages, SequenceTheorems, TLAPS

(* Messages of one packet.                                                 *)

(* A function over 1 .. n is a sequence of n elements.                     *)
LEMMA Tabulated ==
  ASSUME NEW S, NEW n \in Nat, NEW f \in [1 .. n -> S]
  PROVE  f \in Seq(S) /\ Len(f) = n
<1>1. f \in Seq(S)
  BY SeqDef
<1>2. DOMAIN f = 1 .. Len(f) /\ Len(f) \in Nat
  BY <1>1, LenProperties
<1>3. 1 .. n = 1 .. Len(f)
  BY <1>2
<1> QED BY <1>1, <1>2, <1>3

(* Two sixteens in a byte: what cmidi2.h packs with << 4 and + and reads   *)
(* with >> 4 and & 0xF.                                                    *)
LEMMA FirstByte ==
  ASSUME NEW type \in FourBits, NEW low \in FourBits
  PROVE  /\ type * 16 + low \in Byte
         /\ (type * 16 + low) \div 16 = type /\ (type * 16 + low) % 16 = low
         /\ low % 16 = low
BY SMT DEF FourBits, Byte

(* Message types, groups and status codes are numbers of four bits.        *)
LEMMA Codes ==
  /\ 0 \in FourBits /\ 1 \in FourBits /\ 2 \in FourBits /\ 3 \in FourBits
  /\ 4 \in FourBits /\ 5 \in FourBits /\ 6 \in FourBits /\ 7 \in FourBits
  /\ 8 \in FourBits /\ 9 \in FourBits /\ 10 \in FourBits /\ 11 \in FourBits
  /\ 12 \in FourBits /\ 13 \in FourBits /\ 14 \in FourBits /\ 15 \in FourBits
BY DEF FourBits

(* A sequence of two elements.                                             *)
LEMMA Pair ==
  ASSUME NEW S, NEW a \in S, NEW b \in S
  PROVE  <<a, b>> \in Seq(S) /\ Len(<<a, b>>) = 2 /\ <<a, b>>[1] = a /\ <<a, b>>[2] = b
OBVIOUS

(* What stands behind a header of two bytes.                               *)
LEMMA Joined ==
  ASSUME NEW S, NEW head \in Seq(S), Len(head) = 2, NEW rest \in Seq(S)
  PROVE  /\ head \o rest \in Seq(S) /\ Len(head \o rest) = 2 + Len(rest)
         /\ (head \o rest)[1] = head[1] /\ (head \o rest)[2] = head[2]
         /\ \A i \in 1 .. Len(rest) : (head \o rest)[i + 2] = rest[i]
<1>1. /\ head \o rest \in Seq(S) /\ Len(head \o rest) = 2 + Len(rest)
      /\ \A i \in 1 .. 2 + Len(rest) : (head \o rest)[i] = IF i <= 2 THEN head[i] ELSE rest[i - 2]
  <2>1. /\ head \o rest \in Seq(S) /\ Len(head \o rest) = Len(head) + Len(rest)
        /\ \A i \in 1 .. Len(head) + Len(rest) :
             (head \o rest)[i] = IF i <= Len(head) THEN head[i] ELSE rest[i - Len(head)]
    BY ConcatProperties, Zenon
  <2> QED BY <2>1
<1>2. Len(rest) \in Nat
  OBVIOUS
<1>3. (head \o rest)[1] = head[1] /\ (head \o rest)[2] = head[2]
  BY <1>1, <1>2
<1>4. ASSUME NEW i \in 1 .. Len(rest) PROVE (head \o rest)[i + 2] = rest[i]
  <2>1. i + 2 \in 1 .. 2 + Len(rest) /\ ~(i + 2 <= 2) /\ (i + 2) - 2 = i
    BY <1>2
  <2> QED BY <2>1, <1>1
<1> QED BY <1>1, <1>3, <1>4

(* The arguments of the constructors of packets of four bytes.             *)
LEMMA Fields1 ==
  ASSUME NEW f \in Arguments1
  PROVE  /\ f.group \in FourBits /\ f.channel \in FourBits
         /\ f.status \in Byte /\ f.byte2 \in SevenBits /\ f.byte3 \in SevenBits
         /\ f.note \in SevenBits /\ f.velocity \in SevenBits /\ f.data \in SevenBits
         /\ f.index \in SevenBits /\ f.program \in SevenBits /\ f.bend \in FourteenBits
         /\ f.lsb \in SevenBits /\ f.msb \in SevenBits
         /\ f.time \in Short
<1> f \in [group : FourBits, channel : FourBits, status : Byte, byte2 : SevenBits, byte3 : SevenBits,
        note : SevenBits, velocity : SevenBits, data : SevenBits, index : SevenBits,
        program : SevenBits, bend : FourteenBits, lsb : SevenBits, msb : SevenBits,
        time : Short]
  BY ArgumentsAssumption
<1> QED OBVIOUS

(* The arguments of the constructors of MIDI 2.0 channel messages.         *)
LEMMA Fields2 ==
  ASSUME NEW f \in Arguments2
  PROVE  /\ f.group \in FourBits /\ f.channel \in FourBits /\ f.note \in SevenBits
         /\ f.attribute_type \in Byte /\ f.index \in SevenBits /\ f.controller \in Byte
         /\ f.options \in 0 .. 3 /\ f.program_options \in {0, 1}
         /\ f.program \in SevenBits /\ f.msb \in SevenBits /\ f.lsb \in SevenBits
         /\ f.bank_msb \in Byte /\ f.bank_lsb \in Byte
         /\ f.velocity \in Short /\ f.attribute_data \in Short
         /\ f.data \in Word
BY ArgumentsAssumption

(* What the constructors cut off with & 0x7F and & 0xF is nothing of a     *)
(* data byte of seven bits, a group or a channel.                          *)
LEMMA Low7 ==
  /\ \A x \in SevenBits : x \in Byte /\ x \in 0 .. 127 /\ x % 128 = x
  /\ \A x \in Int : x % 128 \in Byte
  /\ \A x \in FourBits : x % 16 = x
BY SMT DEF FourBits, SevenBits, Byte

(* A 16-bit argument is two bytes.                                         *)
LEMMA Two ==
  ASSUME NEW s \in Short
  PROVE  s \in Seq(Byte) /\ Len(s) = 2
BY Tabulated DEF Short

(* Two bytes behind a header of two bytes.                                 *)
LEMMA FourBytes ==
  ASSUME NEW head \in Seq(Byte), Len(head) = 2, NEW rest \in Seq(Byte), Len(rest) = 2
  PROVE  /\ head \o rest \in Seq(Byte) /\ Len(head \o rest) = 4
         /\ (head \o rest)[1] = head[1] /\ (head \o rest)[2] = head[2]
         /\ (head \o rest)[3] = rest[1] /\ (head \o rest)[4] = rest[2]
<1>1. /\ head \o rest \in Seq(Byte) /\ Len(head \o rest) = 2 + Len(rest)
      /\ (head \o rest)[1] = head[1] /\ (head \o rest)[2] = head[2]
      /\ \A i \in 1 .. Len(rest) : (head \o rest)[i + 2] = rest[i]
  BY Joined
<1>2. (head \o rest)[1 + 2] = rest[1] /\ (head \o rest)[2 + 2] = rest[2]
  BY <1>1
<1> QED BY <1>1, <1>2

(* The type and the group are read back from the first byte of a header.   *)
LEMMA Headed ==
  ASSUME NEW type \in FourBits, NEW group \in FourBits, NEW second \in Byte
  PROVE  LET head == <<type * 16 + (group % 16), second>> IN
         /\ head \in Seq(Byte) /\ Len(head) = 2 /\ head[2] = second
         /\ get_message_type(head) = type /\ get_group(head) = group
<1> DEFINE first == type * 16 + (group % 16)
<1>1. first \in Byte /\ first \div 16 = type /\ first % 16 = group
  BY Low7, FirstByte
<1> HIDE DEF first
<1> DEFINE head == <<first, second>>
<1>3. head \in Seq(Byte) /\ Len(head) = 2 /\ head[1] = first /\ head[2] = second
  BY <1>1, Pair
<1> HIDE DEF head
<1>4. /\ head \in Seq(Byte) /\ Len(head) = 2 /\ head[2] = second
      /\ get_message_type(head) = type /\ get_group(head) = group
  BY <1>1, <1>3 DEF get_message_type, get_group
<1> QED BY <1>4 DEF head, first

(* A packet of so many bytes, of the type and of the group of its arguments. *)
IsPacket(ump, bytes, type, group) ==
  /\ ump \in Seq(Byte) /\ Len(ump) = bytes
  /\ get_message_type(ump) = type /\ get_group(ump) = group

(* The status code and the channel of a channel message as well.           *)
IsVoice(ump, bytes, type, f, code) ==
  /\ IsPacket(ump, bytes, type, f.group)
  /\ get_status_code(ump) = code /\ get_channel(ump) = f.channel

(* A JR clock or timestamp: the status and the time are read back.         *)
LEMMA UtilityReadsBack ==
  ASSUME NEW kind \in {"jr_clock", "jr_timestamp"}, NEW f \in Arguments1,
         NEW ump, ump = UtilityMessage(kind, f)
  PROVE  /\ IsPacket(ump, 4, 0, f.group)
         /\ get_status_code(ump) = IF kind = "jr_clock" THEN JR_CLOCK ELSE JR_TIMESTAMP
         /\ Returns(ump, UtilityGetters, f)
<1>1. f.group \in FourBits /\ f.time \in Seq(Byte) /\ Len(f.time) = 2 /\ f.time \in Short
  BY Fields1, Two
<1> DEFINE code == IF kind = "jr_clock" THEN JR_CLOCK ELSE JR_TIMESTAMP
           head == <<f.group % 16, code * 16>>
<1>2. code * 16 \in Byte /\ (code * 16) \div 16 = code
  BY SMT DEF JR_CLOCK, JR_TIMESTAMP, Byte
<1>3. f.group % 16 \in Byte /\ (f.group % 16) \div 16 = 0 /\ (f.group % 16) % 16 = f.group
  BY <1>1, SMT DEF FourBits, Byte
<1>4. ump = head \o f.time
  BY DEF UtilityMessage
<1> HIDE DEF code
<1>5. head \in Seq(Byte) /\ Len(head) = 2 /\ head[1] = f.group % 16 /\ head[2] = code * 16
  BY <1>2, <1>3, Pair
<1> HIDE DEF head
<1>6. get_message_type(head) = 0 /\ get_group(head) = f.group
  BY <1>3, <1>5 DEF get_message_type, get_group
<1>7. head \o f.time \in Seq(Byte) /\ Len(head \o f.time) = 4
      /\ (head \o f.time)[1] = head[1] /\ (head \o f.time)[2] = head[2]
      /\ (head \o f.time)[3] = f.time[1] /\ (head \o f.time)[4] = f.time[2]
  BY <1>1, <1>5, FourBytes
<1>8. /\ ump \in Seq(Byte) /\ Len(ump) = 4 /\ ump[1] = head[1] /\ ump[2] = head[2]
      /\ ump[3] = f.time[1] /\ ump[4] = f.time[2]
  BY <1>4, <1>7
<1>9. [i \in 1 .. 2 |-> ump[<<2, 3>>[i] + 1]] = f.time
  BY <1>1, <1>8
<1>10. Get(ump, <<2, 3>>) = f.time
  BY <1>9 DEF Get, PACKET
<1>11. Returns(ump, UtilityGetters, f)
  BY <1>10 DEF Returns, UtilityGetters
<1>12. get_status_code(ump) = code
  BY <1>2, <1>5, <1>8 DEF get_status_code
<1> QED BY <1>6, <1>8, <1>11, <1>12 DEF IsPacket, get_message_type, get_group, code

(* The header of a channel message.                                        *)
LEMMA Headers ==
  ASSUME NEW type \in FourBits, NEW f \in Arguments1 \cup Arguments2, NEW code \in FourBits
  PROVE  /\ Header(type, f, code) \in Seq(Byte) /\ Len(Header(type, f, code)) = 2
         /\ get_message_type(Header(type, f, code)) = type
         /\ get_group(Header(type, f, code)) = f.group
         /\ get_status_code(Header(type, f, code)) = code
         /\ get_channel(Header(type, f, code)) = f.channel
<1> DEFINE first == type * 16 + (f.group % 16)
           second == code * 16 + (f.channel % 16)
           head == <<first, second>>
<1>0. f.group \in FourBits /\ f.channel \in FourBits
  BY Fields1, Fields2
<1>1. second \in Byte /\ second \div 16 = code /\ second % 16 = f.channel
  BY <1>0, Low7, FirstByte
<1>2. first \in Byte /\ first \div 16 = type /\ first % 16 = f.group
  BY <1>0, Low7, FirstByte
<1>3. Header(type, f, code) = head
  BY DEF Header
<1> HIDE DEF first, second
<1>4. head \in Seq(Byte) /\ Len(head) = 2 /\ head[1] = first /\ head[2] = second
  BY <1>1, <1>2, Pair
<1> HIDE DEF head
<1> QED BY <1>1, <1>2, <1>3, <1>4 DEF get_message_type, get_group, get_status_code, get_channel

(* What is read from one byte is that byte.                                *)
LEMMA Get1 == \A ump : \A i \in Nat : Get(ump, <<i>>) = ump[i + 1]
BY DEF Get, PACKET

(* A system message: its status and its data bytes are read back.          *)
LEMMA SystemReadsBack ==
  ASSUME NEW f \in Arguments1, NEW ump, ump = system_message(f)
  PROVE  /\ IsPacket(ump, 4, 1, f.group) /\ get_status_code(ump) = f.status \div 16
         /\ Returns(ump, SystemGetters, f)
<1>1. /\ f.group \in FourBits /\ f.status \in Byte
      /\ f.byte2 \in Byte /\ f.byte2 % 128 = f.byte2
      /\ f.byte3 \in Byte /\ f.byte3 % 128 = f.byte3
  BY Fields1, Low7
<1> DEFINE first == 16 + (f.group % 16)
<1>2. first \in Byte /\ first \div 16 = 1 /\ first % 16 = f.group
  BY <1>1, SMT DEF FourBits, Byte
<1>3. ump = <<first, f.status, f.byte2, f.byte3>>
  BY <1>1 DEF system_message, MessageType
<1> HIDE DEF first
<1>4. /\ ump \in Seq(Byte) /\ Len(ump) = 4
      /\ ump[1] = first /\ ump[2] = f.status /\ ump[3] = f.byte2 /\ ump[4] = f.byte3
  BY <1>1, <1>2, <1>3
<1>5. Returns(ump, SystemGetters, f)
  BY <1>4, Get1 DEF Returns, SystemGetters
<1> QED BY <1>2, <1>4, <1>5 DEF IsPacket, get_message_type, get_group, get_status_code

(* An argument of seven bits is not changed on its way.                    *)
LEMMA Seven ==
  ASSUME NEW x \in SevenBits
  PROVE  x \in Byte /\ x \in Int /\ x % 128 = x
BY SMT DEF FourBits, SevenBits, Byte

(* A reserved byte.                                                        *)
LEMMA Seven0 == 0 \in SevenBits
BY SMT DEF SevenBits

(* A MIDI 1.0 channel message has the low seven bits of its arguments in   *)
(* its third and its fourth byte.                                          *)
LEMMA Midi1Bytes ==
  ASSUME NEW f \in Arguments1, NEW code \in FourBits,
         NEW byte3 \in Int, NEW byte4 \in Int
  PROVE  /\ IsVoice(midi1_message(f, code, byte3, byte4), 4, 2, f, code)
         /\ midi1_message(f, code, byte3, byte4)[3] = byte3 % 128
         /\ midi1_message(f, code, byte3, byte4)[4] = byte4 % 128
<1> DEFINE head == Header(2, f, code)
           rest == <<byte3 % 128, byte4 % 128>>
<1>0. f \in Arguments1 \cup Arguments2 /\ 2 \in FourBits
  BY Codes
<1>1. /\ head \in Seq(Byte) /\ Len(head) = 2
      /\ get_message_type(head) = 2 /\ get_group(head) = f.group
      /\ get_status_code(head) = code /\ get_channel(head) = f.channel
  BY <1>0, Headers, Zenon
<1>2. rest \in Seq(Byte) /\ Len(rest) = 2 /\ rest[1] = byte3 % 128 /\ rest[2] = byte4 % 128
  BY Low7, Pair
<1>3. midi1_message(f, code, byte3, byte4) = head \o rest
  BY DEF midi1_message, MessageType
<1> HIDE DEF head, rest
<1>4. /\ head \o rest \in Seq(Byte) /\ Len(head \o rest) = 4
      /\ (head \o rest)[1] = head[1] /\ (head \o rest)[2] = head[2]
      /\ (head \o rest)[3] = rest[1] /\ (head \o rest)[4] = rest[2]
  BY <1>1, <1>2, FourBytes
<1> QED BY <1>1, <1>2, <1>3, <1>4 DEF IsVoice, IsPacket, get_message_type, get_group,
    get_status_code, get_channel

(* The MIDI 1.0 channel messages but the pitch bends: every argument is    *)
(* read back.                                                              *)
LEMMA Midi1ReadsBack ==
  ASSUME NEW kind \in Midi1Kinds, NEW f \in Arguments1, NEW ump, ump = Midi1Message(kind, f)
  PROVE  /\ IsVoice(ump, 4, 2, f, ChannelStatus(kind))
         /\ Returns(ump, Midi1Getters(kind), f)
<1>1. ASSUME NEW code \in FourBits, NEW byte3 \in SevenBits, NEW byte4 \in SevenBits,
             ump = midi1_message(f, code, byte3, byte4)
      PROVE  /\ IsVoice(ump, 4, 2, f, code) /\ ump[3] = byte3 /\ ump[4] = byte4
  BY <1>1, Seven, Midi1Bytes
<1>0. /\ f.note \in SevenBits /\ f.velocity \in SevenBits /\ f.data \in SevenBits
      /\ f.index \in SevenBits /\ f.program \in SevenBits /\ 0 \in SevenBits
  BY Fields1, Seven0
<1>2. CASE kind = "note_off"
  <2>1. ump = midi1_message(f, 8, f.note, f.velocity)
    BY <1>2 DEF Midi1Message, Status
  <2>2. IsVoice(ump, 4, 2, f, 8) /\ ump[3] = f.note /\ ump[4] = f.velocity
    BY <1>0, <1>1, <2>1, Codes
  <2>3. Returns(ump, Midi1Getters(kind), f)
    BY <1>2, <2>2, Get1 DEF Returns, Midi1Getters
  <2> QED BY <1>2, <2>2, <2>3 DEF ChannelStatus, Status
<1>3. CASE kind = "note_on"
  <2>1. ump = midi1_message(f, 9, f.note, f.velocity)
    BY <1>3 DEF Midi1Message, Status
  <2>2. IsVoice(ump, 4, 2, f, 9) /\ ump[3] = f.note /\ ump[4] = f.velocity
    BY <1>0, <1>1, <2>1, Codes
  <2>3. Returns(ump, Midi1Getters(kind), f)
    BY <1>3, <2>2, Get1 DEF Returns, Midi1Getters
  <2> QED BY <1>3, <2>2, <2>3 DEF ChannelStatus, Status
<1>4. CASE kind = "paf"
  <2>1. ump = midi1_message(f, 10, f.note, f.data)
    BY <1>4 DEF Midi1Message, Status
  <2>2. IsVoice(ump, 4, 2, f, 10) /\ ump[3] = f.note /\ ump[4] = f.data
    BY <1>0, <1>1, <2>1, Codes
  <2>3. Returns(ump, Midi1Getters(kind), f)
    BY <1>4, <2>2, Get1 DEF Returns, Midi1Getters
  <2> QED BY <1>4, <2>2, <2>3 DEF ChannelStatus, Status
<1>5. CASE kind = "cc"
  <2>1. ump = midi1_message(f, 11, f.index, f.data)
    BY <1>5 DEF Midi1Message, Status
  <2>2. IsVoice(ump, 4, 2, f, 11) /\ ump[3] = f.index /\ ump[4] = f.data
    BY <1>0, <1>1, <2>1, Codes
  <2>3. Returns(ump, Midi1Getters(kind), f)
    BY <1>5, <2>2, Get1 DEF Returns, Midi1Getters
  <2> QED BY <1>5, <2>2, <2>3 DEF ChannelStatus, Status
<1>6. CASE kind = "program"
  <2>1. ump = midi1_message(f, 12, f.program, 0)
    BY <1>6 DEF Midi1Message, Status, RESERVED
  <2>2. IsVoice(ump, 4, 2, f, 12) /\ ump[3] = f.program /\ ump[4] = 0
    BY <1>0, <1>1, <2>1, Codes
  <2>3. Returns(ump, Midi1Getters(kind), f)
    BY <1>6, <2>2, Get1 DEF Returns, Midi1Getters
  <2> QED BY <1>6, <2>2, <2>3 DEF ChannelStatus, Status
<1>7. CASE kind = "caf"
  <2>1. ump = midi1_message(f, 13, f.data, 0)
    BY <1>7 DEF Midi1Message, Status, RESERVED
  <2>2. IsVoice(ump, 4, 2, f, 13) /\ ump[3] = f.data /\ ump[4] = 0
    BY <1>0, <1>1, <2>1, Codes
  <2>3. Returns(ump, Midi1Getters(kind), f)
    BY <1>7, <2>2, Get1 DEF Returns, Midi1Getters
  <2> QED BY <1>7, <2>2, <2>3 DEF ChannelStatus, Status
<1> QED BY <1>2, <1>3, <1>4, <1>5, <1>6, <1>7 DEF Midi1Kinds

(* A number of 14 bits is put together again from two bytes of seven.      *)
LEMMA Fourteen ==
  ASSUME NEW x \in FourteenBits
  PROVE  x \in Int /\ x \div 128 \in Int /\ (x % 128) + ((x \div 128) % 128) * 128 = x
<1>1. x \in Int /\ x = 128 * (x \div 128) + (x % 128)
  BY SMT DEF FourteenBits
<1> DEFINE q == x \div 128
           r == x % 128
<1>2. x = 128 * q + r /\ q \in Int /\ r \in 0 .. 127 /\ 0 <= x /\ x < 16384
  BY <1>1, SMT DEF FourteenBits
<1>3. x \div 128 \in Int /\ 0 <= x \div 128 /\ x \div 128 < 128
  <2> HIDE DEF q, r
  <2>1. 0 <= q /\ q < 128
    BY <1>2, SMT
  <2> QED BY <1>2, <2>1 DEF q
<1>4. (x \div 128) % 128 = x \div 128
  BY <1>3, SMT
<1> QED BY <1>1, <1>3, <1>4, SMT

(* What the getter of a MIDI 1.0 pitch bend makes of the two bytes.        *)
LEMMA BendBytes ==
  ASSUME NEW f \in Arguments1, NEW byte3 \in Int, NEW byte4 \in Int
  PROVE  /\ IsVoice(midi1_message(f, 14, byte3, byte4), 4, 2, f, 14)
         /\ get_midi1_pitch_bend_data(midi1_message(f, 14, byte3, byte4)) =
              (byte3 % 128) + (byte4 % 128) * 128
<1> DEFINE ump == midi1_message(f, 14, byte3, byte4)
<1>0. 14 \in FourBits
  BY Codes
<1>1. /\ IsVoice(ump, 4, 2, f, 14)
      /\ ump[3] = byte3 % 128 /\ ump[4] = byte4 % 128
  BY <1>0, Midi1Bytes
<1> HIDE DEF ump
<1>2. get_midi1_pitch_bend_data(ump) = (byte3 % 128) + (byte4 % 128) * 128
  BY <1>1 DEF get_midi1_pitch_bend_data, PACKET
<1> QED BY <1>1, <1>2 DEF ump

(* The three constructors of a MIDI 1.0 pitch bend: the getter gets the    *)
(* bend, however it was given.                                             *)
LEMMA BendReadsBack ==
  ASSUME NEW kind \in Midi1Bends, NEW f \in Arguments1, NEW ump,
         ump = Midi1Message(kind, IF kind = "pitch_bend" THEN SignedBend(f) ELSE f)
  PROVE  /\ IsVoice(ump, 4, 2, f, ChannelStatus(kind))
         /\ get_midi1_pitch_bend_data(ump) =
              IF kind = "pitch_bend_split" THEN f.lsb + f.msb * 128 ELSE f.bend
<1> DEFINE high == f.bend \div 128
<1>0. /\ f.bend \in Int /\ high \in Int /\ (f.bend % 128) + (high % 128) * 128 = f.bend
  BY Fields1, Fourteen, Zenon
<1>1. f.lsb \in Int /\ f.msb \in Int /\ f.lsb % 128 = f.lsb /\ f.msb % 128 = f.msb
  BY Fields1, Seven, Zenon
<1>2. CASE kind \in {"pitch_bend_direct", "pitch_bend"}
  <2>1. ump = midi1_message(f, 14, f.bend, high)
    <3>1. CASE kind = "pitch_bend_direct"
      BY <3>1 DEF Midi1Message, Status
    <3>2. CASE kind = "pitch_bend"
      <4> DEFINE g == SignedBend(f)
      <4>1. g.bend = f.bend - HalfBend /\ g.group = f.group /\ g.channel = f.channel
        BY ArgumentsAssumption DEF SignedBend
      <4>2. ump = Midi1Message("pitch_bend", g)
        BY <3>2
      <4> HIDE DEF g
      <4>3. g.bend + HalfBend = f.bend
        BY <1>0, <4>1, SMT DEF HalfBend
      <4>4. ump = midi1_message(g, Status.PITCH_BEND, g.bend + HalfBend, (g.bend + HalfBend) \div 128)
        BY <4>2 DEF Midi1Message
      <4>5. ump = midi1_message(g, 14, f.bend, high)
        BY <4>3, <4>4 DEF Status
      <4> QED BY <4>1, <4>5 DEF midi1_message, Header
    <3> QED BY <1>2, <3>1, <3>2
  <2> HIDE DEF high
  <2>2. /\ IsVoice(ump, 4, 2, f, 14)
        /\ get_midi1_pitch_bend_data(ump) = (f.bend % 128) + (high % 128) * 128
    <3>1. /\ IsVoice(midi1_message(f, 14, f.bend, high), 4, 2, f, 14)
          /\ get_midi1_pitch_bend_data(midi1_message(f, 14, f.bend, high)) =
               (f.bend % 128) + (high % 128) * 128
      BY <1>0, BendBytes
    <3> QED BY <2>1, <3>1
  <2> QED BY <1>0, <1>2, <2>2 DEF ChannelStatus, Status
<1>3. CASE kind = "pitch_bend_split"
  <2>1. ump = midi1_message(f, 14, f.lsb, f.msb)
    BY <1>3 DEF Midi1Message, Status
  <2>2. /\ IsVoice(ump, 4, 2, f, 14)
        /\ get_midi1_pitch_bend_data(ump) = (f.lsb % 128) + (f.msb % 128) * 128
    <3>1. /\ IsVoice(midi1_message(f, 14, f.lsb, f.msb), 4, 2, f, 14)
          /\ get_midi1_pitch_bend_data(midi1_message(f, 14, f.lsb, f.msb)) =
               (f.lsb % 128) + (f.msb % 128) * 128
      BY <1>1, BendBytes
    <3> QED BY <2>1, <3>1
  <2> QED BY <1>1, <1>3, <2>2 DEF ChannelStatus, Status
<1> QED BY <1>2, <1>3 DEF Midi1Bends

(* What stands behind a word.                                              *)
LEMMA FourAndMore ==
  ASSUME NEW head \in Seq(Byte), Len(head) = 4, NEW rest \in Seq(Byte)
  PROVE  /\ head \o rest \in Seq(Byte) /\ Len(head \o rest) = 4 + Len(rest)
         /\ \A i \in 1 .. 4 : (head \o rest)[i] = head[i]
         /\ \A i \in 1 .. Len(rest) : (head \o rest)[i + 4] = rest[i]
<1>1. /\ head \o rest \in Seq(Byte) /\ Len(head \o rest) = 4 + Len(rest)
      /\ \A i \in 1 .. 4 + Len(rest) : (head \o rest)[i] = IF i <= 4 THEN head[i] ELSE rest[i - 4]
  <2>1. /\ head \o rest \in Seq(Byte) /\ Len(head \o rest) = Len(head) + Len(rest)
        /\ \A i \in 1 .. Len(head) + Len(rest) :
             (head \o rest)[i] = IF i <= Len(head) THEN head[i] ELSE rest[i - Len(head)]
    BY ConcatProperties, Zenon
  <2> QED BY <2>1
<1>2. Len(rest) \in Nat
  OBVIOUS
<1>3. ASSUME NEW i \in 1 .. 4 PROVE (head \o rest)[i] = head[i]
  BY <1>1, <1>2
<1>4. ASSUME NEW i \in 1 .. Len(rest) PROVE (head \o rest)[i + 4] = rest[i]
  <2>1. i + 4 \in 1 .. 4 + Len(rest) /\ ~(i + 4 <= 4) /\ (i + 4) - 4 = i
    BY <1>2
  <2> QED BY <2>1, <1>1
<1> QED BY <1>1, <1>3, <1>4

(* The first word of a MIDI 2.0 channel message.                           *)
LEMMA FirstFour ==
  ASSUME NEW f \in Arguments2, NEW code \in FourBits, NEW byte3 \in Byte, NEW byte4 \in Byte
  PROVE  /\ IsVoice(FirstWord(f, code, byte3, byte4), 4, 4, f, code)
         /\ FirstWord(f, code, byte3, byte4)[3] = byte3
         /\ FirstWord(f, code, byte3, byte4)[4] = byte4
<1> DEFINE first == Header(4, f, code)
           rest == <<byte3, byte4>>
<1>0. f \in Arguments1 \cup Arguments2 /\ 4 \in FourBits
  BY Codes
<1>1. /\ first \in Seq(Byte) /\ Len(first) = 2
      /\ get_message_type(first) = 4 /\ get_group(first) = f.group
      /\ get_status_code(first) = code /\ get_channel(first) = f.channel
  BY <1>0, Headers, Zenon
<1>2. rest \in Seq(Byte) /\ Len(rest) = 2 /\ rest[1] = byte3 /\ rest[2] = byte4
  BY Pair
<1>3. FirstWord(f, code, byte3, byte4) = first \o rest
  BY DEF FirstWord, MessageType
<1> HIDE DEF first, rest
<1>4. /\ first \o rest \in Seq(Byte) /\ Len(first \o rest) = 4
      /\ (first \o rest)[1] = first[1] /\ (first \o rest)[2] = first[2]
      /\ (first \o rest)[3] = rest[1] /\ (first \o rest)[4] = rest[2]
  BY <1>1, <1>2, FourBytes
<1> QED BY <1>1, <1>2, <1>3, <1>4 DEF IsVoice, IsPacket, get_message_type, get_group,
    get_status_code, get_channel

(* The last four bytes of a packet of eight.                               *)
LastAre(ump, rest) == ump[5] = rest[1] /\ ump[6] = rest[2] /\ ump[7] = rest[3] /\ ump[8] = rest[4]

(* A MIDI 2.0 channel message with 32 bits of data.                        *)
LEMMA EightBytes ==
  ASSUME NEW f \in Arguments2, NEW code \in FourBits, NEW byte3 \in Byte, NEW byte4 \in Byte,
         NEW rest \in Seq(Byte), Len(rest) = 4
  PROVE  /\ IsVoice(midi2_8_8_32(f, code, byte3, byte4, rest), 8, 4, f, code)
         /\ midi2_8_8_32(f, code, byte3, byte4, rest)[3] = byte3
         /\ midi2_8_8_32(f, code, byte3, byte4, rest)[4] = byte4
         /\ LastAre(midi2_8_8_32(f, code, byte3, byte4, rest), rest)
<1> DEFINE head == FirstWord(f, code, byte3, byte4)
           ump == midi2_8_8_32(f, code, byte3, byte4, rest)
<1>1. IsVoice(head, 4, 4, f, code) /\ head[3] = byte3 /\ head[4] = byte4
  BY FirstFour
<1>2. ump = head \o rest
  BY DEF midi2_8_8_32
<1> HIDE DEF head, ump
<1>3. /\ ump \in Seq(Byte) /\ Len(ump) = 4 + Len(rest)
      /\ \A i \in 1 .. 4 : ump[i] = head[i]
      /\ \A i \in 1 .. Len(rest) : ump[i + 4] = rest[i]
  BY <1>1, <1>2, FourAndMore DEF IsVoice, IsPacket
<1>4. ump[1] = head[1] /\ ump[2] = head[2] /\ ump[3] = head[3] /\ ump[4] = head[4]
  BY <1>3
<1>5. /\ ump[1 + 4] = rest[1] /\ ump[2 + 4] = rest[2]
      /\ ump[3 + 4] = rest[3] /\ ump[4 + 4] = rest[4]
  BY <1>3
<1>6. IsVoice(ump, 8, 4, f, code) /\ ump[3] = byte3 /\ ump[4] = byte4 /\ LastAre(ump, rest)
  BY <1>1, <1>3, <1>4, <1>5 DEF IsVoice, IsPacket, LastAre, get_message_type, get_group,
     get_status_code, get_channel
<1> QED BY <1>6 DEF ump

(* A MIDI 2.0 channel message with twice 16 bits of data.                  *)
LEMMA TwoShorts ==
  ASSUME NEW f \in Arguments2, NEW code \in FourBits, NEW byte3 \in Byte, NEW byte4 \in Byte,
         NEW short1 \in Seq(Byte), Len(short1) = 2, NEW short2 \in Seq(Byte), Len(short2) = 2
  PROVE  /\ IsVoice(midi2_8_8_16_16(f, code, byte3, byte4, short1, short2), 8, 4, f, code)
         /\ midi2_8_8_16_16(f, code, byte3, byte4, short1, short2)[3] = byte3
         /\ midi2_8_8_16_16(f, code, byte3, byte4, short1, short2)[4] = byte4
         /\ LastAre(midi2_8_8_16_16(f, code, byte3, byte4, short1, short2), short1 \o short2)
<1> DEFINE rest == short1 \o short2
           head == FirstWord(f, code, byte3, byte4)
<1>1. rest \in Seq(Byte) /\ Len(rest) = 4
  BY FourBytes
<1>2. head \in Seq(Byte)
  BY FirstFour DEF IsVoice, IsPacket
<1>3. midi2_8_8_16_16(f, code, byte3, byte4, short1, short2) = (head \o short1) \o short2
  BY DEF midi2_8_8_16_16
<1>4. midi2_8_8_32(f, code, byte3, byte4, rest) = head \o rest
  BY DEF midi2_8_8_32
<1> HIDE DEF head
<1>5. (head \o short1) \o short2 = head \o (short1 \o short2)
  BY <1>2, ConcatAssociative
<1>6. midi2_8_8_16_16(f, code, byte3, byte4, short1, short2) = midi2_8_8_32(f, code, byte3, byte4, rest)
  BY <1>3, <1>4, <1>5
<1>7. /\ IsVoice(midi2_8_8_32(f, code, byte3, byte4, rest), 8, 4, f, code)
      /\ midi2_8_8_32(f, code, byte3, byte4, rest)[3] = byte3
      /\ midi2_8_8_32(f, code, byte3, byte4, rest)[4] = byte4
      /\ LastAre(midi2_8_8_32(f, code, byte3, byte4, rest), rest)
  <2> HIDE DEF rest
  <2> QED BY <1>1, EightBytes
<1> QED BY <1>6, <1>7

(* The second word is read back as a whole.                                *)
LEMMA DataIsGot ==
  ASSUME NEW ump, NEW data \in Word, LastAre(ump, data)
  PROVE  Get(ump, get_32_to_64) = data
<1>1. [i \in 1 .. 4 |-> ump[<<4, 5, 6, 7>>[i] + 1]] = data
  BY DEF LastAre, Word
<1>2. Get(ump, <<4, 5, 6, 7>>) = [i \in 1 .. 4 |-> ump[<<4, 5, 6, 7>>[i] + 1]]
  BY DEF Get, PACKET
<1> QED BY <1>1, <1>2 DEF get_32_to_64

(* The halves of the second word are read back.                            *)
LEMMA ShortsAreGot ==
  ASSUME NEW ump, NEW s1 \in Short, NEW s2 \in Short,
         LastAre(ump, s1 \o s2)
  PROVE  Get(ump, Short1) = s1 /\ Get(ump, Short2) = s2
<1>1. s1 \in Seq(Byte) /\ Len(s1) = 2 /\ s2 \in Seq(Byte) /\ Len(s2) = 2
  BY Two
<1>2. ump[5] = s1[1] /\ ump[6] = s1[2] /\ ump[7] = s2[1] /\ ump[8] = s2[2]
  BY <1>1, FourBytes DEF LastAre
<1>3. [i \in 1 .. 2 |-> ump[<<4, 5>>[i] + 1]] = s1 /\ [i \in 1 .. 2 |-> ump[<<6, 7>>[i] + 1]] = s2
  BY <1>2 DEF Short
<1>4. /\ Get(ump, <<4, 5>>) = [i \in 1 .. 2 |-> ump[<<4, 5>>[i] + 1]]
      /\ Get(ump, <<6, 7>>) = [i \in 1 .. 2 |-> ump[<<6, 7>>[i] + 1]]
  BY DEF Get, PACKET
<1> QED BY <1>3, <1>4 DEF Short1, Short2

(* A MIDI 2.0 note message.                                                *)
LEMMA NoteBytes ==
  ASSUME NEW f \in Arguments2, NEW code \in FourBits, NEW byte3 \in Byte, NEW byte4 \in Byte,
         NEW s1 \in Short, NEW s2 \in Short
  PROVE  /\ IsVoice(midi2_8_8_16_16(f, code, byte3, byte4, s1, s2), 8, 4, f, code)
         /\ midi2_8_8_16_16(f, code, byte3, byte4, s1, s2)[3] = byte3
         /\ midi2_8_8_16_16(f, code, byte3, byte4, s1, s2)[4] = byte4
         /\ Get(midi2_8_8_16_16(f, code, byte3, byte4, s1, s2), Short1) = s1
         /\ Get(midi2_8_8_16_16(f, code, byte3, byte4, s1, s2), Short2) = s2
<1>1. s1 \in Seq(Byte) /\ Len(s1) = 2 /\ s2 \in Seq(Byte) /\ Len(s2) = 2
  BY Two
<1>2. /\ IsVoice(midi2_8_8_16_16(f, code, byte3, byte4, s1, s2), 8, 4, f, code)
      /\ midi2_8_8_16_16(f, code, byte3, byte4, s1, s2)[3] = byte3
      /\ midi2_8_8_16_16(f, code, byte3, byte4, s1, s2)[4] = byte4
      /\ LastAre(midi2_8_8_16_16(f, code, byte3, byte4, s1, s2), s1 \o s2)
  BY <1>1, TwoShorts
<1> QED BY <1>2, ShortsAreGot

(* A 32-bit argument is four bytes.                                        *)
LEMMA Quadruple ==
  ASSUME NEW s \in Word
  PROVE  s \in Seq(Byte) /\ Len(s) = 4
BY Tabulated DEF Word

(* The MIDI 2.0 channel messages but the signed pitch bends: every         *)
(* argument is read back.                                                  *)
LEMMA Midi2ReadsBack ==
  ASSUME NEW kind \in Midi2Kinds, NEW f \in Arguments2, NEW ump, ump = Midi2Message(kind, f)
  PROVE  IsVoice(ump, 8, 4, f, ChannelStatus(kind)) /\ Returns(ump, Midi2Getters(kind), f)
<1>1. /\ f.note \in Byte /\ f.note % 128 = f.note /\ f.index \in Byte /\ f.index % 128 = f.index
      /\ f.controller \in Byte
      /\ f.program \in Byte /\ f.program % 128 = f.program
      /\ f.msb \in Byte /\ f.msb % 128 = f.msb /\ f.lsb \in Byte /\ f.lsb % 128 = f.lsb
  BY Fields2, Seven
<1>2. /\ f.attribute_type \in Byte /\ f.bank_msb \in Byte /\ f.bank_lsb \in Byte
      /\ f.velocity \in Short /\ f.attribute_data \in Short
      /\ f.data \in Word
  BY Fields2
<1>3. /\ f.options \in Byte /\ f.options % 4 = f.options /\ 0 \in Byte
      /\ f.program_options \in Byte /\ f.program_options % 2 = f.program_options
  BY Fields2, SMT DEF Byte
<1>4. ASSUME NEW code \in FourBits, NEW byte3 \in Byte, NEW byte4 \in Byte,
             ump = midi2_8_8_32(f, code, byte3, byte4, f.data)
      PROVE  IsVoice(ump, 8, 4, f, code) /\ ump[3] = byte3 /\ ump[4] = byte4
             /\ Get(ump, get_32_to_64) = f.data
  <2>1. f.data \in Seq(Byte) /\ Len(f.data) = 4
    BY <1>2, Quadruple
  <2>2. IsVoice(ump, 8, 4, f, code) /\ ump[3] = byte3 /\ ump[4] = byte4 /\ LastAre(ump, f.data)
    <3>1. /\ IsVoice(midi2_8_8_32(f, code, byte3, byte4, f.data), 8, 4, f, code)
          /\ midi2_8_8_32(f, code, byte3, byte4, f.data)[3] = byte3
          /\ midi2_8_8_32(f, code, byte3, byte4, f.data)[4] = byte4
          /\ LastAre(midi2_8_8_32(f, code, byte3, byte4, f.data), f.data)
      BY <2>1, EightBytes
    <3> QED BY <1>4, <3>1
  <2> QED BY <1>2, <2>2, DataIsGot
<1> DEFINE note(code) ==
             midi2_8_8_16_16(f, code, f.note, f.attribute_type, f.velocity, f.attribute_data)
<1>5. ASSUME NEW code \in FourBits
      PROVE  /\ IsVoice(note(code), 8, 4, f, code) /\ note(code)[3] = f.note
             /\ note(code)[4] = f.attribute_type
             /\ Get(note(code), Short1) = f.velocity
             /\ Get(note(code), Short2) = f.attribute_data
  <2> f.note \in Byte /\ f.attribute_type \in Byte /\ f.velocity \in Short
      /\ f.attribute_data \in Short
    BY <1>1, <1>2
  <2> QED BY NoteBytes
<1>6. CASE kind = "note_off"
  <2>1. ump = note(8)
    BY <1>1, <1>6 DEF Midi2Message, Status
  <2>2. /\ IsVoice(ump, 8, 4, f, 8) /\ ump[3] = f.note /\ ump[4] = f.attribute_type
        /\ Get(ump, Short1) = f.velocity /\ Get(ump, Short2) = f.attribute_data
    BY <1>5, <2>1, Codes
  <2> QED BY <1>6, <2>2, Get1 DEF Returns, Midi2Getters, ChannelStatus, Status
<1>7. CASE kind = "note_on"
  <2>1. ump = note(9)
    BY <1>1, <1>7 DEF Midi2Message, Status
  <2>2. /\ IsVoice(ump, 8, 4, f, 9) /\ ump[3] = f.note /\ ump[4] = f.attribute_type
        /\ Get(ump, Short1) = f.velocity /\ Get(ump, Short2) = f.attribute_data
    BY <1>5, <2>1, Codes
  <2> QED BY <1>7, <2>2, Get1 DEF Returns, Midi2Getters, ChannelStatus, Status
<1>8. CASE kind = "per_note_rcc"
  <2>1. ump = midi2_8_8_32(f, 0, f.note, f.controller, f.data)
    BY <1>1, <1>8 DEF Midi2Message, Status
  <2>2. IsVoice(ump, 8, 4, f, 0) /\ ump[3] = f.note /\ ump[4] = f.controller
        /\ Get(ump, get_32_to_64) = f.data
    BY <1>1, <1>3, <1>4, <2>1, Codes
  <2> QED BY <1>8, <2>2, Get1 DEF Returns, Midi2Getters, ChannelStatus, Status
<1>9. CASE kind = "per_note_acc"
  <2>1. ump = midi2_8_8_32(f, 1, f.note, f.controller, f.data)
    BY <1>1, <1>9 DEF Midi2Message, Status
  <2>2. IsVoice(ump, 8, 4, f, 1) /\ ump[3] = f.note /\ ump[4] = f.controller
        /\ Get(ump, get_32_to_64) = f.data
    BY <1>1, <1>3, <1>4, <2>1, Codes
  <2> QED BY <1>9, <2>2, Get1 DEF Returns, Midi2Getters, ChannelStatus, Status
<1>10. CASE kind = "rpn"
  <2>1. ump = midi2_8_8_32(f, 2, f.msb, f.lsb, f.data)
    BY <1>1, <1>10 DEF Midi2Message, Status
  <2>2. IsVoice(ump, 8, 4, f, 2) /\ ump[3] = f.msb /\ ump[4] = f.lsb
        /\ Get(ump, get_32_to_64) = f.data
    BY <1>1, <1>3, <1>4, <2>1, Codes
  <2> QED BY <1>10, <2>2, Get1 DEF Returns, Midi2Getters, ChannelStatus, Status
<1>11. CASE kind = "nrpn"
  <2>1. ump = midi2_8_8_32(f, 3, f.msb, f.lsb, f.data)
    BY <1>1, <1>11 DEF Midi2Message, Status
  <2>2. IsVoice(ump, 8, 4, f, 3) /\ ump[3] = f.msb /\ ump[4] = f.lsb
        /\ Get(ump, get_32_to_64) = f.data
    BY <1>1, <1>3, <1>4, <2>1, Codes
  <2> QED BY <1>11, <2>2, Get1 DEF Returns, Midi2Getters, ChannelStatus, Status
<1>12. CASE kind = "relative_rpn"
  <2>1. ump = midi2_8_8_32(f, 4, f.msb, f.lsb, f.data)
    BY <1>1, <1>12 DEF Midi2Message, Status
  <2>2. IsVoice(ump, 8, 4, f, 4) /\ ump[3] = f.msb /\ ump[4] = f.lsb
        /\ Get(ump, get_32_to_64) = f.data
    BY <1>1, <1>3, <1>4, <2>1, Codes
  <2> QED BY <1>12, <2>2, Get1 DEF Returns, Midi2Getters, ChannelStatus, Status
<1>13. CASE kind = "relative_nrpn"
  <2>1. ump = midi2_8_8_32(f, 5, f.msb, f.lsb, f.data)
    BY <1>1, <1>13 DEF Midi2Message, Status
  <2>2. IsVoice(ump, 8, 4, f, 5) /\ ump[3] = f.msb /\ ump[4] = f.lsb
        /\ Get(ump, get_32_to_64) = f.data
    BY <1>1, <1>3, <1>4, <2>1, Codes
  <2> QED BY <1>13, <2>2, Get1 DEF Returns, Midi2Getters, ChannelStatus, Status
<1>14. CASE kind = "paf"
  <2>1. ump = midi2_8_8_32(f, 10, f.note, 0, f.data)
    BY <1>1, <1>14 DEF Midi2Message, Status, RESERVED
  <2>2. IsVoice(ump, 8, 4, f, 10) /\ ump[3] = f.note /\ ump[4] = 0
        /\ Get(ump, get_32_to_64) = f.data
    BY <1>1, <1>3, <1>4, <2>1, Codes
  <2> QED BY <1>14, <2>2, Get1 DEF Returns, Midi2Getters, ChannelStatus, Status
<1>15. CASE kind = "cc"
  <2>1. ump = midi2_8_8_32(f, 11, f.index, 0, f.data)
    BY <1>1, <1>15 DEF Midi2Message, Status, RESERVED
  <2>2. IsVoice(ump, 8, 4, f, 11) /\ ump[3] = f.index /\ ump[4] = 0
        /\ Get(ump, get_32_to_64) = f.data
    BY <1>1, <1>3, <1>4, <2>1, Codes
  <2> QED BY <1>15, <2>2, Get1 DEF Returns, Midi2Getters, ChannelStatus, Status
<1>16. CASE kind = "caf"
  <2>1. ump = midi2_8_8_32(f, 13, 0, 0, f.data)
    BY <1>1, <1>16 DEF Midi2Message, Status, RESERVED
  <2>2. IsVoice(ump, 8, 4, f, 13) /\ ump[3] = 0 /\ ump[4] = 0
        /\ Get(ump, get_32_to_64) = f.data
    BY <1>1, <1>3, <1>4, <2>1, Codes
  <2> QED BY <1>16, <2>2, Get1 DEF Returns, Midi2Getters, ChannelStatus, Status
<1>17. CASE kind = "pitch_bend_direct"
  <2>1. ump = midi2_8_8_32(f, 14, 0, 0, f.data)
    BY <1>1, <1>17 DEF Midi2Message, Status, RESERVED
  <2>2. IsVoice(ump, 8, 4, f, 14) /\ ump[3] = 0 /\ ump[4] = 0
        /\ Get(ump, get_32_to_64) = f.data
    BY <1>1, <1>3, <1>4, <2>1, Codes
  <2> QED BY <1>17, <2>2, Get1 DEF Returns, Midi2Getters, ChannelStatus, Status
<1>18. CASE kind = "per_note_pitch_bend_direct"
  <2>1. ump = midi2_8_8_32(f, 6, f.note, 0, f.data)
    BY <1>1, <1>18 DEF Midi2Message, Status, RESERVED
  <2>2. IsVoice(ump, 8, 4, f, 6) /\ ump[3] = f.note /\ ump[4] = 0
        /\ Get(ump, get_32_to_64) = f.data
    BY <1>1, <1>3, <1>4, <2>1, Codes
  <2> QED BY <1>18, <2>2, Get1 DEF Returns, Midi2Getters, ChannelStatus, Status
<1>19. CASE kind = "per_note_management"
  <2> DEFINE rest == <<0, 0, 0, 0>>
  <2>1. ump = midi2_8_8_32(f, 15, f.note, f.options, rest)
    BY <1>1, <1>3, <1>19 DEF Midi2Message, Status
  <2>2. rest \in Seq(Byte) /\ Len(rest) = 4
    BY <1>3
  <2> HIDE DEF rest
  <2>3. IsVoice(ump, 8, 4, f, 15) /\ ump[3] = f.note /\ ump[4] = f.options
    <3>1. f.note \in Byte /\ f.options \in Byte
      BY <1>1, <1>3
    <3> QED BY <2>1, <2>2, <3>1, EightBytes, Codes
  <2> QED BY <1>19, <2>3, Get1 DEF Returns, Midi2Getters, ChannelStatus, Status
<1>20. CASE kind = "program"
  <2> DEFINE rest == <<f.program, 0, f.bank_msb, f.bank_lsb>>
  <2>1. ump = midi2_8_8_32(f, 12, 0, f.program_options, rest)
    BY <1>1, <1>3, <1>20 DEF Midi2Message, Status, RESERVED
  <2>2. /\ rest \in Seq(Byte) /\ Len(rest) = 4
        /\ rest[1] = f.program /\ rest[3] = f.bank_msb /\ rest[4] = f.bank_lsb
    BY <1>1, <1>2, <1>3
  <2> HIDE DEF rest
  <2>3. IsVoice(ump, 8, 4, f, 12) /\ ump[4] = f.program_options /\ LastAre(ump, rest)
    BY <1>3, <2>1, <2>2, EightBytes, Codes
  <2>4. ump[5] = f.program /\ ump[7] = f.bank_msb /\ ump[8] = f.bank_lsb
    BY <2>2, <2>3 DEF LastAre
  <2> QED BY <1>20, <2>3, <2>4, Get1 DEF Returns, Midi2Getters, ChannelStatus, Status
<1> QED BY <1>6, <1>7, <1>8, <1>9, <1>10, <1>11, <1>12, <1>13, <1>14, <1>15, <1>16,
       <1>17, <1>18, <1>19, <1>20 DEF Midi2Kinds

(* Adding 2^31 to a 32-bit number twice gives the number back.             *)
LEMMA UnsignedTwice ==
  ASSUME NEW data \in Word
  PROVE  Unsigned(data) \in Word /\ Unsigned(Unsigned(data)) = data
<1>1. data[1] \in Byte
  BY DEF Word
<1>2. (data[1] + 128) % 256 \in Byte /\ (((data[1] + 128) % 256) + 128) % 256 = data[1]
  BY <1>1, SMT DEF Byte
<1> QED BY <1>2 DEF Word, Unsigned

(* The pitch bends that are given as signed numbers are read back as the   *)
(* number they stand for.                                                  *)
LEMMA SignedReadsBack ==
  ASSUME NEW kind \in Midi2Bends, NEW f \in Arguments2, NEW ump, ump = Midi2Message(kind, SignedData(f))
  PROVE  IsVoice(ump, 8, 4, f, ChannelStatus(kind)) /\ Returns(ump, Midi2Getters(kind), f)
<1> DEFINE g == SignedData(f)
<1>1. /\ f.note \in Byte /\ f.note % 128 = f.note /\ f.data \in Word /\ 0 \in Byte
  BY Fields2, Seven, Seven0
<1>2. /\ g.group = f.group /\ g.channel = f.channel /\ g.note = f.note
      /\ g.data = Unsigned(f.data)
  BY ArgumentsAssumption DEF SignedData
<1>3. ump = Midi2Message(kind, g)
  OBVIOUS
<1> HIDE DEF g
<1>4. Unsigned(g.data) = f.data
  BY <1>1, <1>2, UnsignedTwice
<1>5. ASSUME NEW code \in FourBits, NEW byte3 \in Byte, NEW byte4 \in Byte,
             ump = midi2_8_8_32(g, code, byte3, byte4, f.data)
      PROVE  IsVoice(ump, 8, 4, f, code) /\ ump[3] = byte3 /\ Get(ump, get_32_to_64) = f.data
  <2>1. ump = midi2_8_8_32(f, code, byte3, byte4, f.data)
    BY <1>2, <1>5 DEF midi2_8_8_32, FirstWord, Header
  <2>2. f.data \in Seq(Byte) /\ Len(f.data) = 4
    BY <1>1, Quadruple
  <2>3. IsVoice(ump, 8, 4, f, code) /\ ump[3] = byte3 /\ LastAre(ump, f.data)
    <3>1. /\ IsVoice(midi2_8_8_32(f, code, byte3, byte4, f.data), 8, 4, f, code)
          /\ midi2_8_8_32(f, code, byte3, byte4, f.data)[3] = byte3
          /\ LastAre(midi2_8_8_32(f, code, byte3, byte4, f.data), f.data)
      BY <2>2, EightBytes
    <3> QED BY <2>1, <3>1
  <2> QED BY <1>1, <2>3, DataIsGot
<1>6. CASE kind = "pitch_bend"
  <2>1. ump = midi2_8_8_32(g, 14, 0, 0, f.data)
    BY <1>3, <1>4, <1>6 DEF Midi2Message, Status, RESERVED
  <2>2. IsVoice(ump, 8, 4, f, 14) /\ Get(ump, get_32_to_64) = f.data
    BY <1>1, <1>5, <2>1, Codes
  <2> QED BY <1>6, <2>2, Get1 DEF Returns, Midi2Getters, ChannelStatus, Status
<1>7. CASE kind = "per_note_pitch_bend"
  <2>1. ump = midi2_8_8_32(g, 6, f.note, 0, f.data)
    BY <1>1, <1>2, <1>3, <1>4, <1>7 DEF Midi2Message, Status, RESERVED
  <2>2. IsVoice(ump, 8, 4, f, 6) /\ ump[3] = f.note /\ Get(ump, get_32_to_64) = f.data
    BY <1>1, <1>5, <2>1, Codes
  <2> QED BY <1>7, <2>2, Get1 DEF Returns, Midi2Getters, ChannelStatus, Status
<1> QED BY <1>6, <1>7 DEF Midi2Bends

(* Whatever the message and its arguments, the getters return what the     *)
(* constructor was given.                                                  *)
THEOREM MessagesReadBack ==
  ASSUME NEW m \in Messages
  PROVE  UmpOf(m) \in Seq(Byte) /\ ReadsBack(UmpOf(m), m) /\ m.type \in {0, 1, 2, 4}
<1> DEFINE ump == UmpOf(m)
<1>1. CASE m \in OfType(MessageType.UTILITY, {"jr_clock", "jr_timestamp"}, Arguments1)
  <2>1. m.type = 0 /\ m.kind \in {"jr_clock", "jr_timestamp"} /\ m.f \in Arguments1
    BY <1>1 DEF OfType, MessageType
  <2>2. ump = UtilityMessage(m.kind, m.f)
    BY <2>1 DEF UmpOf, MessageType
  <2> HIDE DEF ump
  <2>3. /\ IsPacket(ump, 4, 0, m.f.group) /\ Returns(ump, UtilityGetters, m.f)
        /\ get_status_code(ump) = IF m.kind = "jr_clock" THEN JR_CLOCK ELSE JR_TIMESTAMP
    BY <2>1, <2>2, UtilityReadsBack
  <2> QED BY <2>1, <2>3 DEF ump, IsVoice, IsPacket, ReadsBack, GetsStatus, GetsArguments, MessageType,
      ump_get_num_bytes
<1>2. CASE m \in OfType(MessageType.SYSTEM, {"system"}, Arguments1)
  <2>1. m.type = 1 /\ m.f \in Arguments1
    BY <1>2 DEF OfType, MessageType
  <2>2. ump = system_message(m.f)
    BY <2>1 DEF UmpOf, MessageType
  <2> HIDE DEF ump
  <2>3. /\ IsPacket(ump, 4, 1, m.f.group) /\ Returns(ump, SystemGetters, m.f)
        /\ get_status_code(ump) = m.f.status \div 16
    BY <2>1, <2>2, SystemReadsBack
  <2> QED BY <2>1, <2>3 DEF ump, IsVoice, IsPacket, ReadsBack, GetsStatus, GetsArguments, MessageType,
      ump_get_num_bytes
<1>3. CASE m \in OfType(MessageType.MIDI_1_CHANNEL, Midi1Kinds \cup Midi1Bends, Arguments1)
  <2>1. m.type = 2 /\ m.kind \in Midi1Kinds \cup Midi1Bends /\ m.f \in Arguments1
    BY <1>3 DEF OfType, MessageType
  <2>2. ump = Midi1Message(m.kind, IF m.kind = "pitch_bend" THEN SignedBend(m.f) ELSE m.f)
    BY <2>1 DEF UmpOf, MessageType
  <2> HIDE DEF ump
  <2>3. CASE m.kind \in Midi1Bends
    <3>1. /\ IsVoice(ump, 4, 2, m.f, ChannelStatus(m.kind))
          /\ get_midi1_pitch_bend_data(ump) =
               IF m.kind = "pitch_bend_split" THEN m.f.lsb + m.f.msb * 128 ELSE m.f.bend
      BY <2>1, <2>2, <2>3, BendReadsBack
    <3> QED BY <2>1, <2>3, <3>1 DEF ump, IsVoice, IsPacket, ReadsBack, GetsStatus, GetsArguments, MessageType,
        ump_get_num_bytes
  <2>4. CASE m.kind \in Midi1Kinds
    <3>1. m.kind # "pitch_bend" /\ m.kind \notin Midi1Bends
      BY <2>4 DEF Midi1Kinds, Midi1Bends
    <3>2. IsVoice(ump, 4, 2, m.f, ChannelStatus(m.kind)) /\ Returns(ump, Midi1Getters(m.kind), m.f)
      BY <2>1, <2>2, <2>4, <3>1, Midi1ReadsBack
    <3> QED BY <2>1, <3>1, <3>2 DEF ump, IsVoice, IsPacket, ReadsBack, GetsStatus, GetsArguments, MessageType,
        ump_get_num_bytes
  <2> QED BY <2>1, <2>3, <2>4
<1>4. CASE m \in OfType(MessageType.MIDI_2_CHANNEL, Midi2Kinds \cup Midi2Bends, Arguments2)
  <2>1. m.type = 4 /\ m.kind \in Midi2Kinds \cup Midi2Bends /\ m.f \in Arguments2
    BY <1>4 DEF OfType, MessageType
  <2>2. ump = Midi2Message(m.kind, IF m.kind \in Midi2Bends THEN SignedData(m.f) ELSE m.f)
    BY <2>1 DEF UmpOf, MessageType
  <2> HIDE DEF ump
  <2>3. IsVoice(ump, 8, 4, m.f, ChannelStatus(m.kind)) /\ Returns(ump, Midi2Getters(m.kind), m.f)
    <3>1. CASE m.kind \in Midi2Bends
      BY <2>1, <2>2, <3>1, SignedReadsBack
    <3>2. CASE m.kind \in Midi2Kinds
      <4>1. m.kind \notin Midi2Bends
        BY <3>2 DEF Midi2Kinds, Midi2Bends
      <4> QED BY <2>1, <2>2, <3>2, <4>1, Midi2ReadsBack
    <3> QED BY <2>1, <3>1, <3>2
  <2> QED BY <2>1, <2>3 DEF ump, IsVoice, IsPacket, ReadsBack, GetsStatus, GetsArguments, MessageType,
      ump_get_num_bytes
<1> QED BY <1>1, <1>2, <1>3, <1>4 DEF Messages
-----------------------------------------------------------------------------
(* Messages of several packets.                                            *)

(* The data of packet `index` is at index * radix, in one piece with that  *)
(* of the packet before it, and no packet but the last is short.           *)
LEMMA PacketSizes ==
  ASSUME NEW radix \in {6, 13}, NEW numBytes \in 0 .. 255,
         NEW index \in 0 .. sysex_get_num_packets(numBytes, radix) - 1
  PROVE  PacketSize(numBytes, radix, index) =
           IF numBytes - index * radix < radix THEN numBytes - index * radix ELSE radix
<1>1. CASE radix = 6
  BY <1>1, SMT DEF PacketSize, PacketStatus, sysex_get_num_packets, IN_ONE_UMP, START, CONTINUE,
     END
<1>2. CASE radix = 13
  BY <1>2, SMT DEF PacketSize, PacketStatus, sysex_get_num_packets, IN_ONE_UMP, START, CONTINUE,
     END
<1> QED
  BY <1>1, <1>2

(* A packet is marked as the last one exactly if nothing is left after it. *)
THEOREM LastPacketIsMarked ==
  ASSUME NEW radix \in {6, 13}, NEW numBytes \in 0 .. 255,
         NEW index \in 0 .. sysex_get_num_packets(numBytes, radix) - 1
  PROVE  PacketStatus(numBytes, radix, index) \in {IN_ONE_UMP, END} <=>
           index * radix + PacketSize(numBytes, radix, index) = numBytes
<1>1. PacketSize(numBytes, radix, index) =
        IF numBytes - index * radix < radix THEN numBytes - index * radix ELSE radix
  BY PacketSizes
<1>2. CASE radix = 6
  BY <1>1, <1>2, SMT DEF PacketStatus, sysex_get_num_packets, IN_ONE_UMP, START, CONTINUE, END
<1>3. CASE radix = 13
  BY <1>1, <1>3, SMT DEF PacketStatus, sysex_get_num_packets, IN_ONE_UMP, START, CONTINUE, END
<1> QED
  BY <1>2, <1>3

(* Every byte of a System Exclusive message is in exactly one packet, and  *)
(* the uint8_t that counts through the source does not overflow.           *)
THEOREM PacketsCoverMessage ==
  ASSUME NEW radix \in {6, 13}, NEW numBytes \in 0 .. 255, NEW byte \in 0 .. numBytes - 1
  PROVE  LET holds(index) == /\ (index * radix) % 256 <= byte
                             /\ byte < ((index * radix) % 256) + PacketSize(numBytes, radix, index)
             packets == 0 .. sysex_get_num_packets(numBytes, radix) - 1
         IN  \E index \in packets : holds(index)
         /\ \A other \in packets : holds(other) => other = index
<1> DEFINE holds(index) == /\ (index * radix) % 256 <= byte
                           /\ byte < ((index * radix) % 256) + PacketSize(numBytes, radix, index)
           packets == 0 .. sysex_get_num_packets(numBytes, radix) - 1
           home == byte \div radix
<1>1. home \in packets
  <2>1. CASE radix = 6
    BY <2>1, SMT DEF sysex_get_num_packets
  <2>2. CASE radix = 13
    BY <2>2, SMT DEF sysex_get_num_packets
  <2> QED
    BY <2>1, <2>2
<1>2. ASSUME NEW index \in packets
      PROVE  holds(index) <=> index = home
  <2>1. PacketSize(numBytes, radix, index) =
          IF numBytes - index * radix < radix THEN numBytes - index * radix ELSE radix
    BY PacketSizes
  <2>2. CASE radix = 6
    <3>1. 6 * index \in 0 .. 255
      BY <2>2, SMT DEF sysex_get_num_packets
    <3> QED
      BY <2>1, <2>2, <3>1, SMT
  <2>3. CASE radix = 13
    <3>1. 13 * index \in 0 .. 255
      BY <2>3, SMT DEF sysex_get_num_packets
    <3> QED
      BY <2>1, <2>3, <3>1, SMT
  <2> QED
    BY <2>2, <2>3
<1> QED
  BY <1>1, <1>2

(* A number that is less than the divisor.                                 *)
LEMMA SmallDivision ==
  ASSUME NEW x \in Int, NEW d \in Int, 0 <= x, x < d
  PROVE  x \div d = 0 /\ x % d = x
BY SMT

(* A Mixed Data Set of less than 65536 bytes is one chunk, and nothing of  *)
(* its size is lost when it is passed on as a uint16_t.                    *)
LEMMA OneChunk ==
  ASSUME NEW length \in BelowChunk
  PROVE  /\ mds_get_num_chunks(length) = 1 /\ ChunkSize(length, 0) = length
            /\ ChunkSize(length, 0) % 65536 = length
         /\ mds_get_num_payloads(length) = length \div 14 + (IF length % 14 # 0 THEN 1 ELSE 0)
<1>1. 14 * 65536 = 917504 /\ MaxChunkSize = 917490
  BY SMT DEF MaxChunkSize
<1>2. length \in Int /\ 1 <= length /\ length < 65536 /\ length < 917490 /\ length < 917504
  BY SMT DEF BelowChunk
<1>3. length \div 917504 = 0 /\ length % 917504 = length
  BY <1>2, SmallDivision, SMT
<1>4. length % 917490 = length /\ length % 65536 = length
  BY <1>2, SmallDivision, SMT
<1>5. mds_get_num_chunks(length) = 1
  <2>1. mds_get_num_chunks(length) = (0 + 1) % 65536
    BY <1>1, <1>2, <1>3, SMT DEF mds_get_num_chunks
  <2> QED
    BY <2>1, SMT
<1>6. ChunkSize(length, 0) = length
  BY <1>1, <1>4, <1>5, SMT DEF ChunkSize
<1>7. mds_get_num_payloads(length) = length \div 14 + (IF length % 14 # 0 THEN 1 ELSE 0)
  BY <1>1, <1>2, SMT DEF mds_get_num_payloads
<1> QED
  BY <1>4, <1>5, <1>6, <1>7, SMT

(* The payloads of a Mixed Data Set of less than 65536 bytes, which is one *)
(* chunk, hold all of it and less than a payload more.                     *)
THEOREM PayloadsCoverDataSet ==
  ASSUME NEW length \in BelowChunk
  PROVE  /\ mds_get_num_chunks(length) = 1
         /\ LET numPayloads == mds_get_num_payloads(ChunkSize(length, 0))
            IN  length <= 14 * numPayloads /\ 14 * numPayloads < length + 14
<1>1. /\ mds_get_num_chunks(length) = 1 /\ ChunkSize(length, 0) = length
      /\ mds_get_num_payloads(length) = length \div 14 + (IF length % 14 # 0 THEN 1 ELSE 0)
  BY OneChunk
<1>2. length \in Nat
  BY SMT DEF BelowChunk
<1> QED
  BY <1>1, <1>2, SMT

(* A packet of n bytes: the header, `size` bytes of the source, zeros.      *)
Fills(ump, header, src, offset, size, n) ==
  /\ ump \in Seq(Byte) /\ Len(ump) = n
  /\ \A i \in 1 .. Len(header) : ump[i] = header[i]
  /\ \A i \in 1 .. n - Len(header) : ump[Len(header) + i] = IF i <= size THEN src[offset + i] ELSE 0

(* What Packet makes: a header, `size` bytes of the source and zeros.      *)
LEMMA PacketBytes ==
  ASSUME NEW header \in Seq(Byte), NEW src \in Seq(Byte), NEW offset \in Nat, NEW size \in Nat,
         NEW n \in Nat, Len(header) + size <= n, offset + size <= Len(src)
  PROVE  Fills(Packet(header, src, offset, size, n), header, src, offset, size, n)
<1> DEFINE packet == Packet(header, src, offset, size, n)
           at(i) == IF i <= Len(header) THEN header[i]
                    ELSE IF i <= Len(header) + size THEN src[offset + i - Len(header)] ELSE 0
<1>1. packet = [i \in 1 .. n |-> at(i)]
  BY DEF Packet
<1>2. Len(header) \in Nat /\ Len(src) \in Nat /\ 0 \in Byte
  BY Seven0, Seven
<1>3. ASSUME NEW i \in 1 .. n PROVE at(i) \in Byte
  <2>1. CASE i <= Len(header)
    <3>1. i \in 1 .. Len(header)
      BY <1>2, <2>1
    <3> QED BY <2>1, <3>1, ElementOfSeq
  <2>2. CASE ~(i <= Len(header)) /\ i <= Len(header) + size
    <3>1. offset + i - Len(header) \in 1 .. Len(src)
      BY <1>2, <2>2
    <3> QED BY <2>2, <3>1, ElementOfSeq
  <2>3. CASE ~(i <= Len(header)) /\ ~(i <= Len(header) + size)
    BY <1>2, <2>3
  <2> QED BY <2>1, <2>2, <2>3
<1>4. packet \in [1 .. n -> Byte]
  <2> HIDE DEF at, packet
  <2> QED BY <1>1, <1>3
<1>5. packet \in Seq(Byte) /\ Len(packet) = n
  <2> HIDE DEF packet
  <2> QED BY <1>4, Tabulated
<1>6. ASSUME NEW i \in 1 .. Len(header) PROVE packet[i] = header[i]
  <2>1. i \in 1 .. n /\ i <= Len(header)
    BY <1>2
  <2> HIDE DEF packet
  <2> QED BY <1>1, <2>1
<1>7. ASSUME NEW i \in 1 .. n - Len(header)
      PROVE  packet[Len(header) + i] = IF i <= size THEN src[offset + i] ELSE 0
  <2>1. Len(header) + i \in 1 .. n /\ ~(Len(header) + i <= Len(header))
    BY <1>2
  <2>2. packet[Len(header) + i] = at(Len(header) + i)
    <3> HIDE DEF packet, at
    <3> QED BY <1>1, <2>1
  <2>3. (Len(header) + i <= Len(header) + size <=> i <= size)
        /\ offset + (Len(header) + i) - Len(header) = offset + i
    BY <1>2
  <2> HIDE DEF packet
  <2> QED BY <2>1, <2>2, <2>3
<1> QED BY <1>5, <1>6, <1>7 DEF Fills

(* `size` bytes of the source from `offset` on are in the packet behind `at`. *)
Holds(ump, at, src, offset, size) == \A i \in 1 .. size : ump[at + i] = src[offset + i]

(* What the packet of an index has.                                        *)
IsInside(numBytes, radix, index) ==
  /\ PacketStatus(numBytes, radix, index) \in 0 .. 3
  /\ PacketSize(numBytes, radix, index) \in 0 .. radix
  /\ index * radix \in 0 .. numBytes /\ (index * radix) % 256 = index * radix
  /\ index * radix + PacketSize(numBytes, radix, index) <= numBytes

IsSysex7(ump, group, numBytes, src, index) ==
  /\ IsPacket(ump, 8, 3, group)
  /\ get_status_code(ump) = PacketStatus(numBytes, 6, index)
  /\ get_channel(ump) = PacketSize(numBytes, 6, index)
  /\ Holds(ump, 2, src, index * 6, PacketSize(numBytes, 6, index))

IsSysex8(ump, group, id, numBytes, src, index) ==
  /\ IsPacket(ump, 16, 5, group) /\ ump[3] = id
  /\ get_status_code(ump) = PacketStatus(numBytes, 13, index)
  /\ get_channel(ump) = PacketSize(numBytes, 13, index) + 1
  /\ Holds(ump, 3, src, index * 13, PacketSize(numBytes, 13, index))

IsPayload(ump, group, id, numBytes, src, offset) ==
  /\ IsPacket(ump, 16, 5, group) /\ get_status_code(ump) = 9 /\ get_channel(ump) = id
  /\ \A i \in 1 .. 14 : ump[2 + i] = IF numBytes < i /\ numBytes < 14 THEN 0 ELSE src[offset + i]

(* The packet of an index stays inside the message, and the uint8_t that   *)
(* counts through the source does not overflow.                            *)
LEMMA PacketRange ==
  ASSUME NEW radix \in {6, 13}, NEW numBytes \in 0 .. 255,
         NEW index \in 0 .. sysex_get_num_packets(numBytes, radix) - 1
  PROVE  IsInside(numBytes, radix, index)
<1>1. PacketSize(numBytes, radix, index) =
           IF numBytes - index * radix < radix THEN numBytes - index * radix ELSE radix
  BY PacketSizes
<1>2. PacketStatus(numBytes, radix, index) \in 0 .. 3
  BY SMT DEF PacketStatus, IN_ONE_UMP, START, CONTINUE, END
<1>3. index * radix \in 0 .. numBytes
  <2>1. CASE radix = 6
    BY <2>1, SMT DEF sysex_get_num_packets
  <2>2. CASE radix = 13
    BY <2>2, SMT DEF sysex_get_num_packets
  <2> QED BY <2>1, <2>2
<1>4. radix \in Nat /\ index \in Nat
  OBVIOUS
<1> DEFINE offset == index * radix
<1> HIDE DEF offset
<1>5. offset % 256 = offset
  BY <1>3, SMT DEF offset
<1>6. PacketSize(numBytes, radix, index) \in 0 .. radix
  BY <1>1, <1>3, <1>4, SMT DEF offset
<1>7. index * radix + PacketSize(numBytes, radix, index) <= numBytes
  BY <1>1, <1>3, <1>4, SMT DEF offset
<1> QED BY <1>2, <1>3, <1>5, <1>6, <1>7 DEF offset, IsInside

(* A packet of a System Exclusive message with 7 bits: its header and its  *)
(* data.                                                                   *)
LEMMA Sysex7Packet ==
  ASSUME NEW group \in FourBits, NEW numBytes \in 0 .. 255, NEW src \in Seq(Byte), numBytes <= Len(src),
         NEW index \in 0 .. sysex_get_num_packets(numBytes, 6) - 1
  PROVE  IsSysex7(sysex_get_packet_of(group, numBytes, src, index, SYSEX7, 6, <<>>), group, numBytes, src, index)
<1> DEFINE status == PacketStatus(numBytes, 6, index)
           size == PacketSize(numBytes, 6, index)
           offset == index * 6
           second == status * 16 + size
           head == <<3 * 16 + (group % 16), second>>
           ump == sysex_get_packet_of(group, numBytes, src, index, SYSEX7, 6, <<>>)
<1>1. /\ status \in 0 .. 3 /\ size \in 0 .. 6 /\ offset \in 0 .. numBytes
      /\ offset % 256 = offset /\ offset + size <= numBytes
  BY PacketRange DEF IsInside
<1>2. size + Len(<<>>) = size
  BY <1>1
<1>3. head \o <<>> = head
  OBVIOUS
<1>4. ump = Packet(head, src, offset, size, 8)
  BY <1>1, <1>2, <1>3 DEF sysex_get_packet_of, SYSEX7
<1> HIDE DEF ump, status, size, offset
<1>5. second \in Byte /\ second \div 16 = status /\ second % 16 = size
  BY <1>1, SMT DEF Byte
<1>6. head \in Seq(Byte) /\ Len(head) = 2 /\ head[2] = second /\ get_message_type(head) = 3
      /\ get_group(head) = group
  <2> HIDE DEF second
  <2> QED BY <1>5, Codes, Headed
<1> HIDE DEF head, second
<1>7. /\ ump \in Seq(Byte) /\ Len(ump) = 8
      /\ \A i \in 1 .. 2 : ump[i] = head[i]
      /\ \A i \in 1 .. 8 - 2 : ump[2 + i] = IF i <= size THEN src[offset + i] ELSE 0
  <2>1. Len(head) + size <= 8 /\ offset + size <= Len(src) /\ offset \in Nat /\ size \in Nat
        /\ 8 \in Nat
    BY <1>1, <1>6
  <2>2. Fills(ump, head, src, offset, size, 8)
    BY <1>4, <1>6, <2>1, PacketBytes
  <2> QED BY <1>6, <2>2 DEF Fills
<1>8. ump[1] = head[1] /\ ump[2] = head[2]
  BY <1>7
<1>9. Holds(ump, 2, src, offset, size)
  <2>1. ASSUME NEW i \in 1 .. size PROVE ump[2 + i] = src[offset + i]
    <3>1. i \in 1 .. 8 - 2 /\ i <= size
      BY <1>1
    <3> QED BY <1>7, <3>1
  <2> QED BY <2>1 DEF Holds
<1> QED BY <1>5, <1>6, <1>7, <1>8, <1>9 DEF IsSysex7, ump, status, size, offset, IsPacket,
    get_message_type, get_group, get_status_code, get_channel

(* A sequence of three elements.                                           *)
LEMMA Triple ==
  ASSUME NEW S, NEW a \in S, NEW b \in S, NEW c \in S
  PROVE  /\ <<a, b>> \o <<c>> \in Seq(S) /\ Len(<<a, b>> \o <<c>>) = 3
         /\ (<<a, b>> \o <<c>>)[1] = a /\ (<<a, b>> \o <<c>>)[2] = b /\ (<<a, b>> \o <<c>>)[3] = c
OBVIOUS

(* A packet of a System Exclusive message with 8 bits: its header, with    *)
(* the stream id, and its data.                                            *)
LEMMA Sysex8Packet ==
  ASSUME NEW group \in FourBits, NEW id \in Byte, NEW numBytes \in 0 .. 255,
         NEW src \in Seq(Byte), numBytes <= Len(src),
         NEW index \in 0 .. sysex_get_num_packets(numBytes, 13) - 1
  PROVE  IsSysex8(sysex8_get_packet_of(group, id, numBytes, src, index), group, id, numBytes, src, index)
<1> DEFINE status == PacketStatus(numBytes, 13, index)
           size == PacketSize(numBytes, 13, index)
           offset == index * 13
           first == 5 * 16 + (group % 16)
           second == status * 16 + size + 1
           head == <<first, second>> \o <<id>>
           ump == sysex8_get_packet_of(group, id, numBytes, src, index)
<1>1. /\ status \in 0 .. 3 /\ size \in 0 .. 13 /\ offset \in 0 .. numBytes
      /\ offset % 256 = offset /\ offset + size <= numBytes
  BY PacketRange DEF IsInside
<1>2. Len(<<id>>) = 1
  OBVIOUS
<1>4. ump = Packet(head, src, offset, size, 16)
  BY <1>1, <1>2 DEF sysex8_get_packet_of, sysex_get_packet_of, SYSEX8_MDS, SYSEX7
<1> HIDE DEF ump, status, size, offset
<1>5. second \in Byte /\ second \div 16 = status /\ second % 16 = size + 1
  <2>1. status \in FourBits /\ size + 1 \in FourBits
        /\ status * 16 + size + 1 = status * 16 + (size + 1)
    BY <1>1, SMT DEF FourBits
  <2> QED BY <2>1, FirstByte
<1>6. first \in Byte /\ first \div 16 = 5 /\ first % 16 = group
  BY Low7, FirstByte, Codes
<1> HIDE DEF first, second
<1>7. head \in Seq(Byte) /\ Len(head) = 3 /\ head[1] = first /\ head[2] = second /\ head[3] = id
  BY <1>5, <1>6, Triple
<1> HIDE DEF head
<1>8. /\ ump \in Seq(Byte) /\ Len(ump) = 16
      /\ \A i \in 1 .. 3 : ump[i] = head[i]
      /\ \A i \in 1 .. 16 - 3 : ump[3 + i] = IF i <= size THEN src[offset + i] ELSE 0
  <2>1. Len(head) + size <= 16 /\ offset + size <= Len(src) /\ offset \in Nat /\ size \in Nat
        /\ 16 \in Nat
    BY <1>1, <1>7
  <2>2. Fills(ump, head, src, offset, size, 16)
    BY <1>4, <1>7, <2>1, PacketBytes
  <2> QED BY <1>7, <2>2 DEF Fills
<1>9. ump[1] = first /\ ump[2] = second /\ ump[3] = id
  BY <1>7, <1>8
<1>10. Holds(ump, 3, src, offset, size)
  <2>1. ASSUME NEW i \in 1 .. size PROVE ump[3 + i] = src[offset + i]
    <3>1. i \in 1 .. 16 - 3 /\ i <= size
      BY <1>1
    <3> QED BY <1>8, <3>1
  <2> QED BY <2>1 DEF Holds
<1> QED BY <1>5, <1>6, <1>8, <1>9, <1>10 DEF IsSysex8, ump, status, size, offset, IsPacket,
    get_message_type, get_group, get_status_code, get_channel

(* A payload of a Mixed Data Set: its header and its data, with zeros      *)
(* only behind a chunk of less than 14 bytes.                              *)
LEMMA MdsPayload ==
  ASSUME NEW group \in FourBits, NEW id \in FourBits, NEW numBytes \in Nat, NEW src \in Seq(Byte),
         NEW offset \in Nat,
         numBytes < 14 => offset + numBytes <= Len(src), numBytes >= 14 => offset + 14 <= Len(src)
  PROVE  IsPayload(mds_get_payload_of(group, id, numBytes, src, offset), group, id, numBytes, src, offset)
<1> DEFINE size == IF numBytes < 14 THEN numBytes ELSE 14
           second == 9 * 16 + id
           head == <<5 * 16 + (group % 16), second>>
           ump == mds_get_payload_of(group, id, numBytes, src, offset)
<1>1. size \in 0 .. 14 /\ offset + size <= Len(src)
  OBVIOUS
<1>2. ump = Packet(head, src, offset, size, 16)
  BY DEF mds_get_payload_of, SYSEX8_MDS, MDS_PAYLOAD
<1> HIDE DEF ump
<1>3. second \in Byte /\ second \div 16 = 9 /\ second % 16 = id
  BY FirstByte, Codes
<1>4. head \in Seq(Byte) /\ Len(head) = 2 /\ head[2] = second /\ get_message_type(head) = 5
      /\ get_group(head) = group
  <2> HIDE DEF second
  <2> QED BY <1>3, Codes, Headed
<1> HIDE DEF head, second
<1>5. /\ ump \in Seq(Byte) /\ Len(ump) = 16
      /\ \A i \in 1 .. 2 : ump[i] = head[i]
      /\ \A i \in 1 .. 16 - 2 : ump[2 + i] = IF i <= size THEN src[offset + i] ELSE 0
  <2> HIDE DEF size
  <2>1. Len(head) + size <= 16 /\ size \in Nat /\ 16 \in Nat
    BY <1>1, <1>4
  <2>2. Fills(ump, head, src, offset, size, 16)
    BY <1>1, <1>2, <1>4, <2>1, PacketBytes
  <2> QED BY <1>4, <2>2 DEF Fills
<1>6. ump[1] = head[1] /\ ump[2] = head[2]
  BY <1>5
<1>7. ASSUME NEW i \in 1 .. 14
      PROVE  ump[2 + i] = IF numBytes < i /\ numBytes < 14 THEN 0 ELSE src[offset + i]
  <2>1. i \in 1 .. 16 - 2
    OBVIOUS
  <2>2. ump[2 + i] = IF i <= size THEN src[offset + i] ELSE 0
    BY <1>5, <2>1
  <2>3. i <= size <=> ~(numBytes < i /\ numBytes < 14)
    BY SMT
  <2> HIDE DEF size
  <2> QED BY <2>2, <2>3
<1> QED BY <1>3, <1>4, <1>5, <1>6, <1>7 DEF IsPayload, ump, IsPacket, get_message_type,
    get_group, get_status_code, get_channel
=============================================================================
