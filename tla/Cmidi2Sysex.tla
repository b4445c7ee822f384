---------------------------- MODULE Cmidi2Sysex -----------------------------
(***************************************************************************)
(* The messages of cmidi2.h that take several packets: System Exclusive    *)
(* with 7 and with 8 bits and Mixed Data Sets.  src is the memory from the *)
(* first byte of the data on; a uint8_t or uint16_t parameter takes its    *)
(* argument modulo 256 or 65536.                                           *)
(***************************************************************************)
EXTENDS Integers, Sequences

SYSEX7 == 3
SYSEX8_MDS == 5

(* enum cmidi2_sysex_status and cmidi2_mixed_data_set_status, in sixteens. *)
IN_ONE_UMP == 0
START == 1
CONTINUE == 2
END == 3
MDS_PAYLOAD == 9

(* Plausible bug: no packet for the rest.                                  *)
WholePacketsOnly(numBytes, radix) == IF numBytes <= radix THEN 1 ELSE numBytes \div radix

sysex_get_num_packets(numBytes, radix) ==
  IF numBytes <= radix THEN 1
  ELSE numBytes \div radix + (IF numBytes % radix # 0 THEN 1 ELSE 0)

(* Plausible bug: the first packet is not marked as the START.             *)
NeverStarts(numBytes, radix, index) ==
  IF numBytes <= radix THEN IN_ONE_UMP
  ELSE IF index = sysex_get_num_packets(numBytes, radix) - 1 THEN END ELSE CONTINUE

PacketStatus(numBytes, radix, index) ==
  IF numBytes <= radix THEN IN_ONE_UMP
  ELSE IF index = 0 THEN START
  ELSE IF index = sysex_get_num_packets(numBytes, radix) - 1 THEN END ELSE CONTINUE

PacketSize(numBytes, radix, index) ==
  LET status == PacketStatus(numBytes, radix, index)
  IN  IF status = IN_ONE_UMP THEN numBytes
      ELSE IF status = END /\ numBytes % radix # 0 THEN numBytes % radix ELSE radix

(* dst8: `size` bytes of the source behind the header, filled up with 0.   *)
Packet(header, src, offset, size, numBytes) ==
  [i \in 1 .. numBytes |->
     IF i <= Len(header) THEN header[i]
     ELSE IF i <= Len(header) + size THEN src[offset + i - Len(header)] ELSE 0]

(* streamId is <<>> for a message without one.                             *)
sysex_get_packet_of(group, numBytes, src, index, type, radix, streamId) ==
  LET size == PacketSize(numBytes, radix, index)
      second == PacketStatus(numBytes, radix, index) * 16 + size + Len(streamId)
  IN  Packet(<<type * 16 + (group % 16), second>> \o streamId, src, (index * radix) % 256,
             size, IF type = SYSEX7 THEN 8 ELSE 16)

(* The bytes up to 0xF7, without a 0xF0 in front.                          *)
sysex7_get_sysex_length(src) ==
  (CHOOSE i \in 0 .. Len(src) - 1 :
     src[i + 1] = 247 /\ \A k \in 1 .. i : src[k] # 247) - (IF src[1] = 240 THEN 1 ELSE 0)

(* Plausible bug: 0xF0 left in the data although the length is without it. *)
KeepF0(group, numBytes, src, index) ==
  sysex_get_packet_of(group, numBytes, src, index, SYSEX7, 6, <<>>)

sysex7_get_packet_of(group, numBytes, src, index) ==
  LET srcOffset == IF numBytes > 0 /\ src[1] = 240 THEN 1 ELSE 0
  IN  sysex_get_packet_of(group, numBytes, SubSeq(src, srcOffset + 1, Len(src)), index,
                          SYSEX7, 6, <<>>)

sysex8_get_packet_of(group, streamId, numBytes, src, index) ==
  sysex_get_packet_of(group, numBytes, src, index, SYSEX8_MDS, 13, <<streamId>>)

MaxChunkSize == 14 * 65535

mds_get_num_chunks(length) ==
  LET radix == 14 * 65536
  IN  (length \div radix + (IF length % radix # 0 THEN 1 ELSE 0)) % 65536

(* Plausible bug: no payload for the rest.                                 *)
WholePayloadsOnly(numBytes) == IF numBytes > MaxChunkSize THEN -1 ELSE numBytes \div 14

mds_get_num_payloads(numBytes) ==
  IF numBytes > MaxChunkSize THEN -1
  ELSE numBytes \div 14 + (IF numBytes % 14 # 0 THEN 1 ELSE 0)

(* A payload of less than 14 bytes is one of a chunk of less than 14: the  *)
(* last payload of a longer chunk takes what follows the data in memory.   *)
mds_get_payload_of(group, mdsId, numBytes, src, offset) ==
  Packet(<<SYSEX8_MDS * 16 + (group % 16), MDS_PAYLOAD * 16 + mdsId>>, src, offset,
         IF numBytes < 14 THEN numBytes ELSE 14, 16)

(* Lengths that a chunk's size, a uint16_t, can say.                       *)
BelowChunk == 1 .. 65535

ChunkSize(length, c) ==
  IF c + 1 = mds_get_num_chunks(length) THEN length % MaxChunkSize ELSE MaxChunkSize
=============================================================================
