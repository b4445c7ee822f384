---------------------------- MODULE UmpTransfer -----------------------------
(***************************************************************************)
(* Transfers of System Exclusive messages and Mixed Data Sets over one     *)
(* stream of packets.  Each transfer is a loop of sysex7_process,          *)
(* sysex8_process or mds_process that calls sendUMP for every packet; the  *)
(* loops of different groups, stream ids and data set ids run beside each  *)
(* other, which is what the ids are for.  sendUMP puts the packet into a   *)
(* buffer, which may begin with a message of one packet; the receiver      *)
(* walks over it with CMIDI2_UMP_SEQUENCE_FOREACH and puts the data        *)
(* together with the getters.                                              *)
(***************************************************************************)
EXTENDS Cmidi2Sysex, Cmidi2Messages, SequencesExt

CONSTANTS Transfers,
          Call,         \* the arguments of a transfer; `memory` is the source
          BufferSize    \* bytes of the buffer

Kind(t) == Call[t].kind
Memory(t) == Call[t].memory

(* What the loops read is there: the first 0xF7 of a System Exclusive one, *)
(* the bytes of the others up to their length and, of a data set, up to a  *)
(* whole payload.                                                          *)
Readable(t) ==
  /\ Memory(t) \in Seq(Byte)
  /\ CASE Kind(t) = "sysex7" ->
            \E i \in 1 .. Len(Memory(t)) :
              Memory(t)[i] = 247 /\ \A k \in 1 .. i - 1 : Memory(t)[k] # 247
       [] Kind(t) = "sysex8" ->
            Call[t].id \in Byte /\ Call[t].length \in 0 .. Len(Memory(t))
       [] Kind(t) = "mds" ->
            /\ Call[t].id \in FourBits /\ Call[t].length \in BelowChunk
            /\ Call[t].length <= Len(Memory(t))
            /\ Call[t].length >= 14 => ((Call[t].length + 13) \div 14) * 14 <= Len(Memory(t))

(* The longest packet fits.                                                *)
ASSUME BufferAssumption == BufferSize \in Nat /\ BufferSize >= 16

ASSUME CallAssumption ==
  \A t \in Transfers :
    /\ Kind(t) \in {"sysex7", "sysex8", "mds"} /\ Call[t].group \in FourBits
    /\ Readable(t)

(* Transfers of a kind that are under way in a group have their ids.       *)
ASSUME IdsAssumption ==
  \A t, u \in Transfers :
    t # u /\ Kind(t) = Kind(u) /\ Call[t].group = Call[u].group =>
      Kind(t) # "sysex7" /\ Call[t].id # Call[u].id

VARIABLES
  chunk, packet,        \* per transfer: c and p of its loop
  buffer, iter,         \* the bytes in the buffer, the offset of the receiver
  message,              \* the message of one packet in front of them, if any
  heard, framing,       \* per transfer: data put together, where it stands
  queued,               \* history: the packets not walked over yet
  wraps                 \* the build: a shift takes its count modulo 32

vars == <<chunk, packet, buffer, iter, message, heard, framing, queued, wraps>>

NoMessage == [type |-> -1]

Init ==
  /\ chunk = [t \in Transfers |-> 0] /\ packet = [t \in Transfers |-> 0]
  /\ buffer = <<>> /\ iter = 0 /\ message = NoMessage
  /\ heard = [t \in Transfers |-> <<>>]
  /\ framing = [t \in Transfers |-> "none"]
  /\ queued = {} /\ wraps \in BOOLEAN
-----------------------------------------------------------------------------
(* The loops.  Lengths are passed on as a uint8_t or a uint16_t.           *)

Length(t) ==
  IF Kind(t) = "sysex7" THEN sysex7_get_sysex_length(Memory(t)) ELSE Call[t].length

numChunks(t) == IF Kind(t) = "mds" THEN mds_get_num_chunks(Length(t)) ELSE 1

numPackets(t, c) ==
  CASE Kind(t) = "sysex7" -> sysex_get_num_packets(Length(t) % 256, 6)
    [] Kind(t) = "sysex8" -> sysex_get_num_packets(Length(t) % 256, 13)
    [] Kind(t) = "mds" -> mds_get_num_payloads(ChunkSize(Length(t), c))

PacketOf(t, c, p) ==
  CASE Kind(t) = "sysex7" -> sysex7_get_packet_of(Call[t].group, Length(t) % 256, Memory(t), p)
    [] Kind(t) = "sysex8" -> sysex8_get_packet_of(Call[t].group, Call[t].id, Length(t) % 256, Memory(t), p)
    [] Kind(t) = "mds" ->
         mds_get_payload_of(Call[t].group, Call[t].id, ChunkSize(Length(t), c) % 65536, Memory(t),
                            14 * (65536 * c + p))

(* What each round of the loops sends.                                     *)
Packets ==
  [t \in Transfers |-> [c \in 0 .. numChunks(t) - 1 |->
     [p \in 0 .. numPackets(t, c) - 1 |-> PacketOf(t, c, p)]]]

Sent(t) == chunk[t] \notin DOMAIN Packets[t]

(* One round of the inner loop; sendUMP finds room or waits for it.        *)
Process(t) ==
  /\ ~Sent(t) /\ packet[t] \in DOMAIN Packets[t][chunk[t]]
  /\ LET ump == Packets[t][chunk[t]][packet[t]]
     IN  /\ Len(buffer) + Len(ump) <= BufferSize
         /\ buffer' = buffer \o ump
  /\ queued' = queued \cup {[at |-> Len(buffer), t |-> t, p |-> packet[t]]}
  /\ packet' = [packet EXCEPT ![t] = @ + 1]
  /\ UNCHANGED <<chunk, iter, message, heard, framing, wraps>>

NextChunk(t) ==
  /\ ~Sent(t) /\ packet[t] \notin DOMAIN Packets[t][chunk[t]]
  /\ chunk' = [chunk EXCEPT ![t] = @ + 1] /\ packet' = [packet EXCEPT ![t] = 0]
  /\ UNCHANGED <<buffer, iter, message, heard, framing, queued, wraps>>

(* A client makes a message of one packet.  Bound: one at a time, and only *)
(* before the transfers begin.                                             *)
SendMessage(m) ==
  /\ buffer = <<>> /\ \A t \in Transfers : chunk[t] = 0 /\ packet[t] = 0
  /\ buffer' = UmpOf(m) /\ message' = m
  /\ UNCHANGED <<chunk, packet, iter, heard, framing, queued, wraps>>
-----------------------------------------------------------------------------
(* The receiver.                                                           *)

(* cmidi2_ump_sequence_next reads the type from a word for which it has    *)
(* shifted a uint32_t by 56, 48, 40 and 32 bits.  That is undefined: where *)
(* the count is taken modulo 32 it gets the type, elsewhere any of them.   *)
read_types(bytes, i) == IF wraps THEN {bytes[i + 1] \div 16} ELSE FourBits

(* Plausible bug: the next word, whatever the size of the packet.          *)
WordByWord(bytes, i) == {i + 4}

sequence_next(bytes, i) == {i + ump_get_num_bytes(type) : type \in read_types(bytes, i)}

(* The packet that the walk has come upon.                                 *)
Ump == SubSeq(buffer, iter + 1, iter + ump_get_num_bytes(buffer[iter + 1] \div 16))

IsMds(ump) == get_message_type(ump) = SYSEX8_MDS /\ get_status_code(ump) > END

Belongs(ump, t) ==
  /\ get_group(ump) = Call[t].group
  /\ CASE Kind(t) = "sysex7" -> get_message_type(ump) = SYSEX7
       [] Kind(t) = "sysex8" ->
            get_message_type(ump) = SYSEX8_MDS /\ ~IsMds(ump) /\ PACKET(ump, 2) = Call[t].id
       [] Kind(t) = "mds" -> IsMds(ump) /\ get_channel(ump) = Call[t].id

(* Where the data of a packet is: sysex8_num_bytes counts the stream id.   *)
DataOf(ump) ==
  IF IsMds(ump) THEN SubSeq(ump, 3, 16)
  ELSE LET first == IF get_message_type(ump) = SYSEX7 THEN 3 ELSE 4
       IN  SubSeq(ump, first, 2 + get_channel(ump))

(* What the status of a packet makes of a transfer that stands at `now`.   *)
Framing(ump, now) ==
  CASE IsMds(ump) -> "open"
    [] get_status_code(ump) = IN_ONE_UMP /\ now = "none" -> "whole"
    [] get_status_code(ump) = START /\ now = "none" -> "open"
    [] get_status_code(ump) = CONTINUE /\ now = "open" -> "open"
    [] get_status_code(ump) = END /\ now = "open" -> "whole"
    [] OTHER -> "broken"

(* What a receiver makes of a packet that it cannot tell is left out.      *)
Take ==
  /\ iter < Len(buffer)
  /\ IF wraps /\ get_message_type(Ump) \in {SYSEX7, SYSEX8_MDS}
     THEN \E t \in Transfers :
            /\ Belongs(Ump, t)
            /\ heard' = [heard EXCEPT ![t] = @ \o DataOf(Ump)]
            /\ framing' = [framing EXCEPT ![t] = Framing(Ump, @)]
     ELSE UNCHANGED <<heard, framing>>
  /\ iter' \in sequence_next(buffer, iter)
  /\ queued' = {q \in queued : q.at # iter}
  /\ UNCHANGED <<chunk, packet, buffer, message, wraps>>

(* The walk is over: the buffer is free again.                             *)
EndOfWalk ==
  /\ buffer # <<>> /\ iter >= Len(buffer)
  /\ buffer' = <<>> /\ iter' = 0 /\ message' = NoMessage /\ queued' = {}
  /\ UNCHANGED <<chunk, packet, heard, framing, wraps>>

Next ==
  \/ \E t \in Transfers : Process(t) \/ NextChunk(t)
  \/ \E m \in Messages : SendMessage(m)
  \/ Take \/ EndOfWalk

(* A loop that has room goes on, and the receiver reads what is there;     *)
(* nobody has to send a message.                                           *)
Fairness ==
  /\ \A t \in Transfers : WF_vars(Process(t)) /\ WF_vars(NextChunk(t))
  /\ WF_vars(Take) /\ WF_vars(EndOfWalk)

Spec == Init /\ [][Next]_vars /\ Fairness
-----------------------------------------------------------------------------
(* Types; no packet is out of its order of START, CONTINUE and END.        *)
TypeOK ==
  /\ chunk \in [Transfers -> Nat] /\ packet \in [Transfers -> Nat]
  /\ buffer \in Seq(Byte) /\ Len(buffer) <= BufferSize /\ iter \in Nat
  /\ framing \in [Transfers -> {"none", "open", "whole"}]
  /\ message \in Messages \cup {NoMessage} /\ wraps \in BOOLEAN

(* The walk never gets out of step with the packets: it stands at the      *)
(* first byte of one, and stops at the end of the buffer and not behind    *)
(* it, if the build reads the types.                                       *)
WalkInStep ==
  wraps => iter = 0 \/ iter = Len(buffer) \/ \E q \in queued : q.at = iter

(* What the client gave: what is between 0xF0 and 0xF7, or `length` bytes. *)
Data == [t \in Transfers |->
  LET first == IF Kind(t) = "sysex7" /\ Memory(t)[1] = 240 THEN 2 ELSE 1
      last == IF Kind(t) # "sysex7" THEN Call[t].length
              ELSE (CHOOSE i \in DOMAIN Memory(t) :
                      Memory(t)[i] = 247 /\ \A k \in 1 .. i - 1 : Memory(t)[k] # 247) - 1
  IN  SubSeq(Memory(t), first, last)]

(* The last payload of a data set is always a whole one.                   *)
Padded(t) ==
  /\ Kind(t) = "mds" /\ IsPrefix(Data[t], heard[t])
  /\ Len(heard[t]) < Len(Data[t]) + 14

(* However the loops are interleaved, the data that the getters find       *)
(* belongs to the transfer it is put into and comes in order, without a    *)
(* gap at the boundary of two packets.                                     *)
HeardInOrder ==
  wraps => \A t \in Transfers : IsPrefix(heard[t], Data[t]) \/ Padded(t)

(* The walk comes upon each message as one packet, and what the getters    *)
(* return of it is what the constructor was given, whatever follows it.    *)
GettersReadBack ==
  wraps /\ message # NoMessage /\ iter = 0 => ReadsBack(Ump, message)

(* A longer System Exclusive message is cut: its length goes through a     *)
(* uint8_t.                                                                *)
Fits(t) == Kind(t) = "mds" \/ Len(Data[t]) <= 255

Whole(t) == IF Kind(t) = "mds" THEN Padded(t) ELSE heard[t] = Data[t] /\ framing[t] = "whole"

(* A transfer that has been sent and read is there as the client gave it,  *)
(* to the last byte, and its last packet says so.                          *)
SentMeansHeard ==
  \A t \in Transfers : wraps /\ buffer = <<>> /\ Sent(t) /\ Fits(t) => Whole(t)

(* Every loop ends and what it sends arrives: none stops short of its last *)
(* packet, goes on for ever or waits for room that nobody makes.           *)
TransfersArrive == \A t \in Transfers : <>(Sent(t) /\ (wraps /\ Fits(t) => Whole(t)))
=============================================================================
