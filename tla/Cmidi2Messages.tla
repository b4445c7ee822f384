--------------------------- MODULE Cmidi2Messages ---------------------------
(***************************************************************************)
(* The messages of cmidi2.h that fit in one packet: constructors and       *)
(* getters.  A packet is the sequence of its bytes, the first at index 1;  *)
(* an argument of more than 8 bits is the sequence of its bytes as well,   *)
(* most significant first, so that "<<" and "+" are concatenation.         *)
(* The functions return an integer; that a client stores it most           *)
(* significant byte first is what cmidi2_ump_read_uint32_bytes expects.    *)
(***************************************************************************)
EXTENDS Integers, Sequences

CONSTANTS Arguments1, Arguments2   \* arguments of MIDI 1.0 and 2.0 constructors

FourBits == 0 .. 15
Byte == 0 .. 255
SevenBits == 0 .. 127
FourteenBits == 0 .. 16383
Short == [1 .. 2 -> Byte]
Word == [1 .. 4 -> Byte]

(* Arguments are in the ranges that the protocol gives them.               *)
ASSUME ArgumentsAssumption ==
  /\ Arguments1 \subseteq
       [group : FourBits, channel : FourBits, status : Byte, byte2 : SevenBits, byte3 : SevenBits,
        note : SevenBits, velocity : SevenBits, data : SevenBits, index : SevenBits,
        program : SevenBits, bend : FourteenBits, lsb : SevenBits, msb : SevenBits,
        time : Short]
  /\ Arguments2 \subseteq
       [group : FourBits, channel : FourBits, note : SevenBits, attribute_type : Byte,
        velocity : Short, attribute_data : Short,
        data : Word, index : SevenBits, controller : Byte, options : 0 .. 3,
        program_options : {0, 1}, program : SevenBits,
        msb : SevenBits, lsb : SevenBits, bank_msb : Byte, bank_lsb : Byte]

MessageType == [UTILITY |-> 0, SYSTEM |-> 1, MIDI_1_CHANNEL |-> 2,
                SYSEX7 |-> 3, MIDI_2_CHANNEL |-> 4, SYSEX8_MDS |-> 5]

(* The status codes, in sixteens.                                          *)
Status == [PER_NOTE_RCC |-> 0, PER_NOTE_ACC |-> 1, RPN |-> 2, NRPN |-> 3,
           RELATIVE_RPN |-> 4, RELATIVE_NRPN |-> 5, PER_NOTE_PITCH_BEND |-> 6,
           NOTE_OFF |-> 8, NOTE_ON |-> 9, PAF |-> 10, CC |-> 11, PROGRAM |-> 12,
           CAF |-> 13, PITCH_BEND |-> 14, PER_NOTE_MANAGEMENT |-> 15]

RESERVED == 0
JR_CLOCK == 1
JR_TIMESTAMP == 2

ump_get_num_bytes(type) ==
  CASE type \in {0, 1, 2} -> 4
    [] type \in {3, 4} -> 8
    [] type = 5 -> 16
    [] OTHER -> 255

Header(type, f, code) == <<type * 16 + (f.group % 16), code * 16 + (f.channel % 16)>>
-----------------------------------------------------------------------------
(* Constructors: f has the arguments of the function called `kind`.        *)

UtilityMessage(kind, f) ==
  LET code == IF kind = "jr_clock" THEN JR_CLOCK ELSE JR_TIMESTAMP
  IN  <<f.group % 16, code * 16>> \o f.time

system_message(f) ==
  <<MessageType.SYSTEM * 16 + (f.group % 16), f.status, f.byte2 % 128, f.byte3 % 128>>

HalfBend == 8192

midi1_message(f, code, byte3, byte4) ==
  Header(MessageType.MIDI_1_CHANNEL, f, code) \o <<byte3 % 128, byte4 % 128>>

Midi1Message(kind, f) ==
  CASE kind = "note_off" -> midi1_message(f, Status.NOTE_OFF, f.note, f.velocity)
    [] kind = "note_on" -> midi1_message(f, Status.NOTE_ON, f.note, f.velocity)
    [] kind = "paf" -> midi1_message(f, Status.PAF, f.note, f.data)
    [] kind = "cc" -> midi1_message(f, Status.CC, f.index, f.data)
    [] kind = "program" -> midi1_message(f, Status.PROGRAM, f.program, RESERVED)
    [] kind = "caf" -> midi1_message(f, Status.CAF, f.data, RESERVED)
    [] kind = "pitch_bend_direct" -> midi1_message(f, Status.PITCH_BEND, f.bend, f.bend \div 128)
    [] kind = "pitch_bend_split" -> midi1_message(f, Status.PITCH_BEND, f.lsb, f.msb)
    [] kind = "pitch_bend" ->
         midi1_message(f, Status.PITCH_BEND, f.bend + HalfBend, (f.bend + HalfBend) \div 128)

FirstWord(f, code, byte3, byte4) ==
  Header(MessageType.MIDI_2_CHANNEL, f, code) \o <<byte3, byte4>>

(* Plausible bug: the shorts in the order of the attribute and the velocity. *)
ShortsSwapped(f, code, byte3, byte4, short1, short2) ==
  FirstWord(f, code, byte3, byte4) \o short2 \o short1

midi2_8_8_16_16(f, code, byte3, byte4, short1, short2) ==
  FirstWord(f, code, byte3, byte4) \o short1 \o short2

midi2_8_8_32(f, code, byte3, byte4, rest) ==
  FirstWord(f, code, byte3, byte4) \o rest

(* A signed pitch bend is made unsigned by adding 0x80000000.              *)
Unsigned(data) == [data EXCEPT ![1] = (@ + 128) % 256]

Midi2Message(kind, f) ==
  LET number(code) == midi2_8_8_32(f, code, f.msb % 128, f.lsb % 128, f.data)
  IN  CASE kind \in {"note_off", "note_on"} ->
             midi2_8_8_16_16(f, IF kind = "note_on" THEN Status.NOTE_ON ELSE Status.NOTE_OFF,
                             f.note % 128, f.attribute_type, f.velocity, f.attribute_data)
        [] kind = "paf" -> midi2_8_8_32(f, Status.PAF, f.note % 128, RESERVED, f.data)
        [] kind = "per_note_rcc" ->
             midi2_8_8_32(f, Status.PER_NOTE_RCC, f.note % 128, f.controller, f.data)
        [] kind = "per_note_acc" ->
             midi2_8_8_32(f, Status.PER_NOTE_ACC, f.note % 128, f.controller, f.data)
        [] kind = "per_note_management" ->
             midi2_8_8_32(f, Status.PER_NOTE_MANAGEMENT, f.note % 128, f.options % 4, <<0, 0, 0, 0>>)
        [] kind = "cc" -> midi2_8_8_32(f, Status.CC, f.index % 128, RESERVED, f.data)
        [] kind = "rpn" -> number(Status.RPN)
        [] kind = "nrpn" -> number(Status.NRPN)
        [] kind = "relative_rpn" -> number(Status.RELATIVE_RPN)
        [] kind = "relative_nrpn" -> number(Status.RELATIVE_NRPN)
        [] kind = "program" ->
             midi2_8_8_32(f, Status.PROGRAM, RESERVED, f.program_options % 2,
                          <<f.program % 128, 0, f.bank_msb, f.bank_lsb>>)
        [] kind = "caf" -> midi2_8_8_32(f, Status.CAF, RESERVED, RESERVED, f.data)
        [] kind = "pitch_bend_direct" ->
             midi2_8_8_32(f, Status.PITCH_BEND, RESERVED, RESERVED, f.data)
        [] kind = "pitch_bend" ->
             midi2_8_8_32(f, Status.PITCH_BEND, RESERVED, RESERVED, Unsigned(f.data))
        [] kind = "per_note_pitch_bend_direct" ->
             midi2_8_8_32(f, Status.PER_NOTE_PITCH_BEND, f.note % 128, RESERVED, f.data)
        [] kind = "per_note_pitch_bend" ->
             midi2_8_8_32(f, Status.PER_NOTE_PITCH_BEND, f.note % 128, RESERVED, Unsigned(f.data))
-----------------------------------------------------------------------------
(* Getters: the arguments they give back and the offsets they read.        *)

get_message_type(ump) == ump[1] \div 16
get_group(ump) == ump[1] % 16
get_status_code(ump) == ump[2] \div 16
get_channel(ump) == ump[2] % 16

PACKET(ump, index) == ump[index + 1]

Short1 == <<4, 5>>
Short2 == <<6, 7>>
get_32_to_64 == <<4, 5, 6, 7>>

UtilityGetters == [time |-> <<2, 3>>]

SystemGetters == [status |-> <<1>>, byte2 |-> <<2>>, byte3 |-> <<3>>]

Midi1Getters(kind) ==
  CASE kind \in {"note_off", "note_on"} -> [note |-> <<2>>, velocity |-> <<3>>]
    [] kind = "paf" -> [note |-> <<2>>, data |-> <<3>>]
    [] kind = "cc" -> [index |-> <<2>>, data |-> <<3>>]
    [] kind = "program" -> [program |-> <<2>>]
    [] kind = "caf" -> [data |-> <<2>>]

get_midi1_pitch_bend_data(ump) == PACKET(ump, 2) + PACKET(ump, 3) * 128

Midi2Getters(kind) ==
  CASE kind \in {"note_off", "note_on"} ->
         [note |-> <<2>>, attribute_type |-> <<3>>, velocity |-> Short1, attribute_data |-> Short2]
    [] kind \in {"per_note_rcc", "per_note_acc"} ->
         [note |-> <<2>>, controller |-> <<3>>, data |-> get_32_to_64]
    [] kind \in {"rpn", "nrpn", "relative_rpn", "relative_nrpn"} ->
         [msb |-> <<2>>, lsb |-> <<3>>, data |-> get_32_to_64]
    [] kind \in {"paf", "per_note_pitch_bend_direct", "per_note_pitch_bend"} ->
         [note |-> <<2>>, data |-> get_32_to_64]
    [] kind = "per_note_management" -> [note |-> <<2>>, options |-> <<3>>]
    [] kind = "cc" -> [index |-> <<2>>, data |-> get_32_to_64]
    [] kind = "program" ->
         [program_options |-> <<3>>, program |-> <<4>>, bank_msb |-> <<6>>, bank_lsb |-> <<7>>]
    [] kind \in {"caf", "pitch_bend_direct", "pitch_bend"} -> [data |-> get_32_to_64]

(* The argument a getter returns: a byte, or several.                      *)
Get(ump, offsets) ==
  IF Len(offsets) = 1 THEN PACKET(ump, offsets[1])
  ELSE [i \in DOMAIN offsets |-> PACKET(ump, offsets[i])]

-----------------------------------------------------------------------------
(* The messages there are: each constructor with each argument.            *)

Midi1Kinds == {"note_off", "note_on", "paf", "cc", "program", "caf"}
Midi1Bends == {"pitch_bend_direct", "pitch_bend_split", "pitch_bend"}
Midi2Bends == {"pitch_bend", "per_note_pitch_bend"}
Midi2Kinds ==
  {"note_off", "note_on", "per_note_rcc", "per_note_acc", "rpn", "nrpn", "relative_rpn",
   "relative_nrpn", "paf", "per_note_management", "cc", "program", "caf",
   "pitch_bend_direct", "per_note_pitch_bend_direct"}

OfType(type, kinds, arguments) == [type : {type}, kind : kinds, f : arguments]

Messages ==
  OfType(MessageType.UTILITY, {"jr_clock", "jr_timestamp"}, Arguments1)
  \cup OfType(MessageType.SYSTEM, {"system"}, Arguments1)
  \cup OfType(MessageType.MIDI_1_CHANNEL, Midi1Kinds \cup Midi1Bends, Arguments1)
  \cup OfType(MessageType.MIDI_2_CHANNEL, Midi2Kinds \cup Midi2Bends, Arguments2)

(* Signed pitch bends are given as the number they are read as, less half  *)
(* of the range.                                                           *)
SignedBend(f) == [f EXCEPT !.bend = @ - HalfBend]
SignedData(f) == [f EXCEPT !.data = Unsigned(@)]

UmpOf(m) ==
  CASE m.type = MessageType.UTILITY -> UtilityMessage(m.kind, m.f)
    [] m.type = MessageType.SYSTEM -> system_message(m.f)
    [] m.type = MessageType.MIDI_1_CHANNEL ->
         Midi1Message(m.kind, IF m.kind = "pitch_bend" THEN SignedBend(m.f) ELSE m.f)
    [] m.type = MessageType.MIDI_2_CHANNEL ->
         Midi2Message(m.kind, IF m.kind \in Midi2Bends THEN SignedData(m.f) ELSE m.f)

(* Every getter there is for the message returns the argument.             *)
Returns(ump, getters, f) == \A field \in DOMAIN getters : Get(ump, getters[field]) = f[field]

GetsArguments(ump, m) ==
  CASE m.type = MessageType.UTILITY -> Returns(ump, UtilityGetters, m.f)
    [] m.type = MessageType.SYSTEM -> Returns(ump, SystemGetters, m.f)
    [] m.type = MessageType.MIDI_1_CHANNEL ->
         IF m.kind \in Midi1Bends
         THEN get_midi1_pitch_bend_data(ump) =
                IF m.kind = "pitch_bend_split" THEN m.f.lsb + m.f.msb * 128 ELSE m.f.bend
         ELSE Returns(ump, Midi1Getters(m.kind), m.f)
    [] m.type = MessageType.MIDI_2_CHANNEL -> Returns(ump, Midi2Getters(m.kind), m.f)

(* The status that a reader expects of the message a constructor is for.   *)
ChannelStatus(kind) ==
  CASE kind = "note_off" -> Status.NOTE_OFF
    [] kind = "note_on" -> Status.NOTE_ON
    [] kind = "paf" -> Status.PAF
    [] kind = "cc" -> Status.CC
    [] kind = "program" -> Status.PROGRAM
    [] kind = "caf" -> Status.CAF
    [] kind \in {"pitch_bend_direct", "pitch_bend_split", "pitch_bend"} -> Status.PITCH_BEND
    [] kind = "per_note_rcc" -> Status.PER_NOTE_RCC
    [] kind = "per_note_acc" -> Status.PER_NOTE_ACC
    [] kind = "per_note_management" -> Status.PER_NOTE_MANAGEMENT
    [] kind \in {"per_note_pitch_bend_direct", "per_note_pitch_bend"} -> Status.PER_NOTE_PITCH_BEND
    [] kind = "rpn" -> Status.RPN
    [] kind = "nrpn" -> Status.NRPN
    [] kind = "relative_rpn" -> Status.RELATIVE_RPN
    [] kind = "relative_nrpn" -> Status.RELATIVE_NRPN

GetsStatus(ump, m) ==
  CASE m.type = MessageType.UTILITY ->
         get_status_code(ump) = IF m.kind = "jr_clock" THEN JR_CLOCK ELSE JR_TIMESTAMP
    [] m.type = MessageType.SYSTEM -> get_status_code(ump) = m.f.status \div 16
    [] m.type \in {MessageType.MIDI_1_CHANNEL, MessageType.MIDI_2_CHANNEL} ->
         get_status_code(ump) = ChannelStatus(m.kind) /\ get_channel(ump) = m.f.channel

(* The reader of a packet gets the type, the group, the length, the status *)
(* with the channel, and every argument of the constructor.                *)
ReadsBack(ump, m) ==
  /\ get_message_type(ump) = m.type /\ get_group(ump) = m.f.group
  /\ Len(ump) = ump_get_num_bytes(m.type)
  /\ GetsStatus(ump, m) /\ GetsArguments(ump, m)
=============================================================================
