--------------------------- MODULE MidiEventTime ----------------------------
(***************************************************************************)
(* When a MIDI message is to sound and how that is written down: onSend,   *)
(* processMidiInput, getTicksFromNanoseconds and set7BitEncodedLength,     *)
(* beside the callback of AudioPipeline that records the time of its last  *)
(* process() call for them.                                                *)
(*                                                                         *)
(* The two threads share last_aap_process_time, which the callback stores  *)
(* in two parts.  Times are nanoseconds; a second has Second of them.      *)
(* What the slot does to a message is the subject of MidiInputBuffer.      *)
(***************************************************************************)
EXTENDS AudioPipeline, Sequences

CONSTANTS SampleRate,   \* sample_rate
          Second,       \* 1000000000, fewer for TLC
          Timestamps,   \* timestamps of the senders; 0 means "now"
          Counts,       \* lengths of their messages
          Start,        \* time at which the service starts
          Instants,     \* bound on the clock: the times it shows afterwards
          LongMax       \* the largest long: 2147483647 where it has 32 bits

SizeofFloat == 4
JniBuffer == 1024     \* sizeof jni_midi_buffer
IntMax == 2147483647
IntMin == -IntMax - 1

Cycle == (FrameSize * Second) \div SampleRate     \* nanosecondsPerCycle
TicksPerSec == 192 \div (120 \div 60)

ASSUME TimeAssumption ==
  /\ Second \in Nat \ {0} /\ SampleRate \in Nat \ {0} /\ Cycle > 0
  /\ Timestamps \subseteq Nat /\ Counts \subseteq Nat
  /\ Start \in Nat /\ Second <= Start /\ Instants \subseteq Nat
  /\ LongMax \in Nat
(* A negative time, taken for a uint64_t, is more ticks than an int holds. *)
ASSUME SecondAssumption == Second <= 1000000000
(* The service configures 512 frames, at whatever rate the device has; the *)
(* port buffer must take the largest header and a message of that length.  *)
ASSUME FrameSizeAssumption == FrameSize \in 11 .. JniBuffer
(* A cycle is shorter than 80 ticks: 512 frames last one tick.             *)
ASSUME CycleAssumption == TicksPerSec * Cycle < 80 * Second

VARIABLES
  clock,               \* CLOCK_REALTIME
  last,                \* last_aap_process_time
  stamp, unstored,     \* the time being stored in it, the parts left to store
  midi_protocol,
  mpc, event,          \* the MIDI thread: position, its last message
  clean                \* history: no recording overlaps the message

timeVars == <<last, stamp, unstored>>
midiVars == <<midi_protocol, mpc, event, clean>>
eventVars == <<vars, clock, timeVars, midiVars>>

NoEvent == [count |-> 0, ts |-> 0, now |-> 0, length |-> 0, body |-> 0,
            delta |-> <<>>, ticks |-> 0, elapsed |-> -1]

EventInit ==
  /\ Init
  /\ clock = Start
  /\ last = [sec |-> 0, nsec |-> 0] /\ stamp = 0 /\ unstored = {}
  /\ midi_protocol \in {1, 2}
  /\ mpc = "idle" /\ event = NoEvent /\ clean = FALSE
-----------------------------------------------------------------------------
(* Conversions.                                                            *)

(* C division, which truncates, and its remainder.                         *)
Quot(a, b) == IF a < 0 /\ a % b # 0 THEN a \div b + 1 ELSE a \div b
Rem(a, b) == a - b * Quot(a, b)

(* The possible results: an int cast from a double that does not fit is    *)
(* undefined, and the processors give one end of the range or the other.   *)
getTicksFromNanoseconds(value) ==
  IF value >= 0 /\ (TicksPerSec * value) \div Second <= IntMax
  THEN {(TicksPerSec * value) \div Second} ELSE {IntMin, IntMax}

(* In round i of the loop value is Quot(value, Shift[i]).                  *)
Shift == <<1, 128, 16384, 2097152, 268435456>>

EncodedLength(value) ==
  CHOOSE n \in 1 .. 5 :
    /\ n = 5 \/ Quot(value, Shift[n + 1]) = 0
    /\ \A i \in 1 .. n - 1 : Quot(value, Shift[i + 1]) # 0

(* buffer[pos] = value % 80; value /= 0x80; if (value > 0) buffer[pos] &= 0x80 *)
EncodedByte(value) ==
  LET b == Rem(value, 80) % 256
  IN  IF Quot(value, 128) > 0 THEN b - (b % 128) ELSE b

set7BitEncodedLength(value) ==
  [i \in 1 .. EncodedLength(value) |-> EncodedByte(Quot(value, Shift[i]))]

(* The format a plugin reads: 7 bits in a byte, the least significant      *)
(* first, the top bit set in all but the last byte.                        *)
Encodes(bytes, value) ==
  \E n \in DOMAIN bytes :
    /\ bytes[n] < 128 /\ \A i \in 1 .. n - 1 : bytes[i] >= 128
    /\ value < 128 * Shift[n]
    /\ \A i \in 1 .. n : bytes[i] % 128 = (value \div Shift[i]) % 128

(* The difference of two timespecs is computed in longs.  What overflows   *)
(* them is undefined: it is wrapped, or not where registers are wider.     *)
Wrapped(d) == ((d + LongMax + 1) % (2 * (LongMax + 1))) - (LongMax + 1)
Differences(d) == {d, Wrapped(d)}

(* Plausible bug: the time since the last process() not taken modulo the   *)
(* cycle.                                                                  *)
UnboundedTime(ts) ==
  IF last.sec > 0
  THEN {ts + diff : diff \in Differences(event.now - (last.sec * Second + last.nsec))}
  ELSE {ts}

(* The times of the event in its cycle: the sender's time and the time     *)
(* since the last process() added up, if there has been one.               *)
ActualTime(ts) ==
  IF last.sec > 0
  THEN {Rem(ts + diff, Cycle) :
          diff \in Differences(event.now - (last.sec * Second + last.nsec))}
  ELSE {ts}

(* Where the parts of a message are in the port buffer: the length that is *)
(* stored at 0 or 4, the delta time at 8, the message at `body`.           *)
Layout(count, delta) ==
  IF midi_protocol = 2
  THEN [length |-> count, body |-> 32]
  ELSE [length |-> count + Len(delta), body |-> 8 + Len(delta)]
-----------------------------------------------------------------------------
(* Plausible bug: onSend passes everything on.                             *)
SendWhole(count) == count
-----------------------------------------------------------------------------
Tick ==
  /\ clock' \in {t \in Instants : t > clock}
  /\ UNCHANGED <<vars, timeVars, midiVars>>

(* The callback: process() returns and clock_gettime() takes the time.     *)
ProcessAndTakeTime ==
  /\ CallPluginProcess
  /\ stamp' = clock /\ unstored' = {"sec", "nsec"}
  /\ clean' = (clean /\ mpc = "idle")
  /\ UNCHANGED <<clock, last, midi_protocol, mpc, event>>

(* Its two stores into last_aap_process_time.                              *)
StoreTime ==
  /\ \E part \in unstored :
       /\ last' = [last EXCEPT ![part] = IF part = "sec" THEN stamp \div Second
                                         ELSE stamp % Second]
       /\ unstored' = unstored \ {part}
  /\ clean' = (clean /\ mpc = "idle")
  /\ UNCHANGED <<vars, clock, stamp, midi_protocol, mpc, event>>

FillAfterStores ==
  /\ unstored = {} /\ FillAudioOutput
  /\ UNCHANGED <<clock, timeVars, midiVars>>

CallbackStep ==
  /\ Activated \/ Deactivated \/ (\E n \in Requests : OnAudioReady(n)) \/ ReadRing
  /\ UNCHANGED <<clock, timeVars, midiVars>>

(* "We skip too lengthy MIDI buffer, dropped at frame size."               *)
ActualSize(count) == IF count > FrameSize THEN FrameSize ELSE count

(* The MIDI thread: onSend, then processMidiInput takes the time.          *)
OnSend(count, ts) ==
  /\ mpc = "idle"
  /\ mpc' = "taken" /\ clean' = (unstored = {})
  /\ event' = [NoEvent EXCEPT !.count = ActualSize(count), !.ts = ts, !.now = clock]
  /\ UNCHANGED <<vars, clock, timeVars, midi_protocol>>

(* It looks at last_aap_process_time and stores the message.               *)
StoreMessage ==
  /\ mpc = "taken" /\ mpc' = "idle"
  /\ \E ticks \in IF midi_protocol = 2 THEN {0}
                  ELSE UNION {getTicksFromNanoseconds(time) : time \in ActualTime(event.ts)} :
       LET delta == IF midi_protocol = 2 THEN <<>> ELSE set7BitEncodedLength(ticks)
           place == Layout(event.count, delta)
       IN  event' = [event EXCEPT
                       !.length = place.length, !.body = place.body,
                       !.delta = delta, !.ticks = ticks,
                       !.elapsed = IF last.sec > 0 THEN event.now - stamp ELSE -1]
  /\ UNCHANGED <<vars, clock, timeVars, midi_protocol, clean>>

EventNext ==
  \/ Tick
  \/ CallbackStep \/ ProcessAndTakeTime \/ StoreTime \/ FillAfterStores
  \/ \E count \in Counts, ts \in Timestamps : OnSend(count, ts)
  \/ StoreMessage

EventSpec == EventInit /\ [][EventNext]_eventVars
-----------------------------------------------------------------------------
(* "We ... have to accurately pass delta time for each input events"       *)
(* (AAPMidiProcessor.cpp:355): unless the callback records the time of a   *)
(* process() while the message is being timed, and if the last one was not *)
(* longer ago than a long can say (2.1 s where it has 32 bits), the delta  *)
(* time is within a cycle, the bytes in the buffer decode to it and, for a *)
(* message that is to sound now, it is the time since the last process().  *)
DeltaTimeAccurate ==
  mpc = "idle" /\ midi_protocol = 1 /\ clean /\ event.elapsed \in 0 .. LongMax =>
    /\ event.ticks * Second <= TicksPerSec * Cycle
    /\ Encodes(event.delta, event.ticks)
    /\ event.ts = 0 /\ event.elapsed < Cycle =>
         event.ticks = (TicksPerSec * event.elapsed) \div Second

(* Whatever the clocks and the length of the message: it stays inside the  *)
(* JNI buffer and the port buffer, and the length that was stored leads a  *)
(* reader from the end of the header to the end of the message.            *)
MessageFits ==
  mpc = "idle" /\ event.now > 0 =>
    /\ event.count <= JniBuffer
    /\ event.body + event.count <= FrameSize * SizeofFloat
    /\ event.body + event.count = event.length + (IF midi_protocol = 2 THEN 32 ELSE 8)
=============================================================================
