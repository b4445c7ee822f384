------------------------ MODULE MidiEventTimeProofs -------------------------
(***************************************************************************)
(* What holds of the timing of messages at every rate, frame size and      *)
(* timestamp: a message stays inside its buffer, its delta time is right   *)
(* while no process() is recorded beside it, and a delta time of 128 ticks *)
(* or more would not survive its encoding.                                 *)
(***************************************************************************)
EXTENDS MidiEventTime, AudioPipelineProofs
-----------------------------------------------------------------------------
(* Arithmetic.                                                             *)

LEMMA DivisionTypes ==
  ASSUME NEW a \in Int, NEW b \in Nat \ {0}
  PROVE  a \div b \in Int /\ a % b \in 0 .. b - 1
BY SMT

LEMMA DivisionRestores ==
  ASSUME NEW a \in Int, NEW b \in Nat \ {0}
  PROVE  a = b * (a \div b) + (a % b)
BY SMT

LEMMA ProductOfNats ==
  ASSUME NEW s \in Nat, NEW d \in Nat
  PROVE  s * d \in Nat
BY SMT

(* A quotient is not negative, and a number below s * bound has one below  *)
(* bound.                                                                  *)
LEMMA QuotientRange ==
  ASSUME NEW y \in Nat, NEW s \in Nat \ {0}, NEW bound \in Nat
  PROVE  /\ y \div s \in Nat
         /\ y < bound * s => y \div s < bound
<1> DEFINE q == y \div s
           r == y % s
<1>1. q \in Int /\ r \in 0 .. s - 1 /\ y = s * q + r
  BY DivisionTypes, DivisionRestores
<1> HIDE DEF q, r
<1>2. q >= 0
  <2> SUFFICES ASSUME q <= -1 PROVE FALSE
    BY <1>1
  <2>1. s * (-1 - q) \in Nat
    BY <1>1, ProductOfNats
  <2>2. s * (-1 - q) = -s - s * q
    BY <1>1, SMT
  <2> QED
    BY <1>1, <2>1, <2>2
<1>3. ASSUME y < bound * s, q >= bound PROVE FALSE
  <2>1. s * (q - bound) \in Nat
    BY <1>1, <1>3, ProductOfNats
  <2>2. s * (q - bound) = s * q - bound * s
    BY <1>1, SMT
  <2> QED
    BY <1>1, <1>3, <2>1, <2>2
<1> QED
  BY <1>1, <1>2, <1>3 DEF q

LEMMA QuotOfNat ==
  ASSUME NEW a \in Nat, NEW b \in Nat \ {0}
  PROVE  Quot(a, b) = a \div b /\ Rem(a, b) = a % b
<1>1. Quot(a, b) = a \div b
  BY SMT DEF Quot
<1>2. Rem(a, b) = a - b * (a \div b)
  BY <1>1 DEF Rem
<1> QED
  BY <1>1, <1>2, DivisionTypes, DivisionRestores

(* A difference that a long can say is what it is; one up to twice as long *)
(* wraps to a negative one.                                                *)
LEMMA DifferencesAgree ==
  ASSUME NEW d \in 0 .. LongMax
  PROVE  Differences(d) = {d}
<1>1. (d + LongMax + 1) % (2 * (LongMax + 1)) = d + LongMax + 1
  BY TimeAssumption, SMT
<1> QED
  BY <1>1, TimeAssumption DEF Differences, Wrapped

LEMMA DifferencesWrap ==
  ASSUME NEW d \in LongMax + 1 .. 2 * LongMax + 1
  PROVE  Wrapped(d) \in -(LongMax + 1) .. -1
<1> DEFINE w == 2 * (LongMax + 1)
<1>1. (d + LongMax + 1) % w = d + LongMax + 1 - w
  <2>1. w \in Nat \ {0} /\ d + LongMax + 1 - w \in 0 .. w - 1
    BY TimeAssumption
  <2>2. \A r \in 0 .. w - 1 : (r + w) % w = r
    BY <2>1, SMT
  <2> QED
    BY <2>1, <2>2, TimeAssumption
<1> QED
  BY <1>1, TimeAssumption DEF Wrapped

(* The loop of set7BitEncodedLength runs once to five times.               *)
LEMMA EncodedLengthRange ==
  ASSUME NEW value
  PROVE  EncodedLength(value) \in 1 .. 5
<1> DEFINE S == {i \in 1 .. 4 : Quot(value, Shift[i + 1]) = 0}
<1>1. \E n \in 1 .. 5 : (n = 5 \/ n \in S) /\ \A i \in 1 .. n - 1 : i \notin S
  <2> HIDE DEF S
  <2> QED  OBVIOUS
<1>2. PICK n \in 1 .. 5 : (n = 5 \/ n \in S) /\ \A i \in 1 .. n - 1 : i \notin S
  BY <1>1
<1>3. /\ n = 5 \/ Quot(value, Shift[n + 1]) = 0
      /\ \A i \in 1 .. n - 1 : Quot(value, Shift[i + 1]) # 0
  BY <1>2
<1> QED
  BY <1>3 DEF EncodedLength

LEMMA EncodedIsSequence ==
  ASSUME NEW value
  PROVE  Len(set7BitEncodedLength(value)) \in 1 .. 5
BY EncodedLengthRange DEF set7BitEncodedLength

(* Up to 79 ticks the encoding is the one byte it should be.               *)
LEMMA ShortDeltaTimes ==
  ASSUME NEW value \in 0 .. 79
  PROVE  Encodes(set7BitEncodedLength(value), value)
<1>1. Shift[1] = 1 /\ Shift[1 + 1] = 128
  BY SMT DEF Shift
<1>2. Quot(value, 128) = 0 /\ Quot(value, 1) = value /\ Rem(value, 80) = value
  BY DEF Quot, Rem
<1>3. EncodedLength(value) = 1
  <2>1. PICK n \in 1 .. 5 : n = EncodedLength(value)
    BY EncodedLengthRange
  <2>2. \E k \in 1 .. 5 : /\ k = 5 \/ Quot(value, Shift[k + 1]) = 0
                          /\ \A i \in 1 .. k - 1 : Quot(value, Shift[i + 1]) # 0
    BY <1>1, <1>2
  <2>3. \A i \in 1 .. n - 1 : Quot(value, Shift[i + 1]) # 0
    BY <2>1, <2>2 DEF EncodedLength
  <2> QED
    BY <1>1, <1>2, <2>1, <2>3
<1>4. EncodedByte(value) = value
  BY <1>2 DEF EncodedByte
<1>5. set7BitEncodedLength(value) = [i \in 1 .. 1 |-> EncodedByte(Quot(value, Shift[i]))]
  BY <1>3 DEF set7BitEncodedLength
<1>6. /\ DOMAIN set7BitEncodedLength(value) = 1 .. 1
      /\ set7BitEncodedLength(value)[1] = value
  BY <1>1, <1>2, <1>4, <1>5
<1> QED
  BY <1>1, <1>6 DEF Encodes

(* set7BitEncodedLength clears the bit it should set in a byte that others *)
(* follow: no delta time of 128 ticks or more can be read back.            *)
THEOREM LongDeltaTimesAreLost ==
  ASSUME NEW value \in Nat, value >= 128
  PROVE  ~Encodes(set7BitEncodedLength(value), value)
<1> DEFINE bytes == set7BitEncodedLength(value)
<1>1. Shift[1] = 1 /\ Quot(value, 1) = value /\ Quot(value, 128) > 0
  BY SMT DEF Shift, Quot
<1>2. Rem(value, 80) \in 0 .. 79
  BY SMT DEF Rem, Quot
<1>3. EncodedByte(value) = 0
  BY <1>1, <1>2 DEF EncodedByte
<1>4. 1 \in DOMAIN bytes /\ bytes[1] = 0
  BY <1>1, <1>3, EncodedLengthRange DEF set7BitEncodedLength
<1>5. DOMAIN bytes \subseteq Nat \ {0}
  BY EncodedLengthRange DEF set7BitEncodedLength
<1> SUFFICES ASSUME NEW n \in DOMAIN bytes, bytes[n] < 128, value < 128 * Shift[n],
                    \A i \in 1 .. n - 1 : bytes[i] >= 128
             PROVE  FALSE
  BY DEF Encodes
<1>6. CASE n = 1
  BY <1>1, <1>6
<1>7. CASE n > 1
  BY <1>4, <1>5, <1>7
<1> QED
  BY <1>5, <1>6, <1>7
-----------------------------------------------------------------------------
(* The callback is the one of AudioPipeline: recording the time and the    *)
(* messages change nothing of it.                                          *)

LEMMA EventStepRefines == [EventNext]_eventVars => [Next]_vars
BY DEF EventNext, CallbackStep, ProcessAndTakeTime, StoreTime, FillAfterStores, Tick,
       OnSend, StoreMessage, Next, eventVars, vars

THEOREM EventSpecImplementsPipeline == EventSpec => Spec
<1>1. EventInit => Init
  BY DEF EventInit
<1> QED
  BY <1>1, EventStepRefines, PTL DEF EventSpec, Spec
-----------------------------------------------------------------------------
(* A message fits: its length was cut to a frame when it was taken, and    *)
(* the header in front of it is at most 32 bytes, or 8 and the delta time. *)
Taken ==
  /\ DOMAIN event = {"count", "ts", "now", "length", "body", "delta", "ticks", "elapsed"}
  /\ clock \in Nat /\ midi_protocol \in {1, 2} /\ mpc \in {"idle", "taken"}
  /\ event.now \in Nat /\ event.ts \in Nat
  /\ mpc = "taken" => event.count \in 0 .. FrameSize

FitsInv == Taken /\ MessageFits

LEMMA FitsInit == EventInit => FitsInv
BY TimeAssumption DEF EventInit, FitsInv, Taken, MessageFits, NoEvent

LEMMA TakenStep ==
  ASSUME Taken, [EventNext]_eventVars
  PROVE  Taken'
<1>1. CASE UNCHANGED <<midi_protocol, mpc, event>> /\ clock' \in Nat
  BY <1>1 DEF Taken
<1>2. ASSUME NEW count \in Counts, NEW ts \in Timestamps, OnSend(count, ts)
      PROVE  Taken'
  BY <1>2, TimeAssumption, FrameSizeAssumption DEF Taken, OnSend, ActualSize, NoEvent
<1>3. CASE StoreMessage
  BY <1>3 DEF Taken, StoreMessage
<1> QED
  BY <1>1, <1>2, <1>3, TimeAssumption
  DEF Taken, EventNext, CallbackStep, ProcessAndTakeTime, StoreTime, FillAfterStores, Tick,
      eventVars, midiVars, timeVars

LEMMA FitsStep ==
  ASSUME FitsInv, [EventNext]_eventVars
  PROVE  FitsInv'
<1>1. CASE UNCHANGED <<midi_protocol, mpc, event>>
  BY <1>1, TakenStep DEF FitsInv, MessageFits
<1>2. ASSUME NEW count \in Counts, NEW ts \in Timestamps, OnSend(count, ts)
      PROVE  FitsInv'
  BY <1>2, TakenStep DEF FitsInv, MessageFits, OnSend
<1>3. CASE StoreMessage
  <2>1. PICK ticks :
          LET delta == IF midi_protocol = 2 THEN <<>> ELSE set7BitEncodedLength(ticks)
              place == Layout(event.count, delta)
          IN  event' = [event EXCEPT
                          !.length = place.length, !.body = place.body,
                          !.delta = delta, !.ticks = ticks,
                          !.elapsed = IF last.sec > 0 THEN event.now - stamp ELSE -1]
    BY <1>3 DEF StoreMessage
  <2>2. mpc = "taken" /\ UNCHANGED midi_protocol /\ event.count \in 0 .. FrameSize
    BY <1>3 DEF StoreMessage, FitsInv, Taken
  <2>3. PICK n \in 1 .. 5 : n = Len(set7BitEncodedLength(ticks))
    BY EncodedIsSequence
  <2>4. /\ event'.count = event.count
        /\ IF midi_protocol = 2
           THEN event'.length = event.count /\ event'.body = 32
           ELSE event'.length = event.count + n /\ event'.body = 8 + n
    BY <2>1, <2>2, <2>3 DEF FitsInv, Taken, Layout
  <2>5. MessageFits'
    BY <2>2, <2>4, FrameSizeAssumption DEF MessageFits, JniBuffer, SizeofFloat
  <2> QED
    BY <2>5, TakenStep DEF FitsInv
<1> QED
  BY <1>1, <1>2, <1>3
  DEF EventNext, CallbackStep, ProcessAndTakeTime, StoreTime, FillAfterStores, Tick,
      eventVars, midiVars, timeVars

(* Whatever is sent at whatever time, the MIDI thread writes inside the    *)
(* JNI buffer and the port buffer, and the length leads to the end.        *)
THEOREM EveryMessageFits == EventSpec => []MessageFits
<1>1. FitsInv /\ [EventNext]_eventVars => FitsInv'
  BY FitsStep
<1>2. FitsInv => MessageFits
  BY DEF FitsInv
<1> QED
  BY <1>1, <1>2, FitsInit, PTL DEF EventSpec
-----------------------------------------------------------------------------
(* The delta time is right: once its two stores are done the recorded time *)
(* is the one that was taken, and while a clean message is timed they are. *)
Recorded ==
  /\ DOMAIN last = {"sec", "nsec"} /\ last.sec \in Nat /\ last.nsec \in Nat
  /\ stamp \in 0 .. clock /\ unstored \subseteq {"sec", "nsec"}
  /\ "sec" \notin unstored => last.sec = stamp \div Second
  /\ "nsec" \notin unstored => last.nsec = stamp % Second

TimedClean == mpc = "taken" /\ clean => unstored = {} /\ stamp <= event.now

TimeInv == Taken /\ Recorded /\ TimedClean /\ DeltaTimeAccurate

LEMMA TimeInit == EventInit => TimeInv
<1> SUFFICES ASSUME EventInit PROVE TimeInv
  OBVIOUS
<1>1. 0 \div Second = 0 /\ 0 % Second = 0
  BY TimeAssumption, SMT
<1>2. Recorded
  BY <1>1, TimeAssumption DEF EventInit, Recorded
<1>3. ~clean
  BY Zenon DEF EventInit
<1> QED
  BY <1>2, <1>3, FitsInit DEF TimeInv, FitsInv, TimedClean, DeltaTimeAccurate

LEMMA RecordedStep ==
  ASSUME Taken, Recorded, [EventNext]_eventVars
  PROVE  Recorded'
<1>1. CASE UNCHANGED timeVars /\ clock' \in Nat /\ clock' >= clock
  <2>1. last' = last /\ stamp' = stamp /\ unstored' = unstored
    BY <1>1 DEF timeVars
  <2>2. stamp' \in 0 .. clock'
    BY <1>1, <2>1 DEF Taken, Recorded
  <2> QED
    BY <2>1, <2>2 DEF Recorded
<1>2. CASE ProcessAndTakeTime
  BY <1>2 DEF Taken, Recorded, ProcessAndTakeTime
<1>3. CASE StoreTime
  <2>1. PICK part \in unstored :
          /\ last' = [last EXCEPT ![part] = IF part = "sec" THEN stamp \div Second
                                            ELSE stamp % Second]
          /\ unstored' = unstored \ {part}
    BY <1>3 DEF StoreTime
  <2>2. stamp \div Second \in Nat /\ stamp % Second \in Nat
    <3>1. stamp \in Nat /\ Second \in Nat \ {0}
      BY TimeAssumption DEF Recorded
    <3> QED
      BY <3>1, QuotientRange, DivisionTypes
  <2>3. UNCHANGED <<stamp, clock>>
    BY <1>3 DEF StoreTime
  <2>4. CASE part = "sec"
    BY <2>1, <2>2, <2>3, <2>4 DEF Recorded
  <2>5. CASE part = "nsec"
    BY <2>1, <2>2, <2>3, <2>5 DEF Recorded
  <2> QED
    BY <2>4, <2>5 DEF Recorded
<1>4. CASE Tick
  BY <1>1, <1>4, TimeAssumption DEF Taken, Tick
<1>5. CASE CallbackStep \/ FillAfterStores \/ StoreMessage \/ UNCHANGED eventVars
           \/ \E count \in Counts, ts \in Timestamps : OnSend(count, ts)
  <2>1. UNCHANGED timeVars /\ clock' = clock
    BY <1>5 DEF CallbackStep, FillAfterStores, StoreMessage, OnSend, eventVars
  <2> QED
    BY <1>1, <2>1 DEF Taken
<1> QED
  BY <1>2, <1>3, <1>4, <1>5 DEF EventNext

LEMMA TimedCleanStep ==
  ASSUME Taken, Recorded, TimedClean, [EventNext]_eventVars
  PROVE  TimedClean'
<1>1. CASE UNCHANGED <<mpc, clean, unstored, stamp, event>>
  BY <1>1 DEF TimedClean
<1>2. CASE ProcessAndTakeTime \/ StoreTime
  <2>1. clean' => mpc = "idle"
    BY <1>2, Zenon DEF ProcessAndTakeTime, StoreTime
  <2>2. mpc' = mpc
    BY <1>2 DEF ProcessAndTakeTime, StoreTime
  <2> QED
    BY <2>1, <2>2 DEF TimedClean
<1>3. ASSUME NEW count \in Counts, NEW ts \in Timestamps, OnSend(count, ts)
      PROVE  TimedClean'
  <2>1. clean' => unstored = {}
    BY <1>3, Zenon DEF OnSend
  <2>2. event'.now = clock /\ UNCHANGED <<stamp, unstored>>
    BY <1>3 DEF OnSend, NoEvent, timeVars
  <2> QED
    BY <2>1, <2>2 DEF TimedClean, Recorded
<1>4. CASE StoreMessage
  BY <1>4 DEF StoreMessage, TimedClean
<1> QED
  BY <1>1, <1>2, <1>3, <1>4
  DEF EventNext, CallbackStep, FillAfterStores, Tick, eventVars, midiVars, timeVars

(* What a clean message is given, at whatever moment of a cycle.           *)
LEMMA CleanTicks ==
  ASSUME Taken, Recorded, unstored = {}, event.now - stamp \in 0 .. LongMax,
         last.sec > 0,
         NEW time \in ActualTime(event.ts)
  PROVE  LET ticks == (TicksPerSec * time) \div Second IN
         /\ getTicksFromNanoseconds(time) = {ticks}
         /\ ticks \in 0 .. 79 /\ ticks * Second <= TicksPerSec * Cycle
         /\ event.ts = 0 /\ event.now - stamp < Cycle =>
              ticks = (TicksPerSec * (event.now - stamp)) \div Second
<1> DEFINE ticks == (TicksPerSec * time) \div Second
<1>1. /\ Second \in Nat \ {0} /\ stamp \in Nat /\ event.now \in Nat /\ event.ts \in Nat
  BY TimeAssumption DEF Taken, Recorded
<1>2. Cycle \in Nat \ {0}
  <2>1. FrameSize * Second \in Nat
    BY <1>1, BlockAssumption, ProductOfNats
  <2> QED
    BY <2>1, QuotientRange, TimeAssumption DEF Cycle
<1>3. TicksPerSec = 96
  BY SMT DEF TicksPerSec
<1>4. last.sec * Second + last.nsec = stamp
  <2>1. /\ last.sec = stamp \div Second /\ last.nsec = stamp % Second
        /\ last.sec \in Nat /\ last.nsec \in Nat
    BY DEF Recorded
  <2>2. stamp = Second * last.sec + last.nsec
    BY <1>1, <2>1, DivisionRestores
  <2> QED
    BY <1>1, <2>1, <2>2, SMT
<1>5. time = (event.ts + (event.now - stamp)) % Cycle
  <2>1. event.ts + (event.now - stamp) \in Nat
    BY <1>1
  <2>2. Differences(event.now - (last.sec * Second + last.nsec)) = {event.now - stamp}
    BY <1>4, DifferencesAgree
  <2>3. time = Rem(event.ts + (event.now - stamp), Cycle)
    BY <2>2 DEF ActualTime
  <2> QED
    BY <1>2, <2>1, <2>3, QuotOfNat
<1>6. time \in 0 .. Cycle - 1
  <2>1. event.ts + (event.now - stamp) \in Int
    BY <1>1
  <2> QED
    BY <1>2, <1>5, <2>1, DivisionTypes
<1> DEFINE scaled == TicksPerSec * time
<1>7. scaled \in Nat /\ scaled < 80 * Second /\ scaled <= TicksPerSec * Cycle
  BY <1>1, <1>2, <1>3, <1>6, CycleAssumption
<1>8. ticks = scaled \div Second
  OBVIOUS
<1> HIDE DEF ticks, scaled
<1>9. ticks \in 0 .. 79 /\ ticks * Second <= TicksPerSec * Cycle
  <2>1. scaled = Second * ticks + (scaled % Second) /\ scaled % Second \in 0 .. Second - 1
    BY <1>1, <1>7, <1>8, DivisionRestores, DivisionTypes
  <2>2. ticks \in Nat /\ ticks < 80
    BY <1>1, <1>7, <1>8, QuotientRange
  <2>3. Second * ticks = ticks * Second /\ Second * ticks \in Nat
    BY <1>1, <2>2, SMT
  <2> QED
    BY <1>1, <1>2, <1>3, <1>7, <2>1, <2>2, <2>3
<1>10. getTicksFromNanoseconds(time) = {ticks}
  <2>1. time >= 0 /\ (TicksPerSec * time) \div Second = ticks
    BY <1>2, <1>6, <1>8 DEF scaled
  <2>2. ticks <= IntMax
    BY <1>9, SMT DEF IntMax
  <2> QED
    BY <2>1, <2>2 DEF getTicksFromNanoseconds
<1>11. event.ts = 0 /\ event.now - stamp < Cycle => time = event.now - stamp
  BY <1>1, <1>2, <1>5, SMT
<1> QED
  BY <1>9, <1>10, <1>11 DEF ticks

LEMMA AccurateStep ==
  ASSUME TimeInv, [EventNext]_eventVars
  PROVE  DeltaTimeAccurate'
<1>1. CASE UNCHANGED <<mpc, midi_protocol, clean, event>>
  BY <1>1 DEF TimeInv, DeltaTimeAccurate
<1>2. CASE ProcessAndTakeTime \/ StoreTime
  <2>1. clean' => clean
    BY <1>2, Zenon DEF ProcessAndTakeTime, StoreTime
  <2>2. UNCHANGED <<mpc, midi_protocol, event>>
    BY <1>2 DEF ProcessAndTakeTime, StoreTime
  <2> QED
    BY <2>1, <2>2 DEF TimeInv, DeltaTimeAccurate
<1>3. ASSUME NEW count \in Counts, NEW ts \in Timestamps, OnSend(count, ts)
      PROVE  DeltaTimeAccurate'
  BY <1>3 DEF OnSend, DeltaTimeAccurate
<1>4. CASE StoreMessage
  <2> SUFFICES ASSUME midi_protocol' = 1, clean', event'.elapsed \in 0 .. LongMax
               PROVE  /\ event'.ticks * Second <= TicksPerSec * Cycle
                      /\ Encodes(event'.delta, event'.ticks)
                      /\ event'.ts = 0 /\ event'.elapsed < Cycle =>
                           event'.ticks = (TicksPerSec * event'.elapsed) \div Second
    BY DEF DeltaTimeAccurate
  <2>1. clean /\ midi_protocol = 1 /\ mpc = "taken"
    BY <1>4 DEF StoreMessage
  <2>2. PICK ticks \in IF midi_protocol = 2 THEN {0}
                      ELSE UNION {getTicksFromNanoseconds(time) : time \in ActualTime(event.ts)} :
          LET delta == IF midi_protocol = 2 THEN <<>> ELSE set7BitEncodedLength(ticks)
              place == Layout(event.count, delta)
          IN  event' = [event EXCEPT
                          !.length = place.length, !.body = place.body,
                          !.delta = delta, !.ticks = ticks,
                          !.elapsed = IF last.sec > 0 THEN event.now - stamp ELSE -1]
    BY <1>4 DEF StoreMessage
  <2>3. /\ \E time \in ActualTime(event.ts) : ticks \in getTicksFromNanoseconds(time)
        /\ event'.ts = event.ts /\ event'.delta = set7BitEncodedLength(ticks)
        /\ event'.ticks = ticks
        /\ event'.elapsed = IF last.sec > 0 THEN event.now - stamp ELSE -1
    BY <2>1, <2>2 DEF TimeInv, Taken
  <2>4. last.sec > 0 /\ event'.elapsed = event.now - stamp
    BY <2>3
  <2>5. Taken /\ Recorded /\ unstored = {} /\ event.now - stamp \in 0 .. LongMax
    BY <2>1, <2>4 DEF TimeInv, TimedClean
  <2>6. /\ ticks \in 0 .. 79 /\ ticks * Second <= TicksPerSec * Cycle
        /\ event.ts = 0 /\ event.now - stamp < Cycle =>
             ticks = (TicksPerSec * (event.now - stamp)) \div Second
    BY <2>3, <2>4, <2>5, CleanTicks
  <2> QED
    BY <2>3, <2>4, <2>6, ShortDeltaTimes
<1> QED
  BY <1>1, <1>2, <1>3, <1>4
  DEF EventNext, CallbackStep, FillAfterStores, Tick, eventVars, midiVars, timeVars

(* "we ... have to accurately pass delta time": while no process() is      *)
(* recorded beside it a message gets a delta time of at most a cycle, the  *)
(* plugin can read it, and it is the time since the last process(), as     *)
(* long as a long can say that time.                                       *)
THEOREM DeltaTimesAreAccurate == EventSpec => []DeltaTimeAccurate
<1>1. TimeInv /\ [EventNext]_eventVars => TimeInv'
  BY TakenStep, RecordedStep, TimedCleanStep, AccurateStep DEF TimeInv
<1>2. TimeInv => DeltaTimeAccurate
  BY DEF TimeInv
<1> QED
  BY <1>1, <1>2, TimeInit, PTL DEF EventSpec

(* The condition is needed: after a pause that a long cannot say (2.1 to   *)
(* 4.2 s where it has 32 bits) a message for now may be given a negative   *)
(* time, and its delta time is one end of the ints unless it falls on the  *)
(* beginning of a cycle.                                                   *)
THEOREM LongPausesOverflow ==
  ASSUME NEW d \in LongMax + 1 .. 2 * LongMax + 1
  PROVE  \E diff \in Differences(d) :
           /\ diff < 0
           /\ \/ Rem(diff, Cycle) = 0
              \/ getTicksFromNanoseconds(Rem(diff, Cycle)) = {IntMin, IntMax}
<1> DEFINE diff == Wrapped(d)
<1>1. diff \in Int /\ diff < 0 /\ diff \in Differences(d)
  BY DifferencesWrap, TimeAssumption DEF Differences
<1>2. Cycle \in Nat \ {0}
  <2>1. FrameSize * Second \in Nat
    BY TimeAssumption, BlockAssumption, ProductOfNats
  <2> QED
    BY <2>1, QuotientRange, TimeAssumption DEF Cycle
<1> HIDE DEF diff
<1>3. Rem(diff, Cycle) \in Int /\ Rem(diff, Cycle) <= 0
  <2> DEFINE f == diff \div Cycle
             r == diff % Cycle
  <2>1. f \in Int /\ r \in 0 .. Cycle - 1 /\ diff = Cycle * f + r
    BY <1>1, <1>2, DivisionTypes, DivisionRestores
  <2>2. Quot(diff, Cycle) = IF r # 0 THEN f + 1 ELSE f
    BY <1>1 DEF Quot
  <2> HIDE DEF f, r
  <2>3. Cycle * (f + 1) = Cycle * f + Cycle
    BY <1>2, <2>1, SMT
  <2>4. Cycle * f \in Int
    BY <1>2, <2>1, SMT
  <2> QED
    BY <1>1, <1>2, <2>1, <2>2, <2>3, <2>4 DEF Rem
<1>4. Rem(diff, Cycle) = 0 \/ getTicksFromNanoseconds(Rem(diff, Cycle)) = {IntMin, IntMax}
  BY <1>3 DEF getTicksFromNanoseconds
<1> QED
  BY <1>1, <1>4
=============================================================================
