# Verification of aap-midi-device-service

TLA+ models, TLC runs and TLAPS proofs for the Android MIDI device service that
plays an Android Audio Plugin (AAP) instrument. Paths below are relative to
`src/aap-midi-device-service/src/main/`; `cpp/` is the native code and `K/`
stands for `java/org/androidaudioplugin/midideviceservice/`.

## 1. The system

A MIDI client opens the input port of the service. The service connects to the
plugin's own Android service, and when that connection arrives it instantiates
the plugin in the native processor and activates it. From then on Oboe's audio
thread pulls audio from the plugin through a ring buffer, and the client's MIDI
messages are written into a port buffer that the plugin reads.

| component | state | operations | correct means |
|---|---|---|---|
| zix ring (`cpp/zix/ring.cpp`) | `buf`, `read_head`, `write_head` | new, reset, peek, read, skip, write | a bounded, ordered, loss-free byte stream for one reader and one writer without a lock |
| audio callback (`cpp/AAPMidiProcessor.cpp:23-67, 264-300`) | what waits in the ring, position in the callback | onAudioReady, callPluginProcess, fillAudioOutput | no sample lost, none invented, less than a block of latency, the device's buffer filled |
| `AAPMidiProcessor` (same file, rest) | `state`, host, instances, protocol, instrument id, stream, ring, shared memory | resetInstance, initialize, setMidiProtocol, instantiatePlugin, activate, deactivate, terminate, processMidiInput | what the state says is true for the threads that rely on it; nothing is used after its release |
| MIDI input buffer (`:302-335, 348-396`) | the instrument's MIDI port buffer, `last_aap_process_time` | getAAPMidiInputBuffer, processMidiInput, its two conversions, memset after process() | a message is seen once, with the right time, inside the buffer |
| `AudioPluginMidiReceiver`, `AudioPluginMidiDeviceService` (`K/AudioPluginMidiDeviceService.kt`) | `closed`, `pendingInstantiationList`, the connector | onDeviceStatusChanged, initialize, connection listener, close, onSend | the native methods are called in a legal order whatever Android reports and when |
| JNI (`cpp/aapmidideviceservice-jni.cpp`) | the one processor, `jni_midi_buffer` | one function per native method | forwards to the processor |
| `ApplicationModel` (`K/ApplicationModel.kt`) | settings, the app's own MIDI client | initializeMidi, terminateMidi, playNote, the setters | one port open at most, no message to a closed port |
| `cpp/cmidi2.h` | none of its own; a buffer of packets, the loops that fill it | one-packet constructors and getters, SysEx7, SysEx8 and Mixed Data Set splits, the walk over a buffer | a getter returns what the constructor was given; transfers that share a stream arrive in order, and whole within the width of their lengths |
| UI, theme, build, tests | layout | - | - |

How they interact. Four kinds of activity run at once:

* **handlers**: Android calls `onDeviceStatusChanged` and the connection
  listener, which call the processor's control methods through JNI;
* **Oboe's thread**: calls `onAudioReady` while the stream is started;
* **the MIDI thread**: calls `onSend`, hence `processMidiInput`;
* **the user**: changes the settings that the handlers read.

There is no lock in the program. Threads meet in the processor's plain fields;
`state` is the only guard of the audio callback and nothing guards the MIDI
thread. What is hard: the order in which a control method changes what another
thread is using; late and repeated connections; release under use; a ring
without locks; sizes in frames, samples and bytes; results nobody looks at. The
`hazards` of `PROJECT.json` name each with its line.

## 2. Modules

| module | what it is |
|---|---|
| `ZixRingHeads` | the index arithmetic of `ring.cpp`: space, slots, heads |
| `ZixRing` | the ring and its two threads; EXTENDS `ZixRingHeads` |
| `NextPowerOfTwo` | the rounding of a ring's size, on sets of bit positions |
| `ZixRingNew` | the ring beside the choice of its size: what `zix_ring_new` makes; EXTENDS both |
| `ByteStream` | the abstract stream; `ZixRing` implements it, `AudioPipeline` uses it |
| `ZixRingProofs` | theorems about `ZixRing` and the rounding |
| `AudioPipeline` | the callback over an INSTANCE of `ByteStream` |
| `AudioPipelineProofs` | theorems about it |
| `MidiEventTime` | the MIDI thread's time keeping beside that callback; EXTENDS `AudioPipeline` |
| `MidiEventTimeProofs` | theorems about it |
| `ProcessorLifecycle` | the abstract life cycle behind `AAPMidiProcessorState` |
| `AAPMidiProcessor` | the native processor and its three threads: actions, no Next of its own |
| `AudioPluginMidiReceiver` | the service's handlers composed with the processor; EXTENDS it |
| `ReceiverProofs` | theorems about the composition |
| `MidiInputBuffer` | the port buffer as a slot between the MIDI thread and the callback |
| `MidiInputProofs` | theorems about it |
| `ApplicationModel` | the app's settings, preferences and MIDI client, and the screen |
| `ApplicationModelProofs` | theorems about it |
| `Cmidi2Messages` | constructors and getters of `cmidi2.h` |
| `Cmidi2Sysex` | how `cmidi2.h` splits System Exclusive and Mixed Data Set messages |
| `UmpTransfer` | the process loops and a receiver over one buffer of packets; EXTENDS both |
| `Cmidi2Proofs` | theorems about the messages and the splits |
| `UmpTransferProofs` | theorems about the transfers; EXTENDS `Cmidi2Proofs` |
| `MCZixRing`, `MCAudioPipeline`, `MCMidiEventTime`, `MCReceiver`, `MCMidiInput`, `MCApplicationModel`, `MCUmpTransfer` | constants for TLC |

A section "plausible bugs" near the head of a module holds variants of its
definitions. No action uses them; substituted for the correct definition, each
makes a property fail, which shows that the property depends on the code.

### Ring

Every access to memory the other thread writes is a step: loading the other
head (`WriteLoad`, `ReadLoadHead`), each byte of a copy (`WriteCopy`, `ReadCopy`,
in any order), storing the own head (`WritePublish`, `ReadRelease`). Byte number
i of the stream is the number i, so loss, repetition and reordering are all
visible. `sent`, `rcvd` and `got` are history.

The code's two barriers keep the copies before the store of the own head, and
this is in the model's order of steps. No barrier keeps the reader's copies
after its load of `write_head`: `LoadsInOrder` says whether the processor does.
It is TRUE for x86 and FALSE for ARM; the Makefile builds both.

`ZixRing` takes `& size_mask` for a remainder, which needs a size that is a power of
two. `NextPowerOfTwo` is why it is one: a word is the set of the positions of its 1
bits, each `size |= size >> k` is a union, the bits below the top one fill up, and
what a word is worth is a sum over its positions (`SumBelow`, a recursive function).
`ZixRingNew` puts the two together in `SizeIsRoundedUp`.

### Audio pipeline

The ring's stream counts samples here instead of bytes, as every size in the
code is a multiple of `sizeof(float)`. The ring of "twice as much as aap buffer
size" has one byte less of room than that, so one sample less. Starvation test,
`process()`, write and read are separate steps, each with its failure branch,
because the code ignores the results.

### Event time

`MidiEventTime` adds to the callback the time it takes after `process()` and
stores in `last_aap_process_time` in two parts, and the MIDI thread: `onSend`
with its truncation and `clock_gettime` are one step (`OnSend`), reading the
recorded time and storing the message another (`StoreMessage`). Between them the
callback may record a new time, and `StoreMessage` may see one part of it
without the other; the time since the last process() is then negative, and the
negative ticks are an `int` cast from a `double` that does not fit, which is
undefined: both ends of the range are tried. `clean` is history: no recording
overlaps this message. Only a clean message can be asked for the right delta
time; every message is asked to stay inside its buffers.

`tv_sec * 1000000000` is computed in `long`, which has 32 bits on armeabi-v7a and x86
and overflows when the last process() is more than 2.1 s away. `LongMax` is the
largest long. A difference beyond it is undefined in C++, and `Differences` lets it be
wrapped or, in a wider register, not. `DeltaTimeAccurate` is therefore about pauses of up to
`LongMax`; `LongPausesOverflow` proves that the condition is needed: from one nanosecond
more on the difference may be negative, in a message that nothing disturbed.

What the model says of the code beside its properties:

* before the first `process()` the sender's timestamp is used as it is;
* `set7BitEncodedLength` takes `% 80`, not `% 0x80`, and clears the continuation
  bit it should set, so no delta time of 128 ticks or more can be read back
  (`LongDeltaTimesAreLost`), and one of 80 to 127 is wrong as well. A cycle of 512
  frames is one or two ticks, so a clean message never gets there, except before
  the first `process()` and after a pause that overflows a `long`;
* protocol 2 writes the 32-byte header also where the plugin has only a MIDI 1.0
  port, because the layout follows `midi_protocol` and not the port.

A wall clock that is set back, and an instrument without a MIDI 1.0 port
(`midi1_in_port` is -1), are left out. Plugins are taken to have one output port
per channel, so that the interleaving of `:294` is the identity on counts.

### Processor and receiver

`AAPMidiProcessor` splits a control method where it changes something another
thread looks at, and `call` is the place inside it. For `deactivate()` these
are: deactivate each instance, stop the stream, close the stream and set
INACTIVE. `cb` and `midi` are the places of the other two threads. Using
a null host, a freed ring, an unmapped buffer or a destroyed processor sets
`fault` to the thread that did so and ends the behaviour, because C++ defines
nothing from there on.

`AudioPluginMidiReceiver` adds the Kotlin handlers; `pc` is the place in the
handler. Choices made:

* handlers do not overlap each other: Android is assumed to deliver both kinds on the
  main thread. (Not so the other threads.)
* creating an instance in the host (`:160`) and appending it to the list (`:210`) are one
  step: in between the id has no entry, so the MIDI thread finds nothing, as before it.
* a service connection is pending in `binds` and may arrive at any later time,
  also after close(): the FIXME in `close()` describes this. A service that died is
  reported again by `Reconnect`, which is external.
* a connection that was bound by an earlier session's connector runs the same
  listener, because the listener uses only fields of the receiver.
* `stop()` prevents new callbacks and `close()` waits for the one in progress,
  as Oboe documents for data callbacks. A stream dropped without close (its
  processor destroyed) may or may not call back once more; both are modelled.
* `openStream()` may fail, and so may `requestStart()`, whose result the code
  ignores, when `StreamMayFail`.
* the MIDI client gets its port after the opening handler has returned; a message
  that was being delivered when the port closed is still processed.

### MIDI input buffer

A message is its number, stored field by field: MIDI 1.0 has time base, length,
delta time and bytes, MIDI 2.0 length, protocol and bytes. The stores,
the plugin's reads and the memset are one step per field and in any order, as
neither the compiler nor an ARM processor has to keep the order of plain accesses.
The plugin is external: it is taken to look at every field once per `process()`
and to take a non-zero length for a message. `fresh` is the message that
was stored with no cycle under way and is still in the slot; `overlap`, `heard` and
`before` are history as well. There is one slot: which of the two MIDI ports it
is does not change within a session.

### Application model

The answer of `openDevice`, a note's coroutine and the write of the preferences to disk
are actions of their own that happen at any later time. `openInputPort` on an
open port returns null, and `send` on a closed one throws, as Android
documents; either exception is uncaught and kills the process (`fault`). `Restart`,
after a crash or because Android killed the process, makes the model anew with
any set of installed plugins. `chosen` and `lost` are history: what the user
chose last, and whether a death before the write, or a plugin missing at a
start, has made the app forget it. `hasty` is history too: in this process Start was
pressed while an `openDevice` call had no answer, or Stop with a note under way. The
screen lets the user do both (after it is built again, Start is offered although a
call is unanswered). `owed` are the notes whose note-on was sent and whose note-off was
not: `NoteOffsSent` is about what the client sends. It is not about what sounds. A note-off
may be lost in the service, which is the finding of `midi_input_lost`, and closing the port
silences nothing from the second session on, because the service's close() then returns at
once (`closed`, K/AudioPluginMidiDeviceService.kt:93). Another application holding the port, and a
device list without the app's own device, are left out.

### cmidi2 and transfers

A packet is the sequence of its bytes. The header's constructors return an
integer, and to store it most significant byte first is left to its client, as the
header's readers expect. An argument of more than 8 bits is the sequence of its
bytes. The client program uses only the constants of the protocols; the
functions are modelled as the library promises them.

`UmpTransfer` runs several process loops on one buffer: sysex7 with and without
the leading 0xF0, sysex8 and Mixed Data Sets, told apart by group, stream id
and data set id. A loop calls `sendUMP` once per packet (`Process`), which waits for
room; the receiver walks over the buffer (`Take`) and frees it (`EndOfWalk`). Before
the transfers begin the buffer may also start with any message of one packet
(`SendMessage`), so that the walk meets packets of 4, 8 and 16 bytes.
The callback, the buffer and the receiver are external: they stand for what a
client of the header does. `wraps` is chosen once:
`cmidi2_ump_read_uint32_bytes` shifts a 32-bit value by 32 to 56, which is undefined, and
a build either takes the count modulo 32, so the type is read right, or may read any
type at every step (`read_types`), also one of those for which
`cmidi2_ump_get_num_bytes` returns 0xFF. In the latter build the walk can enter a packet in
the middle and pass the end of the buffer; no property but the types and the end of the
walk is about it. In the former it stays in step with the packets (`WalkInStep`). `queued` is history: which packets lie in the buffer, and where, that the walk has
not reached. No guard reads it.

The assumptions name what a client has to respect: arguments in the ranges of the
protocol (`ArgumentsAssumption`), memory that holds the bytes the loops read, and for
sysex7 a 0xF7 (`CallAssumption`), different ids for transfers of a kind in a group, of
which sysex7 has none (`IdsAssumption`), room for the longest packet
(`BufferAssumption`). A data set is of 1 to 65535 bytes (`BelowChunk`), thus one chunk.

Widths: `numBytes` is a `uint8_t` although the process loops take a `uint32_t`, so of a
SysEx message longer than 255 bytes only the first `length % 256` are sent, and the last
packet is marked as the end. What arrives is compared with `Data`, what the client gave:
`SentMeansHeard` and `TransfersArrive` ask for all of it from the transfers that `Fits`
names, and `LongerIsCut` says what becomes of the others. A chunk's size is passed as a
`uint16_t`. The last payload of a Mixed Data Set reads up to 13 bytes past the data,
so `memory` has them.

## 3. Runs

| run | instance | shows |
|---|---|---|
| `ring` | size 4, blocks of 1 and 3, 6 bytes | types, exact accounting of the heads, harmless stale heads, disjoint copies, order, the implementation of `ByteStream`; the reader always returns; and, for a word of 9 bits and all 2^9 requests, the size `zix_ring_new` makes and its masks |
| `ring_load_reorder` | the same, loads reordered | finding: a read returns an old byte |
| `pipeline` | 16 frames x 2 channels, ring 64, requests of 8, 31 and 32, 3 blocks; messages of 3 and 40 bytes for now or time 100; a second of 8 parts, a clock that shows 14 to 17 and 34, a long of up to 17; both protocols | no block refused, no read refused, less than a block of latency; the delta time of a clean message after a pause that a long can say, every message inside its buffers |
| `pipeline_device_buffer` | 4 frames x 2 channels, ring 16, requests of 1 to 8, 6 blocks | finding: the callback counts frames as samples |
| `receiver` | an instrument and another plugin, two services, 3 sessions, 1 reconnection, failing streams | life cycle, readiness, protocol, release order, the list under the callback, the list, the buffer and the processor under the MIDI thread; in the first session the callback never touches what was released and nothing is dropped |
| `receiver_once` | 1 session, no reconnection, no failure, fairness | opening leads to ACTIVE, closing ends |
| `receiver_deactivate` | 1 session | finding: process() on deactivated instances |
| `receiver_two_instruments` | 2 sessions | finding: two instruments |
| `midi_input` | MIDI 1.0, 2 messages, fairness | an undisturbed message is heard whole and eventually; once and in order |
| `midi_input_lost` | 1 message | finding: a message stored during process() is cleared unseen |
| `client` | 2 instruments, 2 notes, 2 unanswered openDevice calls, fairness | the flag tells the port, only a press too early makes an exception kill the process, the chosen instrument is installed, settings survive restarts, every note-off is sent |
| `ump` | 5 transfers: sysex7 of 13 bytes with 0xF0 and 6 without, sysex8 of 282 (26 are sent), data sets of 20 and of 5; a buffer of 24 bytes; arguments at both ends of their ranges; fairness | each transfer arrives in order and only at its own receiver, and to the last byte if it fits; the walk stays in step with the packets, finds each one-packet message, and the getters return the type, status, channel and arguments that the constructor was given |

Why the bounds are enough. A ring of 4 bytes wraps at every offset with blocks
of 3 and 1, gets full (3) and empty, refuses both a read and a write, and 6 bytes
take both heads once around and into the next lap; the proofs hold for all
sizes. In `pipeline` a request of a block, of one sample less and of a quarter
make every kind of remainder in the ring, and three blocks are enough for a
request that needs a new block and one that does not; the theorems cover every
request. The clock passes the end of a second (16), so a message can see the
new second with the old fraction, and jumps to 34, further from every process() before
than a long can say; 40 bytes are more than a frame; time 100 is many
cycles away. A word of 9 bits has a power of two, its neighbours and the overflow at
both ends. In `ump` messages end inside, at the end of and one after a packet, one is
longer than a `uint8_t` (282), a data set needs two payloads and one less than a
whole one, which is padded with zeros, and 24 bytes hold a packet of 16 and one of 8, so
packets of two transfers do meet in the buffer. In `receiver` two plugins in two services
are the least with both a matching and a non-matching pending entry and with an
instrument whose id is not 0; the first session is before any close, the second
meets `closed` and a list with an old entry, and the third destroys what the
second left behind. The reconnection reaches the listener on an ACTIVE
processor and hence ERROR. In `midi_input` two messages are enough to tear one by
the other and to hear an older one after a newer. In `client` two unanswered
calls reach the second answer for an open port, two notes overlap, and two
instruments allow one to be missing. The bounds are `MaxSent`, `MaxBlocks`, `MaxOpens`,
`MaxReconnects`, `MaxMessages`, `MaxOpening` and `Instants`; each is in the guard of one
action. `BufferSize` is a size, not a bound of the model.

`CHECK_DEADLOCK FALSE` is set for the receiver, where a crash ends the program
and the bounds end the sessions, and for `ump`, where transfers end. The other components must never stop, and TLC
checks it.

Fairness. `ReaderFairSpec` is weak fairness of the reader's steps inside a
call: a thread that runs straight-line code is scheduled. Nothing is assumed of
the writer. `FairSpec` has weak fairness of the handlers' steps (the main
thread runs), of the connections that were asked for (the plugin service is
installed and Android connects it) and of a callback in progress; no fairness
for the user, the client, Oboe calling back, or MIDI. `MidiInputBuffer` is about
an active stream, so there the next cycle does come. In `ApplicationModel` a
coroutine is scheduled and its delay ends; nothing is assumed of the user, of
Android's answers, or of the write to disk. In `UmpTransfer` each loop is finite
straight-line code whose callback waits for room (`Process`, `NextChunk`), and the
receiver reads what is there (`Take`, `EndOfWalk`): weak fairness of each, none of
`SendMessage`.

Properties of the first session. `CallbackNeverFaults` and `NothingDropped` are
about the time before the port is opened again and before a service is connected
again (`FirstSession`). Later they do not hold: `closed` stays TRUE, so the second
close does nothing and the third open destroys a running processor.
`ApplicationModel.kt:82` says "it is not implemented to be restartable yet", so
this is a limitation the project knows rather than a finding.
With a reconnection the same happens through ERROR, where
`deactivate()` returns early; that is why `ReleasedOnlyWhenQuiet` excludes it.

## 4. Findings

1. `zix_ring_read` may return stale bytes on ARM although `ring.h` calls the ring
   thread-safe for one reader and one writer. The service itself reads and
   writes the ring in the same callback, so it does not suffer from it.
2. The callback compares and reads `oboeNumFrames * sizeof(float)` bytes; with
   two channels half of the device's buffer is never written.
3. `deactivate()` deactivates the plugins while the stream runs and the state
   still says ACTIVE.
4. The check against a second instrument takes id 0 for "none"; 0 is the
   first id. A second session instantiates the instrument twice.
5. The slot for MIDI does not even keep one message per cycle: what is stored
   while `process()` reads is cleared by the memset after it.

## 5. Proofs

For all values of the constants that satisfy the named assumptions:

* `ZixRingProofs`. `HeadsInv`: the heads account for `sent - rcvd` bytes
  (`HeadsCountBytes`), a head loaded before the check underestimates the space
  (`StaleHeadsAreSafe`), and a thread that passed its check keeps its claim
  until it moves its own head (`Claims`); without the claims a copy in
  progress could not be shown to stay clear of the other thread's. `RingInv` adds
  what the bytes are: those in the ring (`Content`), those the writer has
  copied ahead of its head (`Written`) and those the reader has copied out
  (`Fetched`). Lemmas about `%` and the helpers of `ZixRingHeads` carry the
  arithmetic. `TypeCorrect`, `HeadsAccurate`, `StaleHeadsHarmless` and
  `SlotsDisjoint` hold for both values of `LoadsInOrder`; `NextBlockIsRead` and
  `RingImplementsStream` assume it TRUE.
  The size, for a word of any width up to 32: `SmearFillsWord` says that after the
  shift by k the 2k positions below the top bit are 1, so after five shifts the whole
  word is. `LowBits` says that the k lowest bits of x are worth `x % 2^k`, by
  induction over the positions summed; hence a row of ones is worth a power of two less
  one, adding one to it gives the next power (`SizesRoundUp`), and masking with a size
  less one is the remainder (`MasksAreRemainders`), for the heads of every reachable
  state (`SizesAreRoundedUp`). The library's induction theorem takes a predicate, which
  cannot be instantiated; `SetInduction` states the same for a set and rests on the
  well-foundedness of `<`. The provers know `2^k` for literal k only, so `PowersListed`
  tabulates it, and that is where the bound of 32 is used.
  `ReadsAreWaitFree` counts: every step of the reader in a call for n bytes uses
  up one of at most n + 3, and no step of the writer gives one back.
* `AudioPipelineProofs`. Invariant: fewer than `asked` samples in the ring when
  `process()` is called, thus less than a block, so a block fits into a ring of
  two blocks less one sample; after it at least a block, so any request is
  satisfied. Assumes that a request is at most a block (`RequestsAssumption`)
  and `RingAssumption`. The code can violate the former on a device with an
  Oboe buffer above 1024 frames; there it calls process() once and the read is
  refused.
* `MidiEventTimeProofs`. `EventSpecImplementsPipeline`: the callback with its time
  keeping is still `AudioPipeline`, so the theorems above hold of it. `FitsInv`: a
  message was cut to a frame when it was taken; with an encoding of 1 to 5 bytes
  and a frame of at least 11 this is enough for `MessageFits`, whatever is read of
  the clock. `TimeInv`: a part of the recorded time that is not waiting to be
  stored is the one of `stamp`, and while a clean message is timed none waits;
  without it `DeltaTimeAccurate` is not inductive. Assumes that a cycle is less than
  80 ticks (`CycleAssumption`; a tick is a 96th of a second), a frame size of 11 to 1024 and a
  clock that starts after its first second. Up to `LongMax` the two outcomes of `Differences`
  agree; beyond it `LongPausesOverflow` shows the negative one.
* `ReceiverProofs`. `SafetyInv` is the conjunction of what each position of the
  handlers knows: which control call may be in progress there, which states
  are possible, that resources are released only in the closing handler and with
  the callback away, that instances are activated up to `idx`, that the
  protocol is only chosen before the first instance. `ActiveIsReady` alone is not
  inductive: `activate()` sets ACTIVE at its end, so what it did before must be
  remembered. `ImplementsLifecycle` maps `plugins` to the number of
  instances and `protocol` to `midi_protocol`. `SessionInv` holds as long as
  `FirstSession` does, whatever the constants are: a single connection is reported,
  to a processor that has no stream, so no control method can end in ERROR while a
  callback runs; and what the callback uses stays until the stream is closed,
  which waits for it. From it follow `CallbackIsSafe` and `NothingIsDropped`; the
  invariant proved is `FirstSession => SessionInv`, as the counters never go back.
  `MidiThreadIsUndisturbed` looks at each step that takes something from under
  `processMidiInput`: the list grows only in CREATED, the port buffer is unmapped only in
  the closing handler, which runs with the port closed, and `resetInstance` runs there or in
  an opening. `OpeningsInv` counts the openings: the first finds a CREATED processor and the
  second one that the first close() left CREATED, so only a third or later opening can drop
  an ACTIVE processor from under a message, which the property names as its exception.
  `HostUntilClosed` rests on the same invariant.
  `CloseIsBounded` counts what is left of close() and of the callback it waits for;
  that no other callback starts then needs `StoppedFirst`.
* `MidiInputProofs`. `Undisturbed` follows a message from its first store to the
  end of the cycle that hears it; `Ordered` is about the length alone: whether
  the next store, the slot and what was read are newer than all that was heard.
  Neither property is inductive without the position of the memset.
  For both protocols and any number of messages.
* `Cmidi2Proofs`. `MessagesReadBack`: whatever the constructor and its arguments, the
  getters return them, with the type, the group, the status code and the channel; one lemma
  per family of messages, each from the bytes that the constructor concatenates. For SysEx7 (6 bytes a packet) and SysEx8 (13) and every
  length a `uint8_t` has: exactly the last packet is marked as an end
  (`LastPacketIsMarked`), and every byte is in exactly one packet
  (`PacketsCoverMessage`), the offset's own width included. A data set of less than
  65536 bytes is one chunk whose payloads cover it with less than a payload to spare
  (`PayloadsCoverDataSet`).
* `UmpTransferProofs`. For any number of transfers with any data and any buffer of
  at least 16 bytes. `EachPacketCarries` says what packet p of a transfer is: 8 or 16
  bytes, with the transfer's ids, the next bytes of its data and the status of its
  place. `Inv` says where the packets are: each in `queued` is whole in the buffer,
  behind the walk, and followed by another packet or the end, those of a transfer in
  the order of sending; the walk stands in front of a packet, the message or the end;
  and for each transfer there is a k such that the first k packets have been heard and
  exactly the others of those sent still wait. What was heard is described by k,
  as a prefix of what the loops send (`Delivery`) and a place in the framing, so no
  induction over the packets is needed. `HeardIsData` leads from there to what the client
  gave: `Delivery` is its first `length % 256` bytes, or all of a data set and up to 13 more. `HeardInOrder` is not inductive: without `queued` nothing says
  that the bytes at `iter` are the next packet of a transfer and not the middle of
  another's. In a build that may read any type `Inv` says only that nothing is heard.
  From it follow `TypeCorrect`, `WalkStaysInStep`, `DataHeardInOrder`, `WhatIsSentIsHeard`,
  `LongMessagesAreCut`, `MessagesArriveAsMade` and `EachPacketHasItsTransfer` (a packet at `iter` belongs to exactly one transfer).
* `ApplicationModelProofs`. `SettingsInv`: the preferences in memory are the
  settings, and the user's choices unless `lost`. `ClientInv`: the flag is the
  port. `HasteInv`: unless `hasty`, at most one `openDevice` call is unanswered, none with
  the port open, and the port is open as long as a note is under way; each of the two
  presses breaks one of these and nothing else does.

TLC checked every invariant on small instances first. Only
model-checked:

* liveness, which needs ENABLED and fairness: `ReadReturns`, `Activates`, `Closes`,
  `FreshIsHeard`, `NoteOffsSent` and `TransfersArrive`. The part of `ReadReturns` and of
  `Closes` that is no liveness, the number of steps left and who can change it, is proved
  (`ReadsAreWaitFree`, `CloseIsBounded`); of `TransfersArrive`, that `Take` always finds
  the transfer it needs (`EachPacketHasItsTransfer`).

Every invariant and every action property of the passing runs is a theorem, and so are
both refinements.

## 6. Not modelled

* Timing statistics and logging; `zix_ring_mlock`; audio data inside a block; the
  list of the external host that `registerPluginService` appends to; string
  copying in JNI; UI and build files. Overlapping handlers are assumed away as
  said above. The AAP host, Oboe and Android are modelled by what the code relies on.
* Of `cmidi2.h`: the Mixed Data Set header, which is stored little-endian while its
  getters read big-endian; `pitch_7_9` and the variants that take a `double`, whose
  subject is floating-point conversion (128.0 overflows a `uint16_t`);
  `sysex7_direct`, which takes the six bytes one by one. Data sets of 65536 bytes and
  more are left out of the runs for their size: the chunk offset uses a radix of
  14 * 65536 where the chunk size has 14 * 65535.
* `ApplicationModel` and the receiver are not composed. They share only the
  settings, which `AudioPluginMidiReceiver` lets change at any moment, and that is
  more than the app can do; and no property of the code relates them further.
* `MidiInputBuffer` has no abstract mailbox that it would implement: its promise is
  the pair `UndisturbedIsHeard` and `HeardOnceInOrder`, as every disturbed message may
  be torn, merged or lost.

## 7. Limits that the code sets

Several hazards in `PROJECT.json` have a note instead of a property because the
code promises nothing there that holds: a second session (`closed` is never
reset), an Oboe buffer above a block, a requestStart() that failed unnoticed, an instrument
without a MIDI 1.0 port. Others have a
property that tells how far they reach: `instance_data_list` read by the MIDI thread
while another grows it, the port buffer unmapped under the MIDI thread, the app's client
stopped or started again too early, a pause too long for a 32-bit long, a SysEx longer than
a `uint8_t`, a build that does not read the type of a packet. The models have these behaviours where a fault can be
expressed (`fault`, `NothingDropped` beyond the first session); `MidiThreadUndisturbed`
and `CrashOnlyByHaste` say when at most they occur. Where a theorem excludes one, a named
assumption says so; whoever changes the code there should drop the assumption first and see
the run fail.
