--------------------------- MODULE AudioPipeline ----------------------------
(***************************************************************************)
(* One callback of the Oboe thread after the other: onAudioReady,          *)
(* callPluginProcess, fillAudioOutput.  The ring is the stream that        *)
(* ByteStream describes and ZixRing implements, counted in samples of      *)
(* sizeof(float) bytes: every size in the code is a multiple of it, and a  *)
(* ring of 4 * R bytes has room for R - 1 samples.                         *)
(*                                                                         *)
(* Sample number i is the i-th one that process() has produced; if no      *)
(* block is lost it is the one at place i of the stream.                   *)
(***************************************************************************)
EXTENDS Integers

CONSTANTS FrameSize,   \* aap_frame_size
          Channels,    \* channel_count
          RingSize,    \* aap_input_ring_buffer->size, in samples
          Requests,    \* the values of oboeNumFrames
          MaxBlocks    \* bound on the blocks processed in a behaviour

Block == FrameSize * Channels

ASSUME BlockAssumption ==
  FrameSize \in Nat \ {0} /\ Channels \in Nat \ {0}
(* "twice as much as aap buffer size", rounded up to a power of two.       *)
ASSUME RingAssumption == RingSize \in Nat /\ 2 * Block <= RingSize
(* Oboe asks for at most a block: 512 frames of 2 channels is what the     *)
(* service configures, and 1024 frames its default Oboe buffer.            *)
ASSUME RequestsAssumption == Requests \subseteq 1 .. Block
ASSUME MaxBlocksAssumption == MaxBlocks \in Nat

VARIABLES
  active,              \* state = AAP_MIDI_PROCESSOR_STATE_ACTIVE
  pc, asked,           \* position in the callback, its oboeNumFrames
  produced,            \* samples process() has made
  sent, rcvd, got      \* the ring, and what the callback gave the device last

vars == <<active, pc, asked, produced, sent, rcvd, got>>

Ring == INSTANCE ByteStream WITH Room <- RingSize - 1, Blocks <- Requests \cup {Block}

ReadSpace == sent - rcvd

Init ==
  /\ active = FALSE /\ pc = "idle" /\ asked = 0 /\ produced = 0
  /\ Ring!Init
-----------------------------------------------------------------------------
(* Plausible bugs in the code below; no action of Next uses them.          *)

(* The plugin runs although the ring holds just enough.                    *)
StarvesWhenEqual(n) == ReadSpace <= n

(* The plugin runs whenever less than a whole block is left.               *)
StarvesBelowBlock(n) == ReadSpace < Block

(* fillAudioOutput forgets the channels in the size it writes.             *)
FillOneChannel ==
  /\ pc = "fill"
  /\ \/ Ring!Put(FrameSize)
     \/ FrameSize > RingSize - 1 - ReadSpace /\ UNCHANGED <<sent, rcvd, got>>
  /\ pc' = "read"
  /\ UNCHANGED <<active, asked, produced>>
-----------------------------------------------------------------------------
(* activate() and deactivate() return between two callbacks.               *)
Activated ==
  /\ pc = "idle" /\ ~active
  /\ active' = TRUE
  /\ UNCHANGED <<pc, asked, produced, sent, rcvd, got>>

Deactivated ==
  /\ pc = "idle" /\ active
  /\ active' = FALSE
  /\ UNCHANGED <<pc, asked, produced, sent, rcvd, got>>

Starves(n) == ReadSpace < n

OnAudioReady(n) ==
  /\ pc = "idle" /\ active
  /\ asked' = n
  /\ \/ Starves(n) /\ produced + Block <= MaxBlocks * Block /\ pc' = "process"
     \/ ~Starves(n) /\ pc' = "read"
  /\ UNCHANGED <<active, produced, sent, rcvd, got>>

CallPluginProcess ==
  /\ pc = "process"
  /\ produced' = produced + Block
  /\ pc' = "fill"
  /\ UNCHANGED <<active, asked, sent, rcvd, got>>

(* The result of zix_ring_write is not looked at: a refused block is lost. *)
FillAudioOutput ==
  /\ pc = "fill"
  /\ \/ Ring!Put(Block)
     \/ Block > RingSize - 1 - ReadSpace /\ UNCHANGED <<sent, rcvd, got>>
  /\ pc' = "read"
  /\ UNCHANGED <<active, asked, produced>>

(* Nor is that of zix_ring_read: a refused read leaves audioData as it is. *)
ReadRing ==
  /\ pc = "read"
  /\ \/ Ring!Get(asked)
     \/ asked > ReadSpace /\ UNCHANGED <<sent, rcvd, got>>
  /\ pc' = "idle"
  /\ UNCHANGED <<active, asked, produced>>

Next ==
  \/ Activated \/ Deactivated
  \/ \E n \in Requests : OnAudioReady(n)
  \/ CallPluginProcess \/ FillAudioOutput \/ ReadRing

Spec == Init /\ [][Next]_vars
-----------------------------------------------------------------------------
(* Types of the callback and of the ring's counters.                       *)
TypeOK ==
  /\ active \in BOOLEAN
  /\ pc \in {"idle", "process", "fill", "read"} /\ asked \in Nat
  /\ produced \in Nat /\ sent \in Nat /\ rcvd \in Nat
  /\ 0 <= ReadSpace /\ ReadSpace <= RingSize - 1

(* The result of zix_ring_write may be ignored: the ring of twice a block  *)
(* accepts every block, so the device hears the samples in the order the   *)
(* plugin made them and misses none.                                       *)
NoBlockLost == pc # "fill" => produced = sent

(* The result of zix_ring_read may be ignored: after at most one process() *)
(* the ring holds what the callback asks for.                              *)
NoUnderrun == pc = "read" => asked <= ReadSpace

(* "only once in a while (when our ring buffer starves)": what the plugin  *)
(* makes waits for less than a block of samples before it is heard.        *)
LatencyBelowBlock == pc = "idle" => ReadSpace < Block

(* "Oboe audio buffer request", in frames of channel_count samples         *)
(* (AAPMidiProcessor.cpp): the callback fills the device's buffer.         *)
DeviceBufferFilled == pc = "idle" /\ asked # 0 => DOMAIN got = 0 .. asked * Channels - 1
=============================================================================
