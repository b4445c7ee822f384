-------------------------- MODULE MidiInputBuffer ---------------------------
(***************************************************************************)
(* The instrument's MIDI port buffer: one slot of shared memory.  The MIDI *)
(* thread stores a message in it (processMidiInput), the Oboe thread lets  *)
(* the plugin read it and then clears it (callPluginProcess).  Nothing     *)
(* synchronizes the two, and nothing orders the plain stores of either, so *)
(* every field is stored, read and cleared in a step of its own, in any    *)
(* order.                                                                  *)
(*                                                                         *)
(* Message number m is the m-th one; a field holds the number of the       *)
(* message that stored it, or 0 after memset.  The protocol, hence the     *)
(* port and the layout, does not change once there is an instance.         *)
(***************************************************************************)
EXTENDS Integers

CONSTANTS midi_protocol,   \* fixed before the instance is created
          MaxMessages      \* bound on the messages of a behaviour

MIDI1 == 1
MIDI2 == 2

ASSUME ProtocolAssumption == midi_protocol \in {MIDI1, MIDI2}
ASSUME MaxMessagesAssumption == MaxMessages \in Nat

(* MIDI 1.0: time base, length, delta time, bytes.  MIDI 2.0: length,      *)
(* protocol, bytes.  The reserved words are always 0.                      *)
Fields ==
  IF midi_protocol = MIDI2 THEN {"length", "protocol", "body"}
  ELSE {"timebase", "length", "delta", "body"}

VARIABLES
  buf,                   \* the port buffer
  writing, wtodo,        \* processMidiInput in progress, fields left to store
  ppc, ptodo, seen,      \* callPluginProcess: position, fields left, what process() saw
  sent, fresh, overlap,  \* history: messages so far, the one in the slot, see below
  heard, before          \* history: messages process() saw, `sent` at the last two cycles

writer == <<writing, wtodo, sent>>
cycle == <<ppc, ptodo, seen, heard, before>>
vars == <<buf, writer, cycle, fresh, overlap>>

Nothing == [f \in Fields |-> 0]

Init ==
  /\ buf = Nothing
  /\ writing = FALSE /\ wtodo = {} /\ sent = 0
  /\ ppc = "idle" /\ ptodo = {} /\ seen = Nothing
  /\ fresh = 0 /\ overlap = FALSE
  /\ heard = {} /\ before = <<0, 0>>
-----------------------------------------------------------------------------
(* Plausible bugs in the code below; no action of Next uses them.          *)

(* The time base stored for the first message only.                        *)
StoreTimebaseOnce ==
  /\ writing
  /\ \E f \in wtodo :
       /\ buf' = IF f = "timebase" /\ sent > 1 THEN buf ELSE [buf EXCEPT ![f] = sent]
       /\ wtodo' = wtodo \ {f}
  /\ UNCHANGED <<writing, sent, cycle, fresh, overlap>>

(* processMidiInput that returns before the last store.                    *)
ReturnEarly ==
  /\ writing /\ \A f, g \in wtodo : f = g
  /\ writing' = FALSE
  /\ fresh' = IF overlap THEN 0 ELSE sent
  /\ UNCHANGED <<buf, wtodo, sent, cycle, overlap>>

(* memset that spares the header's length.                                 *)
ClearBody ==
  /\ ppc = "clear"
  /\ \E f \in ptodo :
       /\ buf' = IF f = "length" THEN buf ELSE [buf EXCEPT ![f] = 0]
       /\ ptodo' = ptodo \ {f}
  /\ UNCHANGED <<writer, ppc, seen, heard, before, fresh, overlap>>

(* A cycle that clears the buffer although it did not call process().      *)
ClearWithoutProcess ==
  /\ ppc = "idle"
  /\ ppc' = "clear" /\ ptodo' = Fields /\ seen' = Nothing
  /\ before' = <<before[2], IF writing THEN sent - 1 ELSE sent>>
  /\ overlap' = (overlap \/ writing)
  /\ UNCHANGED <<buf, writer, heard, fresh>>
-----------------------------------------------------------------------------
(* The MIDI thread.  `overlap` says that a cycle has been under way during *)
(* the write; `fresh` is the message that was written without and is not   *)
(* overwritten yet, or 0.                                                  *)

BeginMessage ==
  /\ ~writing /\ sent < MaxMessages
  /\ writing' = TRUE /\ wtodo' = Fields /\ sent' = sent + 1
  /\ fresh' = 0 /\ overlap' = (ppc # "idle")
  /\ UNCHANGED <<buf, cycle>>

StoreField ==
  /\ writing
  /\ \E f \in wtodo :
       /\ buf' = [buf EXCEPT ![f] = sent]
       /\ wtodo' = wtodo \ {f}
  /\ UNCHANGED <<writing, sent, cycle, fresh, overlap>>

EndMessage ==
  /\ writing /\ wtodo = {}
  /\ writing' = FALSE
  /\ fresh' = IF overlap THEN 0 ELSE sent
  /\ UNCHANGED <<buf, wtodo, sent, cycle, overlap>>
-----------------------------------------------------------------------------
(* The Oboe thread: process() of the instrument, then memset.              *)

BeginProcess ==
  /\ ppc = "idle"
  /\ ppc' = "process" /\ ptodo' = Fields /\ seen' = Nothing
  /\ before' = <<before[2], IF writing THEN sent - 1 ELSE sent>>
  /\ overlap' = (overlap \/ writing)
  /\ UNCHANGED <<buf, writer, heard, fresh>>

(* The plugin reads the buffer.                                            *)
ReadField ==
  /\ ppc = "process"
  /\ \E f \in ptodo :
       /\ seen' = [seen EXCEPT ![f] = buf[f]]
       /\ ptodo' = ptodo \ {f}
  /\ UNCHANGED <<buf, writer, ppc, heard, before, fresh, overlap>>

(* The plugin takes it for a message if its length is not 0.               *)
EndProcess ==
  /\ ppc = "process" /\ ptodo = {}
  /\ heard' = heard \cup ({seen["length"]} \ {0})
  /\ ppc' = "clear" /\ ptodo' = Fields
  /\ UNCHANGED <<buf, writer, seen, before, fresh, overlap>>

ClearField ==
  /\ ppc = "clear"
  /\ \E f \in ptodo :
       /\ buf' = [buf EXCEPT ![f] = 0]
       /\ ptodo' = ptodo \ {f}
  /\ UNCHANGED <<writer, ppc, seen, heard, before, fresh, overlap>>

EndCycle ==
  /\ ppc = "clear" /\ ptodo = {}
  /\ ppc' = "idle" /\ fresh' = 0
  /\ UNCHANGED <<buf, writer, ptodo, seen, heard, before, overlap>>

CycleStep == ReadField \/ EndProcess \/ ClearField \/ EndCycle
-----------------------------------------------------------------------------
Next ==
  \/ BeginMessage \/ StoreField \/ EndMessage
  \/ BeginProcess
  \/ CycleStep

Spec == Init /\ [][Next]_vars

(* An active stream goes on to call back; nothing is assumed of MIDI.      *)
FairSpec == Spec /\ WF_vars(BeginProcess) /\ WF_vars(CycleStep)
-----------------------------------------------------------------------------
(* Types of the buffer, of the two threads and of the history.             *)
TypeOK ==
  /\ sent \in Nat
  /\ buf \in [Fields -> 0 .. sent] /\ seen \in [Fields -> 0 .. sent]
  /\ writing \in BOOLEAN /\ wtodo \in SUBSET Fields /\ (~writing => wtodo = {})
  /\ ppc \in {"idle", "process", "clear"} /\ ptodo \in SUBSET Fields
  /\ fresh \in 0 .. sent /\ overlap \in BOOLEAN
  /\ heard \in SUBSET (1 .. sent) /\ before \in Int \X Int

(* A message that was stored between two cycles, and not overwritten, is   *)
(* what the next process() sees, whole: nothing left of an earlier message *)
(* and nothing of memset is in it.                                         *)
UndisturbedIsHeard ==
  ppc = "clear" /\ fresh # 0 => \A f \in Fields : seen[f] = fresh

(* process() never takes a message twice, nor an older one after a newer   *)
(* one, however the stores and the memset interleave.                      *)
HeardOnceInOrder ==
  ppc = "process" /\ ptodo = {} /\ seen["length"] # 0 =>
    \A m \in heard : m < seen["length"]

(* While the stream runs a message that lies in the slot is heard, unless  *)
(* another one takes its place.                                            *)
FreshIsHeard ==
  \A m \in 1 .. MaxMessages : fresh = m ~> m \in heard \/ sent > m

(* "it ... can only handle one message per plugin process cycle"           *)
(* (README.md): a message that was the only one to be completed between    *)
(* the beginnings of two cycles is heard in one of them.                   *)
OneMessagePerCycle ==
  ppc = "clear" /\ before[2] = before[1] + 1 => before[2] \in heard
=============================================================================
