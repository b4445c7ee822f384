-------------------------- MODULE AAPMidiProcessor --------------------------
(***************************************************************************)
(* The native processor (AAPMidiProcessor.cpp) and the three threads that  *)
(* enter it: the thread of the service's handlers, which calls the control *)
(* methods; the Oboe thread, which runs onAudioReady; and the MIDI thread, *)
(* which runs processMidiInput.  Nothing in the code synchronizes them.    *)
(*                                                                         *)
(* A control method is a sequence of steps where it changes what another   *)
(* thread looks at; `call` is the position inside it.  The variables are   *)
(* those of the processor that getInstance() returns.  A thread that was   *)
(* inside a processor when it was destroyed is "stale".                    *)
(*                                                                         *)
(* The first use of a null host, of a freed ring, of an unmapped port      *)
(* buffer or of a destroyed processor is undefined behaviour: it sets      *)
(* `fault` to the thread that did it and ends the behaviour.               *)
(***************************************************************************)
EXTENDS Naturals, Sequences

CONSTANTS Plugins,        \* plugin ids
          Instruments,    \* those that isInstrument()
          StreamMayFail   \* openStream and requestStart may fail

ASSUME InstrumentsAssumption == Instruments \subseteq Plugins
ASSUME StreamAssumption == StreamMayFail \in BOOLEAN

VARIABLES
  state, host, instances, instrument_instance_id, midi_protocol,
  ring, mapped, stream,    \* aap_input_ring_buffer, the port buffers, the Oboe stream
  call, idx,               \* the control method in progress
  cb, cbIdx,               \* onAudioReady in progress
  midi,                    \* processMidiInput in progress
  fault

proc == <<state, host, instances, instrument_instance_id, midi_protocol>>
res == <<ring, mapped, stream>>
ctl == <<call, idx>>
audio == <<cb, cbIdx>>
native == <<proc, res, ctl, audio, midi, fault>>

MIDI1 == 1      \* CMIDI2_PROTOCOL_TYPE_MIDI1
MIDI2 == 2      \* CMIDI2_PROTOCOL_TYPE_MIDI2

States == {"CREATED", "ACTIVE", "INACTIVE", "STOPPED", "ERROR"}
Instances == [plugin : Plugins, protocol : {MIDI1, MIDI2}, active : BOOLEAN]
Calls == {"none", "start", "activate", "deactivate", "close", "free", "reset"}

(* The host numbers its instances from 0: activate() and deactivate()      *)
(* enumerate 0 .. getInstanceCount() - 1.                                  *)
NextId == Len(instances)
Ids == 0 .. Len(instances) - 1

NativeInit ==
  /\ state = "CREATED" /\ host = "null" /\ instances = <<>>
  /\ instrument_instance_id = 0 /\ midi_protocol = MIDI1
  /\ ring = "none" /\ mapped = TRUE /\ stream = "none"
  /\ call = "none" /\ idx = 1
  /\ cb = "idle" /\ cbIdx = 1 /\ midi = "idle" /\ fault = "none"

(* Positions of the three threads in a program that has not crashed.       *)
Calling(c) == fault = "none" /\ call = c
Callback(c) == fault = "none" /\ cb = c
Midi(m) == fault = "none" /\ midi = m

Crash(thread) ==
  /\ fault' = thread
  /\ UNCHANGED <<proc, res, ctl, audio, midi>>
-----------------------------------------------------------------------------
(* Plausible bugs in the code below; no action of Next uses them.          *)

(* setMidiProtocol without its check of the state.                         *)
SetMidiProtocolAnytime(p) ==
  /\ midi_protocol' = p
  /\ UNCHANGED <<state, host, instances, instrument_instance_id, res, ctl, audio, midi, fault>>

(* activate() that reports ACTIVE before the instances are.                *)
ActiveTooEarly ==
  /\ Calling("start")
  /\ stream' = "started" /\ call' = "activate" /\ idx' = 1 /\ state' = "ACTIVE"
  /\ UNCHANGED <<host, instances, instrument_instance_id, midi_protocol, ring, mapped, audio, midi, fault>>

(* deactivate() that closes the stream without waiting for the callback.   *)
CloseAtOnce ==
  /\ Calling("close")
  /\ stream' = "none" /\ state' = "INACTIVE" /\ call' = "none"
  /\ UNCHANGED <<host, instances, instrument_instance_id, midi_protocol, ring, mapped, idx, audio, midi, fault>>

(* instantiatePlugin without its check of the state.                       *)
MayInstantiateAnytime == TRUE

(* terminate() that forgets zix_ring_free.                                 *)
KeepRing ==
  /\ Calling("free")
  /\ call' = "reset"
  /\ UNCHANGED <<proc, res, idx, audio, midi, fault>>

(* initialize() that forgets to make the plugin host.                      *)
InitializeWithoutHost ==
  /\ Calling("none")
  /\ ring' = "live"
  /\ UNCHANGED <<proc, mapped, stream, ctl, audio, midi, fault>>

(* activate() without its check of the state.                              *)
MayActivateAnytime == TRUE

(* The loop over the instances started one too low.                        *)
LoopFromZero ==
  /\ Calling("start")
  /\ stream' = "started" /\ call' = "activate" /\ idx' = 0
  /\ UNCHANGED <<proc, ring, mapped, audio, midi, fault>>

(* A callback that waits for data although the stream is being stopped.    *)
ReadWaits ==
  /\ Callback("read") /\ ring = "live" /\ stream = "started"
  /\ cb' = "idle"
  /\ UNCHANGED <<proc, res, ctl, cbIdx, midi, fault>>
-----------------------------------------------------------------------------
(* Control methods.                                                        *)

(* resetInstance destroys the old processor.  A stream it still had is not *)
(* stopped; Oboe may or may not call its callback once more.               *)
ResetInstance ==
  /\ Calling("none")
  /\ state' = "CREATED" /\ host' = "null" /\ instances' = <<>>
  /\ instrument_instance_id' = 0 /\ midi_protocol' = MIDI1
  /\ ring' = "none" /\ mapped' = TRUE /\ stream' = "none"
  /\ cb' \in IF cb # "idle" THEN {"stale"}
             ELSE IF stream = "started" THEN {"idle", "stale"} ELSE {"idle"}
  /\ midi' = IF midi = "idle" THEN "idle" ELSE "stale"
  /\ UNCHANGED <<ctl, cbIdx, fault>>

Initialize ==
  /\ Calling("none")
  /\ host' = "live" /\ ring' = "live"
  /\ UNCHANGED <<state, instances, instrument_instance_id, midi_protocol, mapped, stream,
                 ctl, audio, midi, fault>>

(* The early returns of the control methods.                               *)
Refuse ==
  /\ state' = "ERROR"
  /\ UNCHANGED <<host, instances, instrument_instance_id, midi_protocol, res, ctl, audio, midi, fault>>

SetMidiProtocol(p) ==
  \/ /\ Calling("none") /\ state = "CREATED"
     /\ midi_protocol' = p
     /\ UNCHANGED <<state, host, instances, instrument_instance_id, res, ctl, audio, midi, fault>>
  \/ Calling("none") /\ state # "CREATED" /\ Refuse

MayInstantiate == state = "CREATED"

InstrumentTaken(p) == p \in Instruments /\ instrument_instance_id # 0

(* emplace_back may move the array under an iteration of the MIDI thread.  *)
CreateInstance(p) ==
  /\ instances' = Append(instances, [plugin |-> p, protocol |-> midi_protocol, active |-> FALSE])
  /\ instrument_instance_id' = IF p \in Instruments THEN NextId ELSE instrument_instance_id
  /\ midi' \in IF midi = "iterating" THEN {"iterating", "stale"} ELSE {midi}
  /\ UNCHANGED <<state, host, midi_protocol, res, ctl, audio, fault>>

InstantiatePlugin(p) ==
  /\ Calling("none")
  /\ \/ ~MayInstantiate /\ Refuse
     \/ MayInstantiate /\ InstrumentTaken(p) /\ Refuse
     \/ MayInstantiate /\ ~InstrumentTaken(p) /\ host = "null" /\ Crash("control")
     \/ MayInstantiate /\ ~InstrumentTaken(p) /\ host = "live" /\ CreateInstance(p)

MayActivate == state \in {"CREATED", "INACTIVE"}

Activate ==
  /\ Calling("none")
  /\ \/ ~MayActivate /\ Refuse
     \/ MayActivate /\ StreamMayFail /\ Refuse
     \/ /\ MayActivate
        /\ stream' = "open" /\ call' = "start"
        /\ UNCHANGED <<proc, ring, mapped, idx, audio, midi, fault>>

(* The result of requestStart() is not looked at.                          *)
RequestStart ==
  /\ Calling("start")
  /\ stream' \in {"started"} \cup (IF StreamMayFail THEN {"open"} ELSE {})
  /\ call' = "activate" /\ idx' = 1
  /\ UNCHANGED <<proc, ring, mapped, audio, midi, fault>>

SetActive(a) ==
  /\ idx <= Len(instances)
  /\ instances' = [instances EXCEPT ![idx].active = a]
  /\ idx' = idx + 1
  /\ UNCHANGED <<state, host, instrument_instance_id, midi_protocol, res, call, audio, midi, fault>>

ActivateInstance ==
  /\ Calling("activate")
  /\ \/ host = "null" /\ Crash("control")
     \/ host = "live" /\ SetActive(TRUE)

Activated ==
  /\ Calling("activate") /\ host = "live" /\ idx > Len(instances)
  /\ state' = "ACTIVE" /\ call' = "none"
  /\ UNCHANGED <<host, instances, instrument_instance_id, midi_protocol, res, idx, audio, midi, fault>>

Deactivate ==
  /\ Calling("none")
  /\ \/ state # "ACTIVE" /\ Refuse
     \/ /\ state = "ACTIVE"
        /\ call' = "deactivate" /\ idx' = 1
        /\ UNCHANGED <<proc, res, audio, midi, fault>>

DeactivateInstance == Calling("deactivate") /\ SetActive(FALSE)

(* No callback starts after stop().                                        *)
StopStream ==
  /\ Calling("deactivate") /\ idx > Len(instances)
  /\ stream' = "stopped" /\ call' = "close"
  /\ UNCHANGED <<proc, ring, mapped, idx, audio, midi, fault>>

(* close() returns when no callback of the stream is running.              *)
CloseStream ==
  /\ Calling("close") /\ cb \in {"idle", "stale"}
  /\ stream' = "none" /\ state' = "INACTIVE" /\ call' = "none"
  /\ UNCHANGED <<host, instances, instrument_instance_id, midi_protocol, ring, mapped, idx, audio, midi, fault>>

(* terminate(): munmap, zix_ring_free, host.reset().                       *)
Terminate ==
  /\ Calling("none")
  /\ mapped' = FALSE /\ call' = "free"
  /\ UNCHANGED <<proc, ring, stream, idx, audio, midi, fault>>

FreeRing ==
  /\ Calling("free")
  /\ ring' = "freed" /\ call' = "reset"
  /\ UNCHANGED <<proc, mapped, stream, idx, audio, midi, fault>>

ResetHost ==
  /\ Calling("reset")
  /\ host' = "null" /\ call' = "none"
  /\ UNCHANGED <<state, instances, instrument_instance_id, midi_protocol, res, idx, audio, midi, fault>>

ControlStep ==
  \/ RequestStart \/ ActivateInstance \/ Activated
  \/ DeactivateInstance \/ StopStream \/ CloseStream
  \/ FreeRing \/ ResetHost
-----------------------------------------------------------------------------
(* The Oboe thread.  Whether the ring starves is decided in AudioPipeline; *)
(* here both happen.                                                       *)

OnAudioReady ==
  /\ Callback("idle") /\ stream = "started" /\ state = "ACTIVE"
  /\ \/ ring # "live" /\ Crash("audio")
     \/ /\ ring = "live"
        /\ cb' \in {"process", "read"} /\ cbIdx' = 1
        /\ UNCHANGED <<proc, res, ctl, midi, fault>>

CallPluginProcess ==
  /\ Callback("process") /\ cbIdx <= Len(instances)
  /\ \/ (host = "null" \/ ~mapped) /\ Crash("audio")
     \/ /\ host = "live" /\ mapped
        /\ cbIdx' = cbIdx + 1
        /\ UNCHANGED <<proc, res, ctl, cb, midi, fault>>

(* fillAudioOutput copies from the port buffers and writes to the ring.    *)
FillAudioOutput ==
  /\ Callback("process") /\ cbIdx > Len(instances)
  /\ \/ (ring # "live" \/ (~mapped /\ instances # <<>>)) /\ Crash("audio")
     \/ /\ ring = "live" /\ (mapped \/ instances = <<>>)
        /\ cb' = "read"
        /\ UNCHANGED <<proc, res, ctl, cbIdx, midi, fault>>

ReadRing ==
  /\ Callback("read")
  /\ \/ ring # "live" /\ Crash("audio")
     \/ /\ ring = "live"
        /\ cb' = "idle"
        /\ UNCHANGED <<proc, res, ctl, cbIdx, midi, fault>>

StaleCallback == Callback("stale") /\ Crash("audio")

AudioStep == CallPluginProcess \/ FillAudioOutput \/ ReadRing \/ StaleCallback
-----------------------------------------------------------------------------
(* The MIDI thread.                                                        *)

ProcessMidiInput ==
  /\ Midi("idle")
  /\ midi' = "iterating"
  /\ UNCHANGED <<proc, res, ctl, audio, fault>>

(* getAAPMidiInputBuffer looks for the instance with the instrument's id.  *)
GetMidiInputBuffer ==
  /\ Midi("iterating")
  /\ midi' = IF instrument_instance_id \in Ids THEN "writing" ELSE "idle"
  /\ UNCHANGED <<proc, res, ctl, audio, fault>>

WriteMidiInput ==
  /\ Midi("writing")
  /\ \/ ~mapped /\ Crash("midi")
     \/ mapped /\ midi' = "idle" /\ UNCHANGED <<proc, res, ctl, audio, fault>>

StaleMidi == Midi("stale") /\ Crash("midi")

MidiStep == GetMidiInputBuffer \/ WriteMidiInput \/ StaleMidi
-----------------------------------------------------------------------------
NativeTypeOK ==
  /\ state \in States /\ host \in {"null", "live"} /\ instances \in Seq(Instances)
  /\ instrument_instance_id \in Nat /\ midi_protocol \in {MIDI1, MIDI2}
  /\ ring \in {"none", "live", "freed"} /\ mapped \in BOOLEAN
  /\ stream \in {"none", "open", "started", "stopped"}
  /\ call \in Calls /\ idx \in Nat \ {0} /\ cbIdx \in Nat \ {0}
  /\ cb \in {"idle", "process", "read", "stale"}
  /\ midi \in {"idle", "iterating", "writing", "stale"}
  /\ fault \in {"none", "control", "audio", "midi"}
=============================================================================
