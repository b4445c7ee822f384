---------------------- MODULE AudioPluginMidiReceiver -----------------------
(***************************************************************************)
(* The service's side (AudioPluginMidiDeviceService.kt) together with the  *)
(* native processor it drives through JNI.                                 *)
(*                                                                         *)
(* Three handlers run one at a time, each to its end: the port was opened, *)
(* the port was closed, a plugin service was connected.  `pc` is the       *)
(* position in the handler.  The user, the MIDI client, Android's service  *)
(* connections, the Oboe thread and the MIDI thread act at any moment      *)
(* between two steps.                                                      *)
(***************************************************************************)
EXTENDS AAPMidiProcessor

CONSTANTS Services,      \* plugin services: package and class name
          ServiceOf,     \* the service of each plugin
          MaxOpens,      \* bound on how often the port is opened
          MaxReconnects  \* bound on how often Android reconnects a service

ASSUME ServiceAssumption == ServiceOf \in [Plugins -> Services]
ASSUME BoundsAssumption == MaxOpens \in Nat /\ MaxReconnects \in Nat

VARIABLES
  portOpen,        \* the input port is open
  closed,          \* AudioPluginMidiReceiver.closed
  pending,         \* pendingInstantiationList
  binds,           \* connections Android will still report, of any connector so far
  connected,       \* services some connector was connected to
  useMidi2,        \* model.useMidi2Protocol
  instrument,      \* model.instrument
  pc, conn, next,  \* the handler, its connection, its place in `pending`
  opens, reconnects

user == <<useMidi2, instrument>>
port == <<portOpen, closed, opens>>
services == <<binds, connected, reconnects>>
handler == <<conn, next>>
vars == <<native, user, port, services, handler, pending, pc>>

Init ==
  /\ NativeInit
  /\ portOpen = FALSE /\ closed = FALSE /\ pending = <<>>
  /\ binds = [s \in Services |-> 0] /\ connected = {}
  /\ useMidi2 \in BOOLEAN /\ instrument \in Plugins
  /\ pc = "idle" /\ conn \in Services /\ next = 1
  /\ opens = 0 /\ reconnects = 0

Positions == {"idle", "open_reset", "open_initialize", "open_setup",
              "conn_protocol", "conn_instantiate", "conn_activate",
              "close_deactivate", "close_terminate", "close_reset"}

At(p) == pc = p /\ Calling("none")
HandlerFree == At("idle")
-----------------------------------------------------------------------------
(* Plausible bugs in the code below; no action of Next uses them.          *)

(* close() that terminates without deactivating.                           *)
SkipDeactivate ==
  /\ At("close_deactivate")
  /\ pc' = "close_terminate"
  /\ UNCHANGED <<native, user, port, services, handler, pending>>

(* The handler that forgets activate().                                    *)
ForgetActivate ==
  /\ At("conn_instantiate") /\ next > Len(pending)
  /\ pc' = "idle"
  /\ UNCHANGED <<native, user, port, services, handler, pending>>
-----------------------------------------------------------------------------
(* onDeviceStatusChanged with the port open: initialize().                 *)

PortOpened ==
  /\ HandlerFree /\ ~portOpen /\ opens < MaxOpens
  /\ portOpen' = TRUE /\ opens' = opens + 1 /\ pc' = "open_reset"
  /\ UNCHANGED <<native, user, closed, services, handler, pending>>

OpenReset ==
  /\ At("open_reset")
  /\ ResetInstance
  /\ pc' = "open_initialize"
  /\ UNCHANGED <<user, port, services, handler, pending>>

OpenInitialize ==
  /\ At("open_initialize")
  /\ Initialize
  /\ pc' = "open_setup"
  /\ UNCHANGED <<user, port, services, handler, pending>>

(* The connector is new, so the service is not among its connectedServices. *)
SetupDefaultPlugins ==
  /\ At("open_setup")
  /\ pending' = Append(pending, instrument)
  /\ binds' = [binds EXCEPT ![ServiceOf[instrument]] = @ + 1]
  /\ pc' = "idle"
  /\ UNCHANGED <<native, user, port, connected, reconnects, handler>>

OpenStep == OpenReset \/ OpenInitialize \/ SetupDefaultPlugins
-----------------------------------------------------------------------------
(* The listener of serviceConnectedListeners.                              *)

ServiceConnected(s) ==
  /\ HandlerFree /\ binds[s] > 0
  /\ binds' = [binds EXCEPT ![s] = @ - 1]
  /\ connected' = connected \cup {s}
  /\ conn' = s /\ pc' = "conn_protocol"
  /\ UNCHANGED <<native, user, port, reconnects, next, pending>>

ConnProtocol ==
  /\ At("conn_protocol")
  /\ IF useMidi2 THEN SetMidiProtocol(MIDI2) ELSE UNCHANGED native
  /\ next' = 1 /\ pc' = "conn_instantiate"
  /\ UNCHANGED <<user, port, services, conn, pending>>

ConnInstantiate ==
  /\ At("conn_instantiate") /\ next <= Len(pending)
  /\ IF ServiceOf[pending[next]] = conn
       THEN InstantiatePlugin(pending[next]) ELSE UNCHANGED native
  /\ next' = next + 1
  /\ UNCHANGED <<user, port, services, conn, pending, pc>>

ConnInstantiated ==
  /\ At("conn_instantiate") /\ next > Len(pending)
  /\ pc' = "conn_activate"
  /\ UNCHANGED <<native, user, port, services, handler, pending>>

ConnActivate ==
  /\ At("conn_activate")
  /\ Activate
  /\ pc' = "idle"
  /\ UNCHANGED <<user, port, services, handler, pending>>

ConnStep == ConnProtocol \/ ConnInstantiate \/ ConnInstantiated \/ ConnActivate
-----------------------------------------------------------------------------
(* onDeviceStatusChanged with the port closed: close().                    *)

PortClosed ==
  /\ HandlerFree /\ portOpen
  /\ portOpen' = FALSE
  /\ pc' = IF closed THEN "idle" ELSE "close_deactivate"
  /\ UNCHANGED <<native, user, closed, opens, services, handler, pending>>

CloseDeactivate ==
  /\ At("close_deactivate")
  /\ Deactivate
  /\ pc' = "close_terminate"
  /\ UNCHANGED <<user, port, services, handler, pending>>

CloseTerminate ==
  /\ At("close_terminate")
  /\ Terminate
  /\ pc' = "close_reset"
  /\ UNCHANGED <<user, port, services, handler, pending>>

CloseReset ==
  /\ At("close_reset")
  /\ ResetInstance
  /\ closed' = TRUE /\ pc' = "idle"
  /\ UNCHANGED <<user, portOpen, opens, services, handler, pending>>

CloseStep == CloseDeactivate \/ CloseTerminate \/ CloseReset
-----------------------------------------------------------------------------
(* The rest of the world.                                                  *)

(* A service that died is connected again by Android.                      *)
Reconnect(s) ==
  /\ fault = "none" /\ s \in connected /\ reconnects < MaxReconnects
  /\ reconnects' = reconnects + 1
  /\ binds' = [binds EXCEPT ![s] = @ + 1]
  /\ UNCHANGED <<native, user, port, connected, handler, pending, pc>>

SelectInstrument(p) ==
  /\ fault = "none" /\ instrument' = p
  /\ UNCHANGED <<native, useMidi2, port, services, handler, pending, pc>>

ToggleMidi2 ==
  /\ fault = "none" /\ useMidi2' = ~useMidi2
  /\ UNCHANGED <<native, instrument, port, services, handler, pending, pc>>

(* The client has the port once the opening handler has returned.  A       *)
(* message it sent may still be in the MIDI thread when the port closes.   *)
OnSend ==
  /\ portOpen /\ pc \notin {"open_reset", "open_initialize", "open_setup"}
  /\ ProcessMidiInput
  /\ UNCHANGED <<user, port, services, handler, pending, pc>>
-----------------------------------------------------------------------------
Idle == UNCHANGED <<user, port, services, handler, pending, pc>>

HandlerStep == OpenStep \/ ConnStep \/ CloseStep \/ (ControlStep /\ Idle)
Connection == \E s \in Services : ServiceConnected(s)

Next ==
  \/ HandlerStep
  \/ Connection
  \/ PortOpened \/ PortClosed
  \/ \E s \in Services : Reconnect(s)
  \/ \E p \in Plugins : SelectInstrument(p)
  \/ ToggleMidi2
  \/ OnSend
  \/ (OnAudioReady \/ AudioStep) /\ Idle
  \/ MidiStep /\ Idle

Spec == Init /\ [][Next]_vars

(* The handlers' thread is scheduled, Android reports the connections it   *)
(* was asked for, and a callback that started goes on.                     *)
FairSpec ==
  /\ Spec
  /\ WF_vars(HandlerStep)
  /\ WF_vars(Connection)
  /\ WF_vars(AudioStep /\ Idle)
-----------------------------------------------------------------------------
(* Types of the processor, of the threads inside it and of the service.    *)
TypeOK ==
  /\ NativeTypeOK
  /\ portOpen \in BOOLEAN /\ closed \in BOOLEAN
  /\ pending \in Seq(Plugins) /\ next \in Nat \ {0}
  /\ binds \in [Services -> Nat] /\ connected \subseteq Services
  /\ useMidi2 \in BOOLEAN /\ instrument \in Plugins
  /\ pc \in Positions /\ conn \in Services
  /\ opens \in Nat /\ reconnects \in Nat

(* onAudioReady takes ACTIVE to mean that it may process: the stream, the  *)
(* ring, the host and every instance are then ready for it, except while   *)
(* deactivate() is undoing that.                                           *)
ActiveIsReady ==
  state = "ACTIVE" /\ call \notin {"deactivate", "close"} =>
    /\ stream \in {"open", "started"} /\ ring = "live" /\ host = "live" /\ mapped
    /\ \A i \in DOMAIN instances : instances[i].active

(* "It must be set before createInstance()": every instance was told the   *)
(* protocol that processMidiInput uses, whatever the user toggles and      *)
(* however often a service is connected.                                   *)
ProtocolAgreed == \A i \in DOMAIN instances : instances[i].protocol = midi_protocol

(* Unless an error made deactivate() return early, the ring and the port   *)
(* buffers are released only after the stream was closed and its callback  *)
(* has returned.                                                           *)
ReleasedOnlyWhenQuiet ==
  (ring = "freed" \/ ~mapped) /\ state # "ERROR" => stream = "none" /\ cb \in {"idle", "stale"}

(* callPluginProcess iterates over instance_data_list without a lock: the  *)
(* list does not change under it.                                          *)
ListStableInCallback ==
  [][cb = "process" /\ cb' = "process" => Len(instances') = Len(instances)]_vars

(* processMidiInput looks through instance_data_list and writes to a port  *)
(* buffer without a lock (AAPMidiProcessor.cpp:329, 393): with the port    *)
(* open, the list, the buffer and the processor are taken from under it    *)
(* only while the processor is CREATED, before its activation.  The        *)
(* exception is the third opening and those after it: the close() before   *)
(* them did nothing, and initialize() drops a processor that may be ACTIVE *)
(* and at work for a message.                                              *)
MidiThreadUndisturbed ==
  [][(midi # "stale" /\ midi' = "stale") \/ (midi = "writing" /\ fault # "midi" /\ fault' = "midi")
       => ~portOpen \/ state = "CREATED" \/ (pc = "open_reset" /\ opens > 2)]_vars

(* The handlers reach a null host only through a connection that is        *)
(* reported between the first close() and the next opening, the hazard of  *)
(* the FIXME in close(): no later one takes the host away, and initialize() *)
(* makes one before a connection can be reported.                          *)
ControlFaultOnlyAfterClose == fault = "control" => closed /\ ~portOpen /\ opens = 1

(* The processor implements the life cycle of AAPMidiProcessorState.       *)
Lifecycle == INSTANCE ProcessorLifecycle
               WITH plugins <- Len(instances), protocol <- midi_protocol
LifecycleSpec == Lifecycle!Spec

(* The port has been opened once, and no service has died.                 *)
FirstSession == opens <= 1 /\ reconnects = 0

(* The Oboe thread never uses what the handlers have released, from the    *)
(* opening of the port to its closing and up to the next opening.          *)
CallbackNeverFaults == FirstSession => fault # "audio"

(* A processor is dropped only with its stream closed and its ring freed.  *)
NothingDropped ==
  [][FirstSession /\ ring # "none" /\ ring' = "none" => ring = "freed" /\ stream = "none"]_vars

(* A port that was opened and stays open gets an active processor, unless  *)
(* a thread crashed on the way.                                            *)
Activates == portOpen ~> state = "ACTIVE" \/ ~portOpen \/ fault # "none"

(* close() returns, although closing the stream waits for the callback.    *)
Closes == pc = "close_deactivate" ~> (closed /\ HandlerFree) \/ fault # "none"

(* "Deactivate audio processing. CPU-intensive operations stop here."      *)
(* (AAPMidiProcessor.cpp): process() is not called on an instance that was *)
(* deactivated.                                                            *)
ProcessOnlyActive ==
  cb = "process" /\ cbIdx \in DOMAIN instances => instances[cbIdx].active

(* "Instrument instance %s is already assigned." (AAPMidiProcessor.cpp):   *)
(* there is at most one instrument.                                        *)
OneInstrument ==
  \A i, j \in DOMAIN instances :
    instances[i].plugin \in Instruments /\ instances[j].plugin \in Instruments => i = j
=============================================================================
