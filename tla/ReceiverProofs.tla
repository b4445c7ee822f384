--------------------------- MODULE ReceiverProofs ---------------------------
(***************************************************************************)
(* The life cycle of the processor as the service's handlers drive it, for *)
(* any plugins and services and for any number of openings, connections    *)
(* and reconnections, with streams that may fail.                          *)
(***************************************************************************)
EXTENDS AudioPluginMidiReceiver, SequenceTheorems, TLAPS

LEMMA InstanceLists ==
  ASSUME NEW s \in Seq(Instances)
  PROVE  /\ Len(s) \in Nat
         /\ \A r \in Instances : /\ Append(s, r) \in Seq(Instances)
                                 /\ Len(Append(s, r)) = Len(s) + 1
         /\ \A i \in 1 .. Len(s), a \in BOOLEAN :
              /\ [s EXCEPT ![i].active = a] \in Seq(Instances)
              /\ Len([s EXCEPT ![i].active = a]) = Len(s)
<1>1. Len(s) \in Nat
  OBVIOUS
<1>2. ASSUME NEW r \in Instances
      PROVE  Append(s, r) \in Seq(Instances) /\ Len(Append(s, r)) = Len(s) + 1
  OBVIOUS
<1>3. ASSUME NEW i \in 1 .. Len(s), NEW a \in BOOLEAN
      PROVE  /\ [s EXCEPT ![i].active = a] \in Seq(Instances)
             /\ Len([s EXCEPT ![i].active = a]) = Len(s)
  <2>1. s[i] \in Instances
    OBVIOUS
  <2>2. [s[i] EXCEPT !.active = a] \in Instances
    BY <2>1 DEF Instances
  <2>3. [s EXCEPT ![i].active = a] = [s EXCEPT ![i] = [s[i] EXCEPT !.active = a]]
    OBVIOUS
  <2> QED BY <2>2, <2>3, ExceptSeq
<1> QED BY <1>1, <1>2, <1>3
-----------------------------------------------------------------------------
(* Types.                                                                  *)

LEMMA TypeInit == Init => TypeOK
<1> SUFFICES ASSUME Init PROVE TypeOK
  OBVIOUS
<1>1. NativeTypeOK
  BY DEF Init, NativeInit, NativeTypeOK, States, Calls, MIDI1, MIDI2
<1>2. portOpen \in BOOLEAN /\ closed \in BOOLEAN /\ useMidi2 \in BOOLEAN
  BY Zenon DEF Init
<1>3. /\ pending \in Seq(Plugins) /\ next \in Nat \ {0}
      /\ binds \in [Services -> Nat] /\ connected \subseteq Services
      /\ instrument \in Plugins /\ pc \in Positions /\ conn \in Services
      /\ opens \in Nat /\ reconnects \in Nat
  BY DEF Init, Positions
<1> QED BY <1>1, <1>2, <1>3 DEF TypeOK

LEMMA RefuseTypes == NativeTypeOK /\ Refuse => NativeTypeOK'
BY DEF Refuse, NativeTypeOK, States, res, ctl, audio

LEMMA CrashTypes ==
  ASSUME NativeTypeOK, NEW t \in {"control", "audio", "midi"}, Crash(t)
  PROVE  NativeTypeOK'
BY DEF Crash, NativeTypeOK, proc, res, ctl, audio

LEMMA ResetTypes == NativeTypeOK /\ ResetInstance => NativeTypeOK'
BY DEF ResetInstance, NativeTypeOK, States, ctl, MIDI1

LEMMA InitializeTypes == NativeTypeOK /\ Initialize => NativeTypeOK'
BY DEF Initialize, NativeTypeOK, ctl, audio

LEMMA ProtocolTypes == NativeTypeOK /\ SetMidiProtocol(MIDI2) => NativeTypeOK'
BY RefuseTypes DEF SetMidiProtocol, NativeTypeOK, res, ctl, audio

LEMMA InstantiateTypes ==
  ASSUME NativeTypeOK, NEW p \in Plugins, InstantiatePlugin(p)
  PROVE  NativeTypeOK'
<1>1. ASSUME CreateInstance(p) PROVE NativeTypeOK'
  <2>1. [plugin |-> p, protocol |-> midi_protocol, active |-> FALSE] \in Instances
    BY DEF NativeTypeOK, Instances
  <2>2. instances' \in Seq(Instances) /\ Len(instances) \in Nat
    BY <1>1, <2>1, InstanceLists DEF CreateInstance, NativeTypeOK
  <2>3. midi' \in {midi, "stale"}
    BY <1>1 DEF CreateInstance
  <2> QED
    BY <1>1, <2>2, <2>3 DEF CreateInstance, NativeTypeOK, NextId, res, ctl, audio
<1> QED BY <1>1, RefuseTypes, CrashTypes DEF InstantiatePlugin

LEMMA ActivateTypes == NativeTypeOK /\ Activate => NativeTypeOK'
BY RefuseTypes DEF Activate, NativeTypeOK, Calls, proc, audio

LEMMA DeactivateTypes == NativeTypeOK /\ Deactivate => NativeTypeOK'
BY RefuseTypes DEF Deactivate, NativeTypeOK, Calls, proc, res, audio

LEMMA TerminateTypes == NativeTypeOK /\ Terminate => NativeTypeOK'
BY DEF Terminate, NativeTypeOK, Calls, proc, audio

LEMMA SetActiveTypes ==
  ASSUME NativeTypeOK, NEW a \in BOOLEAN, SetActive(a)
  PROVE  NativeTypeOK'
<1>1. idx \in 1 .. Len(instances)
  BY InstanceLists DEF SetActive, NativeTypeOK
<1>2. instances' \in Seq(Instances)
  BY <1>1, InstanceLists DEF SetActive, NativeTypeOK
<1> QED BY <1>2 DEF SetActive, NativeTypeOK, res, audio

LEMMA ControlTypes == NativeTypeOK /\ ControlStep => NativeTypeOK'
<1> SUFFICES ASSUME NativeTypeOK, ControlStep PROVE NativeTypeOK'
  OBVIOUS
<1>1. CASE RequestStart
  BY <1>1 DEF RequestStart, NativeTypeOK, Calls, proc, audio
<1>2. CASE ActivateInstance
  BY <1>2, CrashTypes, SetActiveTypes DEF ActivateInstance
<1>3. CASE Activated
  BY <1>3 DEF Activated, NativeTypeOK, States, Calls, res, audio
<1>4. CASE DeactivateInstance
  BY <1>4, SetActiveTypes DEF DeactivateInstance
<1>5. CASE StopStream
  BY <1>5 DEF StopStream, NativeTypeOK, Calls, proc, audio
<1>6. CASE CloseStream
  BY <1>6 DEF CloseStream, NativeTypeOK, States, Calls, audio
<1>7. CASE FreeRing
  BY <1>7 DEF FreeRing, NativeTypeOK, Calls, proc, audio
<1>8. CASE ResetHost
  BY <1>8 DEF ResetHost, NativeTypeOK, Calls, res, audio
<1> QED BY <1>1, <1>2, <1>3, <1>4, <1>5, <1>6, <1>7, <1>8 DEF ControlStep

LEMMA ThreadTypes ==
  NativeTypeOK /\ (OnAudioReady \/ AudioStep \/ ProcessMidiInput \/ MidiStep) => NativeTypeOK'
<1> SUFFICES ASSUME NativeTypeOK, OnAudioReady \/ AudioStep \/ ProcessMidiInput \/ MidiStep
             PROVE  NativeTypeOK'
  OBVIOUS
<1>1. CASE OnAudioReady
  BY <1>1, CrashTypes DEF OnAudioReady, NativeTypeOK, proc, res, ctl
<1>2. CASE CallPluginProcess
  BY <1>2, CrashTypes DEF CallPluginProcess, NativeTypeOK, proc, res, ctl
<1>3. CASE FillAudioOutput
  BY <1>3, CrashTypes DEF FillAudioOutput, NativeTypeOK, proc, res, ctl
<1>4. CASE ReadRing
  BY <1>4, CrashTypes DEF ReadRing, NativeTypeOK, proc, res, ctl
<1>5. CASE StaleCallback
  BY <1>5, CrashTypes DEF StaleCallback
<1>6. CASE ProcessMidiInput
  BY <1>6 DEF ProcessMidiInput, NativeTypeOK, proc, res, ctl, audio
<1>7. CASE GetMidiInputBuffer
  BY <1>7 DEF GetMidiInputBuffer, NativeTypeOK, proc, res, ctl, audio
<1>8. CASE WriteMidiInput
  BY <1>8, CrashTypes DEF WriteMidiInput, NativeTypeOK, proc, res, ctl, audio
<1>9. CASE StaleMidi
  BY <1>9, CrashTypes DEF StaleMidi
<1> QED
  BY <1>1, <1>2, <1>3, <1>4, <1>5, <1>6, <1>7, <1>8, <1>9 DEF AudioStep, MidiStep

(* The variables of the service and the processor's are changed together;  *)
(* the two halves of TypeOK are proved apart.                              *)
ServiceTypeOK ==
  /\ portOpen \in BOOLEAN /\ closed \in BOOLEAN
  /\ pending \in Seq(Plugins) /\ next \in Nat \ {0}
  /\ binds \in [Services -> Nat] /\ connected \subseteq Services
  /\ useMidi2 \in BOOLEAN /\ instrument \in Plugins
  /\ pc \in Positions /\ conn \in Services
  /\ opens \in Nat /\ reconnects \in Nat

LEMMA NativeUnchanged == NativeTypeOK /\ UNCHANGED native => NativeTypeOK'
BY DEF native, NativeTypeOK, proc, res, ctl, audio

LEMMA IdleTypes == ServiceTypeOK /\ Idle => ServiceTypeOK'
BY DEF Idle, ServiceTypeOK, user, port, services, handler

LEMMA TypeStep == TypeOK /\ [Next]_vars => TypeOK'
<1> SUFFICES ASSUME NativeTypeOK, ServiceTypeOK, [Next]_vars
             PROVE  NativeTypeOK' /\ ServiceTypeOK'
  BY DEF TypeOK, ServiceTypeOK
<1> USE DEF ServiceTypeOK, user, port, services, handler
<1>1. CASE OpenReset
  BY <1>1, ResetTypes DEF OpenReset, Positions
<1>2. CASE OpenInitialize
  BY <1>2, InitializeTypes DEF OpenInitialize, Positions
<1>3. CASE SetupDefaultPlugins
  <2>1. ServiceOf[instrument] \in Services
    BY ServiceAssumption
  <2>2. binds' \in [Services -> Nat] /\ pending' \in Seq(Plugins)
    BY <1>3, <2>1 DEF SetupDefaultPlugins
  <2> QED BY <1>3, <2>2, NativeUnchanged DEF SetupDefaultPlugins, Positions
<1>4. CASE ConnProtocol
  BY <1>4, ProtocolTypes, NativeUnchanged DEF ConnProtocol, Positions
<1>5. CASE ConnInstantiate
  <2>1. pending[next] \in Plugins
    BY <1>5 DEF ConnInstantiate
  <2>2. NativeTypeOK'
    BY <1>5, <2>1, InstantiateTypes, NativeUnchanged DEF ConnInstantiate
  <2> QED BY <1>5, <2>2 DEF ConnInstantiate
<1>6. CASE ConnInstantiated
  BY <1>6, NativeUnchanged DEF ConnInstantiated, Positions
<1>7. CASE ConnActivate
  BY <1>7, ActivateTypes DEF ConnActivate, Positions
<1>8. CASE CloseDeactivate
  BY <1>8, DeactivateTypes DEF CloseDeactivate, Positions
<1>9. CASE CloseTerminate
  BY <1>9, TerminateTypes DEF CloseTerminate, Positions
<1>10. CASE CloseReset
  <2>1. closed' \in BOOLEAN
    BY <1>10, Zenon DEF CloseReset
  <2> QED BY <1>10, <2>1, ResetTypes DEF CloseReset, Positions
<1>11. CASE ControlStep /\ Idle
  BY <1>11, ControlTypes, IdleTypes
<1>12. ASSUME NEW s \in Services, ServiceConnected(s)
       PROVE NativeTypeOK' /\ ServiceTypeOK'
  <2>1. binds[s] - 1 \in Nat
    BY <1>12 DEF ServiceConnected
  <2>2. binds' \in [Services -> Nat]
    BY <1>12, <2>1 DEF ServiceConnected
  <2> QED BY <1>12, <2>2, NativeUnchanged DEF ServiceConnected, Positions
<1>13. CASE PortOpened
  <2>1. portOpen' \in BOOLEAN
    BY <1>13, Zenon DEF PortOpened
  <2> QED BY <1>13, <2>1, NativeUnchanged DEF PortOpened, Positions
<1>14. CASE PortClosed
  <2>1. portOpen' \in BOOLEAN
    BY <1>14, Zenon DEF PortClosed
  <2> QED BY <1>14, <2>1, NativeUnchanged DEF PortClosed, Positions
<1>15. ASSUME NEW s \in Services, Reconnect(s)
       PROVE NativeTypeOK' /\ ServiceTypeOK'
  BY <1>15, NativeUnchanged DEF Reconnect
<1>16. ASSUME NEW p \in Plugins, SelectInstrument(p)
       PROVE NativeTypeOK' /\ ServiceTypeOK'
  BY <1>16, NativeUnchanged DEF SelectInstrument
<1>17. CASE ToggleMidi2
  <2>1. useMidi2' \in BOOLEAN
    BY <1>17, Zenon DEF ToggleMidi2
  <2> QED BY <1>17, <2>1, NativeUnchanged DEF ToggleMidi2
<1>18. CASE OnSend
  BY <1>18, ThreadTypes DEF OnSend
<1>19. CASE (OnAudioReady \/ AudioStep) /\ Idle
  BY <1>19, ThreadTypes, IdleTypes
<1>20. CASE MidiStep /\ Idle
  BY <1>20, ThreadTypes, IdleTypes
<1>21. CASE UNCHANGED vars
  BY <1>21, NativeUnchanged DEF vars
<1> QED
  BY <1>1, <1>2, <1>3, <1>4, <1>5, <1>6, <1>7, <1>8, <1>9, <1>10, <1>11, <1>12,
     <1>13, <1>14, <1>15, <1>16, <1>17, <1>18, <1>19, <1>20, <1>21
  DEF Next, HandlerStep, OpenStep, ConnStep, CloseStep, Connection

(* Every variable of the processor and of the service keeps its type, in   *)
(* every interleaving of the handlers and the two other threads.           *)
THEOREM TypeCorrect == Spec => []TypeOK
<1> QED BY TypeInit, TypeStep, PTL DEF Spec
-----------------------------------------------------------------------------
(***************************************************************************)
(* The inductive invariant: what each position of the handlers and of the  *)
(* control methods knows about the processor.                              *)
(***************************************************************************)
Quiet == cb \in {"idle", "stale"}

CallsInHandlers ==
  /\ call \in {"start", "activate"} => pc = "idle" /\ state = "CREATED"
  /\ call \in {"deactivate", "close"} => pc = "close_terminate" /\ state = "ACTIVE"
  /\ call \in {"free", "reset"} => pc = "close_reset"

StatesInHandlers ==
  /\ pc = "close_terminate" /\ call = "none" => state \in {"INACTIVE", "ERROR"}
  /\ pc = "close_reset" => state \in {"INACTIVE", "ERROR"}
  /\ state = "INACTIVE" =>
       pc \in {"close_terminate", "close_reset"} /\ stream = "none" /\ Quiet
  /\ ~Quiet => state \in {"ACTIVE", "ERROR"}

Resources ==
  /\ ring = "freed" \/ ~mapped => pc = "close_reset"
  /\ host = "live" => ring # "none"

(* activate() half-way: the instances before idx are active.               *)
Activating ==
  /\ call = "start" => stream = "open"
  /\ call = "activate" =>
       /\ stream \in {"open", "started"}
       /\ \A i \in DOMAIN instances : i < idx => instances[i].active

(* A processor with plugins is on its way to activate().                   *)
ProtocolFirst ==
  state = "CREATED" /\ instances # <<>> =>
    pc \in {"conn_instantiate", "conn_activate"} \/ call \in {"start", "activate"}

(* Before the first close() the host is missing only while the port is     *)
(* being opened, or before it was opened at all.                           *)
HostThere ==
  ~closed /\ host = "null" =>
    \/ pc \in {"open_reset", "open_initialize", "close_reset"}
    \/ /\ pc = "idle" /\ call = "none" /\ ~portOpen
       /\ connected = {} /\ \A s \in Services : binds[s] = 0

SafetyInv ==
  /\ CallsInHandlers /\ StatesInHandlers /\ Resources /\ Activating /\ ActiveIsReady
  /\ ProtocolFirst /\ ProtocolAgreed /\ HostThere

LEMMA SafetyInit == Init => SafetyInv
<1> SUFFICES ASSUME Init PROVE SafetyInv
  OBVIOUS
<1>1. /\ call = "none" /\ pc = "idle" /\ state = "CREATED" /\ cb = "idle"
      /\ ring = "none" /\ mapped /\ host = "null" /\ instances = <<>> /\ fault = "none"
      /\ ~portOpen /\ connected = {} /\ \A s \in Services : binds[s] = 0
  BY Zenon DEF Init, NativeInit
<1> QED
  BY <1>1 DEF SafetyInv, CallsInHandlers, StatesInHandlers, Quiet, Resources, Activating,
    ActiveIsReady, ProtocolFirst, ProtocolAgreed, HostThere

LEMMA SetActiveEffect ==
  ASSUME NativeTypeOK, NEW a \in BOOLEAN, SetActive(a)
  PROVE  /\ DOMAIN instances' = DOMAIN instances /\ idx \in DOMAIN instances
         /\ \A i \in DOMAIN instances :
              /\ instances'[i].protocol = instances[i].protocol
              /\ instances'[i].active = IF i = idx THEN a ELSE instances[i].active
<1>1. idx \in DOMAIN instances
  BY DEF SetActive, NativeTypeOK
<1>2. instances' = [instances EXCEPT ![idx].active = a]
  BY DEF SetActive
<1>3. \A i \in DOMAIN instances : instances[i] \in Instances
  BY DEF NativeTypeOK
<1> QED BY <1>1, <1>2, <1>3 DEF Instances

LEMMA CreateInstanceEffect ==
  ASSUME NativeTypeOK, NEW p \in Plugins, CreateInstance(p)
  PROVE  /\ DOMAIN instances' = DOMAIN instances \cup {Len(instances) + 1}
         /\ \A i \in DOMAIN instances : instances'[i] = instances[i]
         /\ instances'[Len(instances) + 1].protocol = midi_protocol
<1> DEFINE new == [plugin |-> p, protocol |-> midi_protocol, active |-> FALSE]
<1>1. new \in Instances
  BY DEF NativeTypeOK, Instances
<1>2. instances \in Seq(Instances) /\ instances' = Append(instances, new)
  BY DEF NativeTypeOK, CreateInstance
<1>3. new.protocol = midi_protocol
  OBVIOUS
<1> HIDE DEF new
<1> QED BY <1>1, <1>2, <1>3

LEMMA SafetyStep == TypeOK /\ SafetyInv /\ [Next]_vars => SafetyInv'
<1> SUFFICES ASSUME TypeOK, SafetyInv, [Next]_vars PROVE SafetyInv'
  OBVIOUS
<1> USE DEF SafetyInv, CallsInHandlers, StatesInHandlers, Quiet, Resources, Activating,
      ActiveIsReady, ProtocolFirst, ProtocolAgreed, HostThere,
      proc, res, ctl, audio, native, user, port, services, handler, At, HandlerFree,
      Calling, Callback, Midi, Idle, Refuse, Crash
<1>1. CASE OpenReset
  BY <1>1 DEF OpenReset, ResetInstance
<1>2. CASE OpenInitialize
  BY <1>2 DEF OpenInitialize, Initialize
<1>3. CASE SetupDefaultPlugins
  BY <1>3 DEF SetupDefaultPlugins
<1>4. CASE ConnProtocol
  BY <1>4 DEF ConnProtocol, SetMidiProtocol
<1>5. CASE ConnInstantiate
  <2> DEFINE p == pending[next]
  <2>1. CASE UNCHANGED native
    BY <1>5, <2>1 DEF ConnInstantiate
  <2>2. CASE InstantiatePlugin(p)
    <3>1. CASE Refuse
      BY <1>5, <2>2, <3>1 DEF ConnInstantiate, InstantiatePlugin
    <3>2. CASE host = "null" /\ Crash("control")
      BY <1>5, <2>2, <3>2 DEF ConnInstantiate, InstantiatePlugin
    <3>3. CASE MayInstantiate /\ CreateInstance(p)
      <4>1. p \in Plugins
        BY <1>5 DEF ConnInstantiate, TypeOK
      <4>2. /\ DOMAIN instances' = DOMAIN instances \cup {Len(instances) + 1}
            /\ \A i \in DOMAIN instances : instances'[i] = instances[i]
            /\ instances'[Len(instances) + 1].protocol = midi_protocol
        BY <3>3, <4>1, CreateInstanceEffect DEF TypeOK
      <4>3. ProtocolAgreed'
        BY <3>3, <4>2 DEF CreateInstance
      <4> QED
        BY <1>5, <2>2, <3>3, <4>3
        DEF ConnInstantiate, InstantiatePlugin, MayInstantiate, CreateInstance
    <3> QED BY <2>2, <3>1, <3>2, <3>3 DEF InstantiatePlugin
  <2> QED BY <1>5, <2>1, <2>2 DEF ConnInstantiate
<1>6. CASE ConnInstantiated
  BY <1>6 DEF ConnInstantiated
<1>7. CASE ConnActivate
  BY <1>7 DEF ConnActivate, Activate, MayActivate
<1>8. CASE CloseDeactivate
  BY <1>8 DEF CloseDeactivate, Deactivate
<1>9. CASE CloseTerminate
  BY <1>9 DEF CloseTerminate, Terminate
<1>10. CASE CloseReset
  BY <1>10 DEF CloseReset, ResetInstance
<1>11. CASE RequestStart /\ Idle
  <2>1. DOMAIN instances \subseteq Nat \ {0}
    BY DEF TypeOK, NativeTypeOK
  <2>2. Activating'
    BY <1>11, <2>1 DEF RequestStart
  <2> QED BY <1>11, <2>2 DEF RequestStart
<1>12. CASE ActivateInstance /\ Idle
  <2>1. CASE host = "null" /\ Crash("control")
    <3>1. closed
      BY <1>12, <2>1 DEF ActivateInstance
    <3> QED BY <1>12, <2>1, <3>1 DEF ActivateInstance
  <2>2. CASE SetActive(TRUE)
    <3>1. /\ DOMAIN instances' = DOMAIN instances /\ idx \in DOMAIN instances
          /\ \A i \in DOMAIN instances :
               /\ instances'[i].protocol = instances[i].protocol
               /\ instances'[i].active = IF i = idx THEN TRUE ELSE instances[i].active
      BY <2>2, SetActiveEffect DEF TypeOK
    <3>2. idx' = idx + 1 /\ idx \in Nat /\ DOMAIN instances \subseteq Nat
      BY <2>2 DEF SetActive, TypeOK, NativeTypeOK
    <3>3. ProtocolAgreed'
      BY <2>2, <3>1 DEF SetActive
    <3>4. Activating'
      <4>1. \A i \in DOMAIN instances' : i < idx' => instances'[i].active
        BY <1>12, <2>2, <3>1, <3>2 DEF ActivateInstance, SetActive
      <4>2. call' = "activate" /\ call = "activate" /\ stream' = stream
        BY <1>12, <2>2 DEF ActivateInstance, SetActive
      <4> QED BY <4>1, <4>2
    <3> QED BY <1>12, <2>2, <3>1, <3>3, <3>4 DEF ActivateInstance, SetActive
  <2> QED BY <1>12, <2>1, <2>2 DEF ActivateInstance
<1>13. CASE Activated /\ Idle
  <2>1. \A i \in DOMAIN instances : i < idx
    BY <1>13 DEF Activated, TypeOK, NativeTypeOK
  <2>2. ring = "live" /\ mapped /\ host = "live" /\ stream \in {"open", "started"}
    BY <1>13 DEF Activated, TypeOK, NativeTypeOK
  <2>3. ActiveIsReady'
    BY <1>13, <2>1, <2>2 DEF Activated
  <2> QED BY <1>13, <2>3 DEF Activated
<1>14. CASE DeactivateInstance /\ Idle
  BY <1>14 DEF DeactivateInstance, SetActive
<1>15. CASE StopStream /\ Idle
  BY <1>15 DEF StopStream
<1>16. CASE CloseStream /\ Idle
  BY <1>16 DEF CloseStream
<1>17. CASE FreeRing /\ Idle
  BY <1>17 DEF FreeRing
<1>18. CASE ResetHost /\ Idle
  BY <1>18 DEF ResetHost
<1>19. ASSUME NEW s \in Services, ServiceConnected(s) PROVE SafetyInv'
  BY <1>19 DEF ServiceConnected
<1>20. CASE PortOpened
  BY <1>20 DEF PortOpened
<1>21. CASE PortClosed
  BY <1>21 DEF PortClosed
<1>22. ASSUME NEW s \in Services, Reconnect(s) PROVE SafetyInv'
  BY <1>22 DEF Reconnect
<1>23. ASSUME NEW p \in Plugins, SelectInstrument(p) PROVE SafetyInv'
  BY <1>23 DEF SelectInstrument
<1>24. CASE ToggleMidi2
  BY <1>24 DEF ToggleMidi2
<1>25. CASE OnSend
  BY <1>25 DEF OnSend, ProcessMidiInput
<1>26. CASE OnAudioReady /\ Idle
  BY <1>26 DEF OnAudioReady
<1>27. CASE AudioStep /\ Idle
  BY <1>27 DEF AudioStep, CallPluginProcess, FillAudioOutput, ReadRing, StaleCallback
<1>28. CASE MidiStep /\ Idle
  BY <1>28 DEF MidiStep, GetMidiInputBuffer, WriteMidiInput, StaleMidi
<1>29. CASE UNCHANGED vars
  BY <1>29 DEF vars
<1> QED
  BY <1>1, <1>2, <1>3, <1>4, <1>5, <1>6, <1>7, <1>8, <1>9, <1>10, <1>11, <1>12,
     <1>13, <1>14, <1>15, <1>16, <1>17, <1>18, <1>19, <1>20, <1>21, <1>22, <1>23,
     <1>24, <1>25, <1>26, <1>27, <1>28, <1>29
  DEF Next, HandlerStep, OpenStep, ConnStep, CloseStep, ControlStep, Connection

LEMMA Invariant == Spec => [](TypeOK /\ SafetyInv)
<1>1. Init => TypeOK /\ SafetyInv
  BY TypeInit, SafetyInit
<1>2. (TypeOK /\ SafetyInv) /\ [Next]_vars => (TypeOK /\ SafetyInv)'
  BY TypeStep, SafetyStep
<1> QED BY <1>1, <1>2, PTL DEF Spec

(* Whenever onAudioReady is let through by the state, what it uses is      *)
(* there, unless deactivate() is at work.                                  *)
THEOREM ActiveProcessorIsReady == Spec => []ActiveIsReady
<1>1. SafetyInv => ActiveIsReady
  BY DEF SafetyInv
<1> QED BY <1>1, Invariant, PTL

(* The instances and processMidiInput never disagree on the protocol.      *)
THEOREM OneProtocol == Spec => []ProtocolAgreed
<1>1. SafetyInv => ProtocolAgreed
  BY DEF SafetyInv
<1> QED BY <1>1, Invariant, PTL

(* Without an error nothing is released while the callback may use it.     *)
THEOREM QuietRelease == Spec => []ReleasedOnlyWhenQuiet
<1>1. SafetyInv => ReleasedOnlyWhenQuiet
  BY DEF SafetyInv, Resources, StatesInHandlers, ReleasedOnlyWhenQuiet, Quiet
<1> QED BY <1>1, Invariant, PTL
-----------------------------------------------------------------------------
(***************************************************************************)
(* Refinement: each step of the service is a step of the life cycle, or    *)
(* leaves the state, the number of plugins and the protocol alone.         *)
(***************************************************************************)
Abstract == <<state, Len(instances), midi_protocol>>

LEMMA QuietSteps ==
  ASSUME NativeTypeOK,
         \/ UNCHANGED proc
         \/ \E a \in BOOLEAN : SetActive(a)
         \/ ResetHost \/ Initialize
  PROVE  UNCHANGED Abstract
<1>1. CASE UNCHANGED proc
  BY <1>1 DEF proc, Abstract
<1>2. ASSUME NEW a \in BOOLEAN, SetActive(a) PROVE UNCHANGED Abstract
  <2>1. idx \in 1 .. Len(instances)
    BY <1>2 DEF SetActive, NativeTypeOK
  <2>2. Len(instances') = Len(instances)
    BY <1>2, <2>1, InstanceLists DEF SetActive, NativeTypeOK
  <2> QED BY <1>2, <2>2 DEF SetActive, Abstract
<1>3. CASE ResetHost \/ Initialize
  BY <1>3 DEF ResetHost, Initialize, Abstract
<1> QED BY <1>1, <1>2, <1>3

LEMMA RefuseIsFail == Refuse => Lifecycle!Fail
BY DEF Refuse, Lifecycle!Fail

LEMMA ResetIsNew == ResetInstance => Lifecycle!New
<1> SUFFICES ASSUME ResetInstance PROVE Lifecycle!New
  OBVIOUS
<1>1. state' = "CREATED" /\ instances' = <<>> /\ midi_protocol' = MIDI1
  BY DEF ResetInstance
<1> QED BY <1>1 DEF Lifecycle!New, MIDI1, Lifecycle!MIDI1

LEMMA CreateIsPrepare ==
  ASSUME NativeTypeOK, NEW p \in Plugins, MayInstantiate, CreateInstance(p)
  PROVE  Lifecycle!Prepare
<1>1. [plugin |-> p, protocol |-> midi_protocol, active |-> FALSE] \in Instances
  BY DEF NativeTypeOK, Instances
<1>2. Len(instances') = Len(instances) + 1
  BY <1>1, InstanceLists DEF CreateInstance, NativeTypeOK
<1> QED BY <1>2 DEF CreateInstance, MayInstantiate, Lifecycle!Prepare

LEMMA LifecycleStep ==
  TypeOK /\ SafetyInv /\ [Next]_vars => [Lifecycle!Next]_(Lifecycle!vars)
<1> SUFFICES ASSUME TypeOK, SafetyInv, [Next]_vars
             PROVE  Lifecycle!Next \/ UNCHANGED Abstract
  BY DEF Abstract, Lifecycle!vars
<1>t. NativeTypeOK
  BY DEF TypeOK
<1> USE DEF Lifecycle!Next
<1>1. CASE OpenReset \/ CloseReset
  BY <1>1, ResetIsNew DEF OpenReset, CloseReset
<1>2. CASE OpenInitialize
  BY <1>2, <1>t, QuietSteps DEF OpenInitialize
<1>3. CASE ConnProtocol
  <2>1. CASE UNCHANGED native
    BY <2>1, <1>t, QuietSteps DEF native
  <2>2. CASE SetMidiProtocol(MIDI2)
    <3>1. CASE Refuse
      BY <3>1, RefuseIsFail
    <3>2. CASE state = "CREATED" /\ ~Refuse
      <4>1. instances = <<>>
        BY <1>3, <3>2 DEF ConnProtocol, At, Calling, SafetyInv, ProtocolFirst
      <4>2. Lifecycle!ChooseProtocol
        BY <2>2, <3>2, <4>1
        DEF SetMidiProtocol, Lifecycle!ChooseProtocol, MIDI2, Lifecycle!MIDI2
      <4> QED BY <4>2
    <3> QED BY <2>2, <3>1, <3>2 DEF SetMidiProtocol
  <2> QED BY <1>3, <2>1, <2>2 DEF ConnProtocol
<1>4. CASE ConnInstantiate
  <2>1. pending[next] \in Plugins
    BY <1>4 DEF ConnInstantiate, TypeOK
  <2>2. \/ UNCHANGED proc
        \/ Refuse
        \/ MayInstantiate /\ CreateInstance(pending[next])
    BY <1>4 DEF ConnInstantiate, InstantiatePlugin, Crash, native
  <2> QED BY <2>1, <2>2, <1>t, QuietSteps, RefuseIsFail, CreateIsPrepare
<1>5. CASE ConnActivate
  BY <1>5, <1>t, RefuseIsFail, QuietSteps DEF ConnActivate, Activate
<1>6. CASE CloseDeactivate
  BY <1>6, <1>t, RefuseIsFail, QuietSteps DEF CloseDeactivate, Deactivate
<1>7. CASE CloseTerminate
  BY <1>7, <1>t, QuietSteps DEF CloseTerminate, Terminate
<1>8. CASE ControlStep /\ Idle
  <2>1. CASE RequestStart \/ StopStream \/ FreeRing
    BY <2>1, <1>t, QuietSteps DEF RequestStart, StopStream, FreeRing
  <2>2. CASE ActivateInstance \/ DeactivateInstance
    BY <2>2, <1>t, QuietSteps DEF ActivateInstance, DeactivateInstance, Crash
  <2>3. CASE ResetHost
    BY <2>3, <1>t, QuietSteps
  <2>4. CASE Activated
    <3>1. state = "CREATED"
      BY <2>4 DEF Activated, Calling, SafetyInv, CallsInHandlers
    <3>2. Lifecycle!Activate
      BY <2>4, <3>1 DEF Activated, Lifecycle!Activate
    <3> QED BY <3>2
  <2>5. CASE CloseStream
    <3>1. state = "ACTIVE"
      BY <2>5 DEF CloseStream, Calling, SafetyInv, CallsInHandlers
    <3>2. Lifecycle!Deactivate
      BY <2>5, <3>1 DEF CloseStream, Lifecycle!Deactivate
    <3> QED BY <3>2
  <2> QED BY <1>8, <2>1, <2>2, <2>3, <2>4, <2>5 DEF ControlStep
<1>9. ASSUME \/ SetupDefaultPlugins \/ ConnInstantiated \/ Connection
             \/ PortOpened \/ PortClosed \/ ToggleMidi2
             \/ \E s \in Services : Reconnect(s)
             \/ \E p \in Plugins : SelectInstrument(p)
      PROVE  UNCHANGED proc
  BY <1>9
  DEF SetupDefaultPlugins, ConnInstantiated, Connection, ServiceConnected, PortOpened,
      PortClosed, ToggleMidi2, Reconnect, SelectInstrument, native
<1>10. ASSUME OnSend \/ OnAudioReady \/ AudioStep \/ MidiStep
       PROVE  UNCHANGED proc
  BY <1>10
  DEF OnSend, ProcessMidiInput, OnAudioReady, AudioStep, CallPluginProcess,
      FillAudioOutput, ReadRing, StaleCallback, MidiStep, GetMidiInputBuffer,
      WriteMidiInput, StaleMidi, Crash
<1>11. ASSUME UNCHANGED vars PROVE UNCHANGED proc
  BY <1>11 DEF vars, native
<1> QED
  BY <1>1, <1>2, <1>3, <1>4, <1>5, <1>6, <1>7, <1>8, <1>9, <1>10, <1>11, <1>t, QuietSteps
  DEF Next, HandlerStep, OpenStep, ConnStep, CloseStep, Connection

(* The service drives its processor through the life cycle of              *)
(* AAPMidiProcessorState: the protocol before the plugins, the plugins     *)
(* before the first activation, and an error for everything else.          *)
THEOREM ImplementsLifecycle == Spec => LifecycleSpec
<1>1. Init => Lifecycle!Init
  BY DEF Init, NativeInit, Lifecycle!Init, MIDI1, Lifecycle!MIDI1
<1> QED
  BY <1>1, LifecycleStep, Invariant, PTL DEF Spec, LifecycleSpec, Lifecycle!Spec

(* callPluginProcess iterates over a list that no handler changes.         *)
THEOREM ListIsStable == Spec => ListStableInCallback
<1>1. TypeOK /\ SafetyInv /\ [Next]_vars =>
        [cb = "process" /\ cb' = "process" => Len(instances') = Len(instances)]_vars
  <2> SUFFICES ASSUME TypeOK, SafetyInv, [Next]_vars, cb = "process", cb' = "process"
               PROVE  Len(instances') = Len(instances)
    OBVIOUS
  <2>1. state \in {"ACTIVE", "ERROR"} /\ state' \in {"ACTIVE", "ERROR"}
    BY SafetyStep DEF SafetyInv, StatesInHandlers, Quiet
  <2>2. [Lifecycle!Next]_(Lifecycle!vars)
    BY LifecycleStep
  <2>3. ~Lifecycle!New /\ ~Lifecycle!Prepare
    BY <2>1 DEF Lifecycle!New, Lifecycle!Prepare
  <2> QED
    BY <2>2, <2>3
    DEF Lifecycle!Next, Lifecycle!ChooseProtocol, Lifecycle!Activate,
        Lifecycle!Deactivate, Lifecycle!Fail, Lifecycle!vars
<1> QED BY <1>1, Invariant, PTL DEF Spec, ListStableInCallback
-----------------------------------------------------------------------------
(***************************************************************************)
(* The openings of the port, of which only the first is followed by a      *)
(* close() that does something.                                            *)
(***************************************************************************)
(* A close() that does something is under way.                             *)
Closing == pc \in {"close_deactivate", "close_terminate", "close_reset"}

Openings ==
  /\ portOpen \/ closed => opens > 0
  /\ ~closed => opens <= 1
  /\ Closing => ~closed /\ ~portOpen /\ opens > 0
  /\ opens > 0 /\ ~closed /\ ~portOpen => Closing

(* No message of the first session survives its close(): the second        *)
(* opening, like the first, finds none at work.                            *)
MidiInOpenings ==
  /\ opens = 0 => midi = "idle"
  /\ opens = 1 /\ closed => ~portOpen /\ midi \in {"idle", "stale"}
  /\ opens <= 2 /\ pc = "open_reset" => midi \in {"idle", "stale"}

(* The first close() takes the host away, and the next opening brings one. *)
HostInOpenings ==
  /\ closed /\ host = "null" =>
       (opens = 1 /\ ~portOpen) \/ pc \in {"open_reset", "open_initialize"}
  /\ ControlFaultOnlyAfterClose

OpeningsInv == Openings /\ MidiInOpenings /\ HostInOpenings

LEMMA OpeningsInit == Init => OpeningsInv
<1> SUFFICES ASSUME Init PROVE OpeningsInv
  OBVIOUS
<1>1. ~portOpen /\ ~closed /\ opens = 0 /\ pc = "idle" /\ midi = "idle" /\ fault = "none"
  BY Zenon DEF Init, NativeInit
<1> QED
  BY <1>1 DEF OpeningsInv, Openings, Closing, MidiInOpenings, HostInOpenings,
    ControlFaultOnlyAfterClose

LEMMA OpeningsStep == TypeOK /\ SafetyInv /\ OpeningsInv /\ [Next]_vars => OpeningsInv'
<1> SUFFICES ASSUME TypeOK, SafetyInv, OpeningsInv, [Next]_vars PROVE OpeningsInv'
  OBVIOUS
<1>t. opens \in Nat
  BY DEF TypeOK
<1>h. HostThere /\ CallsInHandlers
  BY DEF SafetyInv
<1> USE <1>t, <1>h DEF OpeningsInv, Openings, Closing, MidiInOpenings, HostInOpenings,
      ControlFaultOnlyAfterClose, proc, res, ctl, audio, native, user, port, services,
      handler, At, HandlerFree, Calling, Midi, Idle, Refuse, Crash
<1>1. CASE OpenReset
  BY <1>1 DEF OpenReset, ResetInstance
<1>2. CASE OpenInitialize
  BY <1>2 DEF OpenInitialize, Initialize
<1>3. CASE SetupDefaultPlugins
  BY <1>3 DEF SetupDefaultPlugins
<1>4. CASE ConnProtocol
  BY <1>4 DEF ConnProtocol, SetMidiProtocol
<1>5. CASE ConnInstantiate
  BY <1>5 DEF ConnInstantiate, InstantiatePlugin, CreateInstance, HostThere
<1>6. CASE ConnInstantiated
  BY <1>6 DEF ConnInstantiated
<1>7. CASE ConnActivate
  BY <1>7 DEF ConnActivate, Activate
<1>8. CASE CloseDeactivate
  BY <1>8 DEF CloseDeactivate, Deactivate
<1>9. CASE CloseTerminate
  BY <1>9 DEF CloseTerminate, Terminate
<1>10. CASE CloseReset
  BY <1>10 DEF CloseReset, ResetInstance
<1>11. CASE ControlStep /\ Idle
  <2>1. CASE ActivateInstance
    BY <1>11, <2>1 DEF ActivateInstance, SetActive, HostThere, CallsInHandlers
  <2>2. CASE ResetHost
    BY <1>11, <2>2 DEF ResetHost, CallsInHandlers
  <2>3. CASE RequestStart \/ Activated \/ DeactivateInstance \/ StopStream \/ CloseStream \/ FreeRing
    BY <1>11, <2>3 DEF RequestStart, Activated, DeactivateInstance, SetActive, StopStream,
      CloseStream, FreeRing
  <2> QED BY <1>11, <2>1, <2>2, <2>3 DEF ControlStep
<1>12. CASE PortOpened
  BY <1>12 DEF PortOpened
<1>13. CASE PortClosed
  BY <1>13 DEF PortClosed
<1>14. CASE OnSend
  BY <1>14 DEF OnSend, ProcessMidiInput
<1>15. CASE (OnAudioReady \/ AudioStep) /\ Idle
  BY <1>15 DEF OnAudioReady, AudioStep, CallPluginProcess, FillAudioOutput, ReadRing,
    StaleCallback
<1>16. CASE MidiStep /\ Idle
  BY <1>16 DEF MidiStep, GetMidiInputBuffer, WriteMidiInput, StaleMidi
<1>17. CASE Connection
  BY <1>17 DEF Connection, ServiceConnected
<1>18. ASSUME \/ ToggleMidi2 \/ UNCHANGED vars
              \/ \E s \in Services : Reconnect(s)
              \/ \E p \in Plugins : SelectInstrument(p)
       PROVE  UNCHANGED <<pc, portOpen, closed, opens, midi, host, fault>>
  BY <1>18 DEF ToggleMidi2, vars, Reconnect, SelectInstrument
<1> QED
  BY <1>1, <1>2, <1>3, <1>4, <1>5, <1>6, <1>7, <1>8, <1>9, <1>10, <1>11, <1>12, <1>13,
     <1>14, <1>15, <1>16, <1>17, <1>18
  DEF Next, HandlerStep, OpenStep, ConnStep, CloseStep

LEMMA OpeningsHold == Spec => []OpeningsInv
<1>1. TypeOK /\ SafetyInv /\ OpeningsInv /\ [Next]_vars => OpeningsInv'
  BY OpeningsStep
<1> QED BY <1>1, OpeningsInit, Invariant, PTL DEF Spec

(* The handlers find a host at any time but between the first close() and  *)
(* the next opening.                                                       *)
THEOREM HostUntilClosed == Spec => []ControlFaultOnlyAfterClose
<1>1. OpeningsInv => ControlFaultOnlyAfterClose
  BY DEF OpeningsInv, HostInOpenings
<1> QED BY <1>1, OpeningsHold, PTL

(* The MIDI thread loses its iteration to resetInstance and to             *)
(* instantiatePlugin, and its port buffer to terminate().                  *)
LEMMA MidiThreadEndangered ==
  ASSUME [Next]_vars, \/ midi # "stale" /\ midi' = "stale"
                      \/ midi = "writing" /\ fault # "midi" /\ fault' = "midi"
  PROVE  \/ OpenReset \/ CloseReset
         \/ state = "CREATED" /\ UNCHANGED state
         \/ ~mapped
<1> USE DEF native, proc, res, ctl, audio, Crash, Refuse
<1>1. CASE ConnInstantiate
  BY <1>1 DEF ConnInstantiate, InstantiatePlugin, CreateInstance, MayInstantiate
<1>2. CASE MidiStep
  BY <1>2 DEF MidiStep, GetMidiInputBuffer, WriteMidiInput, StaleMidi, Midi
<1>3. CASE OnSend
  BY <1>3 DEF OnSend, ProcessMidiInput
<1>4. CASE ControlStep
  BY <1>4 DEF ControlStep, RequestStart, ActivateInstance, SetActive, Activated,
    DeactivateInstance, StopStream, CloseStream, FreeRing, ResetHost
<1>5. CASE OnAudioReady \/ AudioStep
  BY <1>5 DEF OnAudioReady, AudioStep, CallPluginProcess, FillAudioOutput, ReadRing, StaleCallback
<1>6. CASE \/ OpenInitialize \/ SetupDefaultPlugins \/ ConnProtocol \/ ConnInstantiated
           \/ ConnActivate \/ CloseDeactivate \/ CloseTerminate
  BY <1>6 DEF OpenInitialize, Initialize, SetupDefaultPlugins, ConnProtocol, SetMidiProtocol,
    ConnInstantiated, ConnActivate, Activate, CloseDeactivate, Deactivate, CloseTerminate,
    Terminate
<1>7. ASSUME \/ Connection \/ PortOpened \/ PortClosed \/ ToggleMidi2
             \/ \E s \in Services : Reconnect(s)
             \/ \E p \in Plugins : SelectInstrument(p)
             \/ UNCHANGED vars
      PROVE  UNCHANGED native
  BY <1>7
  DEF Connection, ServiceConnected, PortOpened, PortClosed, Reconnect, SelectInstrument,
      ToggleMidi2, vars
<1> QED
  BY <1>1, <1>2, <1>3, <1>4, <1>5, <1>6, <1>7
  DEF Next, HandlerStep, OpenStep, ConnStep, CloseStep

(* With the port open and the processor past its creation, no step of a    *)
(* handler takes the list, the port buffer or the processor from under a   *)
(* running processMidiInput, up to the third opening of the port.          *)
THEOREM MidiThreadIsUndisturbed == Spec => MidiThreadUndisturbed
<1>1. TypeOK /\ SafetyInv /\ OpeningsInv /\ [Next]_vars =>
        [(midi # "stale" /\ midi' = "stale") \/ (midi = "writing" /\ fault # "midi" /\ fault' = "midi")
           => ~portOpen \/ state = "CREATED" \/ (pc = "open_reset" /\ opens > 2)]_vars
  <2> SUFFICES ASSUME TypeOK, SafetyInv, OpeningsInv, [Next]_vars,
                      \/ midi # "stale" /\ midi' = "stale"
                      \/ midi = "writing" /\ fault # "midi" /\ fault' = "midi"
               PROVE  ~portOpen \/ state = "CREATED" \/ (pc = "open_reset" /\ opens > 2)
    OBVIOUS
  <2>1. CASE OpenReset
    <3>1. pc = "open_reset" /\ midi \notin {"idle", "stale"}
      BY <2>1 DEF OpenReset, At, ResetInstance
    <3>2. ~(opens <= 2)
      BY <3>1 DEF OpeningsInv, MidiInOpenings
    <3> QED BY <3>1, <3>2 DEF TypeOK
  <2>2. CASE CloseReset
    BY <2>2 DEF CloseReset, At, OpeningsInv, Openings, Closing
  <2>3. CASE ~mapped
    BY <2>3 DEF SafetyInv, Resources, OpeningsInv, Openings, Closing
  <2> QED BY <2>1, <2>2, <2>3, MidiThreadEndangered
<1> QED BY <1>1, OpeningsHold, Invariant, PTL DEF Spec, MidiThreadUndisturbed
-----------------------------------------------------------------------------
(***************************************************************************)
(* The first session: the port was opened once and no service has died.    *)
(* A single connection is then reported, to a processor without a stream,  *)
(* so that no control method fails while the callback runs, and what the   *)
(* callback uses is there until its stream was closed.                     *)
(***************************************************************************)
Silent == stream = "none" /\ cb = "idle"
NoBinds == \A s \in Services : binds[s] = 0
Opening == {"open_reset", "open_initialize", "open_setup"}
Connecting == {"conn_protocol", "conn_instantiate", "conn_activate"}

OneConnection ==
  /\ \A s, t \in Services : binds[s] # 0 /\ binds[t] # 0 => s = t /\ binds[s] = 1
  /\ opens = 0 => pc = "idle" /\ ~portOpen /\ NoBinds /\ connected = {}
  /\ pc \in Opening \cup Connecting => NoBinds

SilentParts ==
  /\ opens = 0 \/ pc \in Opening \cup Connecting \/ ~NoBinds => Silent
  /\ state # "ACTIVE" /\ call = "none" => Silent
  /\ call \in {"free", "reset"} => Silent
  /\ state = "ACTIVE" => stream # "none"

AudioParts ==
  /\ fault # "audio"
  /\ cb # "idle" => cb \in {"process", "read"} /\ state = "ACTIVE"
  /\ state = "ACTIVE" => ring = "live" /\ host = "live" /\ mapped

RingParts ==
  /\ opens = 0 \/ pc = "open_reset" => ring = "none"
  /\ pc = "close_reset" /\ call \in {"reset", "none"} => ring = "freed"

SessionInv == OneConnection /\ SilentParts /\ AudioParts /\ RingParts

LEMMA SessionInit == Init => SessionInv
<1> SUFFICES ASSUME Init PROVE SessionInv
  OBVIOUS
<1>1. /\ call = "none" /\ pc = "idle" /\ state = "CREATED" /\ cb = "idle"
      /\ ring = "none" /\ stream = "none" /\ fault = "none"
      /\ ~portOpen /\ connected = {} /\ \A s \in Services : binds[s] = 0
  BY Zenon DEF Init, NativeInit
<1> QED
  BY <1>1 DEF SessionInv, OneConnection, SilentParts, AudioParts, RingParts, Silent,
    NoBinds, Opening, Connecting

LEMMA SessionStep ==
  TypeOK /\ SafetyInv /\ SessionInv /\ [Next]_vars /\ FirstSession' => SessionInv'
<1> SUFFICES ASSUME TypeOK, SafetyInv, SessionInv, [Next]_vars, FirstSession' PROVE SessionInv'
  OBVIOUS
<1>t. /\ opens \in Nat /\ reconnects \in Nat /\ binds \in [Services -> Nat]
      /\ instrument \in Plugins /\ ServiceOf[instrument] \in Services
      /\ ring \in {"none", "live", "freed"} /\ host \in {"null", "live"}
      /\ mapped \in BOOLEAN /\ instances \in Seq(Instances)
  BY ServiceAssumption, Zenon DEF TypeOK, NativeTypeOK
<1>s. /\ CallsInHandlers /\ StatesInHandlers /\ Resources
      /\ call = "start" => stream = "open"
      /\ call = "activate" => stream \in {"open", "started"}
  BY DEF SafetyInv, Activating
<1> USE DEF SessionInv, OneConnection, SilentParts, AudioParts, RingParts, Silent, NoBinds,
      Opening, Connecting, CallsInHandlers, StatesInHandlers, Quiet, Resources,
      proc, res, ctl, audio, native, user, port, services, handler, At, HandlerFree,
      Calling, Callback, Midi, Idle, Refuse, Crash
<1>1. CASE OpenReset
  BY <1>1, <1>s DEF OpenReset, ResetInstance
<1>2. CASE OpenInitialize
  BY <1>2, <1>s DEF OpenInitialize, Initialize
<1>3. CASE SetupDefaultPlugins
  <2>1. \A s \in Services : binds'[s] = IF s = ServiceOf[instrument] THEN 1 ELSE 0
    BY <1>3, <1>t DEF SetupDefaultPlugins
  <2> QED BY <1>3, <1>s, <1>t, <2>1 DEF SetupDefaultPlugins
<1>4. CASE ConnProtocol
  BY <1>4, <1>s DEF ConnProtocol, SetMidiProtocol
<1>5. CASE ConnInstantiate
  BY <1>5, <1>s DEF ConnInstantiate, InstantiatePlugin, MayInstantiate, CreateInstance
<1>6. CASE ConnInstantiated
  BY <1>6, <1>s DEF ConnInstantiated
<1>7. CASE ConnActivate
  BY <1>7, <1>s DEF ConnActivate, Activate, MayActivate
<1>8. CASE CloseDeactivate
  BY <1>8, <1>s DEF CloseDeactivate, Deactivate
<1>9. CASE CloseTerminate
  BY <1>9, <1>s DEF CloseTerminate, Terminate
<1>10. CASE CloseReset
  BY <1>10, <1>s DEF CloseReset, ResetInstance
<1>11. CASE RequestStart /\ Idle
  BY <1>11, <1>s DEF RequestStart
<1>12. CASE ActivateInstance /\ Idle
  BY <1>12, <1>s DEF ActivateInstance, SetActive
<1>13. CASE Activated /\ Idle
  BY <1>13, <1>s, <1>t DEF Activated
<1>14. CASE DeactivateInstance /\ Idle
  BY <1>14, <1>s DEF DeactivateInstance, SetActive
<1>15. CASE StopStream /\ Idle
  BY <1>15, <1>s DEF StopStream
<1>16. CASE CloseStream /\ Idle
  BY <1>16, <1>s DEF CloseStream
<1>17. CASE FreeRing /\ Idle
  BY <1>17, <1>s DEF FreeRing
<1>18. CASE ResetHost /\ Idle
  BY <1>18, <1>s DEF ResetHost
<1>19. ASSUME NEW s \in Services, ServiceConnected(s) PROVE SessionInv'
  <2>1. \A t \in Services : binds'[t] = 0
    BY <1>19, <1>t DEF ServiceConnected
  <2> QED BY <1>19, <1>s, <1>t, <2>1 DEF ServiceConnected
<1>20. CASE PortOpened
  <2>1. opens = 0
    BY <1>20, <1>t DEF PortOpened, FirstSession
  <2> QED BY <1>20, <1>s, <1>t, <2>1 DEF PortOpened
<1>21. CASE PortClosed
  BY <1>21, <1>s DEF PortClosed
<1>22. ASSUME NEW s \in Services, Reconnect(s) PROVE SessionInv'
  BY <1>22, <1>t DEF Reconnect, FirstSession
<1>23. ASSUME NEW p \in Plugins, SelectInstrument(p) PROVE SessionInv'
  BY <1>23, <1>s DEF SelectInstrument
<1>24. CASE ToggleMidi2
  BY <1>24, <1>s DEF ToggleMidi2
<1>25. CASE OnSend
  BY <1>25, <1>s DEF OnSend, ProcessMidiInput
<1>26. CASE OnAudioReady /\ Idle
  BY <1>26, <1>s DEF OnAudioReady
<1>27. CASE AudioStep /\ Idle
  BY <1>27, <1>s DEF AudioStep, CallPluginProcess, FillAudioOutput, ReadRing, StaleCallback
<1>28. CASE MidiStep /\ Idle
  BY <1>28, <1>s DEF MidiStep, GetMidiInputBuffer, WriteMidiInput, StaleMidi
<1>29. CASE UNCHANGED vars
  BY <1>29, <1>s DEF vars
<1> QED
  BY <1>1, <1>2, <1>3, <1>4, <1>5, <1>6, <1>7, <1>8, <1>9, <1>10, <1>11, <1>12,
     <1>13, <1>14, <1>15, <1>16, <1>17, <1>18, <1>19, <1>20, <1>21, <1>22, <1>23,
     <1>24, <1>25, <1>26, <1>27, <1>28, <1>29
  DEF Next, HandlerStep, OpenStep, ConnStep, CloseStep, ControlStep, Connection

(* No step counts a session or a reconnection back.                        *)
LEMMA FirstSessionBefore ==
  TypeOK /\ [Next]_vars /\ FirstSession' => FirstSession
<1> SUFFICES ASSUME TypeOK, [Next]_vars, FirstSession' PROVE FirstSession
  OBVIOUS
<1>t. opens \in Nat /\ reconnects \in Nat
  BY DEF TypeOK
<1>1. CASE PortOpened
  BY <1>1, <1>t DEF PortOpened, FirstSession, services
<1>2. ASSUME NEW s \in Services, Reconnect(s) PROVE FirstSession
  BY <1>2, <1>t DEF Reconnect, FirstSession
<1>3. CASE ~PortOpened /\ \A s \in Services : ~Reconnect(s)
  <2>1. opens' = opens /\ reconnects' = reconnects
    BY <1>3 DEF Next, vars, port, services, Idle, HandlerStep, OpenStep, OpenReset,
      OpenInitialize, SetupDefaultPlugins, ConnStep, ConnProtocol, ConnInstantiate,
      ConnInstantiated, ConnActivate, CloseStep, CloseDeactivate, CloseTerminate, CloseReset,
      Connection, ServiceConnected, PortClosed, SelectInstrument, ToggleMidi2, OnSend
  <2> QED BY <2>1 DEF FirstSession
<1> QED BY <1>1, <1>2, <1>3

LEMMA SessionInvariant ==
  Spec => [](TypeOK /\ SafetyInv /\ (FirstSession => SessionInv))
<1>1. Init => SessionInv
  BY SessionInit
<1>2. TypeOK /\ SafetyInv /\ (FirstSession => SessionInv) /\ [Next]_vars
        => (FirstSession => SessionInv)'
  BY SessionStep, FirstSessionBefore
<1> QED BY <1>1, <1>2, Invariant, PTL DEF Spec

(* In the first session, whatever fails and whenever the port is closed,   *)
(* the Oboe thread never uses a ring, a buffer, a host or a processor that *)
(* the handlers have released, although nothing synchronizes them.         *)
THEOREM CallbackIsSafe == Spec => []CallbackNeverFaults
<1>1. (FirstSession => SessionInv) => CallbackNeverFaults
  BY DEF SessionInv, AudioParts, CallbackNeverFaults
<1> QED BY <1>1, SessionInvariant, PTL

(* In the first session close() leaves nothing behind: the stream is       *)
(* closed and the ring freed before the processor is replaced.             *)
THEOREM NothingIsDropped == Spec => NothingDropped
<1>1. SafetyInv /\ (FirstSession => SessionInv) /\ [Next]_vars =>
        [FirstSession /\ ring # "none" /\ ring' = "none" => ring = "freed" /\ stream = "none"]_vars
  <2> SUFFICES ASSUME SafetyInv, SessionInv, [Next]_vars, ring # "none", ring' = "none"
               PROVE  ring = "freed" /\ stream = "none"
    OBVIOUS
  <2>1. OpenReset \/ CloseReset
    BY DEF Next, vars, native, res, HandlerStep, OpenStep, OpenInitialize, Initialize,
      SetupDefaultPlugins, ConnStep, ConnProtocol, SetMidiProtocol, Refuse, ConnInstantiate,
      InstantiatePlugin, Crash, CreateInstance, ConnInstantiated, ConnActivate, Activate,
      CloseStep, CloseDeactivate, Deactivate, CloseTerminate, Terminate, ControlStep,
      RequestStart, ActivateInstance, SetActive, Activated, DeactivateInstance, StopStream,
      CloseStream, FreeRing, ResetHost, Connection, ServiceConnected, PortOpened,
      PortClosed, Reconnect, SelectInstrument, ToggleMidi2, OnSend, ProcessMidiInput,
      OnAudioReady, AudioStep, CallPluginProcess, FillAudioOutput, ReadRing, StaleCallback,
      MidiStep, GetMidiInputBuffer, WriteMidiInput, StaleMidi
  <2>2. ~OpenReset
    BY DEF SessionInv, RingParts, OpenReset, At
  <2> QED
    BY <2>1, <2>2
    DEF CloseReset, At, Calling, SessionInv, SilentParts, RingParts, Silent, SafetyInv,
        StatesInHandlers
<1> QED BY <1>1, SessionInvariant, PTL DEF Spec, NothingDropped
-----------------------------------------------------------------------------
(***************************************************************************)
(* close() does not go on for ever: what is left of it, and of the         *)
(* callback it waits for, in steps.                                        *)
(***************************************************************************)
Above(i) == IF i <= Len(instances) THEN Len(instances) + 1 - i ELSE 0

CloseLeft ==
  CASE pc = "close_deactivate" -> 8 + Len(instances)
    [] pc = "close_terminate" /\ call = "deactivate" -> 7 + Above(idx)
    [] pc = "close_terminate" /\ call = "close" -> 6
    [] pc = "close_terminate" /\ call = "none" -> 5
    [] pc = "close_reset" /\ call = "free" -> 4
    [] pc = "close_reset" /\ call = "reset" -> 3
    [] pc = "close_reset" /\ call = "none" -> 2
    [] OTHER -> 0

CallbackLeft ==
  CASE cb = "process" -> 3 + Above(cbIdx) [] cb = "read" -> 2 [] OTHER -> 0

(* No callback starts while close() waits for the last one.                *)
StoppedFirst == call = "close" => stream = "stopped"

LEMMA StoppedStep == SafetyInv /\ StoppedFirst /\ [Next]_vars => StoppedFirst'
<1> SUFFICES ASSUME SafetyInv, StoppedFirst, [Next]_vars PROVE StoppedFirst'
  OBVIOUS
<1> USE DEF StoppedFirst, native, proc, res, ctl, audio, Crash, Refuse, Calling, At
<1>1. CASE OpenStep
  BY <1>1 DEF OpenStep, OpenReset, ResetInstance, OpenInitialize, Initialize, SetupDefaultPlugins
<1>2. CASE ConnStep
  BY <1>2
  DEF ConnStep, ConnProtocol, SetMidiProtocol, ConnInstantiate, InstantiatePlugin,
      CreateInstance, ConnInstantiated, ConnActivate, Activate
<1>3. CASE CloseStep
  BY <1>3 DEF CloseStep, CloseDeactivate, Deactivate, CloseTerminate, Terminate, CloseReset, ResetInstance
<1>4. CASE ControlStep
  BY <1>4 DEF ControlStep, RequestStart, ActivateInstance, SetActive, Activated,
    DeactivateInstance, StopStream, CloseStream, FreeRing, ResetHost
<1>5. ASSUME OnAudioReady \/ AudioStep \/ MidiStep \/ OnSend
      PROVE  UNCHANGED <<call, stream>>
  BY <1>5
  DEF OnAudioReady, AudioStep, CallPluginProcess, FillAudioOutput, ReadRing, StaleCallback,
      MidiStep, GetMidiInputBuffer, WriteMidiInput, StaleMidi, OnSend, ProcessMidiInput
<1>6. ASSUME \/ Connection \/ PortOpened \/ PortClosed \/ ToggleMidi2
             \/ \E s \in Services : Reconnect(s)
             \/ \E p \in Plugins : SelectInstrument(p)
             \/ UNCHANGED vars
      PROVE  UNCHANGED <<call, stream>>
  BY <1>6
  DEF Connection, ServiceConnected, PortOpened, PortClosed, Reconnect, SelectInstrument,
      ToggleMidi2, vars
<1> QED BY <1>1, <1>2, <1>3, <1>4, <1>5, <1>6 DEF Next, HandlerStep

LEMMA CloseStepCounts ==
  ASSUME TypeOK, SafetyInv, Closing, HandlerStep
  PROVE  CloseLeft' < CloseLeft
<1>t. Len(instances) \in Nat /\ idx \in Nat \ {0} /\ instances \in Seq(Instances)
  BY InstanceLists DEF TypeOK, NativeTypeOK
<1>a. Above(idx) \in Nat
  BY <1>t DEF Above
<1>1. CASE CloseDeactivate
  <2>1. pc = "close_deactivate" /\ pc' = "close_terminate" /\ call = "none"
    BY <1>1 DEF CloseDeactivate, At, Calling
  <2>2. CASE Refuse
    BY <2>1, <2>2, <1>t DEF Refuse, ctl, CloseLeft
  <2>3. CASE call' = "deactivate" /\ idx' = 1 /\ UNCHANGED instances
    <3>1. Above(idx)' <= Len(instances)
      BY <2>3, <1>t DEF Above
    <3>2. Above(idx)' \in Nat
      BY <2>3, <1>t DEF Above
    <3> QED BY <2>1, <2>3, <3>1, <3>2, <1>t DEF CloseLeft
  <2> QED BY <1>1, <2>2, <2>3 DEF CloseDeactivate, Deactivate, proc
<1>2. CASE CloseTerminate
  BY <1>2 DEF CloseTerminate, At, Calling, Terminate, CloseLeft
<1>3. CASE CloseReset
  BY <1>3 DEF CloseReset, At, Calling, CloseLeft
<1>4. CASE ControlStep /\ Idle
  <2>1. UNCHANGED pc
    BY <1>4 DEF Idle
  <2>2. CASE RequestStart \/ ActivateInstance \/ Activated
    BY <2>2 DEF RequestStart, ActivateInstance, Activated, Calling, SafetyInv,
      CallsInHandlers, Closing
  <2>3. CASE DeactivateInstance
    <3>1. pc = "close_terminate" /\ call = "deactivate" /\ UNCHANGED call
      BY <2>3 DEF DeactivateInstance, Calling, SetActive, SafetyInv, CallsInHandlers
    <3>2. idx <= Len(instances) /\ idx' = idx + 1
      BY <2>3 DEF DeactivateInstance, SetActive
    <3>3. Len(instances') = Len(instances)
      <4>1. idx \in 1 .. Len(instances)
        BY <3>2, <1>t
      <4>2. instances' = [instances EXCEPT ![idx].active = FALSE]
        BY <2>3 DEF DeactivateInstance, SetActive
      <4> QED BY <4>1, <4>2, <1>t, InstanceLists
    <3>4. Above(idx)' < Above(idx) /\ Above(idx)' \in Nat
      BY <3>2, <3>3, <1>t DEF Above
    <3> QED BY <2>1, <3>1, <3>4, <1>a DEF CloseLeft
  <2>4. CASE StopStream
    <3>1. pc = "close_terminate" /\ call = "deactivate" /\ call' = "close"
      BY <2>4 DEF StopStream, Calling, SafetyInv, CallsInHandlers
    <3> QED BY <2>1, <3>1, <1>a DEF CloseLeft
  <2>5. CASE CloseStream
    BY <2>1, <2>5 DEF CloseStream, Calling, SafetyInv, CallsInHandlers, CloseLeft
  <2>6. CASE FreeRing \/ ResetHost
    BY <2>1, <2>6 DEF FreeRing, ResetHost, Calling, SafetyInv, CallsInHandlers, CloseLeft
  <2> QED BY <1>4, <2>2, <2>3, <2>4, <2>5, <2>6 DEF ControlStep
<1>5. ASSUME OpenStep \/ ConnStep PROVE FALSE
  BY <1>5
  DEF OpenStep, OpenReset, OpenInitialize, SetupDefaultPlugins, ConnStep, ConnProtocol,
      ConnInstantiate, ConnInstantiated, ConnActivate, At, Closing
<1> QED BY <1>1, <1>2, <1>3, <1>4, <1>5 DEF HandlerStep, CloseStep

LEMMA OthersDoNotDelayClose ==
  ASSUME Closing, [Next]_vars, ~HandlerStep
  PROVE  UNCHANGED <<CloseLeft, instances>>
<1>1. ASSUME OnAudioReady \/ AudioStep \/ MidiStep PROVE UNCHANGED <<call, idx, instances>>
  BY <1>1
  DEF OnAudioReady, AudioStep, CallPluginProcess, FillAudioOutput, ReadRing, StaleCallback,
      MidiStep, GetMidiInputBuffer, WriteMidiInput, StaleMidi, Crash, proc, ctl
<1>2. ASSUME OnSend PROVE UNCHANGED <<pc, call, idx, instances>>
  BY <1>2 DEF OnSend, ProcessMidiInput, proc, ctl
<1>3. ASSUME Connection \/ PortOpened \/ PortClosed PROVE FALSE
  BY <1>3 DEF Connection, ServiceConnected, PortOpened, PortClosed, HandlerFree, At, Closing
<1>4. ASSUME \/ ToggleMidi2
             \/ \E s \in Services : Reconnect(s)
             \/ \E p \in Plugins : SelectInstrument(p)
             \/ UNCHANGED vars
      PROVE  UNCHANGED <<pc, call, idx, instances>>
  BY <1>4 DEF ToggleMidi2, Reconnect, SelectInstrument, vars, native, proc, ctl
<1>5. UNCHANGED <<pc, call, idx, instances>>
  BY <1>1, <1>2, <1>3, <1>4 DEF Next, Idle
<1> QED BY <1>5 DEF CloseLeft, Above

LEMMA CallbackStepCounts ==
  ASSUME TypeOK, AudioStep, fault' = "none"
  PROVE  CallbackLeft' < CallbackLeft
<1>t. Len(instances) \in Nat /\ cbIdx \in Nat \ {0}
  BY InstanceLists DEF TypeOK, NativeTypeOK
<1>1. CASE CallPluginProcess
  <2>1. cb = "process" /\ UNCHANGED cb /\ cbIdx <= Len(instances) /\ cbIdx' = cbIdx + 1
        /\ UNCHANGED instances
    BY <1>1 DEF CallPluginProcess, Callback, Crash, proc
  <2>2. Above(cbIdx)' < Above(cbIdx) /\ Above(cbIdx)' \in Nat /\ Above(cbIdx) \in Nat
    BY <2>1, <1>t DEF Above
  <2> QED BY <2>1, <2>2 DEF CallbackLeft
<1>2. CASE FillAudioOutput
  <2>1. Above(cbIdx) \in Nat
    BY <1>t DEF Above
  <2>2. cb = "process" /\ cb' = "read"
    BY <1>2 DEF FillAudioOutput, Callback, Crash
  <2> QED BY <2>1, <2>2 DEF CallbackLeft
<1>3. CASE ReadRing
  BY <1>3 DEF ReadRing, Callback, Crash, CallbackLeft
<1>4. CASE StaleCallback
  BY <1>4 DEF StaleCallback, Callback, Crash
<1> QED BY <1>1, <1>2, <1>3, <1>4 DEF AudioStep

(* close() is over after at most 8 steps and one for each instance, and no *)
(* other thread adds to them.  Where it waits for the callback no other    *)
(* callback starts, and the one there is comes closer to its end with each *)
(* step or crashes.                                                        *)
THEOREM CloseIsBounded ==
  Spec => [][ Closing => /\ HandlerStep => CloseLeft' < CloseLeft
                         /\ ~HandlerStep => CloseLeft' = CloseLeft
                         /\ call = "close" => ~OnAudioReady
                         /\ AudioStep => CallbackLeft' < CallbackLeft \/ fault' # "none" ]_vars
<1>1. Init => StoppedFirst
  BY DEF Init, NativeInit, StoppedFirst
<1>2. TypeOK /\ SafetyInv /\ StoppedFirst /\ [Next]_vars =>
        [ Closing => /\ HandlerStep => CloseLeft' < CloseLeft
                     /\ ~HandlerStep => CloseLeft' = CloseLeft
                     /\ call = "close" => ~OnAudioReady
                     /\ AudioStep => CallbackLeft' < CallbackLeft \/ fault' # "none" ]_vars
  BY CloseStepCounts, OthersDoNotDelayClose, CallbackStepCounts DEF StoppedFirst, OnAudioReady
<1> QED BY <1>1, <1>2, StoppedStep, Invariant, PTL DEF Spec
=============================================================================
