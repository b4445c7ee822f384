------------------------- MODULE ProcessorLifecycle -------------------------
(***************************************************************************)
(* What AAPMidiProcessor promises whoever drives it, in terms of the       *)
(* states of AAPMidiProcessorState: plugins are instantiated and the MIDI  *)
(* protocol is chosen only before the first activation, the protocol       *)
(* before the first plugin; an error is final until a new processor is     *)
(* made.                                                                   *)
(***************************************************************************)
EXTENDS Naturals

VARIABLES state, plugins, protocol

vars == <<state, plugins, protocol>>

MIDI1 == 1
MIDI2 == 2

Init == state = "CREATED" /\ plugins = 0 /\ protocol = MIDI1

New == state' = "CREATED" /\ plugins' = 0 /\ protocol' = MIDI1

ChooseProtocol ==
  /\ state = "CREATED" /\ plugins = 0
  /\ protocol' = MIDI2
  /\ UNCHANGED <<state, plugins>>

Prepare ==
  /\ state = "CREATED"
  /\ plugins' = plugins + 1
  /\ UNCHANGED <<state, protocol>>

Activate ==
  /\ state \in {"CREATED", "INACTIVE"}
  /\ state' = "ACTIVE"
  /\ UNCHANGED <<plugins, protocol>>

Deactivate ==
  /\ state = "ACTIVE"
  /\ state' = "INACTIVE"
  /\ UNCHANGED <<plugins, protocol>>

Fail == state' = "ERROR" /\ UNCHANGED <<plugins, protocol>>

Next == New \/ ChooseProtocol \/ Prepare \/ Activate \/ Deactivate \/ Fail

Spec == Init /\ [][Next]_vars
=============================================================================
