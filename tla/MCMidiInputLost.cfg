SPECIFICATION Spec
CONSTANTS
  midi_protocol = 1
  MaxMessages = 1
INVARIANTS OneMessagePerCycle
