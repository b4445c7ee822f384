SPECIFICATION FairSpec
CONSTANTS
  midi_protocol = 1
  MaxMessages = 2
INVARIANTS TypeOK UndisturbedIsHeard HeardOnceInOrder
PROPERTIES FreshIsHeard
