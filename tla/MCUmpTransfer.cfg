SPECIFICATION Spec
CHECK_DEADLOCK FALSE
CONSTANTS
  Long = 282
  BufferSize = 24
  Transfers = {"a", "b", "c", "d", "e"}
  Call <- MCCall
  Arguments1 <- MCArguments1
  Arguments2 <- MCArguments2
INVARIANTS TypeOK WalkInStep HeardInOrder SentMeansHeard GettersReadBack
PROPERTY TransfersArrive
