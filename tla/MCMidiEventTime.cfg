SPECIFICATION EventSpec
CONSTANTS
  FrameSize = 16
  Channels = 2
  RingSize = 64
  Requests = {8, 31, 32}
  MaxBlocks = 3
  SampleRate = 32
  Second = 8
  Timestamps = {0, 100}
  Counts = {3, 40}
  Start = 14
  Instants = {14, 15, 16, 17, 34}
  LongMax = 17
INVARIANTS NoBlockLost NoUnderrun LatencyBelowBlock DeltaTimeAccurate MessageFits
