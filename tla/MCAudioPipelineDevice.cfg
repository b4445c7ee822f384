SPECIFICATION Spec
CONSTANTS
  FrameSize = 4
  Channels = 2
  RingSize = 16
  Requests <- MCRequests
  MaxBlocks = 6
INVARIANT DeviceBufferFilled
