CONSTANTS
  Char <- MCChar
  NUL = "NUL"
  RequestedNames <- MCRequestedNames
  GrantedNames <- MCGrantedNames
  IFNAMSIZ = 3
  BufferLen = 3
  Lengths <- MCLengths
  MaxFrames = 3
  MaxSignals = 1
SPECIFICATION Spec
INVARIANTS
  DeviceIsTheOneAskedFor
  NoStaleBytes
  OneFramePerReply
  ReportsAreTruthful
PROPERTY FramesAreRead
CHECK_DEADLOCK FALSE
