CONSTANTS
  own = own
  all = all
  third = third
  m1 = m1
  OwnMac = own
  Broadcast = all
  OtherMac = third
  Mac <- MCMac
  OwnIp = 1
  Ip <- MCIp
  EchoPort = 1
  Port <- MCPort
  Segments <- MCSegments
  Frames <- MCFrames
  IdMod = 1
  NoMac = NoMac
  MaxEntries = 2
  Ttl = 2
  Horizon = 4
  RetryInterval = 1
  MaxAttempts = 1
  InstantMax = 4
  Capacity = 1
  InitialSequence = 1
  SeqMod = 2
  FlagSets <- MCFlagSets
SPECIFICATION RSpec
INVARIANTS
  MappingsExpireInTime
PROPERTY LoopIsResolver
CHECK_DEADLOCK FALSE
