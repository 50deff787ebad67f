CONSTANTS
  own = own
  all = all
  third = third
  m1 = m1
  m2 = m2
  OwnMac = own
  Broadcast = all
  OtherMac = third
  Mac <- MCMac
  OwnIp = 1
  Ip <- MCIp
  EchoPort = 1
  Port <- MCPort
  Segments <- MCSegments
  Frames <- MCFrames
  IdMod = 2
  NoMac = NoMac
  MaxEntries = 1
  Ttl = 1
  Horizon = 1
  RetryInterval = 1
  MaxAttempts = 1
  InstantMax = 1
  Capacity = 1
  InitialSequence = 1
  SeqMod = 2
  FlagSets <- MCFlagSets
SYMMETRY Macs
SPECIFICATION Spec
INVARIANTS
  TypeOK
  SynAcksMatchTable
  AnswersDrawNoAnswer
