CONSTANTS
  own = own
  all = all
  third = third
  m1 = m1
  OwnMac = own
  Broadcast = all
  OtherMac = third
  Mac <- MCMac
  OwnIp = 167772161
  Ip <- MCIp
  Port <- MCPort
  Inputs <- MCInputs
  EchoPort = 9000
  IdMod = 2
  NoMac = NoMac
  MaxEntries = 1
  Ttl = 1
  Horizon = 0
  RetryInterval = 1
  MaxAttempts = 1
  InstantMax = 1
  Capacity = 1
  InitialSequence = 305419896
  SeqMod = 2147483647
  FlagSets <- MCFlagSets
SPECIFICATION Spec
INVARIANTS
  SerialisingNeverFails
  RepliesFit
PROPERTIES
  ImplementsInterface
  ErrorsChangeNothing
