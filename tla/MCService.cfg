CONSTANTS
  r1 = r1
  r2 = r2
  RemoteIp <- MCRemoteIp
  Port <- MCPort
  LocalPort = 1
  Capacity = 1
  InitialSequence = 2
  SeqMod = 3
  FlagSets <- MCFlagSets
  ClientIsn <- MCClientIsn
  MaxConnects = 2
  MaxRestarts = 0
SPECIFICATION FairSpec
PROPERTY WaitingPeerIsServed
CHECK_DEADLOCK FALSE
