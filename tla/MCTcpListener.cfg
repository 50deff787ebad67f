CONSTANTS
  r1 = r1
  r2 = r2
  RemoteIp <- MCRemoteIp
  Port <- MCPort
  LocalPort = 2
  Capacity = 3
  InitialSequence = 2
  SeqMod = 3
  FlagSets <- MCFlagSets
SPECIFICATION Spec
INVARIANTS
  TypeOK
  ConsistentNumbers
  DistinctInitialSequences
  IssuedInOrder
  AnswersMatchTable
PROPERTY ImplementsPassiveOpen
SYMMETRY Peers
