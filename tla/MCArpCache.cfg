CONSTANTS
  m1 = m1
  m2 = m2
  NoMac = NoMac
  Ip <- ThreeHosts
  Mac <- TwoMacs
  MaxEntries = 2
  Ttl = 3
  Horizon = 5
  RetryInterval = 2
  MaxAttempts = 0
  InstantMax = 5
SYMMETRY Macs
SPECIFICATION Spec
INVARIANTS
  TypeOK
  EntriesAreLatest
  KeepsMostRecent
  LookupsAreFresh
