CONSTANTS
  m1 = m1
  m2 = m2
  NoMac = NoMac
  Ip <- TwoHosts
  Mac <- OneMac
  MaxEntries = 1
  Ttl = 2
  Horizon = 6
  RetryInterval = 2
  MaxAttempts = 2
  InstantMax = 6
SPECIFICATION Spec
INVARIANTS
  PendingNotCached
  AttemptsAreCounted
PROPERTIES
  FailuresAreEarned
  RequestsAreSpaced
