CONSTANTS
  Macs <- MCMacs
  Messages <- MCMessages
  Padding <- MCPadding
  Words <- MCWords
SPECIFICATION Spec
INVARIANTS
  RoundTrip
  TruncationIsRefused
  DamageIsNoticed
  UdpIsChecksummed
CHECK_DEADLOCK FALSE
