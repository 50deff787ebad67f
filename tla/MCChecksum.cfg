CONSTANTS
  Byte <- MCByte
  MaxLen = 7
SPECIFICATION Spec
INVARIANTS
  SumFits
  ResultIsChecksum
PROPERTY Terminates
CHECK_DEADLOCK FALSE
