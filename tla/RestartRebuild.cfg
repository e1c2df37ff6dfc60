SPECIFICATION Spec
CONSTANTS
  SegNum = 2
  PerBlock = 2
  BitsPerByte = 2
  HashSize = 2
  KeySpace = 8
  Keys <- MCKeys
  HashOf <- MCHashOf
  MaxCrashes = 1
INVARIANTS
  RestartRebuilds
CHECK_DEADLOCK FALSE
