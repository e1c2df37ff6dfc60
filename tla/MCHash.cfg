SPECIFICATION FairSpec
CONSTANTS
  SegNum = 1
  PerBlock = 3
  BitsPerByte = 1
  HashSize = 3
  KeySpace = 8
  Keys <- MCKeys
  HashOf <- MCHashOf
  ThreadNum = 2
  Values = {0}
INVARIANTS
  TypeOK
  NodesAccounted
  LenIsLength
  AbortMeansLeak
PROPERTIES
  ImplementsIndex
  SweepEnds
CHECK_DEADLOCK FALSE
