SPECIFICATION FairSpec
CONSTANTS
  SegNum = 2
  PerBlock = 2
  BitsPerByte = 2
  HashSize = 2
  KeySpace = 8
  ThreadNum = 2
  HeapFlags <- ZeroHeap
  Keys <- MCKeys
  HashOf <- MCHashOf
PROPERTIES
  MigrationEnds
CHECK_DEADLOCK FALSE
