SPECIFICATION FairSpec
CONSTANTS
  SegNum = 2
  PerBlock = 2
  BitsPerByte = 2
  HashSize = 2
  KeySpace = 8
  ThreadNum = 2
  HeapFlags <- ZeroHeap
  Keys <- MCKeys
  HashOf <- MCHashOf
INVARIANTS
  TypeOK
  MigrationExclusive
  DrainedBeforeReuse
  IndexConsistent
  WriteIsIndexed
  SearchTerminates
PROPERTIES
  NoEntryDropped
  SweepTerminates
CHECK_DEADLOCK FALSE
