SPECIFICATION Spec
CONSTANTS
  SegNum = 2
  PerBlock = 2
  BitsPerByte = 2
  HashSize = 2
  KeySpace = 8
  ThreadNum = 2
  HeapFlags <- ZeroHeap
  Keys <- MCKeysWithLast
  HashOf <- MCHashOf
INVARIANTS
  DrainedBeforeReuse
CHECK_DEADLOCK FALSE
