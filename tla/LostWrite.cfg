SPECIFICATION StoreSpec
CONSTANTS
  SegNum = 2
  PerBlock = 1
  BitsPerByte = 1
  HashSize = 2
  KeySpace = 8
  ThreadNum = 2
  HeapFlags <- ZeroHeap
  Keys <- MCKeys
  HashOf <- MCHashOf
  Clients = {c1, c2}
  LargeStarts = {}
  LargeLen = 2
  ReadKeys = {1}
  MaxWrites = 4
INVARIANTS
  NoWriteLost
CHECK_DEADLOCK FALSE
SYMMETRY ClientSymmetry
