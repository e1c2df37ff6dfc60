SPECIFICATION FairSpec
CONSTANTS
  Clients = {c1, c2}
  Threshold = 3
  SsdNum = 3
  Word = 16
  KeySpace = 4
  QueueNum = 2
  QueueSize = 2
  MaxWrites = 3
  Requests <- MCRequests
  HeapFlags <- MCHeap
INVARIANTS
  TypeOK
  CompletedIsServed
  AreasKeepWrites
  PartsPartition
PROPERTIES
  PostedIsAnswered
CHECK_DEADLOCK FALSE
