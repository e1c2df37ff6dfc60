SPECIFICATION FairSpec
CONSTANTS
  SegNum = 2
  PerBlock = 2
  BitsPerByte = 2
  HashSize = 2
  KeySpace = 8
  Keys <- MCKeys
  HashOf <- MCHashOf
  MaxCrashes = 2
INVARIANTS
  TypeOK
  AccessIsMapped
  ServedIsDescribed
  ReadyMeansServing
  FailedStartKeepsRecords
PROPERTIES
  SleeperIsWoken
CHECK_DEADLOCK FALSE
