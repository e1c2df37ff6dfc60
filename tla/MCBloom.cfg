SPECIFICATION Spec
CONSTANTS
  Keys <- MCKeys
  NFuncs = 3
  CountsPerFunc = 3
  Base = 3
  Word = 16
  H1 <- MCH1
  H2 <- MCH2
INVARIANTS
  TypeOK
  CountersCountMembers
