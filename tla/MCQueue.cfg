SPECIFICATION FairSpec
CONSTANTS
  Clients = {c1, c2}
  Size = 2
  Wrap = 4
  NoTask = NoTask
  Torn = Torn
INVARIANTS
  TypeOK
  NoTornTask
  NoLostPost
PROPERTIES
  ImplementsFifo
  WaitingIsServed
  HolderIsAdmitted
