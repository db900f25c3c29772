SPECIFICATION FairSpec
CONSTANTS
  c1 = c1
  c2 = c2
  c3 = c3
  shared = shared
  None = None
  Clients <- MCClients
  CallerIds <- MCCallerIds
  Bodies <- MCBodies
INVARIANTS
  TypeOK
  SingleOwner
  QueueSound
  NothingLeaks
PROPERTIES
  DomainFifo
  GateRefined
  WaitersServed
