SPECIFICATION FairSpec
CONSTANTS
  m1 = m1
  m2 = m2
  r1 = r1
  r2 = r2
  Messages = {m1, m2}
  Replicas = {r1, r2}
  Prefetch = 1
  MaxStops = 2
  MaxLosses = 2
INVARIANTS
  TypeOK
  StartsBounded
PROPERTIES
  Settles
  ShutdownEnds
CHECK_DEADLOCK FALSE
