SPECIFICATION FairSpec
CONSTANTS
  m1 = m1
  m2 = m2
  r1 = r1
  r2 = r2
  Messages = {m1, m2}
  Invalid = {m2}
  Drains = {r1, r2}
  MaxFaults = 1
INVARIANTS
  TypeOK
  NoneLost
  NoneCopied
  InvalidStays
  AloneVisitsOnce
  DrainComplete
PROPERTIES
  DrainEnds
CHECK_DEADLOCK FALSE
