SPECIFICATION Spec
CONSTANTS
  m1 = m1
  m2 = m2
  r1 = r1
  r2 = r2
  Messages = {m1}
  Replicas = {r1}
  Prefetch = 1
  MaxStops = 1
  MaxLosses = 0
PROPERTIES
  ClosedAfterDrain
CHECK_DEADLOCK FALSE
