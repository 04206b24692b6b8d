SPECIFICATION Spec
CONSTANTS
  good = good
  bad = bad
  h1 = h1
  h2 = h2
  Events = {good, bad}
  Bad = {bad}
  Handlers = {h1, h2}
  MaxAttempts = 2
  MaxSent = 2
  MaxRepublish = 1
  MaxFaults = 1
SYMMETRY Symmetry
INVARIANTS
  TypeOK
  NothingVanishes
  ShelvedPaid
  FailuresBounded
CHECK_DEADLOCK FALSE
