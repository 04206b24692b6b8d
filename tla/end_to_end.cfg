SPECIFICATION FairSpec
CONSTANTS
  i1 = i1
  p1 = p1
  n1 = n1
  Users = {1}
  IngestHandlers = {i1}
  Tickers = {n1}
  PushHandlers = {p1}
  MaxAttempts = 2
  MaxRedrives = 1
  MaxBacklog = 1
  MaxSent = 1
  MaxFaults = 1
INVARIANTS
  TypeOK
  SentIsKept
PROPERTIES
  EveryUserIsServed
CHECK_DEADLOCK FALSE
