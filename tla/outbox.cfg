SPECIFICATION FairSpec
CONSTANTS
  t1 = t1
  t2 = t2
  Events = {1, 2}
  Tickers = {t1, t2}
  BatchSize = 2
  MaxSweeps = 2
  MaxFaults = 2
INVARIANTS
  TypeOK
  PublishedIsAtRest
  CopiesPaid
PROPERTIES
  KeepsPromise
