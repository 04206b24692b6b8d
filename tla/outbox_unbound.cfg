SPECIFICATION Spec
CONSTANTS
  t1 = t1
  t2 = t2
  Events = {1}
  Tickers = {t1}
  BatchSize = 1
  MaxSweeps = 0
  MaxFaults = 0
INVARIANTS
  PublishedIsQueued
