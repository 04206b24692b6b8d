SPECIFICATION Spec
CONSTANTS
  h1 = h1
  h2 = h2
  t1 = t1
  t2 = t2
  Rows = {1, 2}
  Handlers = {h1}
  Tickers = {t1, t2}
  MaxAttempts = 2
  MaxRedrives = 1
  BatchSize = 2
  MaxLag = 0
  MaxManual = 0
  MaxFaults = 0
SYMMETRY Symmetry
INVARIANTS
  RedrivesCapped
  ClaimedOncePerStay
  HistoryOwed
  DispatchInFlight
