SPECIFICATION Spec
CONSTANTS
  h1 = h1
  h2 = h2
  t1 = t1
  t2 = t2
  Rows = {1}
  Handlers = {h1, h2}
  Tickers = {t1}
  MaxAttempts = 1
  MaxRedrives = 1
  BatchSize = 1
  MaxLag = 1
  MaxManual = 0
  MaxFaults = 0
PROPERTIES
  SentIsTerminal
