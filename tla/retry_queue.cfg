SPECIFICATION Spec
CONSTANTS
  n1 = n1
  n2 = n2
  n3 = n3
  Rows = {n1, n2, n3}
  Slots = 1
  Policy <- UserWelcome
  LongestBackoff = 2
  HttpTimeout = 1
  StepTime = 1
  RecoveryThreshold = 24
SYMMETRY Symmetry
INVARIANTS
  TypeOK
  WaitBounded
  QueueWaitBounded
  SettledBeforeRecovery
