SPECIFICATION Spec
CONSTANTS
  Ids = {1, 3, 5, 7, 9}
  Limit = 2
  MaxChanges = 2
INVARIANTS
  TypeOK
  NeverTwice
  NothingSkipped
CHECK_DEADLOCK FALSE
