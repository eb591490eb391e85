CONSTANTS
  Call = {1, 2}
  Real = {1}
  Event = {e1, e2}
  Torn = Torn
  NoItem = NoItem
  ListLimit = 2
  MaxErrors = 1
  MaxCrashes = 2
SPECIFICATION Spec
INVARIANTS TypeOK AckedDurable DuplicateIsDurable
CHECK_DEADLOCK FALSE
