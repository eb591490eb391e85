CONSTANTS
  Call = {c1}
  Process = {p1}
  ProcessOf <- MCProcessOf
  NoCall = NoCall
  MaxAttempts = 2
SPECIFICATION Spec
INVARIANTS FailuresAreGnaniErrors
CHECK_DEADLOCK FALSE
