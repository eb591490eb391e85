CONSTANTS
  Call = {c1, c2}
  Process = {p1}
  ProcessOf <- MCProcessOf
  NoCall = NoCall
  MaxAttempts = 3
SPECIFICATION FairSpec
INVARIANTS TypeOK OwnVariables NeverWithoutVariables
PROPERTIES ImplementsContract EveryTriggerEnds
CHECK_DEADLOCK FALSE
