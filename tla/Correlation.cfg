CONSTANTS
  Digit = {0, 1}
  Plus = Plus
  Separator = Separator
  MinDigits = 1
  MaxDigits = 3
  MaxCountryDigits = 1
  SuffixLength = 2
  CallId = {c1, c2, c3}
  Conv = {v1, v2}
  NoCall = NoCall
  Foreign = Foreign
  BlankConv = blank
  NoConv = NoConv
  NoBody = NoBody
  Console = Console
  Requests <- MCRequests
  ConsoleMobiles <- MCConsoleMobiles
  MaxRequests = 2
  MaxBodies = 1
SPECIFICATION Spec
SYMMETRY Symmetry
INVARIANTS CorrelationTypeOK CustomersKeptApart
PROPERTIES GreetingFindsTheCall
CHECK_DEADLOCK FALSE
