CONSTANTS
  CallId = {c1, c2, c3}
  Conv = {v1}
  Phone = {p1}
  BlankPhone = blank
  ConsolePhones = {p1, blank}
  Worker = {w1, w2}
  NoCall = NoCall
  NoConv = NoConv
  NoEvent = NoEvent
  NoStatus = NoStatus
  Console = Console
  MaxInitiated = 1
  EventsPerConv = 2
  MaxAttempts = 1
  MaxFaults = 1
  AdoptConsoleCalls = TRUE
  EchoCallId = FALSE
  Backend = "mongo"
SPECIFICATION Spec
SYMMETRY Symmetry
INVARIANTS TypeOK OneCallPerEvent LedgerAccounted CorrelatedByPhone
PROPERTIES NeverReapplied ImplementsInbox
CHECK_DEADLOCK FALSE
