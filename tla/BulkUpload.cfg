CONSTANTS
  CallId = {c1, c2}
  Conv = {v1}
  Phone = {p1}
  BlankPhone = blank
  ConsolePhones = {}
  Worker = {w1}
  NoCall = NoCall
  NoConv = NoConv
  NoEvent = NoEvent
  NoStatus = NoStatus
  Console = Console
  MaxInitiated = 2
  EventsPerConv = 1
  MaxAttempts = 1
  MaxFaults = 1
  AdoptConsoleCalls = FALSE
  EchoCallId = FALSE
  Backend = "mongo"
  MaxRows = 2
SPECIFICATION FairUploadSpec
INVARIANTS UploadTypeOK ReportMatchesStore
PROPERTIES UploadEnds UploadsAreRequests EveryRequestAnswered EveryEventResolved
CHECK_DEADLOCK FALSE
