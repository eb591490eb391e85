CONSTANTS
  CallId = {c1, c2}
  Conv = {v1}
  Phone = {p1}
  BlankPhone = blank
  ConsolePhones = {}
  Worker = {w1, w2}
  NoCall = NoCall
  NoConv = NoConv
  NoEvent = NoEvent
  NoStatus = NoStatus
  Console = Console
  MaxInitiated = 1
  EventsPerConv = 1
  MaxAttempts = 1
  MaxFaults = 0
  AdoptConsoleCalls = TRUE
  EchoCallId = FALSE
  Backend = "mongo"
SPECIFICATION Spec
PROPERTIES WebhookKeepsTerminal
CHECK_DEADLOCK FALSE
