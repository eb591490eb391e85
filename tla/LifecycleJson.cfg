CONSTANTS
  CallId = {c1, c2, c3, c4}
  Conv = {v1, v2}
  Phone = {p1}
  BlankPhone = blank
  ConsolePhones = {}
  Worker = {w1, w2}
  NoCall = NoCall
  NoConv = NoConv
  NoEvent = NoEvent
  NoStatus = NoStatus
  Console = Console
  MaxInitiated = 2
  EventsPerConv = 1
  MaxAttempts = 2
  MaxFaults = 0
  AdoptConsoleCalls = TRUE
  EchoCallId = FALSE
  Backend = "json"
SPECIFICATION Spec
SYMMETRY Symmetry
INVARIANTS OneCallPerConversation CompletedByOwnConversation
PROPERTIES WebhookKeepsTerminal BindsNewest
CHECK_DEADLOCK FALSE
