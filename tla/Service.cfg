SPECIFICATION MCServiceSpec
CONSTANTS
  Clients = {c1, c2}
  Boot = boot
  MaxUpsets = 4
  MaxTokens = 3
INVARIANTS
  ServiceTypeOK
  OneSchedule
  ChoiceHolds
PROPERTIES
  CancelledEnds
  AskedPassRuns
CHECK_DEADLOCK FALSE
