SPECIFICATION Spec
CONSTANTS
  None = None
  MaxAttempts = 2
  MaxRows = 2
  Files <- PlainFiles
  Budget = 1
  RetryLimit = 2
  ReportLimit = 2
  DeferLimit = 2
  MessageErrors = 3
  ByMessage = TRUE
  Faults = {"ledger"}
  MaxFaults = 1
INVARIANTS PickupStarts
