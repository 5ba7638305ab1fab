SPECIFICATION FairSpec
CONSTANTS
  None = None
  MaxAttempts = 5
  MaxRows = 2
  Files <- PlainFiles
  Budget = 1
  RetryLimit = 2
  ReportLimit = 2
  DeferLimit = 2
  MessageErrors = 3
  ByMessage = TRUE
  Faults = {"crash", "late", "ledger", "show", "send", "self", "done", "bindings", "cap", "sidecar", "worktree", "infra", "failure", "cancel", "delivery"}
  MaxFaults = 1
PROPERTIES TaskSettles 
