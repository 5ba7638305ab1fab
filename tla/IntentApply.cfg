SPECIFICATION Spec
CONSTANTS
  None = None
  MaxAttempts = 3
  MaxRows = 2
  Files <- HardFiles
  Budget = 1
  RetryLimit = 2
  ReportLimit = 2
  DeferLimit = 2
  MessageErrors = 1
  ByMessage = FALSE
  Faults = {"crash", "late", "ledger", "show", "send", "self", "done", "bindings", "cap", "sidecar", "worktree", "infra", "failure", "cancel", "delivery"}
  MaxFaults = 2
INVARIANTS TypeOK RowsAsClosed  ToldIsTrue OneFollowUp
CHECK_DEADLOCK FALSE
