SPECIFICATION Spec
CONSTANTS
  None = None
  w1 = w1
  w2 = w2
  Writers = {w1, w2}
  Requested <- CommitRequests
  MaxSeq = 3
INVARIANTS TypeOK Contiguous AnchorNeverAhead AckedSurvive AttemptsEndOnce
PROPERTIES ImplementsLog
