SPECIFICATION RewindSpec
CONSTANTS
  None = None
  w1 = w1
  w2 = w2
  Writers = {w1, w2}
  Requested <- RepairRequests
  MaxSeq = 3
SYMMETRY Swap
INVARIANTS NoSilentLoss
