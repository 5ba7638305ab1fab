SPECIFICATION FairSpec
CONSTANTS
  m1 = m1
  m2 = m2
  Note = Note
  None = None
  Msgs = {m1, m2}
  Lane <- TwoLanes
  Sids = {1, 2, 3, 4}
  Burst = 4
  MaxTurns = 2
  Verbs <- NoVerbs
  MaxReqs = 0
  Faults = {"crash", "infra", "failure", "forget", "helper", "io", "in_use"}
  MaxFaults = 3
PROPERTIES MessagesSettle
CHECK_DEADLOCK FALSE
