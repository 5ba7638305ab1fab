SPECIFICATION Spec
CONSTANTS
  m1 = m1
  m2 = m2
  Note = Note
  None = None
  Msgs = {m1, m2}
  Lane <- OwnLane
  Sids = {1, 2, 3, 4}
  Burst = 2
  MaxTurns = 2
  Verbs <- NoVerbs
  MaxReqs = 0
  Faults = {"crash", "infra", "failure", "in_use", "forget", "helper", "io", "launch", "term", "usr1", "rehome"}
  MaxFaults = 4
INVARIANTS TypeOK RestartAgrees
PROPERTIES NewOnce OneTurn RotationNeverSilent
CHECK_DEADLOCK FALSE
