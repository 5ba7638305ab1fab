SPECIFICATION Spec
CONSTANTS
  m1 = m1
  m2 = m2
  Note = Note
  None = None
  Msgs = {m1}
  Lane <- OneLane
  Sids = {1, 2, 3, 4}
  Burst = 2
  MaxTurns = 2
  Verbs <- AllVerbs
  MaxReqs = 2
  Faults = {"crash", "infra", "failure", "forget", "helper", "io", "unsafe", "overrun", "linger"}
  MaxFaults = 2
INVARIANTS RestartAgrees
PROPERTIES HaltedStartsNothing ControlOnce
CHECK_DEADLOCK FALSE
