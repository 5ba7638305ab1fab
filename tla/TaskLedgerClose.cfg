SPECIFICATION Spec
CONSTANTS
  None = None
  ld = ld
  dev1 = dev1
  dev2 = dev2
  other = other
  r1 = r1
  r2 = r2
  s1 = s1
  t1 = t1
  t2 = t2
  b1 = b1
  b2 = b2
  c1 = c1
  c2 = c2
  c3 = c3
  c4 = c4
  c5 = c5
  c6 = c6
  w1 = w1
  w2 = w2
  Runs = {r1, r2}
  Causes = {c1, c2, c3, c4, c5}
  IntentNs = {1}
  Agents = {ld, dev1, dev2, other}
  Teams = {t1, t2}
  Sources = {s1}
  Bodies = {b1}
  Writers = {w1}
  Requested <- CloseRequests
  TeamOf <- TwoTeams
  Supervised = {dev1, dev2, other}
  Leads0 <- TwoLeads
  Candidates = {ld}
  max_open = 1
  max_tasks_per_run = 3
  max_assignments_per_task = 2
  max_turns_per_task = 1
INVARIANTS NeverInvalid TeamsApart ClosedRunSettled
PROPERTIES ImplementsBoard
