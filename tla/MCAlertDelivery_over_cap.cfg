SPECIFICATION Spec
CONSTANTS
  i1 = i1
  i2 = i2
  a1 = a1
  a2 = a2
  run1 = run1
  m1 = m1
  m2 = m2
  Investors = {i1}
  Artifacts = {a1, a2}
  Runs = {run1}
  RunOf <- OneRun
  Records = {m1, m2}
  ArtifactOf <- RecordEach
  Workers = {w1, w2}
  Cap = 1
  Budget = 2
  MaxReceives = 2
  SlowWorkers = FALSE
  StaleFirst = TRUE
  MaxFaults = 1
  MaxChanges = 0
  w1 = w1
  w2 = w2
CHECK_DEADLOCK FALSE
INVARIANT AlertsWithinCap
