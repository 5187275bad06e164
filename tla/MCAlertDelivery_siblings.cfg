SPECIFICATION FairSpec
CONSTANTS
  i1 = i1
  i2 = i2
  a1 = a1
  a2 = a2
  run1 = run1
  m1 = m1
  m2 = m2
  Investors = {i1, i2}
  Artifacts = {a1}
  Runs = {run1}
  RunOf <- OneArtifact
  Records = {m1}
  ArtifactOf <- OneCopy
  Workers = {w1, w2}
  Cap = 1
  Budget = 1
  MaxReceives = 3
  SlowWorkers = FALSE
  StaleFirst = TRUE
  MaxFaults = 2
  MaxChanges = 0
  w1 = w1
  w2 = w2
CHECK_DEADLOCK FALSE
INVARIANT NothingForgotten
PROPERTY RowsResolve
