SPECIFICATION FairSpec
CONSTANTS
  p1 = p1
  c1 = c1
  c2 = c2
  w1 = w1
  w2 = w2
  Posts = {p1}
  Keys = {"event"}
  Collectors = {c1, c2}
  Workers = {w1, w2}
  Summaries = {}
  MaxReceives = 2
  MaxAsks = 2
  MaxSends = 2
  MaxErrors = 1
  MaxStops = 1
CHECK_DEADLOCK FALSE
INVARIANTS
  TypeOK
  CollectedIsTaken
  QueuedHasMessage
PROPERTIES
  TextKept
  TakenEnds
  RunsEnd
