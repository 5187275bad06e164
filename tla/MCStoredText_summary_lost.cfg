SPECIFICATION Spec
CONSTANTS
  p1 = p1
  c1 = c1
  c2 = c2
  w1 = w1
  w2 = w2
  Posts = {p1}
  Keys = {"event"}
  Collectors = {c1}
  Workers = {w1, w2}
  Summaries = {"s"}
  MaxReceives = 1
  MaxAsks = 2
  MaxSends = 1
  MaxErrors = 0
  MaxStops = 0
CHECK_DEADLOCK FALSE
INVARIANT SummariesAgree
