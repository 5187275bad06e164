SPECIFICATION Spec
CONSTANTS
  Runs = {r1}
  Docs = {1}
  Sums = {s1}
  Workers = {w1, w2}
  Requests = {q1, q2}
  Listings <- SteadyListings
  MaxDocuments = 2
  MaxReceives = 2
  MaxSends = 2
  MaxCrashes = 1
  MaxErrors = 1
  MaxDuplicates = 0
  MaxRedrives = 0
  None = None
SYMMETRY Symmetry
INVARIANTS
  QueuedIsOnItsWay
CHECK_DEADLOCK FALSE
