SPECIFICATION Spec
CONSTANTS
  Runs = {r1, r2}
  Docs = {1}
  Sums = {s1}
  Workers = {w1, w2}
  Requests = {q1, q2}
  Listings <- SteadyListings
  MaxDocuments = 2
  MaxReceives = 1
  MaxSends = 2
  MaxCrashes = 0
  MaxErrors = 1
  MaxDuplicates = 0
  MaxRedrives = 0
  None = None
SYMMETRY Symmetry
INVARIANTS
  QueuedIsOnItsWay
PROPERTIES
  NoRegress
  LifeKept
CHECK_DEADLOCK FALSE
