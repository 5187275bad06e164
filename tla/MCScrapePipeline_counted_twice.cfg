SPECIFICATION Spec
CONSTANTS
  Runs = {r1}
  Docs = {1}
  Sums = {s1}
  Workers = {w1, w2}
  Requests = {q1}
  Listings <- SteadyListings
  MaxDocuments = 2
  MaxReceives = 2
  MaxSends = 1
  MaxCrashes = 0
  MaxErrors = 1
  MaxDuplicates = 1
  MaxRedrives = 0
  None = None
SYMMETRY Symmetry
INVARIANTS
  FailuresMatch
CHECK_DEADLOCK FALSE
