SPECIFICATION Spec
CONSTANTS
  Runs = {r1, r2}
  Docs = {1}
  Sums = {s1}
  Workers = {w1, w2}
  Requests = {q1, q2}
  Listings <- SteadyListings
  MaxDocuments = 2
  MaxReceives = 2
  MaxSends = 1
  MaxCrashes = 0
  MaxErrors = 2
  MaxDuplicates = 0
  MaxRedrives = 0
  None = None
SYMMETRY Symmetry
PROPERTIES
  SkippedHasEntered
CHECK_DEADLOCK FALSE
