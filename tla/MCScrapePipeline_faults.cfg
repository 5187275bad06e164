SPECIFICATION Spec
CONSTANTS
  Runs = {r1}
  Docs = {1}
  Sums = {s1, s2}
  Workers = {w1, w2}
  Requests = {q1}
  Listings <- SteadyListings
  MaxDocuments = 2
  MaxReceives = 2
  MaxSends = 1
  MaxCrashes = 1
  MaxErrors = 1
  MaxDuplicates = 1
  MaxRedrives = 1
  None = None
SYMMETRY Symmetry
INVARIANTS
  TypeOK
  CountersMatch
  FailuresCounted
PROPERTIES
  LifeKept
CHECK_DEADLOCK FALSE
