SPECIFICATION Spec
CONSTANTS
  Runs = {r1}
  Docs = {1, 2, 3}
  Sums = {s1}
  Workers = {w1}
  Requests = {q1}
  Listings <- SteadyListings
  MaxDocuments = 3
  MaxReceives = 1
  MaxSends = 1
  MaxCrashes = 0
  MaxErrors = 2
  MaxDuplicates = 0
  MaxRedrives = 0
  None = None
INVARIANTS
  FinishedMeansDone
CHECK_DEADLOCK FALSE
