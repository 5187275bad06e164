SPECIFICATION LiveSpec
CONSTANTS
  Runs = {r1}
  Docs = {1}
  Sums = {s1}
  Workers = {w1, w2}
  Requests = {q1}
  Listings <- SteadyListings
  MaxDocuments = 2
  MaxReceives = 1
  MaxSends = 1
  MaxCrashes = 1
  MaxErrors = 0
  MaxDuplicates = 0
  MaxRedrives = 0
  None = None
PROPERTIES
  LeftOpenIsClosed
CHECK_DEADLOCK FALSE
