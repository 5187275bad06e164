SPECIFICATION Spec
CONSTANTS
  Runs = {r1}
  Docs = {1, 2}
  Sums = {s1}
  Workers = {w1, w2}
  Requests = {q1}
  Listings <- SteadyListings
  MaxDocuments = 2
  MaxReceives = 2
  MaxSends = 1
  MaxCrashes = 1
  MaxErrors = 1
  MaxDuplicates = 0
  MaxRedrives = 0
  None = None
SYMMETRY Symmetry
INVARIANTS
  FinishedMeansDone
  AcknowledgedIsSettled
  AnnouncedIsAnalysed
CHECK_DEADLOCK FALSE
