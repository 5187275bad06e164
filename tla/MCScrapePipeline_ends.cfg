SPECIFICATION LiveSpec
CONSTANTS
  Runs = {r1}
  Docs = {1}
  Sums = {s1}
  Workers = {w1, w2}
  Requests = {q1}
  Listings <- SteadyListings
  MaxDocuments = 2
  MaxReceives = 2
  MaxSends = 2
  MaxCrashes = 2
  MaxErrors = 0
  MaxDuplicates = 0
  MaxRedrives = 0
  None = None
PROPERTIES
  DownloadsEnd
  AnalysesEnd
  DiscoveryEnds
CHECK_DEADLOCK FALSE
