\* The parts that stand on their own, one of them per behaviour.
CONSTANTS
  Shas = {"sha1", "sha2"}
  MaxPlans = 3
  MaxChanges = 1
  MaxBytes = 2
  MaxLinks = 2
  MaxHops = 6
  Identities = {i1, i2}
  Emails = {e1, e2, e3}
  MaxProfiles = 3
  Lists = {"w1"}
  Tickers = {"t1"}
  Requests = {1, 2}
  MaxText = 3
  Instructions = 1
  RepairAttempts = 2
  GroqAttempts = 5
  Recorders = {"a", "b"}
  Threads = {"t1", "t2"}
  Interval = 2
  MaxTime = 3
  MaxCalls = 3
  Symbols = {"s1", "s2"}
  Filters = {"f1", "f2"}
  PageSize = 2
  FeedSize = 3
  Companies = {"t1", "t2"}
  MaxTasks = 5

SPECIFICATION Spec

SYMMETRY Symmetry

INVARIANTS
  ReleasesKept
  SitesKept
  PeopleKept
  ServicesKept

\* Every part comes to an end of its own.
CHECK_DEADLOCK FALSE
