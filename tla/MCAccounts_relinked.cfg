\* With linking by email on, three requests of three identities move an answered profile.
CONSTANTS
  Identities = {i1, i2, i3}
  Emails = {e1, e2, e3}
  MaxProfiles = 3
  Lists = {"w1"}
  Tickers = {"t1"}
  Requests = {1, 2, 3}

SPECIFICATION Spec
SYMMETRY Symmetry
CONSTRAINT SignInsAndUpdates
INVARIANTS
  ProfilesKept
  ProfilesNeverMoved
CHECK_DEADLOCK FALSE
