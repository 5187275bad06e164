SPECIFICATION Spec
CONSTANTS
  r1 = r1
  r2 = r2
  a1 = a1
  a2 = a2
  s1 = s1
  s2 = s2
  Requests = {r1, r2}
  Addresses = {a1, a2}
  Secrets = {s1, s2}
  Interval = 2
  Lifetime = 2
  MaxNow = 6
  MaxFaults = 1
CHECK_DEADLOCK FALSE
SYMMETRY Symmetry
INVARIANTS
  TypeOK
  VerifiedByHolder
  FailedLinkIsDead
  PendingIsMailed
PROPERTIES
  VerifiedIsKept
  ConsentKept
