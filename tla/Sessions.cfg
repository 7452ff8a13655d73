\* Two token pairs, two concurrent requests, two changes of the activity.
SPECIFICATION FairSpec
CONSTANTS
  None = None
  p1 = p1  p2 = p2  c1 = c1  c2 = c2
  Pairs = {p1, p2}
  Callers = {c1, c2}
  AccessLife = 1
  RefreshLife = 2
  MaxChanges = 2
  MaxFaults = 1
INVARIANTS
  TypeOK
  RevokedIsRefused
PROPERTIES
  StatusPrevails
CHECK_DEADLOCK FALSE
