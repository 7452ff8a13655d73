\* One creation after another, no faults.
SPECIFICATION FairSpec
CONSTANTS
  None = None
  v1 = v1  v2 = v2  v3 = v3  a1 = a1  a2 = a2  c1 = c1
  Versions = {v1, v2}
  Initial = v1
  Creators = {a1}
  Readers = {c1}
  MaxFaults = 0
INVARIANTS
  CachedIsActive
CHECK_DEADLOCK FALSE
