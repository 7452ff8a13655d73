\* Three versions, two concurrent creations and a consumer that reads all the time.
SPECIFICATION FairSpec
CONSTANTS
  None = None
  v1 = v1  v2 = v2  v3 = v3  a1 = a1  a2 = a2  c1 = c1
  Versions = {v1, v2, v3}
  Initial = v1
  Creators = {a1, a2}
  Readers = {c1}
  MaxFaults = 1
INVARIANTS
  TypeOK
  OneActiveAlone
  ActiveRemains
PROPERTIES
  CacheConverges
CHECK_DEADLOCK FALSE
