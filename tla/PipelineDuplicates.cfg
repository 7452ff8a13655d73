\* One document whose messages may be delivered twice, and two workers.
SPECIFICATION Spec
CONSTANTS
  None = None
  d1 = d1  d2 = d2  u1 = u1  w1 = w1  w2 = w2
  good = good  virus = virus  broken = broken  blank = blank
  Docs = {d1}
  Workers = {w1, w2}
  Readers = {}
  Contents = {good, virus, broken}
  Infected = {virus}
  Broken = {broken}
  Blank = {}
  AntivirusEnabled = TRUE
  FailOnUnavailable = TRUE
  MaxRetries = 1
  PublishFaults = {"error", "ambiguous", "twice"}
  MaxFaults = 2
  MaxCancels = 1
SYMMETRY Symmetry
INVARIANTS
  StoredHasObject
  InfectedNeverStored
  ExtractedHasText
  NoStuckDocument
CHECK_DEADLOCK FALSE
