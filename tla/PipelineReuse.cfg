\* Two documents and a reader, with equal, different or blank contents.
SPECIFICATION Spec
CONSTANTS
  None = None
  d1 = d1  d2 = d2  u1 = u1  w1 = w1  w2 = w2
  good = good  virus = virus  broken = broken  blank = blank
  Docs = {d1, d2}
  Workers = {w1}
  Readers = {u1}
  Contents = {good, blank}
  Infected = {}
  Broken = {}
  Blank = {blank}
  AntivirusEnabled = FALSE
  FailOnUnavailable = FALSE
  MaxRetries = 0
  PublishFaults = {"error", "ambiguous", "twice"}
  MaxFaults = 1
  MaxCancels = 1
SYMMETRY Symmetry
INVARIANTS
  StoredHasObject
  TextIsOwn
  RequestedHasText
  NoLeakedTempFile
  AnswersAreTrue
  NoQueuedOrphan
CHECK_DEADLOCK FALSE
