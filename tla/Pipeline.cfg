\* One document whose messages are delivered at most once: every fault but a duplicate.
SPECIFICATION FairSpec
CONSTANTS
  None = None
  d1 = d1  d2 = d2  u1 = u1  w1 = w1  w2 = w2
  good = good  virus = virus  broken = broken  blank = blank
  Docs = {d1}
  Workers = {w1, w2}
  Readers = {}
  Contents = {good, virus, broken}
  Infected = {virus}
  Broken = {broken}
  Blank = {}
  AntivirusEnabled = TRUE
  FailOnUnavailable = FALSE
  MaxRetries = 2
  PublishFaults = {"error"}
  MaxFaults = 4
  MaxCancels = 2
INVARIANTS
  TypeOK
  NoLeakedTempFile
  NoStuckDocument
  NoQueuedOrphan
  NoDanglingName
PROPERTIES
  KeepsPromise
  ExtractedIsKept
  EndedIsKept
  DocumentSettles
  UploadIsAnalysed
CHECK_DEADLOCK FALSE
