\* No fault at all: one cancel against a running task.
SPECIFICATION Spec
CONSTANTS
  None = None
  d1 = d1  d2 = d2  u1 = u1  w1 = w1  w2 = w2
  good = good  virus = virus  broken = broken  blank = blank
  Docs = {d1}
  Workers = {w1}
  Readers = {}
  Contents = {good}
  Infected = {}
  Broken = {}
  Blank = {}
  AntivirusEnabled = TRUE
  FailOnUnavailable = TRUE
  MaxRetries = 0
  PublishFaults = {}
  MaxFaults = 0
  MaxCancels = 1
PROPERTIES
  CancelledIsFinal
CHECK_DEADLOCK FALSE
