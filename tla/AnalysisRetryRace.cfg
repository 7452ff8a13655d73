\* A failed analysis, one request to retry it and one to remove it.
SPECIFICATION Spec
CONSTANTS
  None = None
  r1 = r1  r2 = r2  r3 = r3  c1 = c1  c2 = c2
  Requests = {r1, r2}
  Consumers = {c1}
  Blank = {}
  MaxAttempts = 0
  MaxRetries = 0
  PublishFaults = {"error"}
  Redelivers = FALSE
  MaxFaults = 1
  MaxRemovals = 1
INVARIANTS
  RetryHasParent
CHECK_DEADLOCK FALSE
