\* Three requests: an analysis and two requests to retry it, and a removal.
SPECIFICATION Spec
CONSTANTS
  None = None
  r1 = r1  r2 = r2  r3 = r3  c1 = c1  c2 = c2
  Requests = {r1, r2, r3}
  Consumers = {c1}
  Blank = {}
  MaxAttempts = 0
  MaxRetries = 0
  PublishFaults = {"error", "ambiguous"}
  Redelivers = FALSE
  MaxFaults = 2
  MaxRemovals = 1
SYMMETRY Symmetry
INVARIANTS
  OneRetryEach
CHECK_DEADLOCK FALSE
