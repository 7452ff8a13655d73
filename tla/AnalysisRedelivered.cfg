\* One analysis whose message is published or delivered more than once, and two handlers.
SPECIFICATION Spec
CONSTANTS
  None = None
  r1 = r1  r2 = r2  r3 = r3  c1 = c1  c2 = c2
  Requests = {r1}
  Consumers = {c1, c2}
  Blank = {}
  MaxAttempts = 1
  MaxRetries = 1
  PublishFaults = {"error", "ambiguous", "twice"}
  Redelivers = TRUE
  MaxFaults = 3
  MaxRemovals = 1
SYMMETRY Symmetry
INVARIANTS
  NoStuckAnalysis
  SuccessIsClean
CHECK_DEADLOCK FALSE
