\* Reliable delivery: a message has one handler at a time and is redelivered when it dies.
SPECIFICATION FairSpec
CONSTANTS
  None = None
  r1 = r1  r2 = r2  r3 = r3  c1 = c1  c2 = c2
  Requests = {r1, r2}
  Consumers = {c1}
  Blank = {r2}
  MaxAttempts = 1
  MaxRetries = 1
  PublishFaults = {"error"}
  Redelivers = FALSE
  MaxFaults = 4
  MaxRemovals = 2
INVARIANTS
  TypeOK
  RetriedHasFailed
PROPERTIES
  AssignedOnce
  FinishedIsFinal
  RemovedStaysRemoved
  AnalysisSettles
CHECK_DEADLOCK FALSE
