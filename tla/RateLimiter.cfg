\* Three requests of two clients to three targets, up to seven half seconds.
SPECIFICATION Spec
CONSTANTS
  None = None
  r1 = r1  r2 = r2  r3 = r3  a1 = a1  a2 = a2
  Requests = {r1, r2, r3}
  Clients = {a1, a2}
  Served <- MCServed
  Targets <- MCTargets
  Ids <- MCIds
  Settings <- MCSettings
  PerSecond = 2
  MaxDelay = 1
  MaxTime = 7
  MaxFaults = 1
SYMMETRY Symmetry
INVARIANTS
  TypeOK
  WindowLimit
  NoFalseRefusal
  RetryAfterHonoured
CHECK_DEADLOCK FALSE
