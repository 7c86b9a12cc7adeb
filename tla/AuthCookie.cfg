\* One login and its uses.
CONSTANTS
  Request = {r1, r2}
  IP = {i1}
  Password = {p1}
  None = None
  TTL = 2
  Window = 2
  MaxAttempts = 1
  MaxTime = 3
  MaxCrashes = 0
SPECIFICATION Spec
INVARIANTS
  LiveSessionHasCookie
CHECK_DEADLOCK FALSE
