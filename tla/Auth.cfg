\* Three requests of two clients, with two passwords.
CONSTANTS
  Request = {r1, r2, r3}
  IP = {i1, i2}
  Password = {p1, p2}
  None = None
  TTL = 2
  Window = 2
  MaxAttempts = 2
  MaxTime = 3
  MaxCrashes = 1
SPECIFICATION Spec
SYMMETRY Symmetry
INVARIANTS
  TypeOK
  ConfirmedPasswordStays
PROPERTIES
  ImplementsSessions
  IdleSessionsEnd
  RefusalIsJust
CHECK_DEADLOCK FALSE
