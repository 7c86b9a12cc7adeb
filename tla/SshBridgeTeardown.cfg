\* A window is closed while its connection is being prepared.
CONSTANTS
  Socket = {s1}
  MaxConnects = 1
SPECIFICATION Spec
INVARIANTS
  WindowClosedTearsDown
CHECK_DEADLOCK FALSE
