\* A window of a VM, with up to two connect events on its socket, and another
\* VM that may get the address.
CONSTANTS
  Socket = {s1}
  MaxConnects = 2
  v1 = v1
  v2 = v2
  VM <- MCVM
  Target <- MCTarget
  MaxClones <- MCMaxClones
SPECIFICATION TerminalSpec
INVARIANTS
  TerminalTypeOK
  LiveSessionIsHeld
  TeardownEndsClient
  FaultIsExplained
  SessionIsOnTheVM
PROPERTIES
  Answered
CHECK_DEADLOCK FALSE
