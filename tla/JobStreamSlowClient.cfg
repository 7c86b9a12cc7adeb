\* A client that stops reading while the log is replayed to it.
CONSTANTS
  VM = {v1}
  Client = {c1}
  Slow = {c1}
  Lister = {}
  Steps = 1
  Cap = 4
SPECIFICATION FairSpec
PROPERTIES
  JobEnds
\* The job and its clients come to an end.
CHECK_DEADLOCK FALSE
