\* A client that subscribes between job_complete and close(done).
CONSTANTS
  VM = {v1}
  Client = {c1}
  Slow = {}
  Lister = {}
  Steps = 1
  Cap = 4
SPECIFICATION FairSpec
PROPERTIES
  StreamEndsWithJob
\* The job and its clients come to an end.
CHECK_DEADLOCK FALSE
