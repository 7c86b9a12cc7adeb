\* Two pipelines of two events, a client whose channel overflows, a job list.
CONSTANTS
  VM = {v1, v2}
  Client = {c1}
  Slow = {}
  Lister = {l1}
  Steps = 1
  Cap = 1
SPECIFICATION FairSpec
INVARIANTS
  TypeOK
  NothingMissed
  StreamOrdered
  EndedStreamIsWhole
  StatusMatchesLog
PROPERTIES
  CompletedJobIsFinal
  ImplementsJobLog
  JobEnds
  RegisteredStreamEnds
\* The job and its clients come to an end.
CHECK_DEADLOCK FALSE
