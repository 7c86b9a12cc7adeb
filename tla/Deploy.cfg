\* Two requests at a time, of the page or of other clients, while the cluster
\* changes.
CONSTANTS
  n1 = n1
  n2 = n2
  t1 = t1
  none = none
  Node = {n1, n2}
  Template = {t1}
  LastVMID = 5
  Form <- MCForm
  Call <- MCCall
  Config <- MCConfig
  Clusters <- MCClusters
  Request = {r1, r2}
  MaxChanges = 1
SPECIFICATION Spec
SYMMETRY Symmetry
INVARIANTS
  TypeOK
  ReportIsTrue
  PreflightPredicts
  LaunchIsSingle
PROPERTIES
  LaunchWasChecked
CHECK_DEADLOCK FALSE
