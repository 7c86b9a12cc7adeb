\* Two requests for two templates of a node and one VMID, one change outside,
\* and a restart.
CONSTANTS
  Template = {debian12, ubuntu}
  Node = {n1}
  VMID = {1}
  Request = {r1, r2}
  Lists <- MCLists
  Commands <- MCCommands
  Known <- MCKnown
  MaxChanges = 1
  MaxServed = 2
  MaxCrashes = 1
SPECIFICATION Spec
SYMMETRY Symmetry
INVARIANTS
  TypeOK
  OneBuildPerKey
  BuildStatusIsLive
  ReadyIsBuilt
PROPERTIES
  ImplementsTemplateFile
