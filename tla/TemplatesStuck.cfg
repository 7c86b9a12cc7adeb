\* A save that fails leaves its build marked active.
CONSTANTS
  Template = {debian12}
  Node = {n1, n2}
  VMID = {1}
  Request = {r1, r2}
  Lists <- MCLists
  Commands <- MCCommands
  Known <- MCKnown
  MaxChanges = 1
  MaxServed = 2
  MaxCrashes = 0
SPECIFICATION Spec
SYMMETRY Symmetry
INVARIANTS
  RefusalIsTrue
