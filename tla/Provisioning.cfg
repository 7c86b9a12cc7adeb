\* A job of two VMs and a job of one race for VMIDs that an operator frees.
CONSTANTS
  Job = {j1, j2}
  Count <- MCCount
  VMID = {1, 2}
  StartID = 1
  Operator = {o1}
  MaxOperations = 2
SPECIFICATION Spec
INVARIANTS
  TypeOK
  WorksOnOwnVM
  ReadyVMHasItsKey
PROPERTIES
  LeavesOtherVMsAlone
CHECK_DEADLOCK FALSE
