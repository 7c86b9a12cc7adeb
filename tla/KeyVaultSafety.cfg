\* A download and an SSH bridge lookup racing with two stores and two crashes.
CONSTANTS
  VMID = {1, 2}
  DownloadName = {name1, name2}
  CipherFile = {file1, file2, file3}
  Writer = {w1, w2}
  Reader = {r1}
  BridgeReader = {b1}
  MaxCrashes = 2
SPECIFICATION Spec
SYMMETRY Symmetry
INVARIANTS
  TypeOK
  NameMapSound
  ReadsRightKey
  FileGoneOnlyIfReplaced
  AcknowledgedKeyIsDurable
PROPERTIES
  ImplementsKeyStore
