SPECIFICATION Spec
CONSTANTS
  Keys <- OneKey
  Infos = {i1}
  Sources = {"register"}
  None = None
  MaxTime = 0
  MaxCount = 1
  MaxServiceId = 1
  MaxEventId = 2
  CommitFailures = {"rolledback"}
INVARIANTS
  TxTypeOK
  NoOrphanTransaction
PROPERTIES
  StoreSpec
  ReadsAreCommitted
  CreatedIsToldOnce
