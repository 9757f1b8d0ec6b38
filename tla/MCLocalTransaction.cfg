SPECIFICATION FairSpec
CONSTANTS
  Note = {n1, n2}
  Value = {a, b}
  Preexisting = {a}
  Appended = {b}
  None = None
  Outside <- NothingOutside
  MaxBatch = 2
  MaxRevision = 2
  MaxLog = 3
  MaxInterrupts = 2
INVARIANTS
  RecoverySucceeds
  LoggedAgrees
  ChainAdvances
PROPERTIES
  CaptureIsAtomic
  IntentCleared
CHECK_DEADLOCK FALSE
