SPECIFICATION Spec
CONSTANTS
  Note = {n1, n2}
  Value = {a, b}
  Preexisting = {a}
  Appended = {b}
  None = None
  Outside <- EditsOutside
  MaxBatch = 2
  MaxRevision = 2
  MaxLog = 3
  MaxInterrupts = 2
INVARIANTS
  RecoverySucceeds
CHECK_DEADLOCK FALSE
