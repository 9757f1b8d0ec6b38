SPECIFICATION Spec
CONSTANTS
  Device = {d1, d2}
  Id <- Ids
  Value = {a, b}
  None = None
  Recreation = TRUE
  Native = {d1}
  Outside <- NothingOutside
  MaxRevision = 3
  MaxNative = 0
  MaxInterrupts = 0
INVARIANTS
  ReceiptsMaterialize
CHECK_DEADLOCK FALSE
