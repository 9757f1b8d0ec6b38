SPECIFICATION Spec
CONSTANTS
  Device = {d1, d2}
  Id <- Ids
  Value = {a, b}
  None = None
  Recreation = FALSE
  Native = {d1}
  Outside <- NothingOutside
  MaxRevision = 3
  MaxNative = 0
  MaxInterrupts = 1
PROPERTIES
  AppliedOnce
CHECK_DEADLOCK FALSE
