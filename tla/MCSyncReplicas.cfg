SPECIFICATION FairSpec
CONSTANTS
  Device = {d1, d2}
  Id <- Ids
  Value = {a, b}
  None = None
  Recreation = FALSE
  Native = {d1}
  Outside <- NothingOutside
  MaxRevision = 3
  MaxNative = 1
  MaxInterrupts = 1
INVARIANTS
  LiveMatchesCursor
  AncestorsFirst
  ReceiptsMaterialize
  ReceiptWritesOnce
PROPERTIES
  Converges
CHECK_DEADLOCK FALSE
