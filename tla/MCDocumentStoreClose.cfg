SPECIFICATION Spec
CONSTANTS
  Session = {s1, s2}
  Note = {n1, n2}
  None = None
  Overlap <- Closing
  CompactAfter = 3
  MaxWrites = 3
  MaxCrashes = 0
INVARIANTS
  AcknowledgedIndexed
CHECK_DEADLOCK FALSE
