SPECIFICATION Spec
CONSTANTS
  Session = {s1, s2}
  Note = {n1}
  None = None
  Overlap <- Crashing
  CompactAfter = 3
  MaxWrites = 3
  MaxCrashes = 1
INVARIANTS
  LogOpens
CHECK_DEADLOCK FALSE
