SPECIFICATION Spec
CONSTANTS
  Session = {s1, s2}
  Note = {n1, n2}
  None = None
  Overlap <- Alone
  CompactAfter = 3
  MaxWrites = 3
  MaxCrashes = 1
SYMMETRY Sessions
INVARIANTS
  JournalCoversStale
  WritesOnCurrent
  NothingLost
  LogOpens
PROPERTIES
  NeverRewinds
CHECK_DEADLOCK FALSE
