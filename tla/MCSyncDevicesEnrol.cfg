CONSTANTS
  A = A
  B = B
  C = C
  Device <- MCDevice
  Owner = A
  None = None
  Writer <- MCWriters
  MaxRevision = 4
  MaxSequence = 1
  MaxCheckpoints = 0
  MaxDeaths = 0
SPECIFICATION Spec
CHECK_DEADLOCK FALSE
INVARIANT Enrollable
