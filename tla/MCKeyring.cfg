SPECIFICATION Spec
CONSTANTS
  s1 = s1
  p1 = p1
  p2 = p2
  Code = Code
  None = None
  First = p1
  Session <- MCSession
  Passphrase <- MCPassphrase
  Overlap <- MCNoOverlap
  MaxFresh = 6
  MaxWrites = 3
  MaxLosses = 1
INVARIANTS
  Readable
  Rekeyable
  AckedKept
  RefsResolve
CHECK_DEADLOCK FALSE
