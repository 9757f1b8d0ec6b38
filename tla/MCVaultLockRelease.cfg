SPECIFICATION Spec
CONSTANTS
  p1 = p1
  p2 = p2
  p3 = p3
  Proc = {p1, p2, p3}
  HostOf <- OneHost
  CrashAt <- DuringRelease
  None = None
  Faults = {}
  MaxAcquire = 1
  MaxCrashes = 1
  MaxDepth = 1
  WaitPolls = 1
  MaxPolls = 2
  GatePolls = 1
INVARIANTS MutualExclusion
