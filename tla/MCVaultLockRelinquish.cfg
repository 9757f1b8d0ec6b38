SPECIFICATION Spec
CONSTANTS
  p1 = p1
  p2 = p2
  p3 = p3
  Proc = {p1, p2}
  HostOf <- OneHost
  CrashAt <- Nowhere
  None = None
  Faults = {}
  MaxAcquire = 1
  MaxCrashes = 0
  MaxDepth = 1
  WaitPolls = 1
  MaxPolls = 2
  GatePolls = 1
INVARIANTS IdleHoldsNothing
