SPECIFICATION Spec
CONSTANTS
  p1 = p1
  p2 = p2
  p3 = p3
  Proc = {p1, p2}
  HostOf <- OneHost
  CrashAt <- DuringGateCreate
  None = None
  Faults = {}
  MaxAcquire = 2
  MaxCrashes = 1
  MaxDepth = 2
  WaitPolls = 1
  MaxPolls = 2
  GatePolls = 1
INVARIANTS DeadLockReclaimable
