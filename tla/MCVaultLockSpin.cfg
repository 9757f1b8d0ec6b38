SPECIFICATION FairSpec
CONSTANTS
  p1 = p1
  p2 = p2
  p3 = p3
  Proc = {p1, p2}
  HostOf <- OneHost
  CrashAt <- DuringRelease
  None = None
  Faults = {"unlink"}
  MaxAcquire = 1
  MaxCrashes = 1
  MaxDepth = 1
  WaitPolls = 1
  MaxPolls = 2
  GatePolls = 1
PROPERTIES CallsReturn
