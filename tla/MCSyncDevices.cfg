CONSTANTS
  A = A
  B = B
  C = C
  Device <- MCDevice
  Owner = A
  None = None
  Writer <- MCWriter
  MaxRevision = 4
  MaxSequence = 1
  MaxCheckpoints = 2
  MaxDeaths = 1
SPECIFICATION Spec
SYMMETRY MCPeers
CHECK_DEADLOCK FALSE
INVARIANTS EpochsOpen RevokedKeptOut
PROPERTY CheckpointGrows
