CONSTANTS
  A = A
  B = B
  Vault <- MCVault
  Nothing = Nothing
  Overlap = {}
  MaxChanges = 3
  Chunks <- MCChunks
  PageSize = 1
  MaxObjects = 4
SPECIFICATION RelaySpec
SYMMETRY MCVaults
CHECK_DEADLOCK FALSE
INVARIANTS NothingDangling BlobsKept PullsComplete
