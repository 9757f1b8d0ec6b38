---------------------------- MODULE MCSyncRelay ----------------------------
EXTENDS SyncRelay, TLC

CONSTANTS A, B

MCVault == {A, B}
MCVaults == Permutations({A, B})
MCChunks == <<0, 2, 0>>
MCTorn == {"torn"}
============================================================================
