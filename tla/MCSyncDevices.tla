--------------------------- MODULE MCSyncDevices ---------------------------
EXTENDS SyncDevices, TLC

CONSTANTS A, B, C

MCDevice == {A, B, C}
MCWriter == {A}
MCWriters == {A, B}
MCPeers == Permutations({B, C})
============================================================================
