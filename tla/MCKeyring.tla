----------------------------- MODULE MCKeyring -----------------------------
EXTENDS Keyring
CONSTANTS s1, p1, p2
MCSession == {s1}
MCPassphrase == {p1, p2}
MCNoOverlap == {}
MCMigration == {"migration"}
MCWindow == {"window"}
MCRestore == {"restore"}
============================================================================
