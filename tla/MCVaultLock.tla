---------------------------- MODULE MCVaultLock ----------------------------
(* Instances of VaultLock for TLC. *)
EXTENDS VaultLock

CONSTANTS p1, p2, p3

OneHost == [p \in Proc |-> "host"]
\* Deaths anywhere but between creating the lock or the gate and writing its record.
NotTearing == Locations \ {"lockWrite", "gateWrite", "dead"}
\* Deaths also while the lock is released, with the gate and the lock held.
DuringRelease == {"critical", "releaseRead"}
\* Deaths between creating a file and writing its record: the lock, the gate.
DuringCreate == {"lockWrite"}
DuringGateCreate == {"gateWrite"}
Nowhere == {}

\* A waiter that gives up has polled its whole budget with no hand-off it could have seen,
\* or is at the ceiling, whatever it met at the gate (vault-lock.ts:17-27).
QueueWaitedFor ==
  [][\A p \in Proc : op[p] = "acquire" /\ pc[p] # "idle" /\ pc'[p] = "idle"
       => unmoved[p] >= WaitPolls \/ ceiling[p] = 0]_vars

\* A live process that is in no call holds no lock: its release is never left undone, so
\* nobody waits for a holder that does nothing (vault-lock.ts:333-347).
IdleHoldsNothing ==
  \A p \in Proc : alive[p] /\ pc[p] = "idle" /\ lock # None => lock.pid # p
============================================================================
