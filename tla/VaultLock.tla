----------------------------- MODULE VaultLock -----------------------------
(***************************************************************************)
(* The on-disk vault lock (src/vault-lock.ts; src-tauri/src/lib.rs holds    *)
(* the same protocol for the desktop).  Two files carry it: the lock        *)
(* .sbrain.lock, and the gate .sbrain.lock.transition that every change of  *)
(* the lock file must hold.  Each file-system call is one step: creating a  *)
(* file and writing its record are two calls, and so are reading a record   *)
(* and unlinking the file it was read from.                                 *)
(*                                                                          *)
(* A process is one element of Proc for its whole life: it may die, and a   *)
(* process started later is another element.  Time is counted in polls: it  *)
(* passes while a process sleeps POLL_MS.                                   *)
(***************************************************************************)
EXTENDS Naturals, FiniteSets

CONSTANTS
  Proc,        \* processes that use the vault
  HostOf,      \* the host name a process writes into its records
  CrashAt,     \* the control points at which a process may die
  Faults,      \* which file operations may fail: a subset of {"write", "unlink"}
  None,        \* no file, no record, no token
  MaxAcquire,  \* bound: withVaultLock calls of one process
  MaxCrashes,  \* bound: processes that die
  MaxDepth,    \* bound: nesting of withVaultLock in one process
  WaitPolls,   \* DEFAULT_WAIT_MS in polls: patience with one unmoved holder
  MaxPolls,    \* DEFAULT_MAX_WAIT_MS in polls: the ceiling
  GatePolls    \* DEFAULT_WAIT_MS in polls, as withTransition spends it

\* Control points while the process has created the gate file and not left it.
InGate == {"gateWrite", "lockOpen", "lockWrite", "lockRead", "lockCheck", "lockUnlink",
           "releaseRead", "releaseUnlink", "inspect", "recoverUnlink",
           "gateExit", "gateRemove"}
AtGate == {"gateOpen", "gateRead", "gateCheck", "gateUnlink", "gateWait"}
Locations == InGate \cup AtGate \cup {"idle", "poll", "critical", "dead"}
Ops == {"acquire", "enter", "fail", "release", "recover"}

ASSUME ConstantsOK ==
  /\ CrashAt \subseteq Locations \ {"dead"}
  /\ Faults \subseteq {"write", "unlink"}
  /\ DOMAIN HostOf = Proc
  /\ {MaxAcquire, MaxCrashes, MaxDepth, WaitPolls, MaxPolls, GatePolls} \subseteq Nat

\* What a record names: its owner and the call it was written for (the random token).
Token == [pid : Proc, call : Nat]
\* A file: absent, or created for a token; its record is readable once written.
Record == [pid : Proc, call : Nat, written : BOOLEAN]
File == Record \cup {None}

ASSUME NoneIsNoRecord == None \notin Record /\ None \notin Token

VARIABLES
  lock,     \* .sbrain.lock
  gate,     \* .sbrain.lock.transition
  old,      \* the lock record is older than the window it declares
  pc, op,   \* where each process is, and what it opened the gate for
  alive,    \* process.kill(pid, 0) succeeds
  calls,    \* withVaultLock calls made, numbers the tokens
  depth,    \* the per-process `held` count
  seen,     \* the record last read from the lock or the gate
  blocking, \* blockingToken: the holder this waiter waits for
  patience, \* polls left before `deadline`
  ceiling,  \* polls left before `ceiling`
  gateWait, \* polls left before the gate's own deadline
  unmoved,  \* history: polls a waiter made since it could see the lock change hands
  shut      \* history: polls in a row at which a process met the gate taken

local == <<pc, op, alive, calls, depth, seen, blocking, patience, ceiling, gateWait>>
vars == <<lock, gate, old, local, unmoved, shut>>

Init ==
  /\ lock = None /\ gate = None /\ old = FALSE
  /\ pc = [p \in Proc |-> "idle"]
  /\ op = [p \in Proc |-> "acquire"]
  /\ alive = [p \in Proc |-> TRUE]
  /\ calls = [p \in Proc |-> 0]
  /\ depth = [p \in Proc |-> 0]
  /\ seen = [p \in Proc |-> None]
  /\ blocking = [p \in Proc |-> None]
  /\ patience = [p \in Proc |-> 0]
  /\ ceiling = [p \in Proc |-> 0]
  /\ gateWait = [p \in Proc |-> 0]
  /\ unmoved = [p \in Proc |-> 0]
  /\ shut = [p \in Proc |-> 0]
----------------------------------------------------------------------------
(* Records. *)

\* readRecord: a missing file and one without a record read the same.
Read(f) == IF f # None /\ f.written THEN f ELSE None
TokenOf(f) == IF f = None THEN None ELSE [pid |-> f.pid, call |-> f.call]

\* isReclaimable: a readable record of this host, past its window, whose process is dead.
IsReclaimable(p, f, aged) ==
  /\ f # None
  /\ HostOf[f.pid] = HostOf[p]
  /\ aged
  /\ ~alive[f.pid]

Goto(p, l) == pc' = [pc EXCEPT ![p] = l]
At(p, l) == alive[p] /\ pc[p] = l
\* An unlink reports ENOENT for a missing file; a denied one leaves the file.
Unlinked(f) == IF "unlink" \in Faults THEN {f, None} ELSE {None}
KeepFiles == UNCHANGED <<lock, gate, old, unmoved>>
KeepCall == UNCHANGED <<op, alive, calls, depth, blocking, patience, ceiling>>
\* Locals that go out of scope: the record read, the gate's deadline, the waiter's budget.
Forget(p) == seen' = [seen EXCEPT ![p] = None]
EndWait(p) ==
  /\ blocking' = [blocking EXCEPT ![p] = None]
  /\ patience' = [patience EXCEPT ![p] = 0]
  /\ ceiling' = [ceiling EXCEPT ![p] = 0]
  /\ unmoved' = [unmoved EXCEPT ![p] = 0]
----------------------------------------------------------------------------
(* withTransition: entering and leaving the gate. *)

EnterGate(p, o) ==
  /\ Goto(p, "gateOpen")
  /\ op' = [op EXCEPT ![p] = o]
  /\ gateWait' = [gateWait EXCEPT ![p] = GatePolls]
  /\ UNCHANGED shut

\* openSync(transitionPath, "wx"): creates the file, or meets one.
GateOpen(p) ==
  /\ At(p, "gateOpen")
  /\ IF gate = None
     THEN /\ gate' = [pid |-> p, call |-> calls[p], written |-> FALSE]
          /\ gateWait' = [gateWait EXCEPT ![p] = 0]
          /\ shut' = [shut EXCEPT ![p] = 0]
          /\ Goto(p, "gateWrite")
     ELSE Goto(p, "gateRead") /\ UNCHANGED <<gate, gateWait, shut>>
  /\ UNCHANGED <<lock, old, unmoved, seen>> /\ KeepCall

GateBody == [acquire |-> "lockOpen", release |-> "releaseRead", recover |-> "inspect"]

\* writeFileSync on the descriptor: it writes the record wherever the name now points.
\* A failed write throws out of the call with the gate file in place.
GateWrite(p) ==
  /\ At(p, "gateWrite")
  /\ \/ /\ gate' = IF gate # None /\ gate.pid = p
                   THEN [gate EXCEPT !.written = TRUE] ELSE gate
        /\ Goto(p, GateBody[op[p]])
        /\ UNCHANGED <<blocking, patience, ceiling, unmoved>>
     \/ "write" \in Faults /\ Goto(p, "idle") /\ EndWait(p) /\ UNCHANGED gate
  /\ UNCHANGED <<lock, old, seen, gateWait, shut, op, alive, calls, depth>>

GateRead(p) ==
  /\ At(p, "gateRead")
  /\ seen' = [seen EXCEPT ![p] = Read(gate)]
  /\ Goto(p, "gateCheck")
  /\ KeepFiles /\ UNCHANGED <<gateWait, shut>> /\ KeepCall

\* The record met is reclaimable and a second read finds the same token.
GateCheck(p) ==
  /\ At(p, "gateCheck")
  /\ Goto(p, IF IsReclaimable(p, seen[p], TRUE) /\ TokenOf(Read(gate)) = TokenOf(seen[p])
             THEN "gateUnlink" ELSE "gateWait")
  /\ Forget(p)
  /\ KeepFiles /\ UNCHANGED <<gateWait, shut>> /\ KeepCall

\* unlinkSync by name, whatever the file now holds; then an immediate retry.
GateUnlink(p) ==
  /\ At(p, "gateUnlink")
  /\ gate' \in Unlinked(gate)
  /\ Goto(p, "gateOpen")
  /\ UNCHANGED <<lock, old, unmoved, seen, gateWait, shut>> /\ KeepCall

\* Sleep one poll, or throw when the deadline has passed.
GateWait(p) ==
  /\ At(p, "gateWait")
  /\ IF gateWait[p] > 0
     THEN /\ gateWait' = [gateWait EXCEPT ![p] = @ - 1]
          /\ shut' = [shut EXCEPT ![p] = @ + 1]
          /\ Goto(p, "gateOpen")
          /\ UNCHANGED <<blocking, patience, ceiling, unmoved>>
     ELSE /\ Goto(p, "idle") /\ EndWait(p)
          /\ shut' = [shut EXCEPT ![p] = 0]
          /\ UNCHANGED gateWait
  /\ UNCHANGED <<lock, gate, old, seen, op, alive, calls, depth>>

AfterGate == [acquire |-> "poll", enter |-> "critical", fail |-> "idle",
              release |-> "idle", recover |-> "idle"]

\* The gate body returned or threw; an acquired lock is entered in `held`.
LeaveGate(p) ==
  /\ Goto(p, AfterGate[op[p]])
  /\ depth' = [depth EXCEPT ![p] = IF op[p] = "enter" THEN 1 ELSE @]
  /\ IF op[p] = "acquire" THEN UNCHANGED <<blocking, patience, ceiling, unmoved>> ELSE EndWait(p)

\* The finally block: re-read the gate and remove it only when the token is ours.
GateExit(p) ==
  /\ At(p, "gateExit")
  /\ IF Read(gate) # None /\ gate.pid = p
     THEN Goto(p, "gateRemove") /\ UNCHANGED <<depth, blocking, patience, ceiling, unmoved>>
     ELSE LeaveGate(p)
  /\ UNCHANGED <<lock, gate, old, seen, gateWait, shut, op, alive, calls>>

GateRemove(p) ==
  /\ At(p, "gateRemove")
  /\ gate' \in Unlinked(gate)
  /\ LeaveGate(p)
  /\ UNCHANGED <<lock, old, seen, gateWait, shut, op, alive, calls>>
----------------------------------------------------------------------------
(* withVaultLock: acquiring. *)

\* A call from outside: a fresh token, a fresh budget, the first pass of the loop.
BeginAcquire(p) ==
  /\ At(p, "idle") /\ calls[p] < MaxAcquire
  /\ calls' = [calls EXCEPT ![p] = @ + 1]
  /\ blocking' = [blocking EXCEPT ![p] = None]
  /\ patience' = [patience EXCEPT ![p] = WaitPolls]
  /\ ceiling' = [ceiling EXCEPT ![p] = MaxPolls]
  /\ unmoved' = [unmoved EXCEPT ![p] = 0]
  /\ EnterGate(p, "acquire")
  /\ UNCHANGED <<lock, gate, old, alive, depth, seen>>

\* openSync(lockPath, "wx") inside the gate.  A created file has changed hands.
LockOpen(p) ==
  /\ At(p, "lockOpen")
  /\ IF lock = None
     THEN /\ lock' = [pid |-> p, call |-> calls[p], written |-> FALSE]
          /\ old' \in BOOLEAN
          /\ unmoved' = [q \in Proc |-> IF pc[q] = "poll" THEN unmoved[q] ELSE 0]
          /\ Goto(p, "lockWrite")
     ELSE Goto(p, "lockRead") /\ UNCHANGED <<lock, old, unmoved>>
  /\ UNCHANGED <<gate, seen, gateWait, shut>> /\ KeepCall

LockWriteForgotten(p) ==
  /\ At(p, "lockWrite")
  /\ op' = [op EXCEPT ![p] = "enter"]
  /\ Goto(p, "gateExit")
  /\ UNCHANGED <<lock, gate, old, unmoved, seen, gateWait, shut, alive, calls, depth, blocking,
                 patience, ceiling>>

\* A failed write leaves the empty lock file behind and throws through the gate.
LockWrite(p) ==
  /\ At(p, "lockWrite")
  /\ \/ /\ lock' = IF lock # None /\ lock.pid = p
                   THEN [lock EXCEPT !.written = TRUE] ELSE lock
        /\ op' = [op EXCEPT ![p] = "enter"]
     \/ "write" \in Faults /\ op' = [op EXCEPT ![p] = "fail"] /\ UNCHANGED lock
  /\ Goto(p, "gateExit")
  /\ UNCHANGED <<gate, old, unmoved, seen, gateWait, shut, alive, calls, depth, blocking,
                 patience, ceiling>>

LockReadKeepsBudget(p) ==
  /\ At(p, "lockRead")
  /\ seen' = [seen EXCEPT ![p] = Read(lock)]
  /\ blocking' = [blocking EXCEPT ![p] = TokenOf(Read(lock))]
  /\ Goto(p, "lockCheck")
  /\ KeepFiles /\ UNCHANGED <<gateWait, shut, op, alive, calls, depth, patience, ceiling>>

\* The holder is read; a holder not met before restarts the budget.
LockRead(p) ==
  /\ At(p, "lockRead")
  /\ seen' = [seen EXCEPT ![p] = Read(lock)]
  /\ LET t == TokenOf(Read(lock)) IN
     IF t # None /\ t # blocking[p]
     THEN /\ blocking' = [blocking EXCEPT ![p] = t]
          /\ patience' = [patience EXCEPT ![p] = WaitPolls]
     ELSE UNCHANGED <<blocking, patience>>
  /\ Goto(p, "lockCheck")
  /\ KeepFiles /\ UNCHANGED <<gateWait, shut, op, alive, calls, depth, ceiling>>

LockCheck(p) ==
  /\ At(p, "lockCheck")
  /\ Goto(p, IF IsReclaimable(p, seen[p], old) /\ TokenOf(Read(lock)) = TokenOf(seen[p])
             THEN "lockUnlink" ELSE "gateExit")
  /\ Forget(p)
  /\ KeepFiles /\ UNCHANGED <<gateWait, shut>> /\ KeepCall

LockUnlink(p) ==
  /\ At(p, "lockUnlink")
  /\ lock' \in Unlinked(lock)
  /\ Goto(p, "gateExit")
  /\ UNCHANGED <<gate, old, unmoved, seen, gateWait, shut>> /\ KeepCall

PollUnchecked(p) ==
  /\ At(p, "poll")
  /\ patience' = [patience EXCEPT ![p] = @ - 1]
  /\ ceiling' = [ceiling EXCEPT ![p] = @ - 1]
  /\ unmoved' = [unmoved EXCEPT ![p] = IF @ < WaitPolls THEN @ + 1 ELSE @]
  /\ EnterGate(p, "acquire")
  /\ UNCHANGED <<lock, gate, old, alive, calls, depth, seen, blocking>>

PollUnspent(p) ==
  /\ At(p, "poll")
  /\ patience[p] > 0 /\ ceiling[p] > 0
  /\ unmoved' = [unmoved EXCEPT ![p] = IF @ < WaitPolls THEN @ + 1 ELSE @]
  /\ EnterGate(p, "acquire")
  /\ UNCHANGED <<lock, gate, old, alive, calls, depth, seen, blocking, patience, ceiling>>

\* The attempt failed: give up when either budget is spent, else sleep and try again.
Poll(p) ==
  /\ At(p, "poll")
  /\ patience[p] > 0 /\ ceiling[p] > 0
  /\ patience' = [patience EXCEPT ![p] = @ - 1]
  /\ ceiling' = [ceiling EXCEPT ![p] = @ - 1]
  /\ unmoved' = [unmoved EXCEPT ![p] = IF @ < WaitPolls THEN @ + 1 ELSE @]
  /\ EnterGate(p, "acquire")
  /\ UNCHANGED <<lock, gate, old, alive, calls, depth, seen, blocking>>

GiveUp(p) ==
  /\ At(p, "poll")
  /\ patience[p] = 0 \/ ceiling[p] = 0
  /\ Goto(p, "idle")
  /\ EndWait(p)
  /\ UNCHANGED <<lock, gate, old, seen, gateWait, shut, op, alive, calls, depth>>
----------------------------------------------------------------------------
(* withVaultLock: nesting and releasing. *)

Reenter(p) ==
  /\ At(p, "critical") /\ depth[p] < MaxDepth
  /\ depth' = [depth EXCEPT ![p] = @ + 1]
  /\ KeepFiles
  /\ UNCHANGED <<pc, op, alive, calls, seen, blocking, patience, ceiling, gateWait, shut>>

EndOperationUnnested(p) ==
  /\ At(p, "critical")
  /\ depth' = [depth EXCEPT ![p] = @ - 1]
  /\ EnterGate(p, "release")
  /\ KeepFiles /\ UNCHANGED <<alive, calls, seen, blocking, patience, ceiling>>

\* An inner call returns; only the outermost one forgets the lock and releases it.
EndOperation(p) ==
  /\ At(p, "critical")
  /\ depth' = [depth EXCEPT ![p] = @ - 1]
  /\ IF depth[p] > 1 THEN UNCHANGED <<pc, op, gateWait, shut>> ELSE EnterGate(p, "release")
  /\ KeepFiles /\ UNCHANGED <<alive, calls, seen, blocking, patience, ceiling>>

ReleaseRead(p) ==
  /\ At(p, "releaseRead")
  /\ Goto(p, IF TokenOf(Read(lock)) = [pid |-> p, call |-> calls[p]]
             THEN "releaseUnlink" ELSE "gateExit")
  /\ KeepFiles /\ UNCHANGED <<seen, gateWait, shut>> /\ KeepCall

ReleaseUnlink(p) ==
  /\ At(p, "releaseUnlink")
  /\ lock' \in Unlinked(lock)
  /\ Goto(p, "gateExit")
  /\ UNCHANGED <<gate, old, unmoved, seen, gateWait, shut>> /\ KeepCall
----------------------------------------------------------------------------
(* recoverVaultLock: the owner's explicit recovery command. *)

BeginRecover(p) ==
  /\ At(p, "idle")
  /\ EnterGate(p, "recover")
  /\ KeepFiles /\ UNCHANGED <<alive, calls, depth, seen, blocking, patience, ceiling>>

InspectForced(p) ==
  /\ At(p, "inspect")
  /\ Goto(p, IF Read(lock) # None THEN "recoverUnlink" ELSE "gateExit")
  /\ KeepFiles /\ UNCHANGED <<seen, gateWait, shut>> /\ KeepCall

\* Only a lock whose process is proven dead goes on; age does not matter here.
Inspect(p) ==
  /\ At(p, "inspect")
  /\ Goto(p, IF IsReclaimable(p, Read(lock), TRUE) THEN "recoverUnlink" ELSE "gateExit")
  /\ KeepFiles /\ UNCHANGED <<seen, gateWait, shut>> /\ KeepCall

RecoverUnlink(p) ==
  /\ At(p, "recoverUnlink")
  /\ lock' \in Unlinked(lock)
  /\ Goto(p, "gateExit")
  /\ UNCHANGED <<gate, old, unmoved, seen, gateWait, shut>> /\ KeepCall
----------------------------------------------------------------------------
(* The environment: time passes, processes die. *)

Age ==
  /\ lock # None /\ ~old
  /\ old' = TRUE
  /\ UNCHANGED <<lock, gate, local, unmoved, shut>>

Crash(p) ==
  /\ alive[p] /\ pc[p] \in CrashAt
  /\ Cardinality({q \in Proc : ~alive[q]}) < MaxCrashes
  /\ alive' = [alive EXCEPT ![p] = FALSE]
  /\ Goto(p, "dead")
  /\ depth' = [depth EXCEPT ![p] = 0]
  /\ EndWait(p) /\ Forget(p)
  /\ gateWait' = [gateWait EXCEPT ![p] = 0]
  /\ shut' = [shut EXCEPT ![p] = 0]
  /\ UNCHANGED <<lock, gate, old, op, calls>>

\* What a scheduled process does once it is inside a call.
Step(p) ==
  \/ GateOpen(p) \/ GateWrite(p) \/ GateRead(p) \/ GateCheck(p) \/ GateUnlink(p)
  \/ GateWait(p) \/ GateExit(p) \/ GateRemove(p)
  \/ LockOpen(p) \/ LockWrite(p) \/ LockRead(p) \/ LockCheck(p) \/ LockUnlink(p)
  \/ Poll(p) \/ GiveUp(p)
  \/ EndOperation(p) \/ ReleaseRead(p) \/ ReleaseUnlink(p)
  \/ Inspect(p) \/ RecoverUnlink(p)

Next ==
  \/ \E p \in Proc : Step(p) \/ BeginAcquire(p) \/ BeginRecover(p) \/ Reenter(p) \/ Crash(p)
  \/ Age

Spec == Init /\ [][Next]_vars
\* A live process that is inside a call keeps being scheduled, and operations end.
FairSpec == Spec /\ \A p \in Proc : WF_vars(Step(p))
----------------------------------------------------------------------------
(* Properties. *)

TypeOK ==
  /\ lock \in File /\ gate \in File /\ old \in BOOLEAN
  /\ pc \in [Proc -> Locations] /\ op \in [Proc -> Ops]
  /\ alive \in [Proc -> BOOLEAN]
  /\ calls \in [Proc -> Nat] /\ depth \in [Proc -> Nat]
  /\ seen \in [Proc -> File]
  /\ blocking \in [Proc -> Token \cup {None}]
  /\ patience \in [Proc -> Nat] /\ ceiling \in [Proc -> Nat]
  /\ gateWait \in [Proc -> Nat] /\ unmoved \in [Proc -> Nat] /\ shut \in [Proc -> Nat]

\* Two live processes never both run an operation under the vault lock, so a note
\* write and an index write of two sessions cannot interleave (vault-lock.ts:254-258).
MutualExclusion ==
  \A p, q \in Proc : depth[p] > 0 /\ depth[q] > 0 => p = q

\* The lock or gate a process left by dying is one the next same-host contender can reclaim
\* (the lock once it is old), wherever it died but between creating one of the two files and
\* writing its record: no other crash needs a person (vault-lock.ts:207-209, 260-261).
DeadLockReclaimable ==
  \A p \in Proc, f \in {lock, gate} :
    f # None /\ ~alive[f.pid] /\ HostOf[f.pid] = HostOf[p]
      => IsReclaimable(p, Read(f), TRUE)

\* No step takes the lock away from a live process that has not come to release it,
\* whatever other processes read before and at whatever depth its operations nest.
OnlyOwnerOrDeadRemoved ==
  [][lock # None /\ lock' = None
       => ~alive[lock.pid] \/ pc[lock.pid] = "releaseUnlink"]_vars

\* A waiter that gives up has polled its whole budget with no hand-off it could have seen,
\* or is at the ceiling, or met the gate taken at every poll of the gate's own budget: only
\* the gate cuts short the wait for a draining queue (vault-lock.ts:17-27, 31-36, 236).
WaitsOutHolder ==
  [][\A p \in Proc : op[p] = "acquire" /\ pc[p] # "idle" /\ pc'[p] = "idle"
       => \/ unmoved[p] >= WaitPolls \/ ceiling[p] = 0
          \/ pc[p] = "gateWait" /\ shut[p] >= GatePolls]_vars

\* Every call into the lock ends: it gets the lock, finishes, throws or dies.  No
\* contention of live and dead processes keeps a caller in the two loops for ever.
CallsReturn ==
  \A p \in Proc :
    pc[p] \notin {"idle", "critical", "dead"} ~> pc[p] \in {"idle", "critical", "dead"}
============================================================================
