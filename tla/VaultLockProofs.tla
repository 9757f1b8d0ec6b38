-------------------------- MODULE VaultLockProofs --------------------------
(***************************************************************************)
(* Proofs about VaultLock for every set of processes and every bound.       *)
(* Types hold whatever fails.  The safety of the lock rests on one          *)
(* condition, GateNeverAbandoned: no process dies, and no file operation    *)
(* fails, while the process holds the gate.  That a dead process can be     *)
(* cleaned up after needs less: RecordsWritten, no death and no failure     *)
(* between creating a file and writing its record.  The runs of MCVaultLock *)
(* show that both conditions are needed.                                    *)
(***************************************************************************)
EXTENDS VaultLock, TLAPS

GateNeverAbandoned == CrashAt \cap InGate = {} /\ Faults = {}

\* The process whose gate file is on disk is alive and between creating and removing it,
\* so no gate is ever reclaimed and one process at a time passes.
GateInv ==
  /\ \A p \in Proc : pc[p] \in InGate =>
        /\ gate \in Record /\ gate.pid = p
        /\ pc[p] = "gateWrite" \/ gate.written
  /\ gate # None => pc[gate.pid] \in InGate
  /\ \A p \in Proc : pc[p] # "gateUnlink"
  /\ \A p \in Proc : alive[p] <=> pc[p] # "dead"

\* What the gate was opened for agrees with what is done inside it.
OpInv ==
  \A p \in Proc :
    /\ pc[p] \in AtGate \cup {"gateWrite"} => op[p] \in {"acquire", "release", "recover"}
    /\ pc[p] \in {"lockOpen", "lockWrite", "lockRead", "lockCheck", "lockUnlink", "poll"}
         => op[p] = "acquire"
    /\ pc[p] \in {"releaseRead", "releaseUnlink"} => op[p] = "release"
    /\ pc[p] \in {"inspect", "recoverUnlink"} => op[p] = "recover"

\* A process counts as holding the lock exactly while its operation runs.
DepthInv == \A p \in Proc : depth[p] > 0 <=> pc[p] = "critical"
TypeInv == TypeOK /\ DepthInv /\ OpInv

\* From the moment the lock record is written until it is unlinked the file is p's.
Holds(p) ==
  \/ pc[p] = "critical"
  \/ op[p] = "enter" /\ pc[p] \in {"gateExit", "gateRemove"}
  \/ op[p] = "release" /\ pc[p] \in AtGate \cup {"gateWrite", "releaseRead", "releaseUnlink"}

LockInv ==
  /\ \A p \in Proc : Holds(p) => lock \in Record /\ lock.pid = p /\ lock.written
  /\ \A p \in Proc : pc[p] = "lockWrite" => lock \in Record /\ lock.pid = p
  /\ \A p \in Proc : pc[p] \in {"lockUnlink", "recoverUnlink"}
        => lock \in Record /\ lock.written /\ pc[lock.pid] = "dead"
  /\ lock # None => lock.written \/ pc[lock.pid] = "lockWrite"

IInv == TypeInv /\ GateInv /\ LockInv
----------------------------------------------------------------------------
\* Records of a token: a fresh one, and one that has been written.
LEMMA RecordFacts ==
  /\ \A p \in Proc, c \in Nat : [pid |-> p, call |-> c, written |-> FALSE] \in Record
  /\ \A f \in Record : [f EXCEPT !.written = TRUE] \in Record
  /\ None \in File /\ (\A f \in File : f # None => f \in Record)
  /\ \A f \in File : Read(f) \in File /\ TokenOf(f) \in Token \cup {None}
  /\ \A f \in File : Unlinked(f) \subseteq File
BY NoneIsNoRecord DEF Record, File, Read, TokenOf, Token, Unlinked

\* Initially nothing is locked and nobody waits, so every type and every op agrees.
LEMMA InitTypeInv == Init => TypeInv
<1> SUFFICES ASSUME Init PROVE TypeInv
  OBVIOUS
<1>1. TypeOK
  BY RecordFacts DEF Init, TypeOK, Locations, Ops, AtGate
<1>2. DepthInv
  BY DEF Init, DepthInv
<1>3. OpInv
  BY DEF Init, OpInv, AtGate
<1> QED
  BY <1>1, <1>2, <1>3 DEF TypeInv

\* Every action keeps the types, whatever faults and deaths the constants allow.
LEMMA NextTypeInv == TypeInv /\ [Next]_vars => TypeInv'
<1> SUFFICES ASSUME TypeInv, [Next]_vars PROVE TypeInv'
  OBVIOUS
<1> USE DEF TypeInv, DepthInv, OpInv, TypeOK, Locations, Ops, InGate,
        AtGate, Goto, At, KeepFiles, KeepCall, local, Forget, EndWait
<1>1. ASSUME NEW p \in Proc, GateOpen(p) PROVE TypeInv'
  <2>1. gate' \in File
    BY <1>1, RecordFacts DEF GateOpen, File
  <2> QED
    BY <1>1, <2>1 DEF GateOpen
<1>2. ASSUME NEW p \in Proc, GateWrite(p) PROVE TypeInv'
  <2>1. gate' \in File
    BY <1>2, RecordFacts DEF GateWrite, File
  <2>2. CASE pc' = [pc EXCEPT ![p] = GateBody[op[p]]]
    <3>1. GateBody[op[p]] \in Locations /\ op[p] \in {"acquire", "release", "recover"}
      BY <1>2 DEF GateWrite, GateBody
    <3>2. \/ op[p] = "acquire" /\ GateBody[op[p]] = "lockOpen"
          \/ op[p] = "release" /\ GateBody[op[p]] = "releaseRead"
          \/ op[p] = "recover" /\ GateBody[op[p]] = "inspect"
      BY <3>1 DEF GateBody
    <3> QED
      BY <1>2, <2>1, <2>2, <3>1, <3>2 DEF GateWrite
  <2>3. CASE pc' = [pc EXCEPT ![p] = "idle"]
    BY <1>2, <2>1, <2>3 DEF GateWrite
  <2> QED
    BY <1>2, <2>2, <2>3 DEF GateWrite
<1>3. ASSUME NEW p \in Proc, GateRead(p) PROVE TypeInv'
  BY <1>3, RecordFacts DEF GateRead
<1>4. ASSUME NEW p \in Proc, GateCheck(p) PROVE TypeInv'
  BY <1>4, RecordFacts DEF GateCheck, IsReclaimable
<1>5. ASSUME NEW p \in Proc, GateUnlink(p) PROVE TypeInv'
  BY <1>5, RecordFacts DEF GateUnlink
<1>6. ASSUME NEW p \in Proc, GateWait(p) PROVE TypeInv'
  <2>1. CASE gateWait[p] > 0
    BY <1>6, <2>1 DEF GateWait
  <2>2. CASE ~(gateWait[p] > 0)
    BY <1>6, <2>2 DEF GateWait
  <2> QED
    BY <2>1, <2>2
<1> DEFINE Left(p) == /\ pc[p] \in InGate /\ depth[p] = 0
                      /\ LeaveGate(p) /\ gate' \in File
                      /\ UNCHANGED <<lock, old, seen, gateWait, shut, op, alive, calls>>
<1>left. ASSUME NEW p \in Proc, Left(p) PROVE TypeInv'
  <2>1. CASE op[p] = "acquire"
    BY <1>left, <2>1 DEF LeaveGate, AfterGate
  <2>2. CASE op[p] = "enter"
    BY <1>left, <2>2 DEF LeaveGate, AfterGate
  <2>3. CASE op[p] \in {"fail", "release", "recover"}
    <3>1. AfterGate[op[p]] = "idle" /\ op[p] # "enter" /\ op[p] # "acquire"
      BY <2>3 DEF AfterGate
    <3> QED
      BY <1>left, <3>1 DEF LeaveGate
  <2> QED
    BY <2>1, <2>2, <2>3
<1>7. ASSUME NEW p \in Proc, GateExit(p) PROVE TypeInv'
  <2>1. CASE LeaveGate(p)
    <3>1. Left(p)
      BY <1>7, <2>1 DEF GateExit
    <3> QED
      BY <3>1, <1>left
  <2>2. CASE pc' = [pc EXCEPT ![p] = "gateRemove"] /\ UNCHANGED depth
    BY <1>7, <2>2 DEF GateExit, LeaveGate
  <2> QED
    BY <1>7, <2>1, <2>2 DEF GateExit
<1>8. ASSUME NEW p \in Proc, GateRemove(p) PROVE TypeInv'
  <2>1. gate' \in File
    BY <1>8, RecordFacts DEF GateRemove
  <2>2. Left(p)
    BY <1>8, <2>1 DEF GateRemove
  <2> QED
    BY <2>2, <1>left
<1>9. ASSUME NEW p \in Proc, LockOpen(p) PROVE TypeInv'
  <2>1. lock' \in File
    BY <1>9, RecordFacts DEF LockOpen, File
  <2>2. unmoved' \in [Proc -> Nat]
    BY <1>9 DEF LockOpen
  <2> QED
    BY <1>9, <2>1, <2>2 DEF LockOpen
<1>10. ASSUME NEW p \in Proc, LockWrite(p) PROVE TypeInv'
  <2>1. lock' \in File
    BY <1>10, RecordFacts DEF LockWrite, File
  <2> QED
    BY <1>10, <2>1 DEF LockWrite
<1>11. ASSUME NEW p \in Proc, LockRead(p) PROVE TypeInv'
  <2>1. Read(lock) \in File /\ TokenOf(Read(lock)) \in Token \cup {None}
    BY RecordFacts
  <2>2. blocking' \in [Proc -> Token \cup {None}]
    BY <1>11, <2>1 DEF LockRead
  <2>3. patience' \in [Proc -> Nat]
    BY <1>11, ConstantsOK DEF LockRead
  <2> QED
    BY <1>11, <2>1, <2>2, <2>3 DEF LockRead
<1>12. ASSUME NEW p \in Proc, LockCheck(p) PROVE TypeInv'
  BY <1>12, RecordFacts DEF LockCheck, IsReclaimable
<1>13. ASSUME NEW p \in Proc, LockUnlink(p) PROVE TypeInv'
  BY <1>13, RecordFacts DEF LockUnlink
<1>14. ASSUME NEW p \in Proc, Poll(p) PROVE TypeInv'
  BY <1>14, ConstantsOK DEF Poll, EnterGate
<1>15. ASSUME NEW p \in Proc, GiveUp(p) PROVE TypeInv'
  BY <1>15 DEF GiveUp
<1>16. ASSUME NEW p \in Proc, EndOperation(p) PROVE TypeInv'
  BY <1>16, ConstantsOK DEF EndOperation, EnterGate
<1>17. ASSUME NEW p \in Proc, ReleaseRead(p) PROVE TypeInv'
  BY <1>17 DEF ReleaseRead
<1>18. ASSUME NEW p \in Proc, ReleaseUnlink(p) PROVE TypeInv'
  BY <1>18, RecordFacts DEF ReleaseUnlink
<1>19. ASSUME NEW p \in Proc, Inspect(p) PROVE TypeInv'
  BY <1>19 DEF Inspect, IsReclaimable
<1>20. ASSUME NEW p \in Proc, RecoverUnlink(p) PROVE TypeInv'
  BY <1>20, RecordFacts DEF RecoverUnlink
<1>21. ASSUME NEW p \in Proc, BeginAcquire(p) PROVE TypeInv'
  BY <1>21, ConstantsOK DEF BeginAcquire, EnterGate
<1>22. ASSUME NEW p \in Proc, BeginRecover(p) PROVE TypeInv'
  BY <1>22, ConstantsOK DEF BeginRecover, EnterGate
<1>23. ASSUME NEW p \in Proc, Reenter(p) PROVE TypeInv'
  BY <1>23 DEF Reenter
<1>24. ASSUME NEW p \in Proc, Crash(p) PROVE TypeInv'
  BY <1>24, RecordFacts DEF Crash
<1>25. CASE Age
  BY <1>25 DEF Age
<1>26. CASE UNCHANGED vars
  BY <1>26 DEF vars
<1> QED
  BY <1>1, <1>2, <1>3, <1>4, <1>5, <1>6, <1>7, <1>8, <1>9, <1>10, <1>11, <1>12, <1>13,
     <1>14, <1>15, <1>16, <1>17, <1>18, <1>19, <1>20, <1>21, <1>22, <1>23, <1>24, <1>25,
     <1>26 DEF Next, Step
----------------------------------------------------------------------------
\* Every reachable state of the lock is well typed, whatever dies or fails wherever: no
\* interleaving takes a call to a control point its operation does not have.
THEOREM TypeSafety == Spec => []TypeOK
<1>1. TypeInv => TypeOK
  BY DEF TypeInv
<1> QED
  BY <1>1, InitTypeInv, NextTypeInv, PTL DEF Spec
----------------------------------------------------------------------------
\* A step that moves one process between two points outside the gate.
LEMMA MoveOutside ==
  ASSUME TypeOK, GateInv, NEW p \in Proc, NEW l,
         l \notin InGate \cup {"gateUnlink", "dead"},
         pc[p] \notin InGate \cup {"dead"},
         pc' = [pc EXCEPT ![p] = l], UNCHANGED <<gate, alive>>
  PROVE  GateInv'
BY DEF TypeOK, GateInv, File, Record

\* A step that creates the gate file: nobody else is inside.
LEMMA MoveIn ==
  ASSUME TypeOK, GateInv, NEW p \in Proc, \A q \in Proc : pc[q] \notin InGate,
         pc[p] # "dead", pc' = [pc EXCEPT ![p] = "gateWrite"], UNCHANGED alive,
         gate' \in Record, gate'.pid = p
  PROVE  GateInv'
BY DEF TypeOK, GateInv, Record, InGate

\* A step of the process in the gate that stays in it and keeps its record.
LEMMA MoveInside ==
  ASSUME TypeOK, GateInv, NEW p \in Proc, NEW l,
         l \in InGate \ {"gateWrite"}, pc[p] \in InGate,
         pc' = [pc EXCEPT ![p] = l], UNCHANGED alive,
         gate' \in Record, gate'.pid = p, gate'.written
  PROVE  GateInv'
BY DEF TypeOK, GateInv, File, Record, InGate

\* A step of the process in the gate that removes its file and leaves.
LEMMA MoveOut ==
  ASSUME TypeOK, GateInv, NEW p \in Proc, NEW l,
         l \notin InGate \cup {"gateUnlink", "dead"}, pc[p] \in InGate,
         pc' = [pc EXCEPT ![p] = l], UNCHANGED alive, gate' = None
  PROVE  GateInv'
BY DEF TypeOK, GateInv, File, Record, InGate

\* One process at a time is in the gate, and it is alive.
LEMMA NextGateInv ==
  ASSUME GateNeverAbandoned, IInv, TypeInv', [Next]_vars PROVE GateInv'
<1> USE RecordFacts DEF IInv, TypeInv, DepthInv, OpInv, TypeOK, GateInv, GateNeverAbandoned,
        Locations, InGate, AtGate, Goto, At, KeepFiles, KeepCall, local, Forget, EndWait
<1>1. ASSUME NEW p \in Proc, GateOpen(p) PROVE GateInv'
  <2>1. CASE gate = None
    <3>1. \A q \in Proc : pc[q] \notin InGate
      BY <2>1, NoneIsNoRecord
    <3>2. gate' = [pid |-> p, call |-> calls[p], written |-> FALSE]
      BY <1>1, <2>1 DEF GateOpen
    <3>3. gate' \in Record /\ gate'.pid = p
      BY <3>2, RecordFacts DEF TypeOK
    <3> QED
      BY <1>1, <2>1, <3>1, <3>3, MoveIn DEF GateOpen
  <2>2. CASE gate # None
    BY <1>1, <2>2, MoveOutside DEF GateOpen
  <2> QED
    BY <2>1, <2>2
<1>2. ASSUME NEW p \in Proc, GateWrite(p) PROVE GateInv'
  <2>1. gate' \in Record /\ gate'.pid = p /\ gate'.written
    BY <1>2, NoneIsNoRecord DEF GateWrite, Record
  <2>2. GateBody[op[p]] \in InGate \ {"gateWrite"}
    BY <1>2 DEF GateBody, GateWrite
  <2> QED
    BY <1>2, <2>1, <2>2, MoveInside DEF GateWrite
<1>3. ASSUME NEW p \in Proc, GateRead(p) PROVE GateInv'
  BY <1>3 DEF GateRead
<1>4. ASSUME NEW p \in Proc, GateCheck(p) PROVE GateInv'
  <2>1. ~(IsReclaimable(p, seen[p], TRUE) /\ TokenOf(Read(gate)) = TokenOf(seen[p]))
    <3> SUFFICES ASSUME IsReclaimable(p, seen[p], TRUE), TokenOf(Read(gate)) = TokenOf(seen[p])
                 PROVE FALSE
      OBVIOUS
    <3>1. gate # None /\ gate.pid = seen[p].pid
      BY NoneIsNoRecord DEF IsReclaimable, TokenOf, Read, Token, Record, File
    <3>2. gate.pid \in Proc /\ alive[gate.pid]
      BY <3>1 DEF Record
    <3> QED
      BY <3>1, <3>2 DEF IsReclaimable
  <2>2. /\ pc[p] = "gateCheck" /\ pc' = [pc EXCEPT ![p] = "gateWait"]
        /\ UNCHANGED <<gate, alive>>
    BY <1>4, <2>1 DEF GateCheck, KeepCall
  <2> QED
    BY <2>2, MoveOutside
<1>5. ASSUME NEW p \in Proc, GateUnlink(p) PROVE GateInv'
  BY <1>5 DEF GateUnlink, Unlinked
<1>6. ASSUME NEW p \in Proc, GateWait(p) PROVE GateInv'
  BY <1>6, MoveOutside DEF GateWait
<1>7. ASSUME NEW p \in Proc, GateExit(p) PROVE GateInv'
  <2>1. gate \in Record /\ gate.pid = p /\ gate.written /\ Read(gate) # None
    BY <1>7, NoneIsNoRecord DEF GateExit, Read
  <2> QED
    BY <1>7, <2>1, MoveInside DEF GateExit
<1>8. ASSUME NEW p \in Proc, GateRemove(p) PROVE GateInv'
  <2>1. gate' = None
    BY <1>8 DEF GateRemove, Unlinked
  <2>2. AfterGate[op[p]] \notin InGate \cup {"gateUnlink", "dead"}
    BY DEF AfterGate, Ops
  <2> QED
    BY <1>8, <2>1, <2>2, MoveOut DEF GateRemove, LeaveGate
<1>9. ASSUME NEW p \in Proc, LockOpen(p) PROVE GateInv'
  BY <1>9 DEF LockOpen
<1>10. ASSUME NEW p \in Proc, LockWrite(p) PROVE GateInv'
  BY <1>10 DEF LockWrite
<1>11. ASSUME NEW p \in Proc, LockRead(p) PROVE GateInv'
  BY <1>11 DEF LockRead
<1>12. ASSUME NEW p \in Proc, LockCheck(p) PROVE GateInv'
  BY <1>12 DEF LockCheck, IsReclaimable, TokenOf, Read
<1>13. ASSUME NEW p \in Proc, LockUnlink(p) PROVE GateInv'
  BY <1>13 DEF LockUnlink, Unlinked
<1>14. ASSUME NEW p \in Proc, Poll(p) PROVE GateInv'
  BY <1>14 DEF Poll, EnterGate
<1>15. ASSUME NEW p \in Proc, GiveUp(p) PROVE GateInv'
  BY <1>15 DEF GiveUp
<1>16. ASSUME NEW p \in Proc, EndOperation(p) PROVE GateInv'
  BY <1>16, MoveOutside DEF EndOperation, EnterGate
<1>17. ASSUME NEW p \in Proc, ReleaseRead(p) PROVE GateInv'
  BY <1>17 DEF ReleaseRead, TokenOf, Read
<1>18. ASSUME NEW p \in Proc, ReleaseUnlink(p) PROVE GateInv'
  BY <1>18 DEF ReleaseUnlink, Unlinked
<1>19. ASSUME NEW p \in Proc, Inspect(p) PROVE GateInv'
  BY <1>19 DEF Inspect, IsReclaimable, Read
<1>20. ASSUME NEW p \in Proc, RecoverUnlink(p) PROVE GateInv'
  BY <1>20 DEF RecoverUnlink, Unlinked
<1>21. ASSUME NEW p \in Proc, BeginAcquire(p) PROVE GateInv'
  BY <1>21 DEF BeginAcquire, EnterGate
<1>22. ASSUME NEW p \in Proc, BeginRecover(p) PROVE GateInv'
  BY <1>22 DEF BeginRecover, EnterGate
<1>23. ASSUME NEW p \in Proc, Reenter(p) PROVE GateInv'
  BY <1>23 DEF Reenter
<1>24. ASSUME NEW p \in Proc, Crash(p) PROVE GateInv'
  BY <1>24 DEF Crash
<1>25. CASE Age
  BY <1>25 DEF Age
<1>26. CASE UNCHANGED vars
  BY <1>26 DEF vars
<1> QED
  BY <1>1, <1>2, <1>3, <1>4, <1>5, <1>6, <1>7, <1>8, <1>9, <1>10, <1>11, <1>12, <1>13,
     <1>14, <1>15, <1>16, <1>17, <1>18, <1>19, <1>20, <1>21, <1>22, <1>23, <1>24,
     <1>25, <1>26 DEF Next, Step

----------------------------------------------------------------------------
\* A step of one process that leaves the lock file alone keeps the facts about it,
\* unless the process comes to hold the lock or to remove it.
LEMMA LockUntouched ==
  ASSUME TypeOK, LockInv, NEW p \in Proc, NEW l,
         l \notin {"lockWrite", "lockUnlink", "recoverUnlink"},
         pc[p] \notin {"lockWrite", "dead"}, pc' = [pc EXCEPT ![p] = l],
         Holds(p)' => Holds(p), \A q \in Proc \ {p} : op'[q] = op[q],
         UNCHANGED lock
  PROVE  LockInv'
BY DEF TypeOK, LockInv, Holds, File, Record

\* A step of the process in the gate that creates, writes or removes the lock file: no
\* other process is inside, and none but the owner holds the lock.
LEMMA LockTouched ==
  ASSUME TypeOK, GateInv, LockInv, NEW p \in Proc, NEW l, pc[p] \in InGate, l # "dead",
         l \notin {"lockUnlink", "recoverUnlink"},
         pc' = [pc EXCEPT ![p] = l], \A q \in Proc \ {p} : op'[q] = op[q],
         \A q \in Proc \ {p} : ~Holds(q),
         lock' # None => lock' \in Record /\ lock'.pid = p /\ (lock'.written \/ l = "lockWrite"),
         Holds(p)' => lock' # None /\ lock'.written,
         l = "lockWrite" => lock' # None
  PROVE  LockInv'
<1>1. \A q \in Proc : pc[q] \in InGate => q = p
  BY DEF GateInv
<1>2. \A q \in Proc \ {p} : ~Holds(q)'
  BY DEF Holds, TypeOK
<1>3. \A q \in Proc \ {p} : pc'[q] \notin {"lockWrite", "lockUnlink", "recoverUnlink"}
  BY <1>1 DEF InGate, TypeOK
<1> QED
  BY <1>2, <1>3 DEF LockInv, TypeOK, Record

\* A step inside the gate that finds the lock of a dead process and goes on to remove it.
LEMMA LockCondemned ==
  ASSUME TypeOK, GateInv, LockInv, NEW p \in Proc, NEW l \in {"lockUnlink", "recoverUnlink"},
         pc[p] \in {"lockCheck", "inspect"}, pc' = [pc EXCEPT ![p] = l],
         UNCHANGED <<lock, op>>,
         lock \in Record, lock.written, ~alive[lock.pid]
  PROVE  LockInv'
<1>1. pc[lock.pid] = "dead" /\ lock.pid # p
  BY DEF GateInv, Record
<1> QED
  BY <1>1 DEF LockInv, Holds, TypeOK, Record, AtGate

\* The lock file belongs to the process that holds it, or to a dead one.
LEMMA NextLockInv ==
  ASSUME GateNeverAbandoned, IInv, TypeInv', [Next]_vars PROVE LockInv'
<1> USE DEF IInv, TypeInv, OpInv, At, Goto, KeepFiles, KeepCall, Forget, EndWait
<1>1. ASSUME NEW p \in Proc, GateOpen(p) PROVE LockInv'
  BY <1>1, LockUntouched DEF GateOpen, Holds, TypeOK, InGate, AtGate
<1>2. ASSUME NEW p \in Proc, GateWrite(p) PROVE LockInv'
  BY <1>2, LockUntouched DEF GateWrite, GateBody, Holds, TypeOK, InGate, AtGate
<1>3. ASSUME NEW p \in Proc, GateRead(p) PROVE LockInv'
  BY <1>3, LockUntouched DEF GateRead, Holds, TypeOK, InGate, AtGate
<1>4. ASSUME NEW p \in Proc, GateCheck(p) PROVE LockInv'
  BY <1>4, LockUntouched DEF GateCheck, Holds, TypeOK, InGate, AtGate
<1>5. ASSUME NEW p \in Proc, GateUnlink(p) PROVE LockInv'
  BY <1>5, LockUntouched DEF GateUnlink, Holds, TypeOK, InGate, AtGate
<1>6. ASSUME NEW p \in Proc, GateWait(p) PROVE LockInv'
  BY <1>6, LockUntouched DEF GateWait, Holds, TypeOK, InGate, AtGate
<1>7. ASSUME NEW p \in Proc, GateExit(p) PROVE LockInv'
  <2>1. Read(gate) # None /\ gate.pid = p
    BY <1>7, NoneIsNoRecord DEF GateExit, Read, GateInv, InGate
  <2> QED
    BY <1>7, <2>1, LockUntouched DEF GateExit, Holds, TypeOK, AtGate
<1>8. ASSUME NEW p \in Proc, GateRemove(p) PROVE LockInv'
  <2>1. AfterGate[op[p]] \in {"poll", "critical", "idle"}
    BY DEF AfterGate, TypeOK, Ops
  <2>2. AfterGate[op[p]] = "critical" => op[p] = "enter"
    BY DEF AfterGate, TypeOK, Ops
  <2> QED
    BY <1>8, <2>1, <2>2, LockUntouched DEF GateRemove, LeaveGate, Holds, TypeOK, AtGate
<1>9. ASSUME NEW p \in Proc, LockOpen(p) PROVE LockInv'
  <2>1. CASE lock = None
    <3>1. \A r \in Proc : ~Holds(r)
      BY <2>1, NoneIsNoRecord DEF LockInv
    <3>2. lock' \in Record /\ lock'.pid = p
      <4>1. lock' = [pid |-> p, call |-> calls[p], written |-> FALSE]
        BY <1>9, <2>1 DEF LockOpen
      <4> QED
        BY <4>1, RecordFacts DEF TypeOK
    <3>3. ~Holds(p)'
      BY <1>9, <2>1 DEF LockOpen, Holds, TypeOK, AtGate
    <3> QED
      BY <1>9, <2>1, <3>1, <3>2, <3>3, NoneIsNoRecord, LockTouched DEF LockOpen, InGate
  <2>2. CASE lock # None
    BY <1>9, <2>2, LockUntouched DEF LockOpen, Holds, TypeOK, AtGate
  <2> QED
    BY <2>1, <2>2
<1>10. ASSUME NEW p \in Proc, LockWrite(p) PROVE LockInv'
  <2>1. lock \in Record /\ lock.pid = p
    BY <1>10 DEF LockWrite, LockInv
  <2>2. lock' \in Record /\ lock'.pid = p /\ lock'.written
    <3>1. lock' = [lock EXCEPT !.written = TRUE]
      BY <1>10, <2>1, NoneIsNoRecord DEF LockWrite, GateNeverAbandoned
    <3> QED
      BY <2>1, <3>1, RecordFacts DEF Record
  <2>3. \A r \in Proc \ {p} : ~Holds(r)
    BY <2>1 DEF LockInv
  <2>4. \A r \in Proc \ {p} : op'[r] = op[r]
    BY <1>10 DEF LockWrite, GateNeverAbandoned, TypeOK
  <2> QED
    BY <1>10, <2>2, <2>3, <2>4, NoneIsNoRecord, LockTouched DEF LockWrite, InGate
<1>11. ASSUME NEW p \in Proc, LockRead(p) PROVE LockInv'
  BY <1>11, LockUntouched DEF LockRead, Holds, TypeOK, InGate, AtGate
<1>12. ASSUME NEW p \in Proc, LockCheck(p) PROVE LockInv'
  <2>1. CASE IsReclaimable(p, seen[p], old) /\ TokenOf(Read(lock)) = TokenOf(seen[p])
    <3>1. lock \in Record /\ lock.written /\ ~alive[lock.pid]
      BY <2>1, NoneIsNoRecord DEF IsReclaimable, TokenOf, Read, Token, Record, File, TypeOK
    <3> QED
      BY <1>12, <2>1, <3>1, LockCondemned DEF LockCheck
  <2>2. CASE ~(IsReclaimable(p, seen[p], old) /\ TokenOf(Read(lock)) = TokenOf(seen[p]))
    BY <1>12, <2>2, LockUntouched DEF LockCheck, Holds, TypeOK, AtGate
  <2> QED
    BY <2>1, <2>2
<1>13. ASSUME NEW p \in Proc, LockUnlink(p) PROVE LockInv'
  <2>1. \A r \in Proc \ {p} : ~Holds(r)
    BY <1>13 DEF LockUnlink, LockInv, GateInv, Holds, AtGate
  <2>2. lock' = None /\ ~Holds(p)'
    BY <1>13 DEF LockUnlink, Unlinked, GateNeverAbandoned, Holds, TypeOK, AtGate
  <2> QED
    BY <1>13, <2>1, <2>2, LockTouched DEF LockUnlink, InGate
<1>14. ASSUME NEW p \in Proc, Poll(p) PROVE LockInv'
  BY <1>14, LockUntouched DEF Poll, EnterGate, Holds, TypeOK, InGate, AtGate
<1>15. ASSUME NEW p \in Proc, GiveUp(p) PROVE LockInv'
  BY <1>15, LockUntouched DEF GiveUp, Holds, TypeOK, InGate, AtGate
<1>16. ASSUME NEW p \in Proc, EndOperation(p) PROVE LockInv'
  BY <1>16, LockUntouched DEF EndOperation, EnterGate, Holds, TypeOK, InGate, AtGate
<1>17. ASSUME NEW p \in Proc, ReleaseRead(p) PROVE LockInv'
  BY <1>17, LockUntouched DEF ReleaseRead, TokenOf, Read, Holds, TypeOK, InGate, AtGate
<1>18. ASSUME NEW p \in Proc, ReleaseUnlink(p) PROVE LockInv'
  <2>1. \A r \in Proc \ {p} : ~Holds(r)
    BY <1>18 DEF ReleaseUnlink, LockInv, GateInv, Holds, AtGate
  <2>2. lock' = None /\ ~Holds(p)'
    BY <1>18 DEF ReleaseUnlink, Unlinked, GateNeverAbandoned, Holds, TypeOK, AtGate
  <2> QED
    BY <1>18, <2>1, <2>2, LockTouched DEF ReleaseUnlink, InGate
<1>19. ASSUME NEW p \in Proc, Inspect(p) PROVE LockInv'
  <2>1. CASE IsReclaimable(p, Read(lock), TRUE)
    <3>1. lock \in Record /\ lock.written /\ ~alive[lock.pid]
      BY <2>1, NoneIsNoRecord DEF IsReclaimable, Read, File, TypeOK
    <3> QED
      BY <1>19, <2>1, <3>1, LockCondemned DEF Inspect
  <2>2. CASE ~IsReclaimable(p, Read(lock), TRUE)
    BY <1>19, <2>2, LockUntouched DEF Inspect, Holds, TypeOK, AtGate
  <2> QED
    BY <2>1, <2>2
<1>20. ASSUME NEW p \in Proc, RecoverUnlink(p) PROVE LockInv'
  <2>1. \A r \in Proc \ {p} : ~Holds(r)
    BY <1>20 DEF RecoverUnlink, LockInv, GateInv, Holds, AtGate
  <2>2. lock' = None /\ ~Holds(p)'
    BY <1>20 DEF RecoverUnlink, Unlinked, GateNeverAbandoned, Holds, TypeOK, AtGate
  <2> QED
    BY <1>20, <2>1, <2>2, LockTouched DEF RecoverUnlink, InGate
<1>21. ASSUME NEW p \in Proc, BeginAcquire(p) PROVE LockInv'
  BY <1>21, LockUntouched DEF BeginAcquire, EnterGate, Holds, TypeOK, InGate, AtGate
<1>22. ASSUME NEW p \in Proc, BeginRecover(p) PROVE LockInv'
  BY <1>22, LockUntouched DEF BeginRecover, EnterGate, Holds, TypeOK, InGate, AtGate
<1>23. ASSUME NEW p \in Proc, Reenter(p) PROVE LockInv'
  BY <1>23, LockUntouched DEF Reenter, Holds, TypeOK, InGate, AtGate
<1>24. ASSUME NEW p \in Proc, Crash(p) PROVE LockInv'
  <2>1. pc[p] \notin InGate /\ pc[p] # "dead"
    BY <1>24 DEF Crash, GateNeverAbandoned, GateInv
  <2> QED
    BY <1>24, <2>1 DEF Crash, LockInv, Holds, TypeOK, InGate, AtGate, Record, File
<1>25. CASE Age
  BY <1>25 DEF Age, local, LockInv, Holds
<1>26. CASE UNCHANGED vars
  BY <1>26 DEF vars, local, LockInv, Holds
<1> QED
  BY <1>1, <1>2, <1>3, <1>4, <1>5, <1>6, <1>7, <1>8, <1>9, <1>10, <1>11, <1>12, <1>13,
     <1>14, <1>15, <1>16, <1>17, <1>18, <1>19, <1>20, <1>21, <1>22, <1>23, <1>24,
     <1>25, <1>26 DEF Next, Step
----------------------------------------------------------------------------
\* The inductive invariant holds of a vault without lock files.
LEMMA InitIInv == Init => IInv
<1> SUFFICES ASSUME Init PROVE IInv
  OBVIOUS
<1>1. GateInv
  BY DEF Init, GateInv, InGate
<1>2. LockInv
  BY DEF Init, LockInv, Holds
<1> QED
  BY <1>1, <1>2, InitTypeInv DEF IInv

\* The inductive invariant is kept by every step while nobody abandons the gate.
LEMMA NextIInv == ASSUME GateNeverAbandoned PROVE IInv /\ [Next]_vars => IInv'
<1> SUFFICES ASSUME IInv, [Next]_vars PROVE IInv'
  OBVIOUS
<1>1. TypeInv'
  BY NextTypeInv DEF IInv
<1> QED
  BY <1>1, NextGateInv, NextLockInv DEF IInv

\* Two live processes never both run an operation under the vault lock, for any number
\* of processes and hosts, if no process dies or fails while it holds the gate.
THEOREM LockSafety == ASSUME GateNeverAbandoned PROVE Spec => []MutualExclusion
<1>1. IInv => MutualExclusion
  BY DEF IInv, LockInv, TypeInv, DepthInv, MutualExclusion, Holds
<1> QED
  BY <1>1, InitIInv, NextIInv, PTL DEF Spec

\* Under the same condition no step takes the lock from a live process before it comes
\* to release it.
THEOREM LockNotStolen == ASSUME GateNeverAbandoned PROVE Spec => OnlyOwnerOrDeadRemoved
<1> DEFINE Kept == lock # None /\ lock' = None
                     => ~alive[lock.pid] \/ pc[lock.pid] = "releaseUnlink"
<1>1. IInv /\ [Next]_vars => Kept
  <2> SUFFICES ASSUME IInv, [Next]_vars, lock # None, lock' = None
               PROVE  ~alive[lock.pid] \/ pc[lock.pid] = "releaseUnlink"
    OBVIOUS
  <2> USE DEF IInv, TypeInv
  <2>1. ASSUME NEW p \in Proc, LockUnlink(p) \/ RecoverUnlink(p)
        PROVE  ~alive[lock.pid]
    <3>1. lock \in Record /\ pc[lock.pid] = "dead"
      BY <2>1 DEF LockUnlink, RecoverUnlink, At, LockInv
    <3> QED
      BY <3>1 DEF GateInv, Record
  <2>2. ASSUME NEW p \in Proc, ReleaseUnlink(p)
        PROVE  pc[lock.pid] = "releaseUnlink"
    BY <2>2 DEF ReleaseUnlink, At, LockInv, Holds, OpInv
  <2>3. ASSUME NEW p \in Proc, LockOpen(p) \/ LockWrite(p)
        PROVE  FALSE
    <3>1. CASE LockOpen(p)
      BY <3>1, RecordFacts, NoneIsNoRecord DEF LockOpen
    <3>2. CASE LockWrite(p)
      <4>1. lock \in Record
        BY RecordFacts DEF TypeOK
      <4> QED
        BY <3>2, <4>1, RecordFacts, NoneIsNoRecord DEF LockWrite
    <3> QED
      BY <2>3, <3>1, <3>2
  <2>4. ASSUME NEW p \in Proc,
               \/ GateOpen(p) \/ GateWrite(p) \/ GateRead(p) \/ GateCheck(p) \/ GateUnlink(p)
               \/ GateWait(p) \/ GateExit(p) \/ GateRemove(p)
        PROVE  FALSE
    BY <2>4 DEF GateOpen, GateWrite, GateRead, GateCheck, GateUnlink, GateWait, GateExit,
       GateRemove, KeepFiles
  <2>5. ASSUME NEW p \in Proc,
               \/ LockRead(p) \/ LockCheck(p) \/ Poll(p) \/ GiveUp(p) \/ EndOperation(p)
               \/ ReleaseRead(p) \/ Inspect(p) \/ BeginAcquire(p) \/ BeginRecover(p)
               \/ Reenter(p) \/ Crash(p)
        PROVE  FALSE
    BY <2>5 DEF LockRead, LockCheck, Poll, GiveUp, EndOperation, ReleaseRead, Inspect,
       BeginAcquire, BeginRecover, Reenter, Crash, KeepFiles
  <2>6. ASSUME Age \/ UNCHANGED vars PROVE FALSE
    BY <2>6 DEF Age, vars
  <2> QED
    BY <2>1, <2>2, <2>3, <2>4, <2>5, <2>6 DEF Next, Step
<1>2. IInv /\ [Next]_vars => [Kept]_vars
  BY <1>1
<1> QED
  BY <1>2, InitIInv, NextIInv, PTL DEF Spec, OnlyOwnerOrDeadRemoved

----------------------------------------------------------------------------
\* No process dies, and no write fails, between creating one of the two files and having
\* written its record.  Deaths and failing unlinks at every other point of the gate are in.
RecordsWritten == CrashAt \cap {"gateWrite", "lockWrite"} = {} /\ "write" \notin Faults

\* A file without a record belongs to a live process that is about to write it.
WrittenInv ==
  /\ gate # None /\ ~gate.written => alive[gate.pid] /\ pc[gate.pid] = "gateWrite"
  /\ lock # None /\ ~lock.written => alive[lock.pid] /\ pc[lock.pid] = "lockWrite"

\* A process that writes no record moves or dies; a file stays or goes, whoever removes it.
LEMMA WrittenStays ==
  ASSUME TypeOK, WrittenInv, NEW p \in Proc, NEW l,
         pc[p] \notin {"gateWrite", "lockWrite"}, pc' = [pc EXCEPT ![p] = l],
         alive' \in {alive, [alive EXCEPT ![p] = FALSE]},
         lock' \in {lock, None}, gate' \in {gate, None}
  PROVE  WrittenInv'
<1>1. ASSUME NEW q \in Proc, pc[q] \in {"gateWrite", "lockWrite"}
      PROVE  pc'[q] = pc[q] /\ alive'[q] = alive[q]
  BY <1>1 DEF TypeOK
<1>2. \A f \in File : f # None => f.pid \in Proc
  BY DEF File, Record
<1>3. lock \in File /\ gate \in File
  BY DEF TypeOK
<1> QED
  BY <1>1, <1>2, <1>3 DEF WrittenInv

LEMMA NextWrittenInv ==
  ASSUME RecordsWritten, TypeOK, WrittenInv, [Next]_vars
  PROVE  WrittenInv'
<1> USE DEF At, Goto, KeepFiles, KeepCall
<1> DEFINE Moves(p) ==
      /\ pc[p] \notin {"gateWrite", "lockWrite"} /\ \E l : pc' = [pc EXCEPT ![p] = l]
      /\ alive' \in {alive, [alive EXCEPT ![p] = FALSE]}
      /\ lock' \in {lock, None} /\ gate' \in {gate, None}
<1>1. ASSUME NEW p \in Proc, Moves(p) PROVE WrittenInv'
  BY <1>1, WrittenStays
<1>2. ASSUME UNCHANGED <<lock, gate, pc, alive>> PROVE WrittenInv'
  BY <1>2 DEF WrittenInv
<1>3. gate \in File /\ lock \in File /\ pc \in [Proc -> Locations]
  BY DEF TypeOK
<1>4. ASSUME NEW p \in Proc, GateOpen(p) PROVE WrittenInv'
  <2>1. CASE gate = None
    <3>1. /\ gate' = [pid |-> p, call |-> calls[p], written |-> FALSE]
          /\ pc[p] = "gateOpen" /\ pc' = [pc EXCEPT ![p] = "gateWrite"]
          /\ alive[p] /\ UNCHANGED <<lock, alive>>
      BY <1>4, <2>1 DEF GateOpen
    <3>2. gate'.pid = p /\ pc'[p] = "gateWrite" /\ alive'[p]
      BY <1>3, <3>1
    <3>3. lock # None /\ ~lock.written => lock.pid # p /\ pc'[lock.pid] = pc[lock.pid]
      BY <1>3, <3>1 DEF WrittenInv, File, Record
    <3> QED
      BY <3>1, <3>2, <3>3 DEF WrittenInv
  <2>2. CASE gate # None
    BY <1>1, <1>4, <2>2 DEF GateOpen
  <2> QED
    BY <2>1, <2>2
<1>5. ASSUME NEW p \in Proc, LockOpen(p) PROVE WrittenInv'
  <2>1. CASE lock = None
    <3>1. /\ lock' = [pid |-> p, call |-> calls[p], written |-> FALSE]
          /\ pc[p] = "lockOpen" /\ pc' = [pc EXCEPT ![p] = "lockWrite"]
          /\ alive[p] /\ UNCHANGED <<gate, alive>>
      BY <1>5, <2>1 DEF LockOpen
    <3>2. lock'.pid = p /\ pc'[p] = "lockWrite" /\ alive'[p]
      BY <1>3, <3>1
    <3>3. gate # None /\ ~gate.written => gate.pid # p /\ pc'[gate.pid] = pc[gate.pid]
      BY <1>3, <3>1 DEF WrittenInv, File, Record
    <3> QED
      BY <3>1, <3>2, <3>3 DEF WrittenInv
  <2>2. CASE lock # None
    BY <1>1, <1>5, <2>2 DEF LockOpen
  <2> QED
    BY <2>1, <2>2
<1>6. ASSUME NEW p \in Proc, GateWrite(p) PROVE WrittenInv'
  <2>1. /\ gate' = IF gate # None /\ gate.pid = p THEN [gate EXCEPT !.written = TRUE] ELSE gate
        /\ pc[p] = "gateWrite" /\ pc' = [pc EXCEPT ![p] = GateBody[op[p]]]
        /\ UNCHANGED <<lock, alive>>
    BY <1>6 DEF GateWrite, RecordsWritten
  <2>2. gate' # None /\ ~gate'.written => gate' = gate /\ gate.pid # p
    BY <1>3, <2>1, NoneIsNoRecord DEF File, Record
  <2>3. \A q : q # p => pc'[q] = pc[q]
    BY <1>3, <2>1
  <2>4. lock # None /\ ~lock.written => lock.pid # p
    BY <2>1 DEF WrittenInv
  <2> QED
    BY <2>1, <2>2, <2>3, <2>4 DEF WrittenInv
<1>7. ASSUME NEW p \in Proc, LockWrite(p) PROVE WrittenInv'
  <2>1. /\ lock' = IF lock # None /\ lock.pid = p THEN [lock EXCEPT !.written = TRUE] ELSE lock
        /\ pc[p] = "lockWrite" /\ pc' = [pc EXCEPT ![p] = "gateExit"]
        /\ UNCHANGED <<gate, alive>>
    BY <1>7 DEF LockWrite, RecordsWritten
  <2>2. lock' # None /\ ~lock'.written => lock' = lock /\ lock.pid # p
    BY <1>3, <2>1, NoneIsNoRecord DEF File, Record
  <2>3. \A q : q # p => pc'[q] = pc[q]
    BY <1>3, <2>1
  <2>4. gate # None /\ ~gate.written => gate.pid # p
    BY <2>1 DEF WrittenInv
  <2> QED
    BY <2>1, <2>2, <2>3, <2>4 DEF WrittenInv
<1>8. ASSUME NEW p \in Proc,
             \/ GateRead(p) \/ GateCheck(p) \/ GateUnlink(p) \/ GateWait(p)
             \/ LockRead(p) \/ LockCheck(p) \/ LockUnlink(p)
      PROVE  WrittenInv'
  BY <1>1, <1>8 DEF GateRead, GateCheck, GateUnlink, GateWait, LockRead, LockCheck, LockUnlink,
     Unlinked
<1>9. ASSUME NEW p \in Proc, GateExit(p) \/ GateRemove(p) PROVE WrittenInv'
  BY <1>1, <1>9 DEF GateExit, GateRemove, LeaveGate, Unlinked
<1>10. ASSUME NEW p \in Proc,
              \/ Poll(p) \/ GiveUp(p) \/ BeginAcquire(p) \/ BeginRecover(p)
              \/ ReleaseRead(p) \/ ReleaseUnlink(p) \/ Inspect(p) \/ RecoverUnlink(p)
       PROVE  WrittenInv'
  BY <1>1, <1>10 DEF Poll, GiveUp, BeginAcquire, BeginRecover, EnterGate, ReleaseRead,
     ReleaseUnlink, Inspect, RecoverUnlink, Unlinked
<1>11. ASSUME NEW p \in Proc, EndOperation(p) \/ Reenter(p) PROVE WrittenInv'
  BY <1>1, <1>2, <1>11 DEF EndOperation, Reenter, EnterGate
<1>12. ASSUME NEW p \in Proc, Crash(p) PROVE WrittenInv'
  BY <1>1, <1>12 DEF Crash, RecordsWritten
<1>13. CASE Age \/ UNCHANGED vars
  BY <1>2, <1>13 DEF Age, vars, local
<1> QED
  BY <1>4, <1>5, <1>6, <1>7, <1>8, <1>9, <1>10, <1>11, <1>12, <1>13 DEF Next, Step

\* Every lock and every gate a dead process left behind can be reclaimed by the processes of
\* its host, wherever it died, inside the gate too, but between creating one of the two files
\* and writing its record (withTransition, isReclaimable).
THEOREM CrashLeavesNoWedge == ASSUME RecordsWritten PROVE Spec => []DeadLockReclaimable
<1>1. Init => TypeInv /\ WrittenInv
  BY InitTypeInv DEF Init, WrittenInv
<1>2. TypeInv /\ WrittenInv /\ [Next]_vars => (TypeInv /\ WrittenInv)'
  BY NextTypeInv, NextWrittenInv DEF TypeInv
<1>3. TypeInv /\ WrittenInv => DeadLockReclaimable
  <2> SUFFICES ASSUME WrittenInv, NEW p \in Proc, NEW f \in {lock, gate},
                      f # None, ~alive[f.pid], HostOf[f.pid] = HostOf[p]
               PROVE  IsReclaimable(p, Read(f), TRUE)
    BY DEF DeadLockReclaimable
  <2>1. f.written
    BY DEF WrittenInv
  <2> QED
    BY <2>1 DEF IsReclaimable, Read
<1> QED
  BY <1>1, <1>2, <1>3, PTL DEF Spec
----------------------------------------------------------------------------
\* A call that has not created the lock file and still may.
Waiting(p) ==
  op[p] = "acquire" /\ pc[p] \in AtGate \cup {"gateWrite", "lockOpen", "lockRead", "lockCheck",
                                              "lockUnlink", "gateExit", "gateRemove", "poll"}

\* A token is made once: while its call waits it is on no lock and known to no waiter.
Made(t) == t # None => t.call <= calls[t.pid] /\ (Waiting(t.pid) => t.call # calls[t.pid])
TokensInv == Made(TokenOf(lock)) /\ \A p \in Proc : Made(blocking[p])

\* What is left of a waiter's budget and what it has waited are the whole budget, unless the
\* lock has changed hands and the waiter is still to meet its new holder.
BeforeRead == AtGate \cup {"gateWrite", "lockOpen", "lockRead"}
PatientAt(p) ==
  Waiting(p) => \/ unmoved[p] + patience[p] >= WaitPolls
                \/ pc[p] \in BeforeRead /\ (lock # None => TokenOf(lock) # blocking[p])
WaitInv ==
  /\ TokensInv
  /\ \A p \in Proc : PatientAt(p) /\ (pc[p] = "lockRead" => lock # None)
----------------------------------------------------------------------------
\* A step of one process that leaves the lock file and the calls alone: a waiter that is
\* patient after it leaves everybody as patient as before.
LEMMA WaitStep ==
  ASSUME TypeOK, WaitInv, NEW p \in Proc, NEW l, pc' = [pc EXCEPT ![p] = l],
         UNCHANGED <<lock, calls>>,
         \A q \in Proc \ {p} : /\ op'[q] = op[q] /\ blocking'[q] = blocking[q]
                               /\ patience'[q] = patience[q] /\ unmoved'[q] = unmoved[q],
         Waiting(p)' => Waiting(p),
         blocking'[p] \in {blocking[p], TokenOf(lock), None},
         PatientAt(p)', l = "lockRead" => lock # None
  PROVE  WaitInv'
<1>1. \A q \in Proc : Waiting(q)' => Waiting(q)
  BY DEF Waiting, TypeOK
<1>2. \A t \in Token \cup {None} : Made(t) => Made(t)'
  BY <1>1 DEF Made, Token
<1>3. TokenOf(lock)' = TokenOf(lock) /\ TokenOf(lock) \in Token \cup {None}
  BY RecordFacts DEF TokenOf, TypeOK
<1>4. Made(None)'
  BY DEF Made
<1>5. TokensInv'
  <2>1. Made(TokenOf(lock))'
    BY <1>2, <1>3 DEF WaitInv, TokensInv
  <2>2. ASSUME NEW q \in Proc PROVE Made(blocking[q])'
    <3>1. Made(blocking[q]) /\ blocking[q] \in Token \cup {None}
      BY DEF WaitInv, TokensInv, TypeOK
    <3>2. Made(blocking[p]) /\ blocking[p] \in Token \cup {None} /\ Made(TokenOf(lock))
      BY DEF WaitInv, TokensInv, TypeOK
    <3>3. CASE q # p
      <4>1. blocking'[q] = blocking[q]
        BY <3>3
      <4>2. \A t \in Token \cup {None} : t = blocking'[q] /\ Made(t)' => Made(blocking[q])'
        BY DEF Made
      <4> QED
        BY <1>2, <3>1, <4>1, <4>2
    <3>4. CASE q = p
      <4>1. \A t \in Token \cup {None} : t = blocking'[q] /\ Made(t)' => Made(blocking[q])'
        BY DEF Made
      <4> QED
        BY <1>2, <1>3, <1>4, <3>2, <3>4, <4>1
    <3> QED
      BY <3>3, <3>4
  <2> QED
    BY <2>1, <2>2 DEF TokensInv
<1>6. ASSUME NEW q \in Proc \ {p} PROVE PatientAt(q)' /\ (pc'[q] = "lockRead" => lock' # None)
  <2>1. pc'[q] = pc[q] /\ (PatientAt(q) /\ (pc[q] = "lockRead" => lock # None))
    BY DEF TypeOK, WaitInv
  <2> QED
    BY <1>3, <2>1 DEF PatientAt, Waiting
<1> QED
  BY <1>5, <1>6 DEF WaitInv, TypeOK

\* A step inside the gate that removes the lock file: a waiter outside has yet to meet the
\* next holder, and no other process is inside.
LEMMA WaitUnlinked ==
  ASSUME TypeOK, GateInv, WaitInv, NEW p \in Proc,
         pc[p] \in InGate \ {"lockOpen", "lockRead"}, pc' = [pc EXCEPT ![p] = "gateExit"],
         lock' = None, UNCHANGED <<calls, op, blocking, patience, unmoved>>,
         op[p] = "acquire" => pc[p] = "lockUnlink"
  PROVE  WaitInv'
<1>1. \A q \in Proc : pc[q] \in InGate => q = p
  BY DEF GateInv
<1>2. TokensInv'
  <2>1. \A q \in Proc : Waiting(q)' => Waiting(q)
    <3>1. ASSUME NEW q \in Proc \ {p} PROVE Waiting(q)' => Waiting(q)
      BY DEF Waiting, TypeOK
    <3>2. Waiting(p)' => Waiting(p)
      BY DEF Waiting
    <3> QED
      BY <3>1, <3>2
  <2> QED
    BY <2>1 DEF TokensInv, Made, WaitInv, TokenOf, TypeOK, Token
<1>3. ASSUME NEW q \in Proc PROVE PatientAt(q)' /\ pc'[q] # "lockRead"
  <2>1. PatientAt(q)
    BY DEF WaitInv
  <2>2. UNCHANGED <<op, blocking, patience, unmoved>> /\ lock' = None
    OBVIOUS
  <2>3. CASE q = p
    <3>1. pc'[q] = "gateExit" /\ "gateExit" \notin BeforeRead
      BY <2>3 DEF TypeOK, BeforeRead, AtGate
    <3>2. Waiting(q)' => Waiting(q) /\ pc[q] = "lockUnlink"
      BY <2>3 DEF Waiting
    <3>3. "lockUnlink" \notin BeforeRead
      BY DEF BeforeRead, AtGate
    <3> QED
      BY <2>1, <2>2, <3>1, <3>2, <3>3 DEF PatientAt
  <2>4. CASE q # p
    <3>1. pc'[q] = pc[q] /\ pc[q] # "lockRead"
      BY <1>1, <2>4 DEF TypeOK, InGate
    <3> QED
      BY <2>1, <2>2, <3>1 DEF PatientAt, Waiting
  <2> QED
    BY <2>3, <2>4
<1> QED
  BY <1>2, <1>3 DEF WaitInv

\* A waiter's budget is never spent on a lock that changes hands.
LEMMA NextWaitInv ==
  ASSUME GateNeverAbandoned, IInv, TypeInv', WaitInv, [Next]_vars PROVE WaitInv'
<1> USE DEF IInv, TypeInv, At, Goto, KeepFiles, KeepCall, Forget, EndWait
<1>0. /\ TypeOK
      /\ \A q \in Proc : Waiting(q) => \/ unmoved[q] + patience[q] >= WaitPolls
                                      \/ pc[q] \in BeforeRead
      /\ \A q \in Proc : PatientAt(q)
  BY DEF WaitInv, PatientAt
<1>1. ASSUME NEW p \in Proc, GateOpen(p) PROVE WaitInv'
  <2>1. PICK l \in {"gateWrite", "gateRead"} : pc' = [pc EXCEPT ![p] = l]
    BY <1>1 DEF GateOpen
  <2>2. pc[p] = "gateOpen" /\ UNCHANGED <<lock, calls, op, blocking, patience, unmoved>>
    BY <1>1 DEF GateOpen
  <2>3. (Waiting(p)' => Waiting(p)) /\ PatientAt(p)'
    BY <1>0, <2>1, <2>2 DEF Waiting, PatientAt, BeforeRead, AtGate, TypeOK, TokenOf
  <2> QED
    BY <2>1, <2>2, <2>3, WaitStep
<1>2. ASSUME NEW p \in Proc, GateWrite(p) PROVE WaitInv'
  <2>1. GateBody[op[p]] # "lockRead" /\ (op[p] = "acquire" => GateBody[op[p]] = "lockOpen")
    BY <1>2 DEF GateWrite, GateBody, OpInv
  <2>2. /\ pc[p] = "gateWrite" /\ pc' = [pc EXCEPT ![p] = GateBody[op[p]]]
        /\ UNCHANGED <<lock, calls, op, blocking, patience, unmoved>>
    BY <1>2 DEF GateWrite, GateNeverAbandoned
  <2>3. (Waiting(p)' => Waiting(p)) /\ PatientAt(p)'
    BY <1>0, <2>1, <2>2 DEF Waiting, PatientAt, BeforeRead, AtGate, TypeOK, TokenOf
  <2> QED
    BY <2>1, <2>2, <2>3, WaitStep
<1>3. ASSUME NEW p \in Proc, GateRead(p) PROVE WaitInv'
  BY <1>0, <1>3, WaitStep DEF GateRead, PatientAt, Waiting, WaitInv, BeforeRead, TypeOK, InGate,
     AtGate
<1>4. ASSUME NEW p \in Proc, GateCheck(p) PROVE WaitInv'
  BY <1>0, <1>4, WaitStep DEF GateCheck, PatientAt, Waiting, WaitInv, BeforeRead, TypeOK,
     InGate, AtGate
<1>5. ASSUME NEW p \in Proc, GateUnlink(p) PROVE WaitInv'
  BY <1>0, <1>5, WaitStep DEF GateUnlink, PatientAt, Waiting, WaitInv, BeforeRead, TypeOK,
     InGate, AtGate
<1>6. ASSUME NEW p \in Proc, GateWait(p) PROVE WaitInv'
  BY <1>0, <1>6, WaitStep DEF GateWait, PatientAt, Waiting, WaitInv, BeforeRead, TypeOK, InGate,
     AtGate
<1>7. ASSUME NEW p \in Proc, GateExit(p) PROVE WaitInv'
  <2>1. Read(gate) # None /\ gate.pid = p
    BY <1>7, NoneIsNoRecord DEF GateExit, Read, GateInv, InGate
  <2>2. pc' = [pc EXCEPT ![p] = "gateRemove"] /\ pc[p] = "gateExit"
        /\ UNCHANGED <<lock, calls, op, blocking, patience, unmoved>>
    BY <1>7, <2>1 DEF GateExit
  <2>3. (Waiting(p)' => Waiting(p)) /\ PatientAt(p)'
    BY <1>0, <2>2 DEF Waiting, PatientAt, BeforeRead, AtGate, TypeOK
  <2> QED
    BY <2>2, <2>3, WaitStep
<1>8. ASSUME NEW p \in Proc, GateRemove(p) PROVE WaitInv'
  <2> DEFINE l == AfterGate[op[p]]
  <2>1. l \in {"poll", "critical", "idle"} /\ (op[p] = "acquire" => l = "poll")
    BY DEF AfterGate, TypeOK, Ops
  <2>2. /\ pc' = [pc EXCEPT ![p] = l] /\ pc[p] = "gateRemove"
        /\ UNCHANGED <<lock, calls, op>>
        /\ \A q \in Proc \ {p} : /\ op'[q] = op[q] /\ blocking'[q] = blocking[q]
                                 /\ patience'[q] = patience[q] /\ unmoved'[q] = unmoved[q]
        /\ op[p] = "acquire" => UNCHANGED <<blocking, patience, unmoved>>
        /\ blocking'[p] \in {blocking[p], None}
    BY <1>8 DEF GateRemove, LeaveGate, TypeOK
  <2>3. (Waiting(p)' => Waiting(p)) /\ PatientAt(p)'
    BY <1>0, <2>1, <2>2 DEF Waiting, PatientAt, BeforeRead, AtGate, TypeOK
  <2> HIDE DEF l
  <2> QED
    BY <2>1, <2>2, <2>3, WaitStep
<1>9. ASSUME NEW p \in Proc, LockOpen(p) PROVE WaitInv'
  <2>1. \A q \in Proc : pc[q] \in InGate => q = p
    BY <1>9 DEF LockOpen, GateInv, InGate
  <2>2. CASE lock = None
    <3> DEFINE t == [pid |-> p, call |-> calls[p]]
    <3>1. /\ lock' = [pid |-> p, call |-> calls[p], written |-> FALSE]
          /\ pc[p] = "lockOpen" /\ pc' = [pc EXCEPT ![p] = "lockWrite"]
          /\ unmoved' = [q \in Proc |-> IF pc[q] = "poll" THEN unmoved[q] ELSE 0]
          /\ UNCHANGED <<op, calls, blocking, patience>>
      BY <1>9, <2>2 DEF LockOpen
    <3>2. lock' # None /\ TokenOf(lock)' = t
      BY <3>1, RecordFacts, NoneIsNoRecord DEF TokenOf, TypeOK
    <3>3. Waiting(p) /\ ~Waiting(p)' /\ \A q \in Proc : Waiting(q)' => Waiting(q)
      BY <1>9, <3>1 DEF Waiting, OpInv, TypeOK, AtGate, InGate
    <3>4. TokensInv'
      <4>1. Made(t)'
        BY <3>1, <3>3 DEF Made, TypeOK
      <4>2. ASSUME NEW q \in Proc PROVE Made(blocking[q])'
        BY <3>1, <3>3 DEF Made, WaitInv, TokensInv, TypeOK, Token
      <4> QED
        <5>1. Made(TokenOf(lock))'
          BY <3>1, <3>2, <4>1 DEF Made
        <5> QED
          BY <4>2, <5>1 DEF TokensInv
    <3>5. ASSUME NEW q \in Proc PROVE PatientAt(q)'
      <4>1. CASE q = p
        BY <3>3, <4>1 DEF PatientAt
      <4>2. CASE q # p /\ Waiting(q)'
        <5>1. pc'[q] = pc[q] /\ pc[q] \in AtGate \cup {"poll"}
          BY <2>1, <3>1, <4>2 DEF Waiting, InGate, TypeOK
        <5>2. CASE pc[q] = "poll"
          <6>1. unmoved'[q] = unmoved[q] /\ patience'[q] = patience[q] /\ pc[q] \notin BeforeRead
            BY <3>1, <5>2 DEF BeforeRead, AtGate
          <6> QED
            BY <1>0, <3>3, <4>2, <6>1 DEF PatientAt
        <5>3. CASE pc[q] \in AtGate
          <6>1. blocking[q] # t
            <7>1. Made(blocking[q]) /\ t # None /\ t.pid = p /\ t.call = calls[p]
              BY NoneIsNoRecord DEF WaitInv, TokensInv, Token, TypeOK
            <7> HIDE DEF t
            <7> QED
              BY <3>3, <7>1 DEF Made
          <6> QED
            BY <3>1, <3>2, <5>1, <5>3, <6>1 DEF PatientAt, BeforeRead
        <5> QED
          BY <5>1, <5>2, <5>3
      <4> QED
        BY <4>1, <4>2 DEF PatientAt
    <3> QED
      BY <3>2, <3>4, <3>5 DEF WaitInv
  <2>3. CASE lock # None
    <3>1. /\ pc[p] = "lockOpen" /\ pc' = [pc EXCEPT ![p] = "lockRead"]
          /\ UNCHANGED <<lock, op, calls, blocking, patience, unmoved>>
      BY <1>9, <2>3 DEF LockOpen
    <3>2. (Waiting(p)' => Waiting(p)) /\ PatientAt(p)'
      BY <1>0, <3>1 DEF Waiting, PatientAt, BeforeRead, AtGate, TypeOK, TokenOf
    <3> QED
      BY <2>3, <3>1, <3>2, WaitStep
  <2> QED
    BY <2>2, <2>3
<1>10. ASSUME NEW p \in Proc, LockWrite(p) PROVE WaitInv'
  <2>1. lock \in Record /\ lock.pid = p
    BY <1>10 DEF LockWrite, LockInv
  <2>2. /\ lock' = [lock EXCEPT !.written = TRUE] /\ op' = [op EXCEPT ![p] = "enter"]
        /\ pc' = [pc EXCEPT ![p] = "gateExit"]
        /\ UNCHANGED <<calls, blocking, patience, unmoved>>
    BY <1>10, <2>1, NoneIsNoRecord DEF LockWrite, GateNeverAbandoned
  <2>3. lock' # None /\ TokenOf(lock)' = TokenOf(lock)
    BY <2>1, <2>2, RecordFacts, NoneIsNoRecord DEF TokenOf, Record
  <2>4. ~Waiting(p)' /\ \A q \in Proc : Waiting(q)' => Waiting(q)
    BY <2>2 DEF Waiting, TypeOK
  <2>5. \A t \in Token \cup {None} : Made(t) => Made(t)'
    BY <2>2, <2>4 DEF Made, Token
  <2>6. TokensInv'
    <3>1. Made(TokenOf(lock))' /\ TokenOf(lock) \in Token \cup {None}
      BY <2>3, <2>5, RecordFacts DEF WaitInv, TokensInv, TypeOK, Made
    <3>2. ASSUME NEW q \in Proc PROVE Made(blocking[q])'
      BY <2>2, <2>5 DEF WaitInv, TokensInv, TypeOK, Made
    <3> QED
      BY <3>1, <3>2 DEF TokensInv
  <2>7. ASSUME NEW q \in Proc PROVE PatientAt(q)'
    BY <2>1, <2>2, <2>3, <2>4, NoneIsNoRecord DEF WaitInv, PatientAt, TypeOK, Waiting
  <2> QED
    BY <2>3, <2>6, <2>7 DEF WaitInv
<1>11. ASSUME NEW p \in Proc, LockRead(p) PROVE WaitInv'
  <2>1. /\ pc[p] = "lockRead" /\ pc' = [pc EXCEPT ![p] = "lockCheck"]
        /\ UNCHANGED <<lock, op, calls, unmoved>>
    BY <1>11 DEF LockRead
  <2>2. lock # None /\ Read(lock) = lock
    <3>1. lock # None /\ lock \in Record
      BY <2>1, RecordFacts DEF WaitInv, TypeOK
    <3>2. pc[lock.pid] # "lockWrite"
      BY <2>1, <3>1 DEF GateInv, InGate, Record
    <3> QED
      BY <3>1, <3>2 DEF LockInv, Read
  <2> DEFINE t == TokenOf(lock)
  <2>3. t # None /\ t \in Token
    BY <2>2, RecordFacts, NoneIsNoRecord DEF TokenOf, TypeOK, Record, File, Token
  <2>4. Waiting(p)
    BY <2>1 DEF Waiting, OpInv
  <2>5. /\ blocking' = [blocking EXCEPT ![p] = t]
        /\ \A q \in Proc \ {p} : patience'[q] = patience[q]
        /\ patience'[p] + unmoved[p] >= WaitPolls
    <3>1. CASE t # blocking[p]
      <4>1. blocking' = [blocking EXCEPT ![p] = t] /\ patience' = [patience EXCEPT ![p] = WaitPolls]
        BY <1>11, <2>2, <2>3, <3>1 DEF LockRead
      <4> QED
        BY <4>1, ConstantsOK DEF TypeOK
    <3>2. CASE t = blocking[p]
      <4>1. UNCHANGED <<blocking, patience>>
        BY <1>11, <2>2, <3>2 DEF LockRead
      <4>2. unmoved[p] + patience[p] >= WaitPolls
        BY <2>2, <2>4, <3>2 DEF WaitInv, PatientAt
      <4>3. blocking' = [blocking EXCEPT ![p] = t]
        BY <3>2, <4>1 DEF TypeOK
      <4>4. unmoved[p] + patience[p] = patience'[p] + unmoved[p]
        BY <4>1 DEF TypeOK
      <4> HIDE DEF t
      <4> QED
        BY <4>1, <4>2, <4>3, <4>4
    <3> QED
      BY <3>1, <3>2
  <2>6. PatientAt(p)'
    <3>1. patience'[p] \in Nat /\ unmoved[p] \in Nat /\ WaitPolls \in Nat
      BY ConstantsOK DEF TypeOK
    <3> QED
      BY <2>1, <2>5, <3>1 DEF PatientAt
  <2>7. blocking'[p] = TokenOf(lock) /\ \A q \in Proc \ {p} : blocking'[q] = blocking[q]
    BY <2>5 DEF TypeOK
  <2> QED
    BY <2>1, <2>4, <2>5, <2>6, <2>7, WaitStep
<1>12. ASSUME NEW p \in Proc, LockCheck(p) PROVE WaitInv'
  BY <1>0, <1>12, WaitStep DEF LockCheck, PatientAt, Waiting, WaitInv, BeforeRead, TypeOK,
     InGate, AtGate
<1>13. ASSUME NEW p \in Proc, LockUnlink(p) PROVE WaitInv'
  <2>1. /\ lock' = None /\ pc[p] = "lockUnlink" /\ pc' = [pc EXCEPT ![p] = "gateExit"]
        /\ UNCHANGED <<calls, op, blocking, patience, unmoved>>
    BY <1>13 DEF LockUnlink, Unlinked, GateNeverAbandoned
  <2> QED
    BY <2>1, WaitUnlinked DEF InGate, OpInv
<1>14. ASSUME NEW p \in Proc, Poll(p) PROVE WaitInv'
  <2>1. /\ pc[p] = "poll" /\ pc' = [pc EXCEPT ![p] = "gateOpen"]
        /\ patience[p] > 0 /\ patience' = [patience EXCEPT ![p] = patience[p] - 1]
        /\ unmoved' = [unmoved EXCEPT ![p] = IF unmoved[p] < WaitPolls THEN unmoved[p] + 1
                                             ELSE unmoved[p]]
        /\ op' = [op EXCEPT ![p] = "acquire"] /\ UNCHANGED <<lock, calls, blocking>>
    BY <1>14 DEF Poll, EnterGate
  <2>2. Waiting(p)
    BY <2>1 DEF Waiting, OpInv
  <2>3. unmoved[p] + patience[p] >= WaitPolls
    BY <1>0, <2>1, <2>2 DEF BeforeRead, AtGate
  <2>4. unmoved'[p] + patience'[p] >= WaitPolls
    BY <2>1, <2>3, ConstantsOK DEF TypeOK
  <2>5. PatientAt(p)'
    BY <2>4 DEF PatientAt
  <2> QED
    BY <2>1, <2>2, <2>5, WaitStep DEF TypeOK
<1>15. ASSUME NEW p \in Proc, GiveUp(p) PROVE WaitInv'
  BY <1>0, <1>15, WaitStep DEF GiveUp, PatientAt, Waiting, WaitInv, BeforeRead, TypeOK, InGate,
     AtGate
<1>16. ASSUME NEW p \in Proc, EndOperation(p) PROVE WaitInv'
  BY <1>0, <1>16, WaitStep DEF EndOperation, EnterGate, PatientAt, Waiting, WaitInv, BeforeRead,
     TypeOK, InGate, AtGate
<1>17. ASSUME NEW p \in Proc, ReleaseRead(p) PROVE WaitInv'
  BY <1>0, <1>17, WaitStep DEF ReleaseRead, OpInv, PatientAt, Waiting, WaitInv, BeforeRead,
     TypeOK, InGate, AtGate
<1>18. ASSUME NEW p \in Proc, ReleaseUnlink(p) PROVE WaitInv'
  <2>1. /\ lock' = None /\ pc[p] = "releaseUnlink" /\ pc' = [pc EXCEPT ![p] = "gateExit"]
        /\ UNCHANGED <<calls, op, blocking, patience, unmoved>>
    BY <1>18 DEF ReleaseUnlink, Unlinked, GateNeverAbandoned
  <2> QED
    BY <2>1, WaitUnlinked DEF InGate, OpInv
<1>19. ASSUME NEW p \in Proc, Inspect(p) PROVE WaitInv'
  BY <1>0, <1>19, WaitStep DEF Inspect, OpInv, PatientAt, Waiting, WaitInv, BeforeRead, TypeOK,
     InGate, AtGate
<1>20. ASSUME NEW p \in Proc, RecoverUnlink(p) PROVE WaitInv'
  <2>1. /\ lock' = None /\ pc[p] = "recoverUnlink" /\ pc' = [pc EXCEPT ![p] = "gateExit"]
        /\ UNCHANGED <<calls, op, blocking, patience, unmoved>>
    BY <1>20 DEF RecoverUnlink, Unlinked, GateNeverAbandoned
  <2> QED
    BY <2>1, WaitUnlinked DEF InGate, OpInv
<1>21. ASSUME NEW p \in Proc, BeginAcquire(p) PROVE WaitInv'
  <2>1. /\ pc[p] = "idle" /\ pc' = [pc EXCEPT ![p] = "gateOpen"]
        /\ calls' = [calls EXCEPT ![p] = calls[p] + 1]
        /\ op' = [op EXCEPT ![p] = "acquire"] /\ blocking' = [blocking EXCEPT ![p] = None]
        /\ patience' = [patience EXCEPT ![p] = WaitPolls]
        /\ unmoved' = [unmoved EXCEPT ![p] = 0] /\ UNCHANGED lock
    BY <1>21 DEF BeginAcquire, EnterGate
  <2>2. \A t \in Token \cup {None} : Made(t) => Made(t)'
    <3> SUFFICES ASSUME NEW t \in Token, Made(t), t # None PROVE Made(t)'
      BY DEF Made
    <3>1. t.call \in Nat /\ t.pid \in Proc /\ t.call <= calls[t.pid] /\ calls[t.pid] \in Nat
      BY DEF Token, Made, TypeOK
    <3>2. CASE t.pid = p
      <4>1. calls'[t.pid] = calls[t.pid] + 1
        BY <2>1, <3>2 DEF TypeOK
      <4> QED
        BY <3>1, <4>1 DEF Made
    <3>3. CASE t.pid # p
      <4>1. calls'[t.pid] = calls[t.pid] /\ (Waiting(t.pid)' => Waiting(t.pid))
        BY <2>1, <3>1, <3>3 DEF TypeOK, Waiting
      <4> QED
        BY <3>1, <4>1 DEF Made
    <3> QED
      BY <3>2, <3>3
  <2>3. TokensInv'
    <3>1. Made(TokenOf(lock))'
      <4>1. TokenOf(lock)' = TokenOf(lock) /\ TokenOf(lock) \in Token \cup {None}
        BY <2>1, RecordFacts DEF TokenOf, TypeOK
      <4> QED
        BY <2>2, <4>1 DEF WaitInv, TokensInv, Made
    <3>2. ASSUME NEW q \in Proc PROVE Made(blocking[q])'
      <4>1. blocking'[q] \in {blocking[q], None} /\ blocking[q] \in Token \cup {None}
        BY <2>1 DEF TypeOK
      <4> QED
        BY <2>2, <4>1 DEF WaitInv, TokensInv, Made
    <3> QED
      BY <3>1, <3>2 DEF TokensInv
  <2>4. ASSUME NEW q \in Proc PROVE PatientAt(q)' /\ (pc'[q] = "lockRead" => lock' # None)
    <3>1. CASE q = p
      BY <2>1, <3>1, ConstantsOK DEF PatientAt, TypeOK
    <3>2. CASE q # p
      <4>1. PatientAt(q) /\ (pc[q] = "lockRead" => lock # None)
        BY DEF WaitInv
      <4>2. /\ pc'[q] = pc[q] /\ op'[q] = op[q] /\ blocking'[q] = blocking[q]
            /\ patience'[q] = patience[q] /\ unmoved'[q] = unmoved[q] /\ lock' = lock
        BY <2>1, <3>2 DEF TypeOK
      <4> QED
        BY <4>1, <4>2 DEF PatientAt, Waiting, TokenOf
    <3> QED
      BY <3>1, <3>2
  <2> QED
    BY <2>3, <2>4 DEF WaitInv
<1>22. ASSUME NEW p \in Proc, BeginRecover(p) PROVE WaitInv'
  <2>1. /\ pc' = [pc EXCEPT ![p] = "gateOpen"] /\ op' = [op EXCEPT ![p] = "recover"]
        /\ UNCHANGED <<lock, calls, blocking, patience, unmoved>>
    BY <1>22 DEF BeginRecover, EnterGate, Goto, KeepFiles
  <2>2. op'[p] = "recover"
    BY <2>1 DEF TypeOK
  <2>3. ~Waiting(p)'
    BY <2>2 DEF Waiting
  <2>4. PatientAt(p)'
    BY <2>3 DEF PatientAt
  <2>5. \A q \in Proc \ {p} : op'[q] = op[q]
    BY <2>1 DEF TypeOK
  <2> QED
    BY <1>0, <2>1, <2>3, <2>4, <2>5, WaitStep
<1>23. ASSUME NEW p \in Proc, Reenter(p) PROVE WaitInv'
  BY <1>0, <1>23, WaitStep DEF Reenter, PatientAt, Waiting, WaitInv, BeforeRead, TypeOK, InGate,
     AtGate
<1>24. ASSUME NEW p \in Proc, Crash(p) PROVE WaitInv'
  BY <1>0, <1>24, WaitStep DEF Crash, PatientAt, Waiting, WaitInv, BeforeRead, TypeOK, InGate,
     AtGate
<1>25. CASE Age
  BY <1>25 DEF Age, local, WaitInv, TokensInv, Made, PatientAt, Waiting, TokenOf
<1>26. CASE UNCHANGED vars
  BY <1>26 DEF vars, local, WaitInv, TokensInv, Made, PatientAt, Waiting, TokenOf
<1> QED
  BY <1>1, <1>2, <1>3, <1>4, <1>5, <1>6, <1>7, <1>8, <1>9, <1>10, <1>11, <1>12, <1>13,
     <1>14, <1>15, <1>16, <1>17, <1>18, <1>19, <1>20, <1>21, <1>22, <1>23, <1>24,
     <1>25, <1>26 DEF Next, Step

----------------------------------------------------------------------------
\* At the gate, the polls that met it taken and those left are the gate's whole budget.
ShutInv == \A p \in Proc : pc[p] \in AtGate => shut[p] + gateWait[p] >= GatePolls

\* A step that takes no process to the gate, or keeps what it has spent there.
LEMMA ShutKept ==
  ASSUME TypeOK, ShutInv, NEW p \in Proc, NEW l, pc' = [pc EXCEPT ![p] = l],
         \A q \in Proc \ {p} : shut'[q] = shut[q] /\ gateWait'[q] = gateWait[q],
         l \in AtGate => shut'[p] + gateWait'[p] >= GatePolls
  PROVE  ShutInv'
BY DEF TypeOK, ShutInv

\* Every call meets the gate with its whole budget and spends it only on polls.
LEMMA NextShutInv ==
  ASSUME TypeInv, TypeInv', ShutInv, [Next]_vars PROVE ShutInv'
<1> USE DEF TypeInv, TypeOK, At, Goto, KeepFiles, KeepCall
<1>1. ASSUME NEW p \in Proc, GateOpen(p) PROVE ShutInv'
  BY <1>1, ShutKept DEF GateOpen, ShutInv, AtGate
<1>2. ASSUME NEW p \in Proc, GateRead(p) \/ GateCheck(p) \/ GateUnlink(p) PROVE ShutInv'
  <2>1. pc[p] \in AtGate /\ UNCHANGED <<shut, gateWait>>
    BY <1>2 DEF GateRead, GateCheck, GateUnlink, AtGate
  <2>2. PICK l : pc' = [pc EXCEPT ![p] = l]
    BY <1>2 DEF GateRead, GateCheck, GateUnlink
  <2> QED
    BY <2>1, <2>2, ShutKept DEF ShutInv
<1>3. ASSUME NEW p \in Proc, GateWait(p) PROVE ShutInv'
  <2>1. CASE gateWait[p] > 0
    BY <1>3, <2>1, ShutKept, ConstantsOK DEF GateWait, ShutInv, AtGate
  <2>2. CASE ~(gateWait[p] > 0)
    BY <1>3, <2>2, ShutKept DEF GateWait, AtGate
  <2> QED
    BY <2>1, <2>2
<1>4. ASSUME NEW p \in Proc, NEW o, EnterGate(p, o) PROVE ShutInv'
  <2>1. shut'[p] + gateWait'[p] >= GatePolls
    BY <1>4, ConstantsOK DEF EnterGate
  <2> QED
    BY <1>4, <2>1, ShutKept DEF EnterGate
<1>5. ASSUME NEW p \in Proc, EndOperation(p) \/ Reenter(p) PROVE ShutInv'
  <2>1. CASE UNCHANGED <<pc, gateWait, shut>>
    BY <2>1 DEF ShutInv
  <2> QED
    BY <1>4, <1>5, <2>1 DEF EndOperation, Reenter
<1>6. ASSUME NEW p \in Proc, Poll(p) \/ BeginAcquire(p) \/ BeginRecover(p) PROVE ShutInv'
  BY <1>4, <1>6 DEF Poll, BeginAcquire, BeginRecover
<1> DEFINE Away(p) == \E l : /\ pc' = [pc EXCEPT ![p] = l] /\ l \notin AtGate
                             /\ UNCHANGED <<shut, gateWait>>
<1>7. ASSUME NEW p \in Proc, Away(p) PROVE ShutInv'
  BY <1>7, ShutKept
<1>8. ASSUME NEW p \in Proc, GateWrite(p) PROVE ShutInv'
  <2>1. GateBody[op[p]] \notin AtGate
    BY <1>8 DEF GateWrite, OpInv, GateBody, AtGate
  <2> QED
    BY <1>7, <1>8, <2>1 DEF GateWrite, AtGate
<1>9. ASSUME NEW p \in Proc, GateExit(p) \/ GateRemove(p) PROVE ShutInv'
  <2>1. AfterGate[op[p]] \notin AtGate
    BY DEF AfterGate, AtGate, Ops
  <2> QED
    BY <1>7, <1>9, <2>1 DEF GateExit, GateRemove, LeaveGate, AtGate
<1>10. ASSUME NEW p \in Proc,
              LockOpen(p) \/ LockWrite(p) \/ LockRead(p) \/ LockCheck(p) \/ LockUnlink(p)
       PROVE  ShutInv'
  BY <1>7, <1>10 DEF LockOpen, LockWrite, LockRead, LockCheck, LockUnlink, AtGate
<1>11. ASSUME NEW p \in Proc,
              \/ GiveUp(p) \/ ReleaseRead(p) \/ ReleaseUnlink(p) \/ Inspect(p)
              \/ RecoverUnlink(p)
       PROVE  ShutInv'
  BY <1>7, <1>11 DEF GiveUp, ReleaseRead, ReleaseUnlink, Inspect, RecoverUnlink, AtGate
<1>12. ASSUME NEW p \in Proc, Crash(p) PROVE ShutInv'
  BY <1>12, ShutKept DEF Crash, AtGate
<1>13. CASE Age \/ UNCHANGED vars
  BY <1>13 DEF Age, vars, local, ShutInv
<1> QED
  BY <1>1, <1>2, <1>3, <1>5, <1>6, <1>8, <1>9, <1>10, <1>11, <1>12, <1>13 DEF Next, Step

\* While nobody abandons the gate a waiter gives up only when the same holder kept the lock for
\* the whole budget, at the ceiling, or when it met the gate taken, by processes that are
\* alive, at every poll of the gate's budget: who hands the lock over is waited for.
THEOREM WaitersArePatient == ASSUME GateNeverAbandoned PROVE Spec => WaitsOutHolder
<1> DEFINE WInv == IInv /\ WaitInv /\ ShutInv
           Patient == \A p \in Proc : op[p] = "acquire" /\ pc[p] # "idle" /\ pc'[p] = "idle"
                        => \/ unmoved[p] >= WaitPolls \/ ceiling[p] = 0
                           \/ pc[p] = "gateWait" /\ shut[p] >= GatePolls
<1>1. Init => WInv
  <2> SUFFICES ASSUME Init PROVE WaitInv /\ ShutInv
    BY InitIInv
  <2>1. WaitInv
    BY DEF Init, WaitInv, TokensInv, Made, TokenOf, PatientAt, Waiting, AtGate
  <2>2. ShutInv
    BY DEF Init, ShutInv, AtGate
  <2> QED
    BY <2>1, <2>2
<1>2. WInv /\ [Next]_vars => WInv'
  <2> SUFFICES ASSUME WInv, [Next]_vars PROVE WInv'
    OBVIOUS
  <2>1. IInv'
    BY NextIInv
  <2>2. ShutInv'
    BY <2>1, NextShutInv DEF IInv
  <2> QED
    BY <2>1, <2>2, NextWaitInv DEF IInv
<1>3. WInv /\ [Next]_vars => Patient
  <2> SUFFICES ASSUME WInv, [Next]_vars, NEW q \in Proc,
                      op[q] = "acquire", pc[q] # "idle", pc'[q] = "idle"
               PROVE  \/ unmoved[q] >= WaitPolls \/ ceiling[q] = 0
                      \/ pc[q] = "gateWait" /\ shut[q] >= GatePolls
    OBVIOUS
  <2> USE DEF IInv, TypeInv, TypeOK, At, Goto
  <2>1. ASSUME NEW p \in Proc,
               \/ GateOpen(p) \/ GateRead(p) \/ GateCheck(p) \/ GateUnlink(p)
               \/ LockOpen(p) \/ LockWrite(p)
        PROVE  FALSE
    BY <2>1 DEF GateOpen, GateRead, GateCheck, GateUnlink, LockOpen, LockWrite
  <2>2. ASSUME NEW p \in Proc, GateWrite(p) PROVE FALSE
    BY <2>2 DEF GateWrite, GateBody, GateNeverAbandoned
  <2>3. ASSUME NEW p \in Proc, GateExit(p) \/ GateRemove(p) PROVE FALSE
    BY <2>3 DEF GateExit, GateRemove, LeaveGate, AfterGate
  <2>4. ASSUME NEW p \in Proc,
               \/ LockRead(p) \/ LockCheck(p) \/ LockUnlink(p) \/ ReleaseRead(p)
               \/ ReleaseUnlink(p) \/ Inspect(p) \/ RecoverUnlink(p)
        PROVE  FALSE
    BY <2>4 DEF LockRead, LockCheck, LockUnlink, ReleaseRead, ReleaseUnlink, Inspect,
       RecoverUnlink
  <2>5. ASSUME NEW p \in Proc,
               \/ Poll(p) \/ EndOperation(p) \/ BeginAcquire(p) \/ BeginRecover(p)
               \/ Reenter(p) \/ Crash(p)
        PROVE  FALSE
    BY <2>5 DEF Poll, EndOperation, EnterGate, BeginAcquire, BeginRecover, Reenter, Crash,
       KeepFiles
  <2>6. ASSUME Age \/ UNCHANGED vars PROVE FALSE
    BY <2>6 DEF Age, vars, local
  <2>7. PICK p \in Proc : GateWait(p) \/ GiveUp(p)
    BY <2>1, <2>2, <2>3, <2>4, <2>5, <2>6 DEF Next, Step
  <2>8. CASE GateWait(p)
    <3>1. p = q /\ pc[p] = "gateWait" /\ gateWait[p] = 0
      BY <2>8 DEF GateWait
    <3>2. shut[p] + gateWait[p] >= GatePolls
      BY <3>1 DEF ShutInv, AtGate
    <3> QED
      BY <3>1, <3>2, ConstantsOK
  <2>9. CASE GiveUp(p)
    <3>1. p = q /\ pc[q] = "poll" /\ (patience[q] = 0 \/ ceiling[q] = 0)
      BY <2>9 DEF GiveUp
    <3>2. Waiting(q) /\ pc[q] \notin BeforeRead
      BY <3>1 DEF Waiting, BeforeRead, AtGate
    <3>3. unmoved[q] + patience[q] >= WaitPolls
      BY <3>2 DEF WaitInv, PatientAt
    <3> QED
      BY <3>1, <3>3, ConstantsOK
  <2> QED
    BY <2>7, <2>8, <2>9
<1>4. WInv /\ [Next]_vars => [Patient]_vars
  BY <1>3
<1> QED
  BY <1>1, <1>2, <1>4, PTL DEF Spec, WaitsOutHolder
============================================================================
