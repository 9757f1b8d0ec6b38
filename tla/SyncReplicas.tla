--------------------------- MODULE SyncReplicas ---------------------------
(***************************************************************************)
(* One synchronized note on several devices (src/sync.ts, the apply half of *)
(* src/sync/engine.ts and src/sync/transaction.ts).  A device keeps a log   *)
(* of immutable changes, imports the changes of others, resolves heads, and *)
(* applies the winner's ancestry to its own storage one change at a time,   *)
(* each under a durable receipt that a later session rolls forward.         *)
(*                                                                          *)
(* A local edit is one step here: LocalTransaction shows that storage, log  *)
(* and cursor take it together.  A change's parents are all heads of its    *)
(* author's log, so its ancestors are that whole log: past.  The change ID  *)
(* is a keyed hash, so the order of IDs has nothing to do with causality.   *)
(* Operations of one device exclude each other (VaultLock).                 *)
(***************************************************************************)
EXTENDS Naturals, FiniteSets

CONSTANTS
  Device,
  Id,            \* change IDs, a set of naturals
  Value,
  None,          \* no value (a deleted or missing note), no change, no receipt
  Recreation,    \* whether a removed note may be put again, or removed while others edit
  Native,        \* the devices whose note is also edited by sessions without sync
  Outside,       \* {"edit"}: native edits while a receipt is on disk
  MaxRevision,   \* bound: storage revisions of the note on a device
  MaxNative,     \* bound: native edits
  MaxInterrupts  \* bound: applications that die on the way

VARIABLES
  made,       \* [Id -> Change]: every change any device has recorded
  log,        \* [Device -> SUBSET Id]: sync/changes
  live,       \* [Device -> Stored]: the document vault
  cursor,     \* applied.enc: the change last applied
  receipt,    \* apply-receipt.enc
  pc, plan,   \* the running applyResolved: where it is, the changes still to apply
  natives, interrupts,
  edited,     \* history: devices whose live note was edited without sync and not captured
  writes,     \* history: storage writes made for the receipt on disk
  taken       \* history: the changes whose state the device's storage has taken

vars == <<made, log, live, cursor, receipt, pc, plan, natives, interrupts, edited, writes, taken>>

Stored == [rev : Nat, val : Value \cup {None}]
Change == [author : Device, past : SUBSET Id, rev : Nat, val : Value \cup {None}]
Phases == {"prepared", "storage-written", "cursor-written"}
Receipt == [id : Id, expected : Nat, phase : Phases]
Locations == {"idle", "apply", "store", "verify", "cursor", "mark", "clear"}

ASSUME ConstantsOK ==
  /\ Id \subseteq Nat /\ IsFiniteSet(Id)
  /\ None \notin Id \cup Value \cup Change \cup Receipt
  /\ Recreation \in BOOLEAN /\ Native \subseteq Device /\ Outside \subseteq {"edit"}
  /\ {MaxRevision, MaxNative, MaxInterrupts} \subseteq Nat

Init ==
  /\ made = [i \in Id |-> None]
  /\ log = [d \in Device |-> {}]
  /\ live = [d \in Device |-> [rev |-> 0, val |-> None]]
  /\ cursor = [d \in Device |-> None]
  /\ receipt = [d \in Device |-> None]
  /\ pc = [d \in Device |-> "idle"]
  /\ plan = [d \in Device |-> {}]
  /\ natives = 0 /\ interrupts = 0
  /\ edited = {}
  /\ writes = [d \in Device |-> 0]
  /\ taken = [d \in Device |-> {}]
----------------------------------------------------------------------------
(* The change graph. *)

Used == {i \in Id : made[i] # None}
Ancestry(i) == made[i].past \cup {i}

\* resolveSyncObject: heads have no descendant in the log.
Heads(L) == {i \in L : \A j \in L : i \notin made[j].past}
Conflict(L) == \E i, j \in Heads(L) : i # j

\* The display winner: higher revision, then the deletion, then the greater ID.
Beats(i, j) ==
  LET a == made[i]  b == made[j] IN
  \/ a.rev > b.rev
  \/ a.rev = b.rev /\ a.val = None /\ b.val # None
  \/ a.rev = b.rev /\ (a.val = None <=> b.val = None) /\ i > j
Winner(L) == CHOOSE i \in Heads(L) : \A j \in Heads(L) \ {i} : Beats(i, j)

\* A new change parents every head and raises the winner's revision by one.
NextRevision(L) == IF L = {} THEN 1 ELSE made[Winner(L)].rev + 1

Author(d, i, v) ==
  /\ i \in Id \ Used
  /\ made' = [made EXCEPT ![i] =
       [author |-> d, past |-> log[d], val |-> v, rev |-> NextRevision(log[d])]]
  /\ log' = [log EXCEPT ![d] = @ \cup {i}]

\* Without Recreation a removal is the last change, by a device that has every change.
MayAuthor(d, v) ==
  \/ Recreation
  \/ /\ \A i \in Used : made[i].val # None
     /\ v = None => log[d] = Used

\* The document vault: revisions go on counting over a removal, from the archive.
Stores(s, v) == IF v = None THEN [s EXCEPT !.val = None] ELSE [rev |-> s.rev + 1, val |-> v]
Applied(d) == IF cursor[d] = None THEN None ELSE made[cursor[d]].val

Idle(d) == pc[d] = "idle"
Goto(d, l) == pc' = [pc EXCEPT ![d] = l]
KeepRun == UNCHANGED <<receipt, pc, plan, writes, interrupts>>
----------------------------------------------------------------------------
(* Edits. *)

\* put or remove in a write session, which first recovered any receipt; heads merge.
Edit(d, i, v) ==
  /\ Idle(d) /\ receipt[d] = None
  /\ v = None => live[d].val # None
  /\ live[d].rev < MaxRevision /\ MayAuthor(d, v)
  /\ Author(d, i, v)
  /\ live' = [live EXCEPT ![d] = Stores(@, v)]
  /\ cursor' = [cursor EXCEPT ![d] = i]
  /\ edited' = edited \ {d}
  /\ taken' = [taken EXCEPT ![d] = @ \cup {i}]
  /\ KeepRun /\ UNCHANGED natives

\* A session without sync puts or removes the note.
NativeEdit(d, v) ==
  /\ d \in Native /\ Idle(d) /\ natives < MaxNative
  /\ receipt[d] = None \/ "edit" \in Outside
  /\ v # live[d].val /\ live[d].rev < MaxRevision
  /\ Recreation \/ (v # None /\ (live[d].val = None => live[d].rev = 0))
  /\ natives' = natives + 1
  /\ live' = [live EXCEPT ![d] = Stores(@, v)]
  /\ edited' = edited \cup {d}
  /\ UNCHANGED <<made, log, cursor, taken>> /\ KeepRun

\* captureDesktopChanges: throws over changes never applied here and over a conflict.
Capture(d, i) ==
  /\ Idle(d) /\ receipt[d] = None
  /\ live[d].val # Applied(d) /\ MayAuthor(d, live[d].val)
  /\ \/ live[d].val = None
     \/ (cursor[d] # None \/ log[d] = {}) /\ ~Conflict(log[d])
  /\ Author(d, i, live[d].val)
  /\ cursor' = [cursor EXCEPT ![d] = i]
  /\ edited' = edited \ {d}
  /\ taken' = [taken EXCEPT ![d] = @ \cup {i}]
  /\ KeepRun /\ UNCHANGED <<live, natives>>
----------------------------------------------------------------------------
(* Exchange.  Import stores parents first, so what an import leaves behind, *)
(* complete or cut off, is reached one change at a time.                    *)

ImportNewer(d, i) ==
  /\ Idle(d)
  /\ i \in Used \ log[d] /\ made[i].past \subseteq log[d]
  /\ \A j \in log[d] : made[i].rev > made[j].rev
  /\ log' = [log EXCEPT ![d] = @ \cup {i}]
  /\ KeepRun /\ UNCHANGED <<made, live, cursor, natives, edited, taken>>

Import(d, i) ==
  /\ Idle(d)
  /\ i \in Used \ log[d] /\ made[i].past \subseteq log[d]
  /\ log' = [log EXCEPT ![d] = @ \cup {i}]
  /\ KeepRun /\ UNCHANGED <<made, live, cursor, natives, edited, taken>>
----------------------------------------------------------------------------
(* Applying. *)

\* planSyncApplication: the winner's ancestry without the cursor's.
PlanOf(L, c) == Ancestry(Winner(L)) \ (IF c = None THEN {} ELSE Ancestry(c))

BeginApply(d) ==
  /\ Idle(d) /\ receipt[d] = None
  /\ log[d] # {} /\ ~Conflict(log[d]) /\ cursor[d] # Winner(log[d])
  /\ plan' = [plan EXCEPT ![d] = PlanOf(log[d], cursor[d])]
  /\ Goto(d, "apply")
  /\ UNCHANGED <<made, log, live, cursor, receipt, natives, interrupts, edited, writes, taken>>

\* resolveConflict: a new change repeats the named head, then the winner is applied.
Resolve(d, i, h) ==
  /\ Idle(d) /\ receipt[d] = None
  /\ Conflict(log[d]) /\ h \in Heads(log[d])
  /\ MayAuthor(d, made[h].val)
  /\ Author(d, i, made[h].val)
  /\ plan' = [plan EXCEPT ![d] =
       (log[d] \cup {i}) \ (IF cursor[d] = None THEN {} ELSE Ancestry(cursor[d]))]
  /\ Goto(d, "apply")
  /\ UNCHANGED <<live, cursor, receipt, natives, interrupts, edited, writes, taken>>

EarlierById(i, j) == i < j

\* The storage order: by revision, then by ID.
Earlier(i, j) ==
  \/ made[i].rev < made[j].rev
  \/ made[i].rev = made[j].rev /\ i < j

BeginReceiptAtChange(d, i) ==
  /\ pc[d] = "apply"
  /\ i \in plan[d] /\ \A j \in plan[d] \ {i} : Earlier(i, j)
  /\ receipt' = [receipt EXCEPT ![d] =
       [id |-> i, phase |-> "prepared", expected |-> made[i].rev]]
  /\ plan' = [plan EXCEPT ![d] = @ \ {i}]
  /\ Goto(d, "store")
  /\ UNCHANGED <<made, log, live, cursor, natives, interrupts, edited, writes, taken>>

\* begin: the receipt names the revision the storage is expected to reach.
BeginReceipt(d, i) ==
  /\ pc[d] = "apply"
  /\ i \in plan[d] /\ \A j \in plan[d] \ {i} : Earlier(i, j)
  /\ receipt' = [receipt EXCEPT ![d] =
       [id |-> i, phase |-> "prepared",
        expected |-> IF made[i].val = None THEN 0
                     ELSE IF live[d].val = None THEN 1 ELSE live[d].rev + 1]]
  /\ plan' = [plan EXCEPT ![d] = @ \ {i}]
  /\ Goto(d, "store")
  /\ UNCHANGED <<made, log, live, cursor, natives, interrupts, edited, writes, taken>>

\* isMaterialized: a put by value and by the revision the receipt expects.
Materialized(d) ==
  LET v == made[receipt[d].id].val IN
  live[d].val = v /\ (v # None => live[d].rev = receipt[d].expected)

StoreBlindly(d) ==
  /\ pc[d] = "store"
  /\ live' = [live EXCEPT ![d] = Stores(@, made[receipt[d].id].val)]
  /\ writes' = [writes EXCEPT ![d] = @ + 1]
  /\ edited' = edited \ {d}
  /\ taken' = [taken EXCEPT ![d] = @ \cup {receipt[d].id}]
  /\ Goto(d, "verify")
  /\ UNCHANGED <<made, log, cursor, receipt, plan, natives, interrupts>>

\* applyStorageChange, unless the receipt's state is already there.
Store(d) ==
  /\ pc[d] = "store"
  /\ IF Materialized(d)
     THEN UNCHANGED <<live, writes>>
     ELSE /\ live' = [live EXCEPT ![d] = Stores(@, made[receipt[d].id].val)]
          /\ writes' = [writes EXCEPT ![d] = @ + 1]
  /\ edited' = edited \ {d}
  /\ taken' = [taken EXCEPT ![d] = @ \cup {receipt[d].id}]
  /\ Goto(d, "verify")
  /\ UNCHANGED <<made, log, cursor, receipt, plan, natives, interrupts>>

\* The second look: the marker, or an exception that leaves the receipt as it is.
Verify(d) ==
  /\ pc[d] = "verify"
  /\ IF Materialized(d)
     THEN /\ receipt' = [receipt EXCEPT ![d].phase = "storage-written"]
          /\ Goto(d, "cursor") /\ UNCHANGED plan
     ELSE /\ plan' = [plan EXCEPT ![d] = {}]
          /\ Goto(d, "idle") /\ UNCHANGED receipt
  /\ UNCHANGED <<made, log, live, cursor, natives, interrupts, edited, writes, taken>>

WriteCursor(d) ==
  /\ pc[d] = "cursor"
  /\ cursor' = [cursor EXCEPT ![d] = receipt[d].id]
  /\ Goto(d, "mark")
  /\ UNCHANGED <<made, log, live, receipt, plan, natives, interrupts, edited, writes, taken>>

MarkCursor(d) ==
  /\ pc[d] = "mark"
  /\ receipt' = [receipt EXCEPT ![d].phase = "cursor-written"]
  /\ Goto(d, "clear")
  /\ UNCHANGED <<made, log, live, cursor, plan, natives, interrupts, edited, writes, taken>>

Clear(d) ==
  /\ pc[d] = "clear"
  /\ receipt' = [receipt EXCEPT ![d] = None]
  /\ writes' = [writes EXCEPT ![d] = 0]
  /\ Goto(d, IF plan[d] = {} THEN "idle" ELSE "apply")
  /\ UNCHANGED <<made, log, live, cursor, plan, natives, interrupts, edited, taken>>

Resume == [p \in Phases |->
  CASE p = "prepared" -> "store"
    [] p = "storage-written" -> "cursor"
    [] p = "cursor-written" -> "clear"]

RecoverSkippingCursor(d) ==
  /\ Idle(d) /\ receipt[d] # None
  /\ Goto(d, IF receipt[d].phase = "prepared" THEN "store" ELSE "clear")
  /\ UNCHANGED <<made, log, live, cursor, receipt, plan, natives, interrupts, edited, writes, taken>>

\* The constructor of a write session rolls the receipt forward.
Recover(d) ==
  /\ Idle(d) /\ receipt[d] # None
  /\ Goto(d, Resume[receipt[d].phase])
  /\ UNCHANGED <<made, log, live, cursor, receipt, plan, natives, interrupts, edited, writes, taken>>

\* The process dies or an effect throws; what is on disk stays.
Interrupt(d) ==
  /\ ~Idle(d) /\ interrupts < MaxInterrupts
  /\ interrupts' = interrupts + 1
  /\ Goto(d, "idle")
  /\ plan' = [plan EXCEPT ![d] = {}]
  /\ UNCHANGED <<made, log, live, cursor, receipt, natives, edited, writes, taken>>

Step(d) ==
  \/ \E i \in Id : BeginReceipt(d, i)
  \/ Store(d) \/ Verify(d) \/ WriteCursor(d) \/ MarkCursor(d) \/ Clear(d) \/ Recover(d)

Settling(d) == BeginApply(d) \/ \E i, h \in Id : Resolve(d, i, h)

Next ==
  \E d \in Device :
    \/ Step(d)
    \/ \E i \in Id, v \in Value \cup {None} : Edit(d, i, v)
    \/ \E v \in Value \cup {None} : NativeEdit(d, v)
    \/ \E i \in Id : Capture(d, i) \/ Import(d, i)
    \/ Settling(d)
    \/ Interrupt(d)

Spec == Init /\ [][Next]_vars
\* Applications run to their end, unfinished ones are opened again, and every device
\* goes on pulling and applying.
FairSpec ==
  /\ Spec
  /\ \A d \in Device :
       /\ WF_vars(Step(d))
       /\ WF_vars(BeginApply(d))
       /\ \A i \in Id : WF_vars(Import(d, i))
----------------------------------------------------------------------------
(* Properties. *)

TypeOK ==
  /\ made \in [Id -> Change \cup {None}]
  /\ log \in [Device -> SUBSET Id] /\ \A d \in Device : log[d] \subseteq Used
  /\ live \in [Device -> Stored]
  /\ cursor \in [Device -> Id \cup {None}]
  /\ \A d \in Device : cursor[d] # None => cursor[d] \in log[d]
  /\ receipt \in [Device -> Receipt \cup {None}]
  /\ \A d \in Device : receipt[d] # None => receipt[d].id \in log[d]
  /\ pc \in [Device -> Locations]
  /\ plan \in [Device -> SUBSET Id]
  /\ natives \in Nat /\ interrupts \in Nat
  /\ edited \subseteq Device
  /\ writes \in [Device -> Nat]
  /\ taken \in [Device -> SUBSET Id]

\* With no receipt on disk, live storage is what the change under the cursor says unless
\* it was edited outside sync: a half-applied plan never leaves the two apart.
LiveMatchesCursor ==
  \A d \in Device \ edited : receipt[d] = None => live[d].val = Applied(d)

\* A change is never applied before one of its ancestors, through every merged branch
\* and after every interruption (planSyncApplication's storage order).
AncestorsFirst ==
  \A d \in Device : receipt[d] # None => plan[d] \cap made[receipt[d].id].past = {}

\* The storage written for a receipt is the state the receipt expects, so rolling it
\* forward always completes: a receipt never keeps a vault from opening (sync.ts:3053-3058).
ReceiptsMaterialize ==
  \A d \in Device : pc[d] = "verify" => Materialized(d)

\* However often the application of one receipt is interrupted and rolled forward, it
\* writes storage once: the live-state test tells a finished write from a missing one,
\* so recovery never raises the note's revision again (engine.ts:82-90).
ReceiptWritesOnce == \A d \in Device : writes[d] <= 1

\* A change whose state the device's storage has taken, as its own edit or as a remote
\* change, is never written to it again (README.md:915-917).
AppliedOnce ==
  [][\A d \in Device :
       pc[d] = "store" /\ live'[d] # live[d] => receipt[d].id \notin taken[d]]_vars

\* Devices that keep exchanging and applying end with the same changes and, where no
\* conflict is left for a person, the same note.
Settled(d) ==
  /\ log[d] = Used /\ receipt[d] = None
  /\ Used # {} /\ ~Conflict(Used) => cursor[d] = Winner(Used)
Converges == <>[](\A d \in Device : Settled(d))
============================================================================
