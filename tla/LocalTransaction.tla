------------------------- MODULE LocalTransaction -------------------------
(***************************************************************************)
(* How one device captures an edit for sync (src/sync/transaction.ts, the   *)
(* write session of src/sync.ts): an encrypted intent is saved, then live   *)
(* storage, the change log and the applied cursor are written one after     *)
(* another with a durable marker between them.  Any step may be the last    *)
(* one of its process; the next session rolls the intent forward.           *)
(*                                                                          *)
(* A transaction runs under the vault lock (VaultLock), so one operation    *)
(* runs at a time: pc is where it is, "idle" when nobody holds the lock.    *)
(* Notes stand for every revisioned object.  A put of the document vault is *)
(* atomic here.                                                             *)
(***************************************************************************)
EXTENDS Naturals, Sequences, FiniteSets, SequencesExt

CONSTANTS
  Note, Value,
  Preexisting,   \* values that notes may hold before sync is switched on
  None,          \* no value (a deleted or missing note), no pending intent
  Outside,       \* what other sessions do while an intent is pending: {"edit", "append"}
  Appended,      \* bound: values the sync append command is given
  MaxBatch,      \* bound: operations of one putMany
  MaxRevision,   \* bound: storage revisions of a note
  MaxLog,        \* bound: changes in the log
  MaxInterrupts  \* bound: transactions that die or throw on the way

VARIABLES
  live,     \* [Note -> Stored]: the document vault
  log,      \* the device's chain of changes, sync/changes
  cursor,   \* applied.enc: the change each note's live value comes from
  pending,  \* pending-local.enc
  pc,       \* where the running operation is
  next,     \* its position in the operations or the changes
  draft,    \* operations and changes prepared in memory
  todo,     \* notes captureDesktopChanges has still to compare
  interrupts,
  edited    \* history: notes written without sync since they were last captured

disk == <<live, log, cursor, pending>>
vars == <<disk, pc, next, draft, todo, interrupts, edited>>

Stored == [rev : Nat, val : Value \cup {None}]
Absent == [rev |-> 0, val |-> None]
Change == [note : Note, base : Nat, rev : Nat, val : Value \cup {None}]
Operation == [note : Note, before : Stored, target : Stored]
Phases == {"prepared", "storage-written", "envelope-installed", "cursor-written"}
Intent == [ops : Seq(Operation), changes : Seq(Change), first : Nat \ {0}, phase : Phases]
Locations == {"idle", "draft", "save", "capture", "write", "install", "cursor", "mark", "clear"}

ASSUME ConstantsOK ==
  /\ None \notin Value \cup Intent /\ Preexisting \subseteq Value
  /\ Appended \subseteq Value \cup {None}
  /\ Outside \subseteq {"edit", "append"}
  /\ {MaxBatch, MaxRevision, MaxLog, MaxInterrupts} \subseteq Nat

Nothing == [ops |-> << >>, changes |-> << >>]

\* A vault that sync is switched on for may already hold notes.
Init ==
  /\ live \in [Note -> {Absent} \cup [rev : {1}, val : Preexisting]]
  /\ log = << >>
  /\ cursor = [n \in Note |-> 0]
  /\ pending = None
  /\ pc = "idle" /\ next = 1
  /\ draft = Nothing
  /\ todo = {}
  /\ interrupts = 0
  /\ edited = {n \in Note : live[n] # Absent}
----------------------------------------------------------------------------
(* Planning in memory. *)

\* The position of the last entry about n, 0 when there is none.
LastOn(seq, n) == SelectLastInSeq(seq, LAMBDA e : e.note = n)
RevisionOn(seq, n) == IF LastOn(seq, n) = 0 THEN 0 ELSE seq[LastOn(seq, n)].rev

\* The note as a batch sees it: after the operations already in the draft.
Evolving(n) == IF LastOn(draft.ops, n) = 0 THEN live[n] ELSE draft.ops[LastOn(draft.ops, n)].target

\* The logical revision a new change builds on; 0 when the note has no history.
Revision(n) == IF LastOn(draft.changes, n) = 0 THEN RevisionOn(log, n) ELSE RevisionOn(draft.changes, n)

NextChange(n, base, v) == [note |-> n, base |-> base, rev |-> base + 1, val |-> v]

PlanForgetful(op) == <<NextChange(op.note, RevisionOn(log, op.note), op.target.val)>>

\* planLocalChanges: an object without history first gets its old value as revision 1.
Plan(op) ==
  LET n == op.note IN
  IF Revision(n) = 0 /\ op.before.val # None
  THEN <<NextChange(n, 0, op.before.val), NextChange(n, 1, op.target.val)>>
  ELSE <<NextChange(n, Revision(n), op.target.val)>>

AddToDraft(op, changes) ==
  draft' = [ops |-> Append(draft.ops, op), changes |-> draft.changes \o changes]
----------------------------------------------------------------------------
(* Starting a transaction.  Another one's intent on disk makes run() throw. *)

\* put, and putMany one input at a time.
Put(n, v) ==
  /\ \/ pc = "idle" /\ pending = None
     \/ pc = "draft" /\ Len(draft.ops) < MaxBatch
  /\ Evolving(n).rev < MaxRevision
  /\ LET op == [note |-> n, before |-> Evolving(n),
                target |-> [rev |-> Evolving(n).rev + 1, val |-> v]]
     IN /\ Len(log) + Len(draft.changes) + Len(Plan(op)) <= MaxLog
        /\ AddToDraft(op, Plan(op))
  /\ pc' = "draft"
  /\ UNCHANGED <<disk, next, todo, interrupts, edited>>

\* The deleted note keeps its highest revision in the archive.
Removal(n) == [note |-> n, before |-> live[n], target |-> [live[n] EXCEPT !.val = None]]

RemoveNote(n) ==
  /\ pc = "idle" /\ pending = None
  /\ live[n].val # None /\ Len(log) + Len(Plan(Removal(n))) <= MaxLog
  /\ AddToDraft(Removal(n), Plan(Removal(n)))
  /\ pc' = "save"
  /\ UNCHANGED <<disk, next, todo, interrupts, edited>>

\* run: the intent becomes durable before anything else is written.
Save ==
  /\ pc \in {"draft", "save"}
  /\ pending' = [ops |-> draft.ops, changes |-> draft.changes,
                 first |-> Len(log) + 1, phase |-> "prepared"]
  /\ draft' = Nothing
  /\ pc' = "write" /\ next' = 1
  /\ UNCHANGED <<live, log, cursor, todo, interrupts, edited>>
----------------------------------------------------------------------------
(* captureDesktopChanges: one lock, one transaction per note that differs. *)

Applied(n) == IF cursor[n] = 0 THEN None ELSE log[cursor[n]].val
Differs(n) == live[n].val # Applied(n)
\* Live, with changes in the log that this device never applied: the capture throws.
Untracked(n) == live[n].val # None /\ cursor[n] = 0 /\ LastOn(log, n) # 0

BeginCapture ==
  /\ pc = "idle" /\ pending = None
  /\ todo' = {n \in Note : Differs(n)}
  /\ todo' # {} /\ Len(log) + Cardinality(todo') <= MaxLog
  /\ pc' = "capture"
  /\ UNCHANGED <<disk, next, draft, interrupts, edited>>

StopAfter(rest) == IF rest = {} THEN "idle" ELSE "capture"

\* Live notes come first, then the notes that have gone.  The intent of a capture
\* expects the storage it found.
CaptureNote(n) ==
  /\ pc = "capture" /\ n \in todo
  /\ live[n].val = None => \A m \in todo : live[m].val = None
  /\ IF Untracked(n)
     THEN todo' = {} /\ pc' = "idle" /\ UNCHANGED draft
     ELSE /\ todo' = todo \ {n}
          /\ draft' = [ops |-> <<[note |-> n, before |-> live[n], target |-> live[n]]>>,
                       changes |-> <<NextChange(n, Revision(n), live[n].val)>>]
          /\ pc' = "save"
  /\ UNCHANGED <<disk, next, interrupts, edited>>
----------------------------------------------------------------------------
(* rollForward. *)

Observed(s) == IF s.val = None THEN Absent ELSE s

SkipsExactly(i) == Observed(live[pending.ops[i].note]) = Observed(pending.ops[i].target)

\* The storage is where this operation, or a later one on the same note, leaves it.
Skips(i) ==
  LET op == pending.ops[i]
      now == Observed(live[op.note])
  IN \/ now = Observed(op.target)
     \/ /\ op.target.val # None /\ now.val # None
        /\ \E j \in i + 1 .. Len(pending.ops) :
             pending.ops[j].note = op.note /\ pending.ops[j].target = now

\* assertExpectedDocumentState, and the base revision the document vault checks.
Refuses(i) ==
  LET op == pending.ops[i] IN
  /\ ~Skips(i)
  /\ \/ Observed(live[op.note]) # Observed(op.before)
     \/ op.target.val # None /\ live[op.note].rev + 1 # op.target.rev

\* import validates the union before it stores: another change at one of our places.
Forks ==
  \E j \in 1 .. Len(pending.changes) :
    LET at == pending.first + j - 1 IN at <= Len(log) /\ log[at] # pending.changes[j]

Throw == pc' = "idle" /\ next' = 1 /\ todo' = {}

WriteStorage ==
  /\ pc = "write" /\ next <= Len(pending.ops)
  /\ IF Refuses(next)
     THEN Throw /\ UNCHANGED live
     ELSE /\ live' = IF Skips(next) THEN live
                     ELSE [live EXCEPT ![pending.ops[next].note] = pending.ops[next].target]
          /\ next' = next + 1
          /\ UNCHANGED <<pc, todo>>
  /\ UNCHANGED <<log, cursor, pending, draft, interrupts, edited>>

MarkStorage ==
  /\ pc = "write" /\ next > Len(pending.ops)
  /\ pending' = [pending EXCEPT !.phase = "storage-written"]
  /\ pc' = "install" /\ next' = 1
  /\ UNCHANGED <<live, log, cursor, draft, todo, interrupts, edited>>

\* storeEnvelope: an envelope already there is left alone.
InstallEnvelope ==
  /\ pc = "install" /\ next <= Len(pending.changes)
  /\ IF next = 1 /\ Forks
     THEN Throw /\ UNCHANGED log
     ELSE /\ log' = IF pending.first + next - 1 <= Len(log) THEN log
                    ELSE Append(log, pending.changes[next])
          /\ next' = next + 1
          /\ UNCHANGED <<pc, todo>>
  /\ UNCHANGED <<live, cursor, pending, draft, interrupts, edited>>

MarkInstalled ==
  /\ pc = "install" /\ next > Len(pending.changes)
  /\ pending' = [pending EXCEPT !.phase = "envelope-installed"]
  /\ pc' = "cursor" /\ next' = 1
  /\ UNCHANGED <<live, log, cursor, draft, todo, interrupts, edited>>

Touched == {pending.ops[i].note : i \in 1 .. Len(pending.ops)}

WriteCursorFirst ==
  /\ pc = "cursor"
  /\ cursor' = [n \in Note |-> IF n \in Touched THEN pending.first ELSE cursor[n]]
  /\ edited' = edited \ Touched
  /\ pc' = "mark"
  /\ UNCHANGED <<live, log, pending, next, draft, todo, interrupts>>

\* markPreparedLocalChangesApplied: one write of applied.enc, the last change of a note wins.
WriteCursor ==
  /\ pc = "cursor"
  /\ cursor' = [n \in Note |-> LET last == LastOn(pending.changes, n) IN
                  IF last = 0 THEN cursor[n] ELSE pending.first + last - 1]
  /\ edited' = edited \ Touched
  /\ pc' = "mark"
  /\ UNCHANGED <<live, log, pending, next, draft, todo, interrupts>>

MarkCursor ==
  /\ pc = "mark"
  /\ pending' = [pending EXCEPT !.phase = "cursor-written"]
  /\ pc' = "clear"
  /\ UNCHANGED <<live, log, cursor, next, draft, todo, interrupts, edited>>

Clear ==
  /\ pc = "clear"
  /\ pending' = None
  /\ pc' = StopAfter(todo)
  /\ UNCHANGED <<live, log, cursor, next, draft, todo, interrupts, edited>>

Resume == [p \in Phases |->
  CASE p = "prepared" -> "write"
    [] p = "storage-written" -> "install"
    [] p = "envelope-installed" -> "cursor"
    [] p = "cursor-written" -> "clear"]

ResumePastInstall == [p \in Phases |->
  CASE p = "prepared" -> "write"
    [] p = "storage-written" -> "cursor"
    [] p = "envelope-installed" -> "cursor"
    [] p = "cursor-written" -> "clear"]

RecoverForgetful ==
  /\ pc = "idle" /\ pending # None
  /\ pc' = IF pending.phase = "cursor-written" THEN "idle" ELSE Resume[pending.phase]
  /\ UNCHANGED <<disk, next, draft, todo, interrupts, edited>>

RecoverPastInstall ==
  /\ pc = "idle" /\ pending # None
  /\ pc' = ResumePastInstall[pending.phase]
  /\ UNCHANGED <<disk, next, draft, todo, interrupts, edited>>

\* The constructor of every write session finds the intent and rolls it forward.
Recover ==
  /\ pc = "idle" /\ pending # None
  /\ pc' = Resume[pending.phase]
  /\ UNCHANGED <<disk, next, draft, todo, interrupts, edited>>
----------------------------------------------------------------------------
(* The environment. *)

\* The process dies, or an effect throws: the same files are left on disk.
Interrupt ==
  /\ pc # "idle" /\ interrupts < MaxInterrupts
  /\ interrupts' = interrupts + 1
  /\ Throw
  /\ draft' = Nothing
  /\ UNCHANGED <<disk, edited>>

\* A session without sync (the desktop core, the CLI, MCP) puts or removes a note; the
\* id it draws for a new one is not one an intent has just drawn.
NativeEdit(n, v) ==
  /\ pc = "idle"
  /\ "edit" \in Outside \/ pending = None
  /\ live[n] = Absent /\ pending # None => LastOn(pending.ops, n) = 0
  /\ live[n].rev < MaxRevision
  /\ v # live[n].val
  /\ live' = [live EXCEPT ![n] = [rev |-> IF v = None THEN @.rev ELSE @.rev + 1, val |-> v]]
  /\ edited' = edited \cup {n}
  /\ UNCHANGED <<log, cursor, pending, pc, next, draft, todo, interrupts>>

\* SyncChangeLog.append through the sync append command: a change without storage.
Record(n, v) ==
  /\ pc = "idle"
  /\ "append" \in Outside \/ pending = None
  /\ Len(log) < MaxLog
  /\ log' = Append(log, NextChange(n, RevisionOn(log, n), v))
  /\ UNCHANGED <<live, cursor, pending, pc, next, draft, todo, interrupts, edited>>

\* The running operation's next step, and the next session's recovery.
Step ==
  \/ Save \/ WriteStorage \/ MarkStorage \/ InstallEnvelope \/ MarkInstalled
  \/ WriteCursor \/ MarkCursor \/ Clear \/ Recover
  \/ \E n \in Note : CaptureNote(n)

Next ==
  \/ Step
  \/ \E n \in Note, v \in Value : Put(n, v)
  \/ \E n \in Note : RemoveNote(n)
  \/ \E n \in Note, v \in Value \cup {None} : NativeEdit(n, v)
  \/ \E n \in Note, v \in Appended : Record(n, v)
  \/ BeginCapture
  \/ Interrupt

Spec == Init /\ [][Next]_vars
\* Operations run to their end, and a vault with an unfinished one is opened again.
FairSpec == Spec /\ WF_vars(Step)
----------------------------------------------------------------------------
(* Properties. *)

TypeOK ==
  /\ live \in [Note -> Stored]
  /\ log \in Seq(Change)
  /\ cursor \in [Note -> 0 .. Len(log)]
  /\ pending \in Intent \cup {None}
  /\ pc \in Locations
  /\ next \in Nat \ {0}
  /\ draft \in [ops : Seq(Operation), changes : Seq(Change)]
  /\ todo \subseteq Note /\ edited \subseteq Note
  /\ interrupts \in 0 .. MaxInterrupts
  /\ pc \in {"write", "install", "cursor", "mark", "clear"} => pending # None

\* Rolling an intent forward never meets a state it refuses, wherever the transaction
\* stopped before: a session can always be opened again after a crash (sync.ts:2232-2235).
RecoverySucceeds ==
  /\ pc = "write" /\ next <= Len(pending.ops) => ~Refuses(next)
  /\ pc = "install" => ~Forks

\* Between operations a note nobody edited outside sync holds what the change under its
\* cursor says, a deletion included, and a note without a cursor is not there at all: no
\* successful write stays absent from the log (the phase 6 design, Local capture transaction).
LoggedAgrees ==
  pending = None => \A n \in Note \ edited : live[n].val = Applied(n)

\* Replays and batches keep the causal revision rule an importing device enforces on the
\* whole set: every change builds on the one before it on the same note (sync.ts:1768-1784).
ChainAdvances ==
  \A i \in 1 .. Len(log) :
    /\ log[i].base = RevisionOn(SubSeq(log, 1, i - 1), log[i].note)
    /\ log[i].rev = log[i].base + 1

\* Seen through the intent, which takes effect as a whole when it is saved, the three
\* files change together.
CommittedLive == [n \in Note |->
  IF pending = None \/ LastOn(pending.ops, n) = 0 THEN live[n]
  ELSE pending.ops[LastOn(pending.ops, n)].target]
CommittedLog ==
  IF pending = None THEN log ELSE SubSeq(log, 1, pending.first - 1) \o pending.changes
CommittedCursor == [n \in Note |->
  IF pending = None \/ LastOn(pending.changes, n) = 0 THEN cursor[n]
  ELSE pending.first + LastOn(pending.changes, n) - 1]

Atomic == INSTANCE AtomicCapture WITH
  live <- CommittedLive, log <- CommittedLog, cursor <- CommittedCursor

\* Every behaviour, with its crashes and replays, is one in which each captured edit is
\* zero or exactly one transition of storage, log and cursor.
CaptureIsAtomic == Atomic!Spec

\* An intent that reached the disk is eventually completed and cleared, not retried for ever.
IntentCleared == (pending # None) ~> (pending = None)
============================================================================
